------------------------------ MODULE Cluster ------------------------------
(***************************************************************************)
(* The connections a parent node keeps to the nodes of its settings:       *)
(* Cluster, with its list of nodes, its list of active connections and the *)
(* watch that connects again; ClusterNodeDelegate and ClusterActor, one of *)
(* each for every attempt to connect; the client's WebsocketAsync; and the *)
(* ActorManager that keeps an actor until nothing can use it any more.     *)
(*                                                                         *)
(* All of it runs on the master thread, whose io_service polls the sockets *)
(* and the functions posted to it (master_queue): what one callback calls  *)
(* on the actor manager, or dispatches to the io_service, happens at once, *)
(* what it posts happens later.  What is hard is that the handlers of a    *)
(* connection find their actor by the number of the node, and that a node  *)
(* may have several connections: the watch starts another attempt at every *)
(* turn in which the last one has no actor yet.                            *)
(*                                                                         *)
(* Left out: what is sent to and received from a node.  A connection that  *)
(* is being opened (TCP, TLS, the handshake) either starts or fails; the   *)
(* host of a node resolves.                                                *)
(***************************************************************************)
EXTENDS Integers, Sequences, FiniteSets

CONSTANTS
  ClusterNodes,   \* the nodes of the settings, in their order
  MaxAttempts,    \* bound: the later attempts to connect fail at once
  None            \* no connection

Nodes    == {ClusterNodes[i] : i \in DOMAIN ClusterNodes}
Attempts == 1..MaxAttempts   \* a WebsocketAsync, its delegate and its actor

ASSUME ClusterAssumption ==
  /\ ClusterNodes \in Seq(Nodes)
  /\ MaxAttempts \in Nat
  /\ None \notin Attempts

VARIABLES
  connection,        \* of each attempt: unused, connecting, started, destroyed
  node,              \* the node it connects to
  socket,            \* open or closed, once it has started
  reading,           \* number of reads outstanding on the socket
  actor_list,        \* the attempt whose actor is found by a node's number
  hazard,            \* entry of hazard_actor_list: none, held, deleted, and
                     \* aged when it has been deleted for six seconds
  first_process, read_cnt,   \* of the actor
  active_node_list,  \* the connection the routers know for a node
  node_list,         \* the nodes the watch looks after
  watch_mode,
  master_queue       \* functions posted to the master thread

attempt_vars == <<connection, node, socket, reading>>
actor_vars   == <<actor_list, hazard, first_process, read_cnt>>
list_vars    == <<active_node_list, node_list>>
vars == <<attempt_vars, actor_vars, list_vars, watch_mode, master_queue>>

NodeFn  == [fn: {"addNode", "addNewNodeInfo", "removeActiveNode"}, n: Nodes]
MasterFn == NodeFn \cup [fn: {"addActiveNode"}, n: Nodes, w: Attempts] \cup [fn: {"run"}]

(* Every variable has its type.  read_cnt is unsigned in the code: one that
   is not zero, whatever its sign here, makes the actor active. *)
TypeOK ==
  /\ connection \in [Attempts -> {"unused", "connecting", "started", "destroyed"}]
  /\ node \in [Attempts -> Nodes \cup {None}]
  /\ socket \in [Attempts -> {"open", "closed"}]
  /\ reading \in [Attempts -> Nat]
  /\ actor_list \in [Nodes -> Attempts \cup {None}]
  /\ hazard \in [Attempts -> {"none", "held", "deleted", "aged"}]
  /\ first_process \in [Attempts -> BOOLEAN]
  /\ read_cnt \in [Attempts -> Int]
  /\ active_node_list \in [Nodes -> Attempts \cup {None}]
  /\ node_list \in SUBSET Nodes
  /\ watch_mode \in BOOLEAN
  /\ master_queue \in Seq(MasterFn)

(* ClusterBuilder posts one addNode for each node of the settings. *)
Init ==
  /\ connection = [w \in Attempts |-> "unused"]
  /\ node = [w \in Attempts |-> None]
  /\ socket = [w \in Attempts |-> "closed"]
  /\ reading = [w \in Attempts |-> 0]
  /\ actor_list = [n \in Nodes |-> None]
  /\ hazard = [w \in Attempts |-> "none"]
  /\ first_process = [w \in Attempts |-> TRUE]
  /\ read_cnt = [w \in Attempts |-> 0]
  /\ active_node_list = [n \in Nodes |-> None]
  /\ node_list = {}
  /\ watch_mode = FALSE
  /\ master_queue = [i \in DOMAIN ClusterNodes |-> [fn |-> "addNode", n |-> ClusterNodes[i]]]

isOpen(w)   == socket[w] = "open"
isActive(w) == first_process[w] \/ read_cnt[w] # 0

-----------------------------------------------------------------------------
(* The functions posted to the master thread, taken from its queue in order. *)
Posted(fn) == master_queue # <<>> /\ Head(master_queue).fn = fn
Popped     == Tail(master_queue)

(* A new connection, and the node put on the watch's list.  Which of the
   unused attempts it is does not matter; when none is left (the bound) the
   attempt fails before anything else happens. *)
addNode ==
  /\ Posted("addNode")
  /\ LET n == Head(master_queue).n IN
     /\ \/ \E w \in Attempts :
             /\ connection[w] = "unused"
             /\ \A v \in 1..(w - 1) : connection[v] # "unused"
             /\ connection' = [connection EXCEPT ![w] = "connecting"]
             /\ node' = [node EXCEPT ![w] = n]
        \/ /\ \A w \in Attempts : connection[w] # "unused"
           /\ UNCHANGED <<connection, node>>
     /\ master_queue' = Append(Popped, [fn |-> "addNewNodeInfo", n |-> n])
  /\ UNCHANGED <<socket, reading, actor_vars, list_vars, watch_mode>>

addNewNodeInfo ==
  /\ Posted("addNewNodeInfo")
  /\ node_list' = node_list \cup {Head(master_queue).n}
  /\ master_queue' = Popped
  /\ UNCHANGED <<attempt_vars, actor_vars, active_node_list, watch_mode>>

\* Mutant: a node that is on the list keeps the connection it has there.
addActiveNode_Found ==
  /\ Posted("addActiveNode")
  /\ LET f == Head(master_queue) IN
     active_node_list' = [active_node_list EXCEPT ![f.n] = IF @ = None THEN f.w ELSE @]
  /\ master_queue' = Popped
  /\ UNCHANGED <<attempt_vars, actor_vars, node_list, watch_mode>>

addActiveNode ==
  /\ Posted("addActiveNode")
  /\ LET f == Head(master_queue) IN
     active_node_list' = [active_node_list EXCEPT ![f.n] = f.w]
  /\ master_queue' = Popped
  /\ UNCHANGED <<attempt_vars, actor_vars, node_list, watch_mode>>

removeActiveNode ==
  /\ Posted("removeActiveNode")
  /\ active_node_list' = [active_node_list EXCEPT ![Head(master_queue).n] = None]
  /\ master_queue' = Popped
  /\ UNCHANGED <<attempt_vars, actor_vars, node_list, watch_mode>>

-----------------------------------------------------------------------------
(***************************************************************************)
(* The watch, Cluster::run.  A node without an actor, or whose connection  *)
(* is closed, is connected again, and its actor removed and marked deleted *)
(* (ActorManager::removeActor).  Then the actors removed long ago that are *)
(* closed and inactive are erased, which deletes their connection          *)
(* (ActorManager::update, ~ClusterActor).                                  *)
(***************************************************************************)
ToConnect(n)    == actor_list[n] = None \/ ~isOpen(actor_list[n])

\* Mutant: the watch does not look at connections that have an actor.
Watched_NoActor == IF watch_mode THEN {n \in node_list : actor_list[n] = None} ELSE {}
Watched         == IF watch_mode THEN {n \in node_list : ToConnect(n)} ELSE {}

(* The nodes of S in an order, and what the watch posts for them. *)
Orders(S)    == {q \in [1..Cardinality(S) -> S] : S = {q[i] : i \in 1..Cardinality(S)}}

\* Mutant: the routers are not told.
Reconnect_Silent(q) == [i \in 1..Len(q) |-> [fn |-> "addNode", n |-> q[i]]]

Reconnect(q) ==
  [i \in 1..(2 * Len(q)) |->
     [fn |-> IF i % 2 = 1 THEN "removeActiveNode" ELSE "addNode", n |-> q[(i + 1) \div 2]]]

(* What update erases: six seconds after its removal, never in this turn. *)
Erasable == {w \in Attempts : hazard[w] = "aged" /\ ~isOpen(w) /\ ~isActive(w)}

run ==
  /\ Posted("run")
  /\ \E q \in Orders(Watched) : master_queue' = Popped \o Reconnect(q)
  /\ actor_list' = [n \in Nodes |-> IF n \in Watched THEN None ELSE actor_list[n]]
  /\ hazard' = [w \in Attempts |-> IF \E n \in Watched : actor_list[n] = w THEN "deleted"
                                   ELSE IF w \in Erasable THEN "none" ELSE hazard[w]]
  /\ connection' = [w \in Attempts |-> IF w \in Erasable THEN "destroyed" ELSE connection[w]]
  /\ UNCHANGED <<node, socket, reading, first_process, read_cnt, list_vars, watch_mode>>

(* The scheduler posts run every five seconds; by then the one before it has
   run.  The watch is switched on once, 100 ms after the start. *)
PostRun ==
  /\ \A i \in DOMAIN master_queue : master_queue[i].fn # "run"
  /\ master_queue' = Append(master_queue, [fn |-> "run"])
  /\ UNCHANGED <<attempt_vars, actor_vars, list_vars, watch_mode>>

setWatchMode ==
  /\ ~watch_mode
  /\ watch_mode' = TRUE
  /\ UNCHANGED <<attempt_vars, actor_vars, list_vars, master_queue>>

(* Six seconds have passed since the actor was removed: assumed to be enough
   for the functions posted by then, and for the reads of its closed socket,
   which are aborted. *)
Age(w) ==
  /\ hazard[w] = "deleted"
  /\ master_queue = <<>>
  /\ reading[w] = 0
  /\ hazard' = [hazard EXCEPT ![w] = "aged"]
  /\ UNCHANGED <<attempt_vars, actor_list, first_process, read_cnt, list_vars, watch_mode,
                 master_queue>>

-----------------------------------------------------------------------------
(***************************************************************************)
(* The callbacks of a connection.  The node may have another actor by now. *)
(***************************************************************************)

(* The handshake is over: ClusterNodeDelegate::onStart.  ActorManager's
   addActor takes the place of the node's actor, which is closed and marked
   deleted, and the new actor starts to read.  A deadline that was ahead in
   line may have closed the socket (o): the read then fails. *)
onStart_Both(w) ==   \* Mutant: the actor that is replaced is not closed.
  /\ connection[w] = "connecting"
  /\ connection' = [connection EXCEPT ![w] = "started"]
  /\ LET n   == node[w]
         old == actor_list[n]
     IN
     /\ master_queue' = Append(master_queue, [fn |-> "addActiveNode", n |-> n, w |-> w])
     /\ actor_list' = [actor_list EXCEPT ![n] = w]
     /\ \E o \in {"open", "closed"} : socket' = [socket EXCEPT ![w] = o]
     /\ hazard' = [v \in Attempts |-> IF v = w THEN "held"
                                      ELSE IF v = old THEN "deleted" ELSE hazard[v]]
  /\ first_process' = [first_process EXCEPT ![w] = FALSE]
  /\ read_cnt' = [read_cnt EXCEPT ![w] = @ + 1]
  /\ reading' = [reading EXCEPT ![w] = @ + 1]
  /\ UNCHANGED <<node, list_vars, watch_mode>>

onStart(w) ==
  /\ connection[w] = "connecting"
  /\ connection' = [connection EXCEPT ![w] = "started"]
  /\ LET n   == node[w]
         old == actor_list[n]
     IN
     /\ master_queue' = Append(master_queue, [fn |-> "addActiveNode", n |-> n, w |-> w])
     /\ actor_list' = [actor_list EXCEPT ![n] = w]
     /\ \E o \in {"open", "closed"} :
          socket' = [v \in Attempts |-> IF v = w THEN o
                                        ELSE IF v = old THEN "closed" ELSE socket[v]]
     /\ hazard' = [v \in Attempts |-> IF v = w THEN "held"
                                      ELSE IF v = old THEN "deleted" ELSE hazard[v]]
  /\ first_process' = [first_process EXCEPT ![w] = FALSE]
  /\ read_cnt' = [read_cnt EXCEPT ![w] = @ + 1]
  /\ reading' = [reading EXCEPT ![w] = @ + 1]
  /\ UNCHANGED <<node, list_vars, watch_mode>>

(* Any error before that, a timeout included: the connection is deleted. *)
ConnectError(w) ==
  /\ connection[w] = "connecting"
  /\ connection' = [connection EXCEPT ![w] = "destroyed"]
  /\ UNCHANGED <<node, socket, reading, actor_vars, list_vars, watch_mode, master_queue>>

(* Data has been read, and is dispatched.  The node's actor reads again, on
   its own connection, or counts a reader less. *)
ReadData(w) ==
  /\ reading[w] > 0
  /\ LET a    == actor_list[node[w]]
         rest == [reading EXCEPT ![w] = @ - 1]
     IN
     \/ /\ a = None
        /\ reading' = rest
        /\ UNCHANGED read_cnt
     \/ /\ a # None /\ isOpen(a)
        /\ reading' = [rest EXCEPT ![a] = @ + 1]
        /\ UNCHANGED read_cnt
     \/ /\ a # None /\ ~isOpen(a)
        /\ reading' = rest
        /\ read_cnt' = [read_cnt EXCEPT ![a] = @ - 1]
  /\ UNCHANGED <<connection, node, socket, actor_list, hazard, first_process, list_vars,
                 watch_mode, master_queue>>

(* A read has failed, at the peer or because the socket was closed here.  No
   handler is registered for a cluster's errors, so the node's actor closes
   its connection; then this one is closed, and the actor counts a reader
   less. *)
ReadError(w) ==
  /\ reading[w] > 0
  /\ LET a == actor_list[node[w]] IN
     /\ reading' = [reading EXCEPT ![w] = @ - 1]
     /\ socket' = [v \in Attempts |-> IF v \in {a, w} THEN "closed" ELSE socket[v]]
     /\ read_cnt' = [v \in Attempts |-> IF v = a THEN read_cnt[v] - 1 ELSE read_cnt[v]]
  /\ UNCHANGED <<connection, node, actor_list, hazard, first_process, list_vars, watch_mode,
                 master_queue>>

-----------------------------------------------------------------------------
Master == addNode \/ addNewNodeInfo \/ addActiveNode \/ removeActiveNode \/ run

Next ==
  \/ Master
  \/ PostRun \/ setWatchMode
  \/ \E w \in Attempts : \/ Age(w) \/ onStart(w) \/ ConnectError(w)
                         \/ ReadData(w) \/ ReadError(w)

(* The main loop polls its queue again and again, and the scheduler's tasks
   come round.  Nothing is assumed of the other nodes. *)
Fairness == WF_vars(Master) /\ WF_vars(PostRun) /\ WF_vars(setWatchMode)

Spec == Init /\ [][Next]_vars /\ Fairness

-----------------------------------------------------------------------------
(* A posted function that is about the routers' connection of node n, and
   what it makes of it. *)
About(f, n) == f.fn \in {"addActiveNode", "removeActiveNode"} /\ f.n = n
Given(f)    == IF f.fn = "addActiveNode" THEN f.w ELSE None

(* The two lists of the nodes' connections are kept by different hands, one
   at once and one through the queue.  When the queue has run they agree: the
   last function about a node gives the routers its actor's connection
   (ClusterNodeDelegate::onStart, Cluster::run). *)
ListsAgree ==
  \A n \in Nodes :
    /\ (\A i \in DOMAIN master_queue : ~About(master_queue[i], n))
         => active_node_list[n] = actor_list[n]
    /\ \A i \in DOMAIN master_queue :
         /\ About(master_queue[i], n)
         /\ \A j \in DOMAIN master_queue : j > i => ~About(master_queue[j], n)
         => Given(master_queue[i]) = actor_list[n]

(* The routers keep bare pointers to connections that actors own and delete:
   none of theirs, or of a function that will give them one, is ever deleted
   (SimpleRandomRouter::getNode, ~ClusterActor). *)
NoDangling ==
  /\ \A n \in Nodes : active_node_list[n] # None => connection[active_node_list[n]] = "started"
  /\ \A i \in DOMAIN master_queue : master_queue[i].fn = "addActiveNode"
                                      => connection[master_queue[i].w] = "started"

(* An open connection is the one its node's actor has: no connection stays
   open that nothing watches, and what a router picks can be sent to
   (ActorManager::addActor, SimpleRandomRouter::getNode, Cluster::sendOnce). *)
OpenIsCurrent == \A w \in Attempts : isOpen(w) => actor_list[node[w]] = w

(* A node without an open connection is connected again: an attempt is under
   way, or has succeeded, or the attempts of this instance are used up
   (Cluster::run). *)
Exhausted     == \A w \in Attempts : connection[w] # "unused"
Connecting(n) == \E w \in Attempts : connection[w] = "connecting" /\ node[w] = n
NodesAreTried == \A n \in Nodes : ToConnect(n) ~> (~ToConnect(n) \/ Connecting(n) \/ Exhausted)

=============================================================================
