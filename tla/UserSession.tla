---------------------------- MODULE UserSession ----------------------------
(***************************************************************************)
(* The life of a user's connection: the WebsocketSession that reads and    *)
(* writes its socket on the network thread, the UserClient that stands for *)
(* it on the master thread, and the ActorManager that keeps the UserClient *)
(* until nothing can use the session any more.                             *)
(*                                                                         *)
(*   - The network thread (Server::start) polls one io_service: it         *)
(*     completes reads and writes and runs the functions dispatched to it  *)
(*     from other threads (net_queue).  It is in one callback at a time.   *)
(*   - The master thread runs MainLoop::update again and again: first the  *)
(*     functions posted to it, until none is left, then updateActor.       *)
(*     Between two updates the scheduler runs its other tasks.             *)
(*                                                                         *)
(* A session is deleted by hand (destroyAsync), while reads and writes of  *)
(* the socket, and functions in both queues, hold bare pointers to it.     *)
(* The counters of UserClient are what keeps them apart.                   *)
(*                                                                         *)
(* What is read is dispatched in module BattleProcessor, which also has    *)
(* what an error means to a battle.  A key is never used twice.            *)
(*                                                                         *)
(* A node server (NodeServer, NodeSessionDelegate, ServerNode) keeps its   *)
(* connections in the same way, and its scheduler polls the io_service.    *)
(* What differs is the socket: a user's has TLS, a node's has not, and     *)
(* only without TLS does a write deadline fire (module SocketTimers).      *)
(***************************************************************************)
EXTENDS Integers, Sequences, FiniteSets

CONSTANTS Sessions,   \* the sessions accepted
          Plain,      \* those without TLS: a node server's
          None,       \* the network thread is in no callback
          MaxWrites   \* bound: packets the other threads send to a session

ASSUME SessionsAssumption ==
  /\ IsFiniteSet(Sessions)
  /\ MaxWrites \in Nat
  /\ None \notin [s: Sessions, at: {"receiveError", "sendError"}]

VARIABLES
  session,         \* handshake, started, or destroyed
  socket,          \* open or closed
  reading,         \* an async_read_some is outstanding
  writing,         \* the async_write_somes outstanding, oldest first
  process_write,   \* the flag that says a write is outstanding
  packet_queue,    \* packets waiting for it
  write_deadline,  \* the write timer has an expiry time
  callback,        \* the callback the network thread is in
  net_queue,       \* functions dispatched to the network thread
  actor_list,      \* sessions whose UserClient can be found by its key
  hazard,          \* entry of hazard_actor_list: none, held or deleted
  first_process, read_cnt, write_cnt,   \* of the UserClient
  master_queue,    \* functions posted to the master thread
  main_loop,       \* what the master thread is doing: idle, poll or update
  requested,       \* number of packets requested for each session
  accepted,        \* number of packets UserClient::write has passed on
  sent             \* packets that have been written, in order

session_vars == <<session, socket, reading, writing, process_write, packet_queue,
                  write_deadline, callback, sent>>
actor_vars   == <<actor_list, hazard, first_process, read_cnt, write_cnt>>
vars == <<session_vars, net_queue, actor_vars, master_queue, main_loop, requested,
          accepted>>

Packets == 1..MaxWrites

NetFn    == [fn: {"write"}, s: Sessions, packet: Packets] \cup [fn: {"destroy"}, s: Sessions]
MasterFn == [fn: {"addActor", "onStart", "write", "received", "receiveError", "onSendFinish"},
             s: Sessions]

(* Every variable has its type; the counters never fall below zero, where
   they are unsigned and would wrap around (onReceiveFinish, onSendFinish). *)
TypeOK ==
  /\ session \in [Sessions -> {"handshake", "started", "destroyed"}]
  /\ socket \in [Sessions -> {"open", "closed"}]
  /\ reading \in [Sessions -> BOOLEAN]
  /\ writing \in [Sessions -> Seq(Packets)]
  /\ process_write \in [Sessions -> BOOLEAN]
  /\ packet_queue \in [Sessions -> Seq(Packets)]
  /\ write_deadline \in [Sessions -> BOOLEAN]
  /\ callback \in [s: Sessions, at: {"receiveError", "sendError"}] \cup {None}
  /\ net_queue \in Seq(NetFn)
  /\ actor_list \in SUBSET Sessions
  /\ hazard \in [Sessions -> {"none", "held", "deleted"}]
  /\ first_process \in [Sessions -> BOOLEAN]
  /\ read_cnt \in [Sessions -> Nat]
  /\ write_cnt \in [Sessions -> Nat]
  /\ master_queue \in Seq(MasterFn)
  /\ main_loop \in {"idle", "poll", "update"}
  /\ requested \in [Sessions -> 0..MaxWrites]
  /\ accepted \in [Sessions -> 0..MaxWrites]
  /\ sent \in [Sessions -> Seq(Packets)]

Init ==
  /\ session = [s \in Sessions |-> "handshake"]
  /\ socket = [s \in Sessions |-> "open"]
  /\ reading = [s \in Sessions |-> FALSE]
  /\ writing = [s \in Sessions |-> <<>>]
  /\ process_write = [s \in Sessions |-> FALSE]
  /\ packet_queue = [s \in Sessions |-> <<>>]
  /\ write_deadline = [s \in Sessions |-> FALSE]
  /\ callback = None
  /\ net_queue = <<>>
  /\ actor_list = {}
  /\ hazard = [s \in Sessions |-> "none"]
  /\ first_process = [s \in Sessions |-> TRUE]
  /\ read_cnt = [s \in Sessions |-> 0]
  /\ write_cnt = [s \in Sessions |-> 0]
  /\ master_queue = <<>>
  /\ main_loop = "idle"
  /\ requested = [s \in Sessions |-> 0]
  /\ accepted = [s \in Sessions |-> 0]
  /\ sent = [s \in Sessions |-> <<>>]

isOpen(s)   == socket[s] = "open"
isActive(s) == first_process[s] \/ read_cnt[s] > 0 \/ write_cnt[s] > 0

postMaster(fn, s) == master_queue' = Append(master_queue, [fn |-> fn, s |-> s])

-----------------------------------------------------------------------------
(***************************************************************************)
(* The handshake is over: AppSessionDelegate::onStart, from the callback   *)
(* that has written the response.  A deadline that was ahead of it in line *)
(* may have closed the socket, unless it has TLS (module SocketTimers).  A *)
(* handshake that fails has no actor yet and deletes the session at once.  *)
(***************************************************************************)
onStart(s) ==
  /\ callback = None
  /\ session[s] = "handshake"
  /\ session' = [session EXCEPT ![s] = "started"]
  /\ \/ s \in Plain /\ socket' = [socket EXCEPT ![s] = "closed"]
     \/ UNCHANGED socket
  /\ master_queue' = master_queue \o <<[fn |-> "addActor", s |-> s],
                                       [fn |-> "onStart", s |-> s]>>
  /\ UNCHANGED <<reading, writing, process_write, packet_queue, write_deadline,
                 callback, sent, net_queue, actor_vars, main_loop, requested, accepted>>

HandshakeError(s) ==
  /\ callback = None
  /\ session[s] = "handshake"
  /\ session' = [session EXCEPT ![s] = "destroyed"]
  /\ socket' = [socket EXCEPT ![s] = "closed"]
  /\ UNCHANGED <<reading, writing, process_write, packet_queue, write_deadline, callback,
                 sent, net_queue, actor_vars, master_queue, main_loop, requested, accepted>>

-----------------------------------------------------------------------------
(***************************************************************************)
(* Reading.  A read completes with data, or with an error: that of the     *)
(* peer, or of a socket that has been closed here.  After an error the     *)
(* socket is closed before the actor is told that the read has finished.   *)
(***************************************************************************)
ReadData(s) ==
  /\ callback = None
  /\ reading[s]
  /\ reading' = [reading EXCEPT ![s] = FALSE]
  /\ postMaster("received", s)
  /\ UNCHANGED <<session, socket, writing, process_write, packet_queue, write_deadline,
                 callback, sent, net_queue, actor_vars, main_loop, requested, accepted>>

ReadError(s) ==
  /\ callback = None
  /\ reading[s]
  /\ reading' = [reading EXCEPT ![s] = FALSE]
  /\ socket' = [socket EXCEPT ![s] = "closed"]
  /\ callback' = [s |-> s, at |-> "receiveError"]
  /\ UNCHANGED <<session, writing, process_write, packet_queue, write_deadline, sent,
                 net_queue, actor_vars, master_queue, main_loop, requested, accepted>>

ReadErrorFinish ==
  /\ callback # None
  /\ callback.at = "receiveError"
  /\ callback' = None
  /\ postMaster("receiveError", callback.s)
  /\ UNCHANGED <<session, socket, reading, writing, process_write, packet_queue,
                 write_deadline, sent, net_queue, actor_vars, main_loop, requested, accepted>>

-----------------------------------------------------------------------------
(***************************************************************************)
(* Writing.  writeAsync runs on the network thread: it queues the packet   *)
(* if process_write is set, else it starts to write it.                    *)
(***************************************************************************)
writeAsync ==
  /\ callback = None
  /\ net_queue # <<>>
  /\ Head(net_queue).fn = "write"
  /\ net_queue' = Tail(net_queue)
  /\ LET s == Head(net_queue).s
         p == Head(net_queue).packet
     IN IF process_write[s]
        THEN /\ packet_queue' = [packet_queue EXCEPT ![s] = Append(@, p)]
             /\ UNCHANGED <<writing, process_write, write_deadline>>
        ELSE /\ writing' = [writing EXCEPT ![s] = Append(@, p)]
             /\ process_write' = [process_write EXCEPT ![s] = TRUE]
             /\ write_deadline' = [write_deadline EXCEPT ![s] = TRUE]
             /\ UNCHANGED packet_queue
  /\ UNCHANGED <<session, socket, reading, callback, sent, actor_vars, master_queue,
                 main_loop, requested, accepted>>

(***************************************************************************)
(* The oldest write completes.  The next packet of the queue is started in *)
(* the callback; what runs after that clears process_write, and the timer, *)
(* although a write is outstanding again.                                  *)
(***************************************************************************)
\* Mutant: a completed write starts no other.
WriteDone_NoNext(s) ==
  /\ callback = None
  /\ writing[s] # <<>>
  /\ sent' = [sent EXCEPT ![s] = Append(@, Head(writing[s]))]
  /\ postMaster("onSendFinish", s)
  /\ writing' = [writing EXCEPT ![s] = Tail(@)]
  /\ process_write' = [process_write EXCEPT ![s] = FALSE]
  /\ write_deadline' = [write_deadline EXCEPT ![s] = FALSE]
  /\ UNCHANGED <<session, socket, reading, callback, packet_queue, net_queue, actor_vars,
                 main_loop, requested, accepted>>

\* Mutant: the packet that is started stays in the queue (no pop_front).
WriteDone_NoPop(s) ==
  /\ callback = None
  /\ writing[s] # <<>>
  /\ sent' = [sent EXCEPT ![s] = Append(@, Head(writing[s]))]
  /\ postMaster("onSendFinish", s)
  /\ LET next == isOpen(s) /\ packet_queue[s] # <<>>
     IN writing' = [writing EXCEPT ![s] =
                      Tail(@) \o IF next THEN <<Head(packet_queue[s])>> ELSE <<>>]
  /\ process_write' = [process_write EXCEPT ![s] = FALSE]
  /\ write_deadline' = [write_deadline EXCEPT ![s] = FALSE]
  /\ UNCHANGED <<session, socket, reading, callback, packet_queue, net_queue, actor_vars,
                 main_loop, requested, accepted>>

WriteDone(s) ==
  /\ callback = None
  /\ writing[s] # <<>>
  /\ sent' = [sent EXCEPT ![s] = Append(@, Head(writing[s]))]
  /\ postMaster("onSendFinish", s)
  /\ LET next == isOpen(s) /\ packet_queue[s] # <<>>
     IN /\ writing' = [writing EXCEPT ![s] =
                         Tail(@) \o IF next THEN <<Head(packet_queue[s])>> ELSE <<>>]
        /\ packet_queue' = [packet_queue EXCEPT ![s] = IF next THEN Tail(@) ELSE @]
  /\ process_write' = [process_write EXCEPT ![s] = FALSE]
  /\ write_deadline' = [write_deadline EXCEPT ![s] = FALSE]
  /\ UNCHANGED <<session, socket, reading, callback, net_queue, actor_vars, main_loop,
                 requested, accepted>>

WriteError(s) ==
  /\ callback = None
  /\ writing[s] # <<>>
  /\ writing' = [writing EXCEPT ![s] = Tail(@)]
  /\ socket' = [socket EXCEPT ![s] = "closed"]
  /\ callback' = [s |-> s, at |-> "sendError"]
  /\ UNCHANGED <<session, reading, process_write, packet_queue, write_deadline, sent,
                 net_queue, actor_vars, master_queue, main_loop, requested, accepted>>

\* Mutant: only a write that succeeded is reported to the actor.
WriteErrorFinish_Silent ==
  /\ callback # None
  /\ callback.at = "sendError"
  /\ callback' = None
  /\ process_write' = [process_write EXCEPT ![callback.s] = FALSE]
  /\ write_deadline' = [write_deadline EXCEPT ![callback.s] = FALSE]
  /\ UNCHANGED <<session, socket, reading, writing, packet_queue, sent, net_queue,
                 actor_vars, master_queue, main_loop, requested, accepted>>

WriteErrorFinish ==
  /\ callback # None
  /\ callback.at = "sendError"
  /\ callback' = None
  /\ postMaster("onSendFinish", callback.s)
  /\ process_write' = [process_write EXCEPT ![callback.s] = FALSE]
  /\ write_deadline' = [write_deadline EXCEPT ![callback.s] = FALSE]
  /\ UNCHANGED <<session, socket, reading, writing, packet_queue, sent, net_queue,
                 actor_vars, main_loop, requested, accepted>>

(* The deadline of a write closes the socket, which fails the write. *)
checkWriteDeadline(s) ==
  /\ s \in Plain
  /\ callback = None
  /\ write_deadline[s]
  /\ isOpen(s)
  /\ socket' = [socket EXCEPT ![s] = "closed"]
  /\ write_deadline' = [write_deadline EXCEPT ![s] = FALSE]
  /\ UNCHANGED <<session, reading, writing, process_write, packet_queue, callback, sent,
                 net_queue, actor_vars, master_queue, main_loop, requested, accepted>>

destroyAsync ==
  /\ callback = None
  /\ net_queue # <<>>
  /\ Head(net_queue).fn = "destroy"
  /\ net_queue' = Tail(net_queue)
  /\ session' = [session EXCEPT ![Head(net_queue).s] = "destroyed"]
  /\ socket' = [socket EXCEPT ![Head(net_queue).s] = "closed"]
  /\ UNCHANGED <<reading, writing, process_write, packet_queue, write_deadline, callback,
                 sent, actor_vars, master_queue, main_loop, requested, accepted>>

-----------------------------------------------------------------------------
(***************************************************************************)
(* A worker sends a packet to the client (writeTCPSocket): the master will *)
(* look the actor up.                                                      *)
(***************************************************************************)
writeTCPSocket(s) ==
  /\ requested[s] < MaxWrites
  /\ session[s] # "handshake"
  /\ requested' = [requested EXCEPT ![s] = @ + 1]
  /\ postMaster("write", s)
  /\ UNCHANGED <<session_vars, net_queue, actor_vars, main_loop, accepted>>

(***************************************************************************)
(* The master thread runs the function at the head of its queue.  All but  *)
(* addActor look the actor up (getActorFromKey), and do nothing if it has  *)
(* been removed.                                                           *)
(***************************************************************************)
NextFn(fn) ==
  /\ main_loop = "poll"
  /\ master_queue # <<>>
  /\ Head(master_queue).fn = fn
  /\ master_queue' = Tail(master_queue)

Self  == Head(master_queue).s
Found == Self \in actor_list

addActor ==
  /\ NextFn("addActor")
  /\ actor_list' = actor_list \cup {Self}
  /\ hazard' = [hazard EXCEPT ![Self] = "held"]
  /\ UNCHANGED <<session_vars, net_queue, first_process, read_cnt, write_cnt, main_loop,
                 requested, accepted>>

ActorStart ==
  /\ NextFn("onStart")
  /\ IF Found
     THEN /\ read_cnt' = [read_cnt EXCEPT ![Self] = @ + 1]
          /\ first_process' = [first_process EXCEPT ![Self] = FALSE]
          /\ reading' = [reading EXCEPT ![Self] = TRUE]
     ELSE UNCHANGED <<read_cnt, first_process, reading>>
  /\ UNCHANGED <<session, socket, writing, process_write, packet_queue, write_deadline,
                 callback, sent, net_queue, actor_list, hazard, write_cnt, main_loop,
                 requested, accepted>>

onReceiveFinish ==
  /\ NextFn("received") \/ NextFn("receiveError")
  /\ LET again == Head(master_queue).fn = "received" /\ isOpen(Self)
     IN IF Found
        THEN /\ reading' = [reading EXCEPT ![Self] = again]
             /\ read_cnt' = [read_cnt EXCEPT ![Self] = IF again THEN @ ELSE @ - 1]
        ELSE UNCHANGED <<read_cnt, reading>>
  /\ UNCHANGED <<session, socket, writing, process_write, packet_queue, write_deadline,
                 callback, sent, net_queue, actor_list, hazard, first_process, write_cnt,
                 main_loop, requested, accepted>>

onSendFinish ==
  /\ NextFn("onSendFinish")
  /\ write_cnt' = IF Found THEN [write_cnt EXCEPT ![Self] = @ - 1] ELSE write_cnt
  /\ UNCHANGED <<session_vars, net_queue, actor_list, hazard, first_process, read_cnt,
                 main_loop, requested, accepted>>

write ==
  /\ NextFn("write")
  /\ IF Found /\ isOpen(Self)
     THEN /\ write_cnt' = [write_cnt EXCEPT ![Self] = @ + 1]
          /\ accepted' = [accepted EXCEPT ![Self] = @ + 1]
          /\ net_queue' = Append(net_queue, [fn |-> "write", s |-> Self,
                                             packet |-> accepted[Self] + 1])
     ELSE UNCHANGED <<write_cnt, accepted, net_queue>>
  /\ UNCHANGED <<session_vars, actor_list, hazard, first_process, read_cnt, main_loop,
                 requested>>

-----------------------------------------------------------------------------
(***************************************************************************)
(* MainLoop::update.  The functions are polled until none is left; more    *)
(* may be posted before updateActor looks at the actors.                   *)
(***************************************************************************)
update ==
  /\ main_loop = "idle"
  /\ main_loop' = "poll"
  /\ UNCHANGED <<session_vars, net_queue, actor_vars, master_queue, requested, accepted>>

PollReturns ==
  /\ main_loop = "poll"
  /\ master_queue = <<>>
  /\ main_loop' = "update"
  /\ UNCHANGED <<session_vars, net_queue, actor_vars, master_queue, requested, accepted>>

\* Mutant: a closed actor is removed when it is not active any more.
Closed_Inactive == {s \in actor_list : ~isOpen(s) /\ ~isActive(s)}

\* The actors that MainLoop::updateActor removes.
Closed == {s \in actor_list : ~isOpen(s)}

Deleted(removed) ==
  [s \in Sessions |-> IF s \in removed /\ hazard[s] = "held" THEN "deleted" ELSE hazard[s]]

\* Mutant: reads are not waited for.
Erasable_Reading ==
  {s \in Sessions : /\ hazard[s] = "deleted" /\ ~isOpen(s)
                    /\ ~first_process[s] /\ write_cnt[s] = 0}

(***************************************************************************)
(* What ActorManager::update may erase: the actors that were deleted more  *)
(* than five seconds ago and are neither open nor active.                  *)
(***************************************************************************)
Erasable == {s \in Sessions : hazard[s] = "deleted" /\ ~isOpen(s) /\ ~isActive(s)}

(***************************************************************************)
(* updateActor: closed actors are removed, and some of the erasable ones   *)
(* are old enough; with the last reference to a UserClient goes its        *)
(* session (destroyAsync, dispatched to the network thread).               *)
(***************************************************************************)
updateActor(erased) ==
  /\ main_loop = "update"
  /\ main_loop' = "idle"
  /\ erased \subseteq Erasable
  /\ actor_list' = actor_list \ Closed
  /\ hazard' = [s \in Sessions |-> IF s \in erased THEN "none" ELSE Deleted(Closed)[s]]
  /\ \E order \in [1..Cardinality(erased) -> erased] :
       /\ \A i, j \in DOMAIN order : order[i] = order[j] => i = j
       /\ net_queue' = net_queue \o [i \in DOMAIN order |-> [fn |-> "destroy", s |-> order[i]]]
  /\ UNCHANGED <<session_vars, first_process, read_cnt, write_cnt, master_queue, requested,
                 accepted>>

(***************************************************************************)
(* removeActor, by the delayed task of a battle that has ended: of users   *)
(* only, though nothing here depends on it.                                *)
(***************************************************************************)
removeActor(s) ==
  /\ main_loop = "idle"
  /\ s \in actor_list
  /\ actor_list' = actor_list \ {s}
  /\ hazard' = Deleted({s})
  /\ UNCHANGED <<session_vars, net_queue, first_process, read_cnt, write_cnt, master_queue,
                 main_loop, requested, accepted>>

-----------------------------------------------------------------------------
Network ==
  \/ \E s \in Sessions : \/ onStart(s) \/ HandshakeError(s)
                         \/ ReadData(s) \/ ReadError(s)
                         \/ WriteDone(s) \/ WriteError(s) \/ checkWriteDeadline(s)
  \/ ReadErrorFinish \/ WriteErrorFinish \/ writeAsync \/ destroyAsync

Functions == addActor \/ ActorStart \/ onReceiveFinish \/ onSendFinish \/ write

MainLoop == update \/ PollReturns \/ \E erased \in SUBSET Sessions : updateActor(erased)

Next == \/ Network
        \/ Functions
        \/ MainLoop
        \/ \E s \in Sessions : writeTCPSocket(s) \/ removeActor(s)

Spec == Init /\ [][Next]_vars

(***************************************************************************)
(* Fairness.  Both threads go on; the network thread finishes its          *)
(* callbacks and runs what is dispatched to it, while reads and writes may *)
(* stay outstanding for ever.  An actor that stays erasable gets old       *)
(* enough.                                                                 *)
(***************************************************************************)
Fairness ==
  /\ WF_vars(Functions)
  /\ WF_vars(MainLoop)
  /\ WF_vars(ReadErrorFinish \/ WriteErrorFinish)
  /\ SF_vars(writeAsync \/ destroyAsync)
  /\ \A s \in Sessions : SF_vars(\E erased \in SUBSET Sessions :
                                   s \in erased /\ updateActor(erased))

FairSpec == Spec /\ Fairness

(***************************************************************************)
(* Peers that go on reading, or whose connection breaks.  The code does    *)
(* not enforce it: with TLS no write deadline fires, and without, it       *)
(* covers no packet that has waited in packet_queue (see WriteDone).       *)
(***************************************************************************)
PeersRead == \A s \in Sessions : SF_vars(WriteDone(s) \/ WriteError(s))

PeerFairSpec == FairSpec /\ PeersRead

-----------------------------------------------------------------------------
NetWrites(s)  == {i \in DOMAIN net_queue : net_queue[i].fn = "write" /\ net_queue[i].s = s}
Destroys(s)   == {i \in DOMAIN net_queue : net_queue[i].fn = "destroy" /\ net_queue[i].s = s}
Posted(fn, s) == {i \in DOMAIN master_queue : master_queue[i] = [fn |-> fn, s |-> s]}
InCallback(at, s) == callback = [s |-> s, at |-> at]

One(b) == IF b THEN 1 ELSE 0

(* The reads and the writes that the counters of a UserClient stand for:
   started, about to be, or completed and not yet told to the actor. *)
ReadsHeld(s) ==
  One(reading[s]) + One(InCallback("receiveError", s))
    + Cardinality(Posted("received", s)) + Cardinality(Posted("receiveError", s))

WritesHeld(s) ==
  Cardinality(NetWrites(s)) + Len(packet_queue[s]) + Len(writing[s])
    + One(InCallback("sendError", s)) + Cardinality(Posted("onSendFinish", s))

(* The counters account for every read and write that can still use the
   session.  Until the actor is removed they are exact; after that they may
   only be too high, because completions no longer find the actor
   (AppSessionDelegate::onReceiveFinish, onSendFinish). *)
CountersHold ==
  \A s \in Sessions :
    /\ ReadsHeld(s) <= read_cnt[s] /\ read_cnt[s] <= 1
    /\ WritesHeld(s) <= write_cnt[s]
    /\ s \in actor_list => ReadsHeld(s) = read_cnt[s] /\ WritesHeld(s) = write_cnt[s]

(* Nothing can call back into the session, and it cannot be found. *)
Quiet(s) ==
  /\ ~isOpen(s)
  /\ ReadsHeld(s) = 0
  /\ WritesHeld(s) = 0
  /\ s \notin actor_list
  /\ Posted("addActor", s) = {} /\ Posted("onStart", s) = {}

(* A session is deleted once, and only when nothing can call back into it:
   destroyAsync deletes it by hand, while callbacks hold bare pointers to it. *)
QuietWhenDestroyed ==
  \A s \in Sessions :
    /\ session[s] = "destroyed" \/ Destroys(s) # {} => Quiet(s)
    /\ Cardinality(Destroys(s)) + One(session[s] = "destroyed") <= 1

(* A packet waits in packet_queue only while a write is outstanding, whose
   completion will start it, although process_write is cleared too early
   (WebsocketSession::writeAsyncInternal). *)
QueueMoves ==
  \A s \in Sessions : isOpen(s) /\ packet_queue[s] # <<>> => writing[s] # <<>>

Times(p, seq) == Cardinality({i \in DOMAIN seq : seq[i] = p})

(* As long as the connection is open, a packet that UserClient::write has
   passed on is in one place: on its way to the network thread, waiting,
   being written, or written. *)
OnceEach ==
  \A s \in Sessions, p \in Packets :
    isOpen(s) =>
      Cardinality({i \in NetWrites(s) : net_queue[i].packet = p}) + Times(p, packet_queue[s])
        + Times(p, writing[s]) + Times(p, sent[s]) = One(p <= accepted[s])

(* The actor of a closed connection is removed, even if its counters never
   go back to zero (MainLoop::updateActor). *)
ClosedIsRemoved ==
  \A s \in Sessions : ~isOpen(s) ~> [](s \notin actor_list)

(* A packet that has been passed on is written, unless the connection is
   closed: the queue never gets stuck (WebsocketSession::writeAsyncInternal). *)
AcceptedIsSent ==
  \A s \in Sessions, p \in Packets :
    p <= accepted[s] ~> ~isOpen(s) \/ Times(p, sent[s]) > 0

=============================================================================
