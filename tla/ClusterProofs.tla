--------------------------- MODULE ClusterProofs ---------------------------
(***************************************************************************)
(* Proofs about the cluster's connections, for any nodes, any number of    *)
(* attempts to connect and any order of their callbacks: the types, that   *)
(* the routers and the actors agree (ListsAgree), that no router has a     *)
(* deleted connection (NoDangling) and that no connection stays open       *)
(* without its actor (OpenIsCurrent).                                      *)
(***************************************************************************)
EXTENDS Cluster, TLAPS, FiniteSetTheorems, SequenceTheorems

-----------------------------------------------------------------------------
(* ListsAgree for one node, of any queue q: the routers have a, and the
   actor's connection is c. *)
Agrees(q, a, c, n) ==
  /\ (\A i \in DOMAIN q : ~About(q[i], n)) => a = c
  /\ \A i \in DOMAIN q :
       /\ About(q[i], n)
       /\ \A j \in DOMAIN q : j > i => ~About(q[j], n)
       => Given(q[i]) = c

LEMMA ListsAgreeDef ==
  ListsAgree <=> \A n \in Nodes : Agrees(master_queue, active_node_list[n], actor_list[n], n)
BY DEF ListsAgree, Agrees

(* A function that is not about n is taken from the queue. *)
LEMMA PopOther ==
  ASSUME NEW q \in Seq(MasterFn), q # <<>>, NEW n, NEW a, NEW c,
         ~About(Head(q), n), Agrees(q, a, c, n)
  PROVE  Agrees(Tail(q), a, c, n)
<1>1. /\ Tail(q) \in Seq(MasterFn) /\ Len(q) \in Nat /\ Len(q) > 0
      /\ Len(Tail(q)) = Len(q) - 1 /\ DOMAIN q = 1..Len(q) /\ DOMAIN Tail(q) = 1..(Len(q) - 1)
      /\ \A i \in 1..(Len(q) - 1) : Tail(q)[i] = q[i + 1]
      /\ Head(q) = q[1]
  OBVIOUS
<1>2. (\A i \in DOMAIN Tail(q) : ~About(Tail(q)[i], n)) => \A i \in DOMAIN q : ~About(q[i], n)
  <2> SUFFICES ASSUME \A i \in DOMAIN Tail(q) : ~About(Tail(q)[i], n), NEW i \in DOMAIN q
               PROVE  ~About(q[i], n)
    OBVIOUS
  <2>1. CASE i = 1
    BY <1>1, <2>1
  <2>2. CASE i # 1
    <3>1. i - 1 \in 1..(Len(q) - 1) /\ (i - 1) + 1 = i
      BY <1>1, <2>2
    <3> QED BY <1>1, <3>1
  <2> QED BY <2>1, <2>2
<1>3. ASSUME NEW i \in DOMAIN Tail(q), About(Tail(q)[i], n),
             \A j \in DOMAIN Tail(q) : j > i => ~About(Tail(q)[j], n)
      PROVE  Given(Tail(q)[i]) = c
  <2>1. i + 1 \in DOMAIN q /\ Tail(q)[i] = q[i + 1]
    BY <1>1
  <2>2. ASSUME NEW j \in DOMAIN q, j > i + 1 PROVE ~About(q[j], n)
    <3>1. j - 1 \in DOMAIN Tail(q) /\ j - 1 > i /\ (j - 1) + 1 = j
      BY <1>1, <2>2
    <3> QED BY <1>1, <1>3, <3>1
  <2> QED BY <1>3, <2>1, <2>2 DEF Agrees
<1> QED BY <1>2, <1>3 DEF Agrees

(* A function that is about n is taken from the queue, and runs. *)
LEMMA PopAbout ==
  ASSUME NEW q \in Seq(MasterFn), q # <<>>, NEW n, NEW a, NEW c,
         About(Head(q), n), Agrees(q, a, c, n)
  PROVE  Agrees(Tail(q), Given(Head(q)), c, n)
<1>1. /\ Tail(q) \in Seq(MasterFn) /\ Len(q) \in Nat /\ Len(q) > 0
      /\ Len(Tail(q)) = Len(q) - 1 /\ DOMAIN q = 1..Len(q) /\ DOMAIN Tail(q) = 1..(Len(q) - 1)
      /\ \A i \in 1..(Len(q) - 1) : Tail(q)[i] = q[i + 1]
      /\ Head(q) = q[1]
  OBVIOUS
<1>2. ASSUME \A i \in DOMAIN Tail(q) : ~About(Tail(q)[i], n)
      PROVE  Given(Head(q)) = c
  <2>1. ASSUME NEW j \in DOMAIN q, j > 1 PROVE ~About(q[j], n)
    <3>1. j - 1 \in DOMAIN Tail(q) /\ (j - 1) + 1 = j
      BY <1>1, <2>1
    <3> QED BY <1>1, <1>2, <3>1
  <2>2. 1 \in DOMAIN q
    BY <1>1
  <2> QED BY <1>1, <2>1, <2>2 DEF Agrees
<1>3. ASSUME NEW i \in DOMAIN Tail(q), About(Tail(q)[i], n),
             \A j \in DOMAIN Tail(q) : j > i => ~About(Tail(q)[j], n)
      PROVE  Given(Tail(q)[i]) = c
  <2>1. i + 1 \in DOMAIN q /\ Tail(q)[i] = q[i + 1]
    BY <1>1
  <2>2. ASSUME NEW j \in DOMAIN q, j > i + 1 PROVE ~About(q[j], n)
    <3>1. j - 1 \in DOMAIN Tail(q) /\ j - 1 > i /\ (j - 1) + 1 = j
      BY <1>1, <2>2
    <3> QED BY <1>1, <1>3, <3>1
  <2> QED BY <1>3, <2>1, <2>2 DEF Agrees
<1> QED BY <1>2, <1>3 DEF Agrees

(* Functions r are posted, none of them about n. *)
LEMMA PostOther ==
  ASSUME NEW q \in Seq(MasterFn), NEW r \in Seq(MasterFn), NEW n, NEW a, NEW c,
         \A i \in DOMAIN r : ~About(r[i], n), Agrees(q, a, c, n)
  PROVE  Agrees(q \o r, a, c, n)
<1>1. /\ Len(q) \in Nat /\ Len(r) \in Nat
      /\ DOMAIN q = 1..Len(q) /\ DOMAIN r = 1..Len(r) /\ DOMAIN (q \o r) = 1..(Len(q) + Len(r))
      /\ \A i \in 1..Len(q) : (q \o r)[i] = q[i]
      /\ \A i \in (Len(q) + 1)..(Len(q) + Len(r)) : (q \o r)[i] = r[i - Len(q)]
  OBVIOUS
<1>2. ASSUME NEW i \in DOMAIN (q \o r), About((q \o r)[i], n)
      PROVE  i \in DOMAIN q
  <2>1. CASE i > Len(q)
    <3>1. i \in (Len(q) + 1)..(Len(q) + Len(r)) /\ i - Len(q) \in DOMAIN r
      BY <1>1, <2>1
    <3> QED BY <1>1, <1>2, <3>1
  <2> QED BY <1>1, <2>1
<1>3. DOMAIN q \subseteq DOMAIN (q \o r)
  BY <1>1
<1> QED BY <1>1, <1>2, <1>3 DEF Agrees

(* Functions r are posted, some of them about n, which all give it c2. *)
LEMMA PostAbout ==
  ASSUME NEW q \in Seq(MasterFn), NEW r \in Seq(MasterFn), NEW n, NEW a, NEW c2,
         \E i \in DOMAIN r : About(r[i], n),
         \A i \in DOMAIN r : About(r[i], n) => Given(r[i]) = c2
  PROVE  Agrees(q \o r, a, c2, n)
<1>1. /\ Len(q) \in Nat /\ Len(r) \in Nat
      /\ DOMAIN q = 1..Len(q) /\ DOMAIN r = 1..Len(r) /\ DOMAIN (q \o r) = 1..(Len(q) + Len(r))
      /\ \A i \in 1..Len(q) : (q \o r)[i] = q[i]
      /\ \A i \in (Len(q) + 1)..(Len(q) + Len(r)) : (q \o r)[i] = r[i - Len(q)]
  OBVIOUS
<1>2. PICK k \in DOMAIN r : About(r[k], n)
  OBVIOUS
<1>3. k + Len(q) \in DOMAIN (q \o r) /\ k + Len(q) > Len(q) /\ About((q \o r)[k + Len(q)], n)
  <2>1. k + Len(q) \in (Len(q) + 1)..(Len(q) + Len(r)) /\ (k + Len(q)) - Len(q) = k
    BY <1>1
  <2> QED BY <1>1, <1>2, <2>1
<1>4. ASSUME NEW i \in DOMAIN (q \o r), About((q \o r)[i], n),
             \A j \in DOMAIN (q \o r) : j > i => ~About((q \o r)[j], n)
      PROVE  Given((q \o r)[i]) = c2
  <2>1. i \in Int /\ i >= k + Len(q)
    BY <1>1, <1>3, <1>4
  <2>2. i \in (Len(q) + 1)..(Len(q) + Len(r)) /\ i - Len(q) \in DOMAIN r
    BY <1>1, <2>1
  <2> QED BY <1>1, <1>4, <2>2
<1> QED BY <1>3, <1>4 DEF Agrees

(* What is in the queue when functions r are posted. *)
LEMMA ConcatFacts ==
  ASSUME NEW q \in Seq(MasterFn), NEW r \in Seq(MasterFn)
  PROVE  /\ q \o r \in Seq(MasterFn)
         /\ \A i \in DOMAIN (q \o r) : \/ \E j \in DOMAIN q : (q \o r)[i] = q[j]
                                       \/ \E j \in DOMAIN r : (q \o r)[i] = r[j]
<1>1. /\ Len(q) \in Nat /\ Len(r) \in Nat /\ q \o r \in Seq(MasterFn)
      /\ DOMAIN q = 1..Len(q) /\ DOMAIN r = 1..Len(r) /\ DOMAIN (q \o r) = 1..(Len(q) + Len(r))
      /\ \A i \in 1..Len(q) : (q \o r)[i] = q[i]
      /\ \A i \in (Len(q) + 1)..(Len(q) + Len(r)) : (q \o r)[i] = r[i - Len(q)]
  OBVIOUS
<1>2. ASSUME NEW i \in DOMAIN (q \o r), i > Len(q)
      PROVE  \E j \in DOMAIN r : (q \o r)[i] = r[j]
  <2>1. i \in (Len(q) + 1)..(Len(q) + Len(r)) /\ i - Len(q) \in DOMAIN r
    BY <1>1, <1>2
  <2> QED BY <1>1, <2>1
<1> QED BY <1>1, <1>2

(* One function is posted. *)
LEMMA AppendOne ==
  ASSUME NEW q \in Seq(MasterFn), NEW f \in MasterFn
  PROVE  /\ Append(q, f) \in Seq(MasterFn)
         /\ Append(q, f) = q \o <<f>>
         /\ <<f>> \in Seq(MasterFn) /\ DOMAIN <<f>> = {1} /\ <<f>>[1] = f
         /\ \A i \in DOMAIN Append(q, f) :
              Append(q, f)[i] = f \/ \E j \in DOMAIN q : Append(q, f)[i] = q[j]
OBVIOUS

LEMMA AppendOther ==
  ASSUME NEW q \in Seq(MasterFn), NEW f \in MasterFn, NEW n, NEW a, NEW c,
         ~About(f, n), Agrees(q, a, c, n)
  PROVE  Agrees(Append(q, f), a, c, n)
<1>1. \A i \in DOMAIN <<f>> : ~About(<<f>>[i], n)
  BY AppendOne
<1>2. Agrees(q \o <<f>>, a, c, n)
  BY <1>1, AppendOne, PostOther
<1> QED BY <1>2, AppendOne

LEMMA AppendAbout ==
  ASSUME NEW q \in Seq(MasterFn), NEW f \in MasterFn, NEW n, NEW a, About(f, n)
  PROVE  Agrees(Append(q, f), a, Given(f), n)
<1>1. /\ \E i \in DOMAIN <<f>> : About(<<f>>[i], n)
      /\ \A i \in DOMAIN <<f>> : Given(<<f>>[i]) = Given(f)
  BY AppendOne
<1>2. Agrees(q \o <<f>>, a, Given(f), n)
  BY <1>1, AppendOne, PostAbout
<1> QED BY <1>2, AppendOne

-----------------------------------------------------------------------------
(* The settings name finitely many nodes. *)
LEMMA FiniteNodes == IsFiniteSet(Nodes)
<1>1. /\ ClusterNodes \in [1..Len(ClusterNodes) -> Nodes]
      /\ Len(ClusterNodes) \in Nat
      /\ DOMAIN ClusterNodes = 1..Len(ClusterNodes)
  BY ClusterAssumption
<1>2. ClusterNodes \in Surjection(1..Len(ClusterNodes), Nodes)
  BY <1>1 DEF Surjection, Nodes
<1>3. IsFiniteSet(1..Len(ClusterNodes))
  BY <1>1, FS_Interval
<1> QED BY <1>2, <1>3, FS_Surjection

(* What the watch posts is about its nodes only, and takes each of them from
   the routers. *)
LEMMA ReconnectFacts ==
  ASSUME NEW S \in SUBSET Nodes, NEW q \in Orders(S)
  PROVE  /\ Reconnect(q) \in Seq(MasterFn)
         /\ \A i \in DOMAIN Reconnect(q) : Reconnect(q)[i].fn \in {"removeActiveNode", "addNode"}
         /\ \A n \in Nodes :
              /\ n \in S => \E i \in DOMAIN Reconnect(q) : About(Reconnect(q)[i], n)
              /\ \A i \in DOMAIN Reconnect(q) :
                   About(Reconnect(q)[i], n) => n \in S /\ Given(Reconnect(q)[i]) = None
<1> DEFINE k == Cardinality(S)
           r == Reconnect(q)
<1>1. k \in Nat
  BY FiniteNodes, FS_Subset, FS_CardinalityType
<1>2. /\ q \in [1..k -> S] /\ S = {q[i] : i \in 1..k}
      /\ q \in Seq(S) /\ Len(q) = k
  BY <1>1 DEF Orders
<1> HIDE DEF k
<1>3. DOMAIN r = 1..(2 * k) /\ 2 * k \in Nat
  BY <1>1, <1>2 DEF Reconnect
<1>4. ASSUME NEW i \in 1..(2 * k)
      PROVE  /\ (i + 1) \div 2 \in 1..k
             /\ r[i] \in NodeFn
             /\ r[i].fn \in {"removeActiveNode", "addNode"}
             /\ i % 2 = 1 => r[i].fn = "removeActiveNode"
             /\ r[i].n = q[(i + 1) \div 2]
  <2>1. (i + 1) \div 2 \in 1..k
    BY <1>1
  <2>2. r[i] = [fn |-> IF i % 2 = 1 THEN "removeActiveNode" ELSE "addNode",
                n |-> q[(i + 1) \div 2]]
    BY <1>2 DEF Reconnect
  <2>3. q[(i + 1) \div 2] \in Nodes
    BY <1>2, <2>1
  <2>4. CASE i % 2 = 1
    <3>1. r[i] = [fn |-> "removeActiveNode", n |-> q[(i + 1) \div 2]]
      BY <2>2, <2>4
    <3> QED BY <2>1, <2>3, <2>4, <3>1 DEF NodeFn
  <2>5. CASE i % 2 # 1
    <3>1. r[i] = [fn |-> "addNode", n |-> q[(i + 1) \div 2]]
      BY <2>2, <2>5
    <3> QED BY <2>1, <2>3, <2>5, <3>1 DEF NodeFn
  <2> QED BY <2>4, <2>5
<1> HIDE DEF r
<1>5. \A i \in 1..(2 * k) : r[i] \in NodeFn
  BY <1>4
<1>6. r \in Seq(MasterFn)
  <2>1. r = [i \in 1..(2 * k) |-> r[i]]
    BY <1>3 DEF r, Reconnect
  <2>2. r \in [1..(2 * k) -> MasterFn]
    BY <1>5, <2>1 DEF MasterFn
  <2> QED BY <1>3, <2>2
<1>7. ASSUME NEW i \in 1..(2 * k) PROVE r[i].fn \in {"removeActiveNode", "addNode"}
  BY <1>4
<1>8. ASSUME NEW n \in S PROVE \E i \in 1..(2 * k) : About(r[i], n)
  <2>1. PICK j \in 1..k : n = q[j]
    BY <1>2
  <2>2. /\ 2 * j - 1 \in 1..(2 * k)
        /\ (2 * j - 1) % 2 = 1
        /\ ((2 * j - 1) + 1) \div 2 = j
    BY <1>1
  <2>3. r[2 * j - 1].fn = "removeActiveNode" /\ r[2 * j - 1].n = n
    BY <1>4, <2>1, <2>2
  <2> QED BY <2>2, <2>3 DEF About
<1>9. ASSUME NEW n \in Nodes, NEW i \in 1..(2 * k), About(r[i], n)
      PROVE  n \in S /\ Given(r[i]) = None
  <2>1. r[i].n = n /\ r[i].n = q[(i + 1) \div 2] /\ r[i].fn # "addActiveNode"
    BY <1>4, <1>9 DEF About
  <2> QED BY <1>2, <1>4, <2>1 DEF Given
<1> QED BY <1>3, <1>6, <1>7, <1>8, <1>9 DEF r

-----------------------------------------------------------------------------
(* The inductive invariant. *)

(* The actor of a node is one of its own attempts, and is not deleted. *)
ActorsHeld ==
  \A n \in Nodes : actor_list[n] # None => /\ node[actor_list[n]] = n
                                           /\ hazard[actor_list[n]] = "held"

(* An attempt has an entry in the list of hazards, a node and possibly an
   open socket as long as it should. *)
EntriesKept ==
  \A w \in Attempts :
    /\ hazard[w] # "none" <=> connection[w] = "started"
    /\ connection[w] \in {"connecting", "started"} => node[w] \in Nodes
    /\ isOpen(w) => connection[w] = "started"

(* What has been deleted for long is out of reach. *)
InReach(w) == hazard[w] \in {"held", "deleted"}
AgedIsQuiet ==
  /\ \A w \in Attempts : reading[w] > 0 => InReach(w)
  /\ \A n \in Nodes : active_node_list[n] # None => InReach(active_node_list[n])
  /\ \A i \in DOMAIN master_queue :
       master_queue[i].fn = "addActiveNode" => InReach(master_queue[i].w)

Owned == ActorsHeld /\ EntriesKept /\ AgedIsQuiet
IInv  == TypeOK /\ Owned /\ ListsAgree /\ OpenIsCurrent

LEMMA InitInv == Init => IInv
<1> SUFFICES ASSUME Init PROVE IInv
  OBVIOUS
<1>1. /\ ClusterNodes \in Seq(Nodes) /\ Len(ClusterNodes) \in Nat
      /\ DOMAIN ClusterNodes = 1..Len(ClusterNodes)
      /\ \A i \in DOMAIN ClusterNodes : ClusterNodes[i] \in Nodes
  BY ClusterAssumption
<1>2. /\ master_queue \in Seq(MasterFn)
      /\ \A i \in DOMAIN master_queue : master_queue[i].fn = "addNode"
  <2>1. master_queue \in [1..Len(ClusterNodes) -> MasterFn]
    BY <1>1 DEF Init, MasterFn, NodeFn
  <2> QED BY <1>1, <2>1 DEF Init
<1>3. TypeOK
  <2>1. first_process \in [Attempts -> BOOLEAN]
    BY Zenon DEF Init
  <2>2. /\ connection \in [Attempts -> {"unused", "connecting", "started", "destroyed"}]
        /\ node \in [Attempts -> Nodes \cup {None}]
        /\ socket \in [Attempts -> {"open", "closed"}]
        /\ reading \in [Attempts -> Nat]
        /\ actor_list \in [Nodes -> Attempts \cup {None}]
        /\ hazard \in [Attempts -> {"none", "held", "deleted", "aged"}]
        /\ read_cnt \in [Attempts -> Int]
        /\ active_node_list \in [Nodes -> Attempts \cup {None}]
    BY DEF Init
  <2>3. node_list \in SUBSET Nodes /\ watch_mode \in BOOLEAN
    BY DEF Init
  <2> QED BY <1>2, <2>1, <2>2, <2>3 DEF TypeOK
<1>4. Owned
  BY <1>2 DEF Init, Owned, ActorsHeld, EntriesKept, AgedIsQuiet, isOpen
<1>5. ListsAgree
  BY <1>2 DEF Init, ListsAgree, About
<1>6. OpenIsCurrent
  BY DEF Init, OpenIsCurrent, isOpen
<1> QED BY <1>3, <1>4, <1>5, <1>6 DEF IInv

(* The fields of a posted function, and what taking the first one leaves. *)
LEMMA FnTypes ==
  ASSUME NEW f \in MasterFn
  PROVE  /\ f.fn \in {"addNode", "addNewNodeInfo", "removeActiveNode", "addActiveNode", "run"}
         /\ f.fn # "run" => f.n \in Nodes
         /\ f.fn = "addActiveNode" => f.w \in Attempts
BY DEF MasterFn, NodeFn

LEMMA PoppedFacts ==
  ASSUME TypeOK, master_queue # <<>>
  PROVE  /\ Head(master_queue) \in MasterFn
         /\ 1 \in DOMAIN master_queue /\ Head(master_queue) = master_queue[1]
         /\ Popped \in Seq(MasterFn)
         /\ \A i \in DOMAIN Popped : \E j \in DOMAIN master_queue : Popped[i] = master_queue[j]
<1>1. /\ master_queue \in Seq(MasterFn) /\ Len(master_queue) \in Nat /\ Len(master_queue) > 0
      /\ DOMAIN master_queue = 1..Len(master_queue)
      /\ Tail(master_queue) \in Seq(MasterFn)
      /\ DOMAIN Tail(master_queue) = 1..(Len(master_queue) - 1)
      /\ \A i \in 1..(Len(master_queue) - 1) : Tail(master_queue)[i] = master_queue[i + 1]
  BY DEF TypeOK
<1>2. Head(master_queue) = master_queue[1] /\ 1 \in DOMAIN master_queue
  BY <1>1
<1>3. ASSUME NEW i \in DOMAIN Popped
      PROVE  \E j \in DOMAIN master_queue : Popped[i] = master_queue[j]
  <2>1. i + 1 \in DOMAIN master_queue /\ Popped[i] = master_queue[i + 1]
    BY <1>1 DEF Popped
  <2> QED BY <2>1
<1> QED BY <1>1, <1>2, <1>3 DEF Popped

-----------------------------------------------------------------------------
(* One lemma for each action. *)
LEMMA AddNodeStep == IInv /\ addNode => IInv'
<1> SUFFICES ASSUME IInv, addNode PROVE IInv'
  OBVIOUS
<1> USE DEF IInv
<1> DEFINE n == Head(master_queue).n
           f == [fn |-> "addNewNodeInfo", n |-> n]
<1>1. /\ n \in Nodes /\ f \in MasterFn /\ f.fn = "addNewNodeInfo"
      /\ master_queue # <<>> /\ Popped \in Seq(MasterFn)
      /\ \A i \in DOMAIN Popped : \E j \in DOMAIN master_queue : Popped[i] = master_queue[j]
  BY PoppedFacts, FnTypes DEF addNode, Posted, MasterFn, NodeFn
<1>2. master_queue' = Append(Popped, f)
  BY DEF addNode
<1> HIDE DEF f, n
<1>3. /\ master_queue' \in Seq(MasterFn)
      /\ \A i \in DOMAIN master_queue' :
           \/ master_queue'[i] = f
           \/ \E j \in DOMAIN master_queue : master_queue'[i] = master_queue[j]
  BY <1>1, <1>2, AppendOne
<1>4. \/ \E w \in Attempts : /\ connection[w] = "unused"
                             /\ connection' = [connection EXCEPT ![w] = "connecting"]
                             /\ node' = [node EXCEPT ![w] = n]
      \/ UNCHANGED <<connection, node>>
  BY DEF addNode, n
<1>5. /\ UNCHANGED <<socket, reading, actor_vars, list_vars, watch_mode>>
  BY DEF addNode
<1>6. TypeOK'
  BY <1>1, <1>3, <1>4, <1>5 DEF TypeOK, actor_vars, list_vars
<1>7. EntriesKept'
  BY <1>1, <1>4, <1>5 DEF TypeOK, Owned, EntriesKept, isOpen, actor_vars
<1>8. \A w \in Attempts : hazard[w] # "none" => node'[w] = node[w]
  BY <1>4 DEF TypeOK, Owned, EntriesKept
<1>9. ActorsHeld'
  BY <1>5, <1>8 DEF TypeOK, Owned, ActorsHeld, actor_vars
<1>10. AgedIsQuiet'
  BY <1>1, <1>3, <1>5 DEF Owned, AgedIsQuiet, InReach, actor_vars, list_vars
<1>11. ListsAgree'
  <2> SUFFICES ASSUME NEW m \in Nodes
               PROVE  Agrees(master_queue', active_node_list[m], actor_list[m], m)
    BY <1>5, ListsAgreeDef DEF ListsAgree, Agrees, actor_vars, list_vars
  <2>1. Agrees(Popped, active_node_list[m], actor_list[m], m)
    <3>1. ~About(Head(master_queue), m)
      BY DEF addNode, Posted, About
    <3>2. Agrees(master_queue, active_node_list[m], actor_list[m], m)
          /\ master_queue \in Seq(MasterFn)
      BY ListsAgreeDef DEF TypeOK
    <3> QED BY <1>1, <3>1, <3>2, PopOther DEF Popped
  <2>2. ~About(f, m)
    BY <1>1 DEF About
  <2> QED BY <1>1, <1>2, <2>1, <2>2, AppendOther
<1>12. OpenIsCurrent'
  BY <1>5, <1>8 DEF Owned, EntriesKept, OpenIsCurrent, isOpen, actor_vars
<1> QED BY <1>6, <1>7, <1>9, <1>10, <1>11, <1>12 DEF Owned

LEMMA AddNewNodeInfoStep == IInv /\ addNewNodeInfo => IInv'
<1> SUFFICES ASSUME IInv, addNewNodeInfo PROVE IInv'
  OBVIOUS
<1> USE DEF IInv
<1>1. /\ Head(master_queue).n \in Nodes
      /\ master_queue # <<>> /\ Popped \in Seq(MasterFn) /\ master_queue' = Popped
      /\ \A i \in DOMAIN Popped : \E j \in DOMAIN master_queue : Popped[i] = master_queue[j]
  BY PoppedFacts, FnTypes DEF addNewNodeInfo, Posted
<1>2. UNCHANGED <<attempt_vars, actor_vars, active_node_list, watch_mode>>
  BY DEF addNewNodeInfo
<1>3. TypeOK'
  BY <1>1, <1>2 DEF TypeOK, addNewNodeInfo, attempt_vars, actor_vars
<1>4. Owned'
  BY <1>1, <1>2 DEF Owned, ActorsHeld, EntriesKept, AgedIsQuiet, InReach, isOpen, attempt_vars,
                    actor_vars
<1>5. ListsAgree'
  <2> SUFFICES ASSUME NEW m \in Nodes
               PROVE  Agrees(master_queue', active_node_list[m], actor_list[m], m)
    BY <1>2 DEF ListsAgree, Agrees, actor_vars
  <2>1. ~About(Head(master_queue), m)
    BY DEF addNewNodeInfo, Posted, About
  <2>2. Agrees(master_queue, active_node_list[m], actor_list[m], m)
        /\ master_queue \in Seq(MasterFn)
    BY ListsAgreeDef DEF TypeOK
  <2> QED BY <1>1, <2>1, <2>2, PopOther DEF Popped
<1>6. OpenIsCurrent'
  BY <1>2 DEF OpenIsCurrent, isOpen, attempt_vars, actor_vars
<1> QED BY <1>3, <1>4, <1>5, <1>6

(* addActiveNode and removeActiveNode. *)
LEMMA ActiveNodeStep == IInv /\ (addActiveNode \/ removeActiveNode) => IInv'
<1> SUFFICES ASSUME IInv, addActiveNode \/ removeActiveNode PROVE IInv'
  OBVIOUS
<1> USE DEF IInv
<1> DEFINE f == Head(master_queue)
<1>1. /\ f \in MasterFn /\ f.fn \in {"addActiveNode", "removeActiveNode"}
      /\ f.n \in Nodes /\ Given(f) \in Attempts \cup {None}
      /\ 1 \in DOMAIN master_queue /\ f = master_queue[1]
      /\ master_queue # <<>> /\ Popped \in Seq(MasterFn) /\ master_queue' = Popped
      /\ \A i \in DOMAIN Popped : \E j \in DOMAIN master_queue : Popped[i] = master_queue[j]
  BY PoppedFacts, FnTypes DEF addActiveNode, removeActiveNode, Posted, Given
<1>2. /\ active_node_list' = [active_node_list EXCEPT ![f.n] = Given(f)]
      /\ UNCHANGED <<attempt_vars, actor_vars, node_list, watch_mode>>
  BY DEF addActiveNode, removeActiveNode, Posted, Given
<1> HIDE DEF f
<1>3. TypeOK'
  BY <1>1, <1>2 DEF TypeOK, attempt_vars, actor_vars
<1>4. ActorsHeld' /\ EntriesKept'
  BY <1>2 DEF Owned, ActorsHeld, EntriesKept, isOpen, attempt_vars, actor_vars
<1>5. AgedIsQuiet'
  <2>1. Given(f) # None => InReach(Given(f))
    BY <1>1 DEF Given, Owned, AgedIsQuiet
  <2>2. \A n \in Nodes : active_node_list'[n] # None => InReach(active_node_list'[n])
    BY <1>1, <1>2, <2>1 DEF TypeOK, Owned, AgedIsQuiet
  <2> QED BY <1>1, <1>2, <2>2 DEF Owned, AgedIsQuiet, InReach, attempt_vars, actor_vars
<1>6. ListsAgree'
  <2> SUFFICES ASSUME NEW m \in Nodes
               PROVE  Agrees(Popped, active_node_list'[m], actor_list[m], m)
    BY <1>1, <1>2 DEF ListsAgree, Agrees, actor_vars
  <2>1. Agrees(master_queue, active_node_list[m], actor_list[m], m) /\ master_queue \in Seq(MasterFn)
    BY ListsAgreeDef DEF TypeOK
  <2>2. CASE m = f.n
    <3>1. About(f, m) /\ active_node_list'[m] = Given(f)
      BY <1>1, <1>2, <2>2 DEF About, TypeOK
    <3> QED BY <1>1, <2>1, <3>1, PopAbout DEF f, Popped
  <2>3. CASE m # f.n
    <3>1. ~About(f, m) /\ active_node_list'[m] = active_node_list[m]
      BY <1>2, <2>3 DEF About, TypeOK
    <3> QED BY <1>1, <2>1, <3>1, PopOther DEF f, Popped
  <2> QED BY <2>2, <2>3
<1>7. OpenIsCurrent'
  BY <1>2 DEF OpenIsCurrent, isOpen, attempt_vars, actor_vars
<1> QED BY <1>3, <1>4, <1>5, <1>6, <1>7 DEF Owned


(* Reads of the actors' connections: what a callback may do to them. *)
LEMMA ReadStep == IInv /\ (\E w \in Attempts : ReadData(w) \/ ReadError(w)) => IInv'
<1> SUFFICES ASSUME IInv, NEW w \in Attempts, ReadData(w) \/ ReadError(w) PROVE IInv'
  OBVIOUS
<1> USE DEF IInv
<1> DEFINE a == actor_list[node[w]]
<1>1. UNCHANGED <<connection, node, actor_list, hazard, first_process, list_vars, watch_mode,
                  master_queue>>
  BY DEF ReadData, ReadError
<1>2. /\ reading[w] > 0 /\ reading[w] \in Nat /\ InReach(w) /\ node[w] \in Nodes
      /\ a \in Attempts \cup {None}
      /\ a # None => hazard[a] = "held"
  BY DEF ReadData, ReadError, TypeOK, Owned, ActorsHeld, EntriesKept, AgedIsQuiet, InReach
<1> HIDE DEF a
<1>3. /\ reading' \in [Attempts -> Nat]
      /\ \A v \in Attempts : reading'[v] > 0 => reading[v] > 0 \/ (v = a /\ a # None)
  <2> DEFINE rest == [reading EXCEPT ![w] = @ - 1]
  <2>1. /\ rest \in [Attempts -> Nat]
        /\ \A v \in Attempts : rest[v] > 0 => reading[v] > 0
    BY <1>2 DEF TypeOK
  <2>2. \/ reading' = rest
        \/ a # None /\ reading' = [rest EXCEPT ![a] = @ + 1]
    BY DEF ReadData, ReadError, a
  <2> HIDE DEF rest
  <2> QED BY <1>2, <2>1, <2>2
<1>4. read_cnt' \in [Attempts -> Int]
  BY <1>2 DEF ReadData, ReadError, TypeOK, a
<1>5. /\ socket' \in [Attempts -> {"open", "closed"}]
      /\ \A v \in Attempts : socket'[v] = "open" => socket[v] = "open"
  BY DEF ReadData, ReadError, TypeOK
<1>6. TypeOK'
  BY <1>1, <1>3, <1>4, <1>5 DEF TypeOK, list_vars
<1>7. ActorsHeld' /\ EntriesKept'
  BY <1>1, <1>5 DEF Owned, ActorsHeld, EntriesKept, isOpen
<1>8. AgedIsQuiet'
  BY <1>1, <1>2, <1>3 DEF Owned, AgedIsQuiet, InReach, list_vars
<1>9. ListsAgree'
  BY <1>1 DEF ListsAgree, list_vars
<1>10. OpenIsCurrent'
  BY <1>1, <1>5 DEF OpenIsCurrent, isOpen
<1> QED BY <1>6, <1>7, <1>8, <1>9, <1>10 DEF Owned

(* What leaves the lists and their connections alone. *)
LEMMA QuietStep ==
  IInv /\ (PostRun \/ setWatchMode \/ \E w \in Attempts : Age(w) \/ ConnectError(w)) => IInv'
<1> USE DEF IInv
<1>1. ASSUME IInv, PostRun PROVE IInv'
  <2> DEFINE f == [fn |-> "run"]
  <2>1. f \in MasterFn /\ master_queue \in Seq(MasterFn) /\ master_queue' = Append(master_queue, f)
    BY <1>1 DEF PostRun, MasterFn, TypeOK
  <2>2. f.fn = "run"
    OBVIOUS
  <2> HIDE DEF f
  <2>3. /\ master_queue' \in Seq(MasterFn)
        /\ \A i \in DOMAIN master_queue' :
             \/ master_queue'[i] = f
             \/ \E j \in DOMAIN master_queue : master_queue'[i] = master_queue[j]
    BY <2>1, AppendOne
  <2>4. UNCHANGED <<attempt_vars, actor_vars, list_vars, watch_mode>>
    BY <1>1 DEF PostRun
  <2>5. TypeOK'
    BY <1>1, <2>3, <2>4 DEF TypeOK, attempt_vars, actor_vars, list_vars
  <2>6. Owned'
    BY <1>1, <2>2, <2>3, <2>4 DEF Owned, ActorsHeld, EntriesKept, AgedIsQuiet, InReach, isOpen,
                                  attempt_vars, actor_vars, list_vars
  <2>7. ListsAgree'
    <3> SUFFICES ASSUME NEW m \in Nodes
                 PROVE  Agrees(master_queue', active_node_list[m], actor_list[m], m)
      BY <2>4 DEF ListsAgree, Agrees, actor_vars, list_vars
    <3>1. Agrees(master_queue, active_node_list[m], actor_list[m], m) /\ ~About(f, m)
      BY <1>1, <2>2, ListsAgreeDef DEF About
    <3> QED BY <2>1, <3>1, AppendOther
  <2>8. OpenIsCurrent'
    BY <1>1, <2>4 DEF OpenIsCurrent, isOpen, attempt_vars, actor_vars
  <2> QED BY <2>5, <2>6, <2>7, <2>8
<1>2. ASSUME IInv, setWatchMode PROVE IInv'
  BY <1>2 DEF setWatchMode, TypeOK, Owned, ActorsHeld, EntriesKept, AgedIsQuiet, InReach, isOpen,
              ListsAgree, OpenIsCurrent, attempt_vars, actor_vars, list_vars
<1>3. ASSUME IInv, NEW w \in Attempts, Age(w) PROVE IInv'
  <2>1. /\ hazard[w] = "deleted" /\ master_queue = <<>> /\ reading[w] = 0
        /\ hazard' = [hazard EXCEPT ![w] = "aged"]
        /\ UNCHANGED <<attempt_vars, actor_list, first_process, read_cnt, list_vars, watch_mode,
                       master_queue>>
    BY <1>3 DEF Age
  <2>2. \A n \in Nodes : actor_list[n] # w /\ active_node_list[n] = actor_list[n]
    <3>1. \A i \in DOMAIN master_queue : FALSE
      BY <2>1
    <3>2. \A n \in Nodes : active_node_list[n] = actor_list[n]
      BY <1>3, <3>1 DEF ListsAgree
    <3>3. \A n \in Nodes : actor_list[n] # w
      BY <1>3, <2>1, ClusterAssumption DEF Owned, ActorsHeld
    <3> QED BY <3>2, <3>3
  <2>3. \A v \in Attempts : v # w => hazard'[v] = hazard[v]
    BY <1>3, <2>1 DEF TypeOK
  <2>4. TypeOK'
    BY <1>3, <2>1 DEF TypeOK, attempt_vars, list_vars
  <2>5. Owned'
    BY <1>3, <2>1, <2>2, <2>3 DEF TypeOK, Owned, ActorsHeld, EntriesKept, AgedIsQuiet, InReach,
                                  isOpen, attempt_vars, list_vars
  <2>6. ListsAgree' /\ OpenIsCurrent'
    BY <1>3, <2>1 DEF ListsAgree, OpenIsCurrent, isOpen, attempt_vars, list_vars
  <2> QED BY <2>4, <2>5, <2>6
<1>4. ASSUME IInv, NEW w \in Attempts, ConnectError(w) PROVE IInv'
  <2>1. /\ connection[w] = "connecting"
        /\ connection' = [connection EXCEPT ![w] = "destroyed"]
        /\ UNCHANGED <<node, socket, reading, actor_vars, list_vars, watch_mode, master_queue>>
    BY <1>4 DEF ConnectError
  <2>2. TypeOK'
    BY <1>4, <2>1 DEF TypeOK, actor_vars, list_vars
  <2>3. Owned'
    BY <1>4, <2>1 DEF TypeOK, Owned, ActorsHeld, EntriesKept, AgedIsQuiet, InReach, isOpen,
                      actor_vars, list_vars
  <2>4. ListsAgree' /\ OpenIsCurrent'
    BY <1>4, <2>1 DEF ListsAgree, OpenIsCurrent, isOpen, actor_vars, list_vars
  <2> QED BY <2>2, <2>3, <2>4
<1> QED BY <1>1, <1>2, <1>3, <1>4


(* The watch. *)
LEMMA RunStep == IInv /\ run => IInv'
<1> SUFFICES ASSUME IInv, run PROVE IInv'
  OBVIOUS
<1> USE DEF IInv
<1>1. /\ master_queue # <<>> /\ Popped \in Seq(MasterFn)
      /\ \A i \in DOMAIN Popped : \E j \in DOMAIN master_queue : Popped[i] = master_queue[j]
      /\ master_queue \in Seq(MasterFn)
      /\ \A n : ~About(Head(master_queue), n)
  BY PoppedFacts DEF run, Posted, TypeOK, About
<1>2. PICK q \in Orders(Watched) : master_queue' = Popped \o Reconnect(q)
  BY DEF run
<1>3. Watched \in SUBSET Nodes
  BY DEF Watched, TypeOK
<1> DEFINE r == Reconnect(q)
<1>4. /\ r \in Seq(MasterFn)
      /\ \A i \in DOMAIN r : r[i].fn \in {"removeActiveNode", "addNode"}
      /\ \A n \in Nodes :
           /\ n \in Watched => \E i \in DOMAIN r : About(r[i], n)
           /\ \A i \in DOMAIN r : About(r[i], n) => n \in Watched /\ Given(r[i]) = None
  BY <1>3, ReconnectFacts
<1> HIDE DEF r
<1>5. /\ master_queue' \in Seq(MasterFn)
      /\ \A i \in DOMAIN master_queue' :
           \/ master_queue'[i].fn # "addActiveNode"
           \/ \E j \in DOMAIN master_queue : master_queue'[i] = master_queue[j]
  <2>1. master_queue' = Popped \o r
    BY <1>2 DEF r
  <2>2. ASSUME NEW i \in DOMAIN master_queue'
        PROVE  \/ \E j \in DOMAIN Popped : master_queue'[i] = Popped[j]
               \/ \E j \in DOMAIN r : master_queue'[i] = r[j]
    BY <1>1, <1>4, <2>1, <2>2, ConcatFacts
  <2>3. master_queue' \in Seq(MasterFn)
    BY <1>1, <1>4, <2>1, ConcatFacts
  <2> QED BY <1>1, <1>4, <2>2, <2>3
<1>6. /\ actor_list' = [n \in Nodes |-> IF n \in Watched THEN None ELSE actor_list[n]]
      /\ hazard' = [w \in Attempts |-> IF \E n \in Watched : actor_list[n] = w THEN "deleted"
                                       ELSE IF w \in Erasable THEN "none" ELSE hazard[w]]
      /\ connection' = [w \in Attempts |-> IF w \in Erasable THEN "destroyed" ELSE connection[w]]
      /\ UNCHANGED <<node, socket, reading, first_process, read_cnt, list_vars, watch_mode>>
  BY DEF run
<1>7. TypeOK'
  BY <1>5, <1>6 DEF TypeOK, list_vars
<1>8. \A n \in Nodes : actor_list[n] # None =>
        /\ actor_list[n] \in Attempts /\ hazard[actor_list[n]] = "held"
        /\ node[actor_list[n]] = n
  BY DEF TypeOK, Owned, ActorsHeld
<1>9. \A w \in Attempts :
        /\ InReach(w) => hazard'[w] \in {"held", "deleted"}
        /\ hazard'[w] # hazard[w] => \/ w \in Erasable /\ hazard[w] = "aged" /\ hazard'[w] = "none"
                                    \/ /\ hazard[w] = "held" /\ hazard'[w] = "deleted"
                                       /\ \E n \in Watched : actor_list[n] = w
  <2> SUFFICES ASSUME NEW w \in Attempts
               PROVE  /\ InReach(w) => hazard'[w] \in {"held", "deleted"}
                      /\ hazard'[w] # hazard[w] =>
                           \/ w \in Erasable /\ hazard[w] = "aged" /\ hazard'[w] = "none"
                           \/ /\ hazard[w] = "held" /\ hazard'[w] = "deleted"
                              /\ \E n \in Watched : actor_list[n] = w
    OBVIOUS
  <2>1. CASE \E n \in Watched : actor_list[n] = w
    <3>1. hazard[w] = "held"
      BY <1>3, <1>8, <2>1, ClusterAssumption
    <3>2. hazard'[w] = "deleted"
      BY <1>6, <2>1
    <3> QED BY <2>1, <3>1, <3>2
  <2>2. CASE (~ \E n \in Watched : actor_list[n] = w) /\ w \in Erasable
    <3>1. hazard[w] = "aged"
      BY <2>2 DEF Erasable
    <3>2. hazard'[w] = "none"
      BY <1>6, <2>2
    <3> QED BY <2>2, <3>1, <3>2 DEF InReach
  <2>3. CASE (~ \E n \in Watched : actor_list[n] = w) /\ w \notin Erasable
    <3>1. hazard'[w] = hazard[w]
      BY <1>6, <2>3
    <3> QED BY <3>1 DEF InReach
  <2> QED BY <2>1, <2>2, <2>3
<1>10. ActorsHeld'
  <2> SUFFICES ASSUME NEW n \in Nodes, actor_list'[n] # None
               PROVE  node[actor_list'[n]] = n /\ hazard'[actor_list'[n]] = "held"
    BY <1>6 DEF ActorsHeld
  <2>1. n \notin Watched /\ actor_list'[n] = actor_list[n]
    BY <1>6
  <2>2. \A m \in Watched : actor_list[m] # actor_list[n]
    BY <1>3, <1>8, <2>1
  <2> QED BY <1>8, <1>9, <2>1, <2>2
<1>11. EntriesKept'
  <2>1. \A w \in Erasable : hazard[w] = "aged" /\ ~isOpen(w)
    BY DEF Erasable
  <2>2. \A w \in Attempts : w \in Erasable => hazard'[w] = "none"
    BY <1>3, <1>6, <1>8, <2>1, ClusterAssumption
  <2> QED BY <1>6, <1>9, <2>1, <2>2 DEF TypeOK, Owned, EntriesKept, isOpen
<1>12. AgedIsQuiet'
  <2>1. \A w \in Attempts : reading[w] > 0 => hazard'[w] \in {"held", "deleted"}
    BY <1>9 DEF Owned, AgedIsQuiet
  <2>2. \A n \in Nodes : active_node_list[n] # None
                           => hazard'[active_node_list[n]] \in {"held", "deleted"}
    BY <1>9 DEF TypeOK, Owned, AgedIsQuiet
  <2>3. ASSUME NEW i \in DOMAIN master_queue', master_queue'[i].fn = "addActiveNode"
        PROVE  hazard'[master_queue'[i].w] \in {"held", "deleted"}
    <3>1. master_queue'[i] \in MasterFn
      BY <1>5
    <3>2. \E j \in DOMAIN master_queue : master_queue'[i] = master_queue[j]
      BY <1>5, <2>3
    <3> QED BY <1>9, <2>3, <3>1, <3>2, FnTypes DEF Owned, AgedIsQuiet
  <2> QED BY <1>6, <2>1, <2>2, <2>3 DEF AgedIsQuiet, InReach, list_vars
<1>13. ListsAgree'
  <2> SUFFICES ASSUME NEW n \in Nodes
               PROVE  Agrees(Popped \o r, active_node_list[n], actor_list'[n], n)
    BY <1>2, <1>6 DEF ListsAgree, Agrees, list_vars, r
  <2>1. CASE n \in Watched
    <3>1. actor_list'[n] = None
      BY <1>6, <2>1
    <3> QED BY <1>1, <1>4, <2>1, <3>1, PostAbout
  <2>2. CASE n \notin Watched
    <3>1. actor_list'[n] = actor_list[n]
      BY <1>6, <2>2
    <3>2. Agrees(Popped, active_node_list[n], actor_list[n], n)
      BY <1>1, ListsAgreeDef, PopOther DEF Popped
    <3> QED BY <1>1, <1>4, <2>2, <3>1, <3>2, PostOther
  <2> QED BY <2>1, <2>2
<1>14. OpenIsCurrent'
  <2> SUFFICES ASSUME NEW w \in Attempts, isOpen(w) PROVE actor_list'[node[w]] = w
    BY <1>6 DEF OpenIsCurrent, isOpen
  <2>1. actor_list[node[w]] = w /\ node[w] \in Nodes
    BY DEF OpenIsCurrent, Owned, EntriesKept
  <2>2. node[w] \notin Watched
    BY <2>1, ClusterAssumption DEF Watched, ToConnect
  <2> QED BY <1>6, <2>1, <2>2
<1> QED BY <1>7, <1>10, <1>11, <1>12, <1>13, <1>14 DEF Owned

(* A connection starts. *)
LEMMA StartStep == IInv /\ (\E w \in Attempts : onStart(w)) => IInv'
<1> SUFFICES ASSUME IInv, NEW w \in Attempts, onStart(w) PROVE IInv'
  OBVIOUS
<1> USE DEF IInv
<1> DEFINE n   == node[w]
           old == actor_list[n]
           f   == [fn |-> "addActiveNode", n |-> n, w |-> w]
<1>1. /\ connection[w] = "connecting" /\ n \in Nodes /\ hazard[w] = "none" /\ ~isOpen(w)
      /\ old \in Attempts \cup {None} /\ old # w
      /\ old # None => node[old] = n
  <2>1. connection[w] = "connecting" /\ n \in Nodes /\ hazard[w] = "none" /\ ~isOpen(w)
    BY DEF onStart, Owned, EntriesKept
  <2>2. /\ old \in Attempts \cup {None}
        /\ old # None => node[old] = n /\ hazard[old] = "held"
    BY <2>1 DEF TypeOK, Owned, ActorsHeld
  <2> QED BY <2>1, <2>2, ClusterAssumption
<1>2. f \in MasterFn /\ About(f, n) /\ Given(f) = w /\ (\A m : m # n => ~About(f, m))
      /\ f.fn = "addActiveNode" /\ f.w = w
  BY <1>1 DEF MasterFn, About, Given
<1>0. PICK o \in {"open", "closed"} :
        socket' = [v \in Attempts |-> IF v = w THEN o
                                       ELSE IF v = old THEN "closed" ELSE socket[v]]
  BY DEF onStart
<1>3. /\ connection' = [connection EXCEPT ![w] = "started"]
      /\ master_queue' = Append(master_queue, f)
      /\ actor_list' = [actor_list EXCEPT ![n] = w]
      /\ socket' = [v \in Attempts |-> IF v = w THEN o
                                       ELSE IF v = old THEN "closed" ELSE socket[v]]
      /\ hazard' = [v \in Attempts |-> IF v = w THEN "held"
                                       ELSE IF v = old THEN "deleted" ELSE hazard[v]]
      /\ read_cnt' = [read_cnt EXCEPT ![w] = @ + 1]
      /\ reading' = [reading EXCEPT ![w] = @ + 1]
      /\ UNCHANGED <<node, list_vars, watch_mode>>
  BY <1>0 DEF onStart
<1>4. first_process' \in [Attempts -> BOOLEAN]
  BY DEF onStart, TypeOK
<1> HIDE DEF f, old, n
<1>5. /\ master_queue' \in Seq(MasterFn)
      /\ \A i \in DOMAIN master_queue' :
           \/ master_queue'[i] = f
           \/ \E j \in DOMAIN master_queue : master_queue'[i] = master_queue[j]
  BY <1>2, <1>3, AppendOne DEF TypeOK
<1>6. TypeOK'
  <2>1. /\ connection' \in [Attempts -> {"unused", "connecting", "started", "destroyed"}]
        /\ socket' \in [Attempts -> {"open", "closed"}]
        /\ reading' \in [Attempts -> Nat]
        /\ actor_list' \in [Nodes -> Attempts \cup {None}]
    BY <1>1, <1>3 DEF TypeOK
  <2>2. hazard' \in [Attempts -> {"none", "held", "deleted", "aged"}]
    BY <1>3 DEF TypeOK
  <2>3. read_cnt' \in [Attempts -> Int]
    BY <1>3 DEF TypeOK
  <2>4. /\ node' \in [Attempts -> Nodes \cup {None}]
        /\ active_node_list' \in [Nodes -> Attempts \cup {None}]
        /\ node_list' \in SUBSET Nodes
        /\ watch_mode' \in BOOLEAN
    BY <1>3 DEF TypeOK, list_vars
  <2> QED BY <1>4, <1>5, <2>1, <2>2, <2>3, <2>4 DEF TypeOK
<1>7. old # None => hazard[old] = "held"
  BY <1>1 DEF Owned, ActorsHeld, old
<1>8. ActorsHeld'
  <2> SUFFICES ASSUME NEW m \in Nodes, actor_list'[m] # None
               PROVE  node[actor_list'[m]] = m /\ hazard'[actor_list'[m]] = "held"
    BY <1>3 DEF ActorsHeld
  <2>1. CASE m = n
    BY <1>1, <1>3, <2>1 DEF TypeOK, n
  <2>2. CASE m # n
    <3>1. actor_list'[m] = actor_list[m] /\ actor_list[m] \in Attempts
      BY <1>3, <2>2 DEF TypeOK
    <3>2. node[actor_list[m]] = m /\ hazard[actor_list[m]] = "held"
      BY <3>1 DEF Owned, ActorsHeld
    <3>3. actor_list[m] # old /\ actor_list[m] # w
      BY <1>1, <2>2, <3>1, <3>2
    <3> QED BY <1>3, <3>1, <3>2, <3>3
  <2> QED BY <2>1, <2>2
<1>9. EntriesKept'
  <2> SUFFICES ASSUME NEW v \in Attempts
               PROVE  /\ hazard'[v] # "none" <=> connection'[v] = "started"
                      /\ connection'[v] \in {"connecting", "started"} => node[v] \in Nodes
                      /\ socket'[v] = "open" => connection'[v] = "started"
    BY <1>3 DEF EntriesKept, isOpen
  <2>1. CASE v = w
    BY <1>1, <1>3, <2>1 DEF TypeOK, n
  <2>2. CASE v # w
    <3>1. connection'[v] = connection[v] /\ (socket'[v] = "open" => isOpen(v))
      BY <1>3, <2>2 DEF TypeOK, isOpen
    <3>2. hazard'[v] # "none" <=> hazard[v] # "none"
      BY <1>3, <1>7, <2>2, ClusterAssumption
    <3> QED BY <3>1, <3>2 DEF Owned, EntriesKept
  <2> QED BY <2>1, <2>2
<1>10. AgedIsQuiet'
  <2>1. \A v \in Attempts : InReach(v) \/ v = w => hazard'[v] \in {"held", "deleted"}
    BY <1>3 DEF InReach
  <2>2. \A v \in Attempts : reading'[v] > 0 => reading[v] > 0 \/ v = w
    BY <1>3 DEF TypeOK
  <2>3. \A v \in Attempts : reading'[v] > 0 => hazard'[v] \in {"held", "deleted"}
    BY <2>1, <2>2 DEF Owned, AgedIsQuiet
  <2>4. \A m \in Nodes : active_node_list[m] # None
                           => hazard'[active_node_list[m]] \in {"held", "deleted"}
    BY <2>1 DEF TypeOK, Owned, AgedIsQuiet
  <2>5. ASSUME NEW i \in DOMAIN master_queue', master_queue'[i].fn = "addActiveNode"
        PROVE  hazard'[master_queue'[i].w] \in {"held", "deleted"}
    <3>1. master_queue'[i] \in MasterFn
      BY <1>5
    <3> QED BY <1>2, <1>5, <2>1, <2>5, <3>1, FnTypes DEF Owned, AgedIsQuiet
  <2> QED BY <1>3, <2>3, <2>4, <2>5 DEF AgedIsQuiet, InReach, list_vars
<1>11. ListsAgree'
  <2> SUFFICES ASSUME NEW m \in Nodes
               PROVE  Agrees(master_queue', active_node_list[m], actor_list'[m], m)
    BY <1>3 DEF ListsAgree, Agrees, list_vars
  <2>1. CASE m = n
    <3>1. actor_list'[m] = Given(f)
      BY <1>1, <1>2, <1>3, <2>1 DEF TypeOK
    <3> QED BY <1>2, <1>3, <2>1, <3>1, AppendAbout DEF TypeOK
  <2>2. CASE m # n
    <3>1. actor_list'[m] = actor_list[m] /\ ~About(f, m)
      BY <1>2, <1>3, <2>2 DEF TypeOK
    <3>2. Agrees(master_queue, active_node_list[m], actor_list[m], m)
          /\ master_queue \in Seq(MasterFn)
      BY ListsAgreeDef DEF TypeOK
    <3> QED BY <1>2, <1>3, <3>1, <3>2, AppendOther
  <2> QED BY <2>1, <2>2
<1>12. OpenIsCurrent'
  <2> SUFFICES ASSUME NEW v \in Attempts, socket'[v] = "open" PROVE actor_list'[node[v]] = v
    BY <1>3 DEF OpenIsCurrent, isOpen
  <2>1. CASE v = w
    BY <1>1, <1>3, <2>1 DEF TypeOK, n
  <2>2. CASE v # w
    <3>1. v # old /\ isOpen(v)
      BY <1>3, <2>2 DEF isOpen
    <3>2. actor_list[node[v]] = v /\ node[v] \in Nodes
      BY <3>1 DEF OpenIsCurrent, Owned, EntriesKept
    <3>3. node[v] # n
      BY <3>1, <3>2 DEF old
    <3> QED BY <1>3, <3>2, <3>3 DEF TypeOK
  <2> QED BY <2>1, <2>2
<1> QED BY <1>6, <1>8, <1>9, <1>10, <1>11, <1>12 DEF Owned

-----------------------------------------------------------------------------
(* The invariant, for every execution. *)
THEOREM ClusterInvariance == Spec => []IInv
<1>1. IInv /\ UNCHANGED vars => IInv'
  BY DEF IInv, TypeOK, Owned, ActorsHeld, EntriesKept, AgedIsQuiet, InReach, isOpen, ListsAgree,
         OpenIsCurrent, vars, attempt_vars, actor_vars, list_vars
<1>2. IInv /\ Next => IInv'
  BY AddNodeStep, AddNewNodeInfoStep, ActiveNodeStep, ReadStep, QuietStep, RunStep, StartStep
     DEF Next, Master
<1> QED BY <1>1, <1>2, InitInv, PTL DEF Spec

(* Every variable keeps its type, whatever the nodes and the network do. *)
THEOREM ClusterTypeCorrect == Spec => []TypeOK
<1>1. IInv => TypeOK
  BY DEF IInv
<1> QED BY <1>1, ClusterInvariance, PTL

(* When the queue has run, the routers know the actors' connections
   (ClusterNodeDelegate::onStart, Cluster::run). *)
THEOREM RoutersFollowActors == Spec => []ListsAgree
<1>1. IInv => ListsAgree
  BY DEF IInv
<1> QED BY <1>1, ClusterInvariance, PTL

(* The routers' pointers, those in the queue included, are to connections
   that have not been deleted (SimpleRandomRouter::getNode). *)
THEOREM RoutersNeverDangle == Spec => []NoDangling
<1>1. IInv => NoDangling
  <2> SUFFICES ASSUME IInv PROVE NoDangling
    OBVIOUS
  <2>1. \A w \in Attempts : InReach(w) => connection[w] = "started"
    BY DEF IInv, Owned, EntriesKept, InReach
  <2>2. \A i \in DOMAIN master_queue : master_queue[i] \in MasterFn
    BY DEF IInv, TypeOK
  <2>3. \A i \in DOMAIN master_queue :
          master_queue[i].fn = "addActiveNode" => connection[master_queue[i].w] = "started"
    BY <2>1, <2>2, FnTypes DEF IInv, Owned, AgedIsQuiet
  <2> QED BY <2>1, <2>3 DEF IInv, TypeOK, Owned, AgedIsQuiet, NoDangling
<1> QED BY <1>1, ClusterInvariance, PTL

(* No connection stays open that is not its node's (ActorManager::addActor). *)
THEOREM OpenConnectionsAreCurrent == Spec => []OpenIsCurrent
<1>1. IInv => OpenIsCurrent
  BY DEF IInv
<1> QED BY <1>1, ClusterInvariance, PTL

=============================================================================
