------------------------- MODULE UserSessionProofs -------------------------
(***************************************************************************)
(* Proofs about UserSession, for any number of sessions and of packets:    *)
(* its types and its four invariants, from one inductive invariant that    *)
(* counts, for every session, what the queues and the socket still hold.   *)
(***************************************************************************)
EXTENDS UserSession, FiniteSetTheorems, SequenceTheorems, TLAPS

-----------------------------------------------------------------------------
(* Counting in queues: the positions of q that hold an element of V. *)
Count(q, V) == Cardinality({i \in DOMAIN q : q[i] \in V})

(* Moving a set of numbers along keeps its size. *)
LEMMA Shifted ==
  ASSUME NEW m \in Nat, NEW H, NEW G, IsFiniteSet(H), H \subseteq Nat,
         G = {i + m : i \in H}
  PROVE  IsFiniteSet(G) /\ Cardinality(G) = Cardinality(H)
<1> DEFINE f == [i \in H |-> i + m]
<1>1. f \in Bijection(H, G)
  <2>1. f \in [H -> G]
    OBVIOUS
  <2>2. \A i, j \in H : f[i] = f[j] => i = j
    <3>1. \A i, j \in H : i \in Nat /\ j \in Nat
      OBVIOUS
    <3> QED BY <3>1
  <2>3. \A g \in G : \E i \in H : f[i] = g
    OBVIOUS
  <2> HIDE DEF f
  <2> QED BY <2>1, <2>2, <2>3 DEF Bijection, Injection, Surjection, IsInjective
<1> HIDE DEF f
<1>2. ExistsBijection(H, G)
  BY <1>1 DEF ExistsBijection
<1> QED BY <1>2, FS_Bijection

(* The positions of a queue are finitely many. *)
LEMMA CountType ==
  ASSUME NEW S, NEW q \in Seq(S), NEW V
  PROVE  /\ IsFiniteSet({i \in DOMAIN q : q[i] \in V})
         /\ Count(q, V) \in Nat
         /\ \A i \in DOMAIN q : q[i] \in V => Count(q, V) > 0
         /\ Count(q, V) > 0 => \E i \in DOMAIN q : q[i] \in V
<1> DEFINE H == {i \in DOMAIN q : q[i] \in V}
<1>1. DOMAIN q = 1..Len(q) /\ Len(q) \in Nat
  BY LenProperties
<1>2. IsFiniteSet(H)
  <2>1. H \in SUBSET (1..Len(q)) /\ IsFiniteSet(1..Len(q))
    BY <1>1, FS_Interval
  <2> HIDE DEF H
  <2> QED BY <2>1, FS_Subset
<1>3. Cardinality(H) \in Nat /\ (Cardinality(H) = 0 <=> H = {})
  <2> HIDE DEF H
  <2> QED BY <1>2, FS_CardinalityType, FS_EmptySet
<1>4. Count(q, V) = Cardinality(H)
  BY DEF Count
<1>5. Count(q, V) \in Nat /\ (Count(q, V) > 0 <=> H # {})
  BY <1>3, <1>4
<1> QED BY <1>2, <1>5

(* An empty queue holds nothing. *)
LEMMA CountEmpty == \A V : Count(<<>>, V) = 0
<1> SUFFICES ASSUME NEW V PROVE Count(<<>>, V) = 0
  OBVIOUS
<1>1. {i \in DOMAIN <<>> : <<>>[i] \in V} = {}
  OBVIOUS
<1> QED BY <1>1, FS_EmptySet DEF Count

(* Two queues one after the other hold what each of them holds. *)
LEMMA CountConcat ==
  ASSUME NEW S, NEW q \in Seq(S), NEW r \in Seq(S), NEW V
  PROVE  Count(q \o r, V) = Count(q, V) + Count(r, V)
<1> DEFINE A == {i \in DOMAIN q : q[i] \in V}
           B == {i \in DOMAIN r : r[i] \in V}
           C == {i \in DOMAIN (q \o r) : (q \o r)[i] \in V}
           m == Len(q)
           D == {i + m : i \in B}
<1>1. /\ m \in Nat /\ DOMAIN q = 1..m
      /\ Len(r) \in Nat /\ DOMAIN r = 1..Len(r)
      /\ DOMAIN (q \o r) = 1..(m + Len(r))
      /\ \A i \in 1..(m + Len(r)) : (q \o r)[i] = IF i <= m THEN q[i] ELSE r[i - m]
  BY LenProperties, ConcatProperties
<1>2. IsFiniteSet(A) /\ IsFiniteSet(B)
  BY CountType
<1>3. IsFiniteSet(D) /\ Cardinality(D) = Cardinality(B)
  <2>1. B \subseteq Nat
    BY <1>1
  <2> HIDE DEF B, m
  <2> QED BY <1>1, <1>2, <2>1, Shifted
<1>4. C = A \cup D
  <2>1. ASSUME NEW i \in C PROVE i \in A \cup D
    <3>1. i \in 1..(m + Len(r)) /\ (q \o r)[i] \in V
      BY <1>1
    <3>2. CASE i <= m
      BY <1>1, <3>1, <3>2
    <3>3. CASE ~(i <= m)
      <4>1. i - m \in B
        BY <1>1, <3>1, <3>3
      <4>2. i = (i - m) + m
        BY <1>1, <3>1
      <4> QED BY <4>1, <4>2
    <3> QED BY <3>2, <3>3
  <2>2. ASSUME NEW i \in A PROVE i \in C
    BY <1>1
  <2>3. ASSUME NEW j \in B PROVE j + m \in C
    <3>1. j \in 1..Len(r) /\ r[j] \in V
      BY <1>1
    <3>2. j + m \in 1..(m + Len(r)) /\ ~(j + m <= m) /\ (j + m) - m = j
      BY <1>1, <3>1
    <3>3. (q \o r)[j + m] = r[j]
      BY <1>1, <3>2
    <3> QED BY <1>1, <3>1, <3>2, <3>3
  <2> QED BY <2>1, <2>2, <2>3
<1>5. A \cap D = {}
  BY <1>1
<1>6. Cardinality(C) = Cardinality(A) + Cardinality(D) - Cardinality(A \cap D)
  <2> HIDE DEF A, C, D
  <2> QED BY <1>2, <1>3, <1>4, FS_Union
<1>7. Cardinality(A) \in Nat /\ Cardinality(D) \in Nat
  <2> HIDE DEF A, D
  <2> QED BY <1>2, <1>3, FS_CardinalityType
<1>8. Cardinality(A \cap D) = 0
  BY <1>5, FS_EmptySet
<1>9. Cardinality(C) = Cardinality(A) + Cardinality(B)
  <2> HIDE DEF A, B, C, D
  <2> QED BY <1>3, <1>6, <1>7, <1>8
<1> QED BY <1>9 DEF Count

(* A queue of one element. *)
LEMMA CountOne ==
  ASSUME NEW e, NEW V
  PROVE  Count(<<e>>, V) = One(e \in V)
<1>1. CASE e \in V
  <2>1. {i \in DOMAIN <<e>> : <<e>>[i] \in V} = {1}
    BY <1>1
  <2> QED BY <1>1, <2>1, FS_Singleton DEF Count, One
<1>2. CASE e \notin V
  <2>1. {i \in DOMAIN <<e>> : <<e>>[i] \in V} = {}
    BY <1>2
  <2> QED BY <1>2, <2>1, FS_EmptySet DEF Count, One
<1> QED BY <1>1, <1>2

(* What is appended counts once (postMaster, dispatch). *)
LEMMA CountAppend ==
  ASSUME NEW S, NEW q \in Seq(S), NEW e \in S, NEW V
  PROVE  Count(Append(q, e), V) = Count(q, V) + One(e \in V)
<1>1. Append(q, e) = q \o <<e>>
  BY AppendIsConcat
<1>2. <<e>> \in Seq(S)
  OBVIOUS
<1>3. Count(q \o <<e>>, V) = Count(q, V) + Count(<<e>>, V)
  BY <1>2, CountConcat
<1> QED BY <1>1, <1>3, CountOne

(* What is popped counted once. *)
LEMMA CountTail ==
  ASSUME NEW S, NEW q \in Seq(S), q # <<>>, NEW V
  PROVE  Count(q, V) = Count(Tail(q), V) + One(Head(q) \in V)
<1>1. Head(q) \in S /\ Tail(q) \in Seq(S) /\ <<Head(q)>> \in Seq(S)
  BY HeadTailProperties
<1>2. q = <<Head(q)>> \o Tail(q)
  BY <1>1
<1>3. Count(<<Head(q)>> \o Tail(q), V) = Count(<<Head(q)>>, V) + Count(Tail(q), V)
  BY <1>1, CountConcat
<1>4. Count(<<Head(q)>>, V) = One(Head(q) \in V)
  BY CountOne
<1>5. Count(Tail(q), V) \in Nat
  BY <1>1, CountType
<1>6. Count(q, V) = One(Head(q) \in V) + Count(Tail(q), V)
  BY <1>2, <1>3, <1>4, Zenon
<1> QED BY <1>5, <1>6 DEF One

-----------------------------------------------------------------------------
(***************************************************************************)
(* The inductive invariant, of each session x.                             *)
(***************************************************************************)
At(fn, x)      == {[fn |-> fn, s |-> x]}
Writes(x)      == [fn: {"write"}, s: {x}, packet: Packets]
PacketTo(x, p) == {[fn |-> "write", s |-> x, packet |-> p]}

\* How often fn is posted to the master for x, and x's destruction dispatched.
OnMaster(fn, x) == Count(master_queue, At(fn, x))
Deletions(x)    == Count(net_queue, At("destroy", x))

\* ReadsHeld and WritesHeld, in numbers of positions.
Reads(x) ==
  One(reading[x]) + One(InCallback("receiveError", x))
    + OnMaster("received", x) + OnMaster("receiveError", x)

Written(x) ==
  Count(net_queue, Writes(x)) + Len(packet_queue[x]) + Len(writing[x])
    + One(InCallback("sendError", x)) + OnMaster("onSendFinish", x)

\* CountersHold, for x.
Counted(x) ==
  /\ Reads(x) <= read_cnt[x]
  /\ read_cnt[x] <= 1
  /\ Written(x) <= write_cnt[x]
  /\ x \in actor_list => Reads(x) = read_cnt[x] /\ Written(x) = write_cnt[x]

\* The actor of x has not been added yet.
Unborn(x) == session[x] = "handshake" \/ OnMaster("addActor", x) > 0

(* The actor is added at most once and read from at most once, before it may
   have reads or writes: what onStart posts. *)
BornOnce(x) ==
  /\ session[x] = "handshake" =>
       OnMaster("addActor", x) = 0 /\ OnMaster("onStart", x) = 0 /\ Deletions(x) = 0
  /\ Unborn(x) => hazard[x] = "none" /\ read_cnt[x] = 0 /\ write_cnt[x] = 0
  /\ OnMaster("addActor", x) <= 1
  /\ OnMaster("onStart", x) <= 1
  /\ session[x] = "handshake" \/ OnMaster("onStart", x) > 0 => first_process[x]
  /\ first_process[x] => read_cnt[x] = 0

(* The entry of an actor: held while it can be found, deleted until the
   session's destruction is dispatched, which happens once. *)
HeldOnce(x) ==
  /\ x \in actor_list <=> hazard[x] = "held"
  /\ Deletions(x) + One(session[x] = "destroyed") + One(hazard[x] # "none") <= 1
  /\ session[x] = "destroyed" \/ Deletions(x) > 0 =>
       /\ ~isOpen(x)
       /\ Reads(x) = 0 /\ Written(x) = 0
       /\ OnMaster("addActor", x) = 0 /\ OnMaster("onStart", x) = 0

(* While the connection is open, process_write or a waiting packet means
   that a write is outstanding; QueueMoves alone is not inductive, because
   writeAsync looks at process_write. *)
Busy(x) == isOpen(x) /\ (process_write[x] \/ packet_queue[x] # <<>>) => writing[x] # <<>>

\* The packets passed on, and those about to be, were requested.
Asked(x) == accepted[x] + OnMaster("write", x) <= requested[x]

\* OnceEach, for x.
Copies(x, p) ==
  Count(net_queue, PacketTo(x, p)) + Count(packet_queue[x], {p})
    + Count(writing[x], {p}) + Count(sent[x], {p})

SentOnce(x) == isOpen(x) => \A p \in Packets : Copies(x, p) = One(p <= accepted[x])

Good(x) == Counted(x) /\ BornOnce(x) /\ HeldOnce(x) /\ Busy(x) /\ Asked(x) /\ SentOnce(x)

IInv == TypeOK /\ \A x \in Sessions : Good(x)

-----------------------------------------------------------------------------
(* Effects on the queues. *)

(* All these numbers are natural numbers. *)
LEMMA NumbersType ==
  ASSUME TypeOK, NEW x \in Sessions
  PROVE  /\ \A fn : OnMaster(fn, x) \in Nat
         /\ Deletions(x) \in Nat
         /\ Count(net_queue, Writes(x)) \in Nat
         /\ Len(packet_queue[x]) \in Nat /\ Len(writing[x]) \in Nat
         /\ read_cnt[x] \in Nat /\ write_cnt[x] \in Nat
         /\ \A p : /\ Count(net_queue, PacketTo(x, p)) \in Nat
                   /\ Count(packet_queue[x], {p}) \in Nat
                   /\ Count(writing[x], {p}) \in Nat
                   /\ Count(sent[x], {p}) \in Nat
<1>1. /\ master_queue \in Seq(MasterFn) /\ net_queue \in Seq(NetFn)
      /\ packet_queue[x] \in Seq(Packets) /\ writing[x] \in Seq(Packets)
      /\ sent[x] \in Seq(Packets)
      /\ read_cnt[x] \in Nat /\ write_cnt[x] \in Nat
  BY DEF TypeOK
<1>2. \A V : Count(master_queue, V) \in Nat
  BY <1>1, CountType
<1>3. \A V : Count(net_queue, V) \in Nat
  BY <1>1, CountType
<1>4. \A V : /\ Count(packet_queue[x], V) \in Nat
             /\ Count(writing[x], V) \in Nat
             /\ Count(sent[x], V) \in Nat
  BY <1>1, CountType
<1>5. Len(packet_queue[x]) \in Nat /\ Len(writing[x]) \in Nat
  BY <1>1, LenProperties
<1> QED BY <1>1, <1>2, <1>3, <1>4, <1>5 DEF OnMaster, Deletions

(* So are the numbers of reads and of writes held. *)
LEMMA HeldType ==
  ASSUME TypeOK, NEW x \in Sessions
  PROVE  Reads(x) \in Nat /\ Written(x) \in Nat
<1>1. /\ OnMaster("received", x) \in Nat /\ OnMaster("receiveError", x) \in Nat
      /\ OnMaster("onSendFinish", x) \in Nat /\ Count(net_queue, Writes(x)) \in Nat
      /\ Len(packet_queue[x]) \in Nat /\ Len(writing[x]) \in Nat
  BY NumbersType
<1>2. /\ One(reading[x]) \in Nat /\ One(InCallback("receiveError", x)) \in Nat
      /\ One(InCallback("sendError", x)) \in Nat
  BY DEF One
<1>3. Reads(x) \in Nat
  BY <1>1, <1>2 DEF Reads
<1>4. Written(x) \in Nat
  <2> DEFINE a == Count(net_queue, Writes(x))
             b == Len(packet_queue[x])
             c == Len(writing[x])
             d == One(InCallback("sendError", x))
             e == OnMaster("onSendFinish", x)
  <2>1. Written(x) = a + b + c + d + e
    BY DEF Written
  <2>2. a \in Nat /\ b \in Nat /\ c \in Nat /\ d \in Nat /\ e \in Nat
    BY <1>1, <1>2
  <2> HIDE DEF a, b, c, d, e
  <2> QED BY <2>1, <2>2
<1> QED BY <1>3, <1>4

(* A function is posted to the master (postMaster). *)
LEMMA PostEffect ==
  ASSUME TypeOK, NEW s \in Sessions,
         NEW fn \in {"addActor", "onStart", "write", "received", "receiveError", "onSendFinish"},
         postMaster(fn, s)
  PROVE  /\ master_queue' \in Seq(MasterFn)
         /\ \A g, x : OnMaster(g, x)' = IF g = fn /\ x = s THEN OnMaster(g, x) + 1 ELSE OnMaster(g, x)
<1> DEFINE e == [fn |-> fn, s |-> s]
<1>1. /\ e \in MasterFn /\ master_queue \in Seq(MasterFn)
      /\ master_queue' = Append(master_queue, e)
  BY DEF MasterFn, TypeOK, postMaster
<1>2. \A g, x : e \in At(g, x) <=> g = fn /\ x = s
  BY DEF At
<1> HIDE DEF e
<1>3. master_queue' \in Seq(MasterFn)
  BY <1>1, AppendProperties
<1>4. \A V : Count(master_queue', V) = Count(master_queue, V) + One(e \in V)
  BY <1>1, CountAppend
<1>5. \A V : Count(master_queue, V) \in Nat
  BY <1>1, CountType
<1> QED BY <1>2, <1>3, <1>4, <1>5 DEF OnMaster, One

(* The master takes the function at the head of its queue (NextFn). *)
LEMMA NextEffect ==
  ASSUME TypeOK, NEW fn, NextFn(fn)
  PROVE  /\ master_queue' \in Seq(MasterFn)
         /\ Self \in Sessions
         /\ \A g, x : /\ OnMaster(g, x)' \in Nat
                      /\ OnMaster(g, x) = IF g = fn /\ x = Self THEN OnMaster(g, x)' + 1
                                        ELSE OnMaster(g, x)'
<1> DEFINE e == Head(master_queue)
<1>1. master_queue \in Seq(MasterFn) /\ master_queue # <<>> /\ master_queue' = Tail(master_queue)
  BY DEF TypeOK, NextFn
<1>2. e \in MasterFn /\ master_queue' \in Seq(MasterFn)
  BY <1>1, HeadTailProperties
<1>3. e = [fn |-> fn, s |-> Self] /\ Self \in Sessions
  BY <1>2 DEF NextFn, Self, MasterFn
<1>4. \A g, x : e \in At(g, x) <=> g = fn /\ x = Self
  BY <1>3 DEF At
<1> HIDE DEF e
<1>5. \A V : Count(master_queue, V) = Count(master_queue', V) + One(e \in V)
  BY <1>1, CountTail DEF e
<1>6. \A V : Count(master_queue', V) \in Nat
  BY <1>2, CountType
<1> QED BY <1>2, <1>3, <1>4, <1>5, <1>6 DEF OnMaster, One

(* A write is dispatched to the network thread (UserClient::write). *)
LEMMA DispatchEffect ==
  ASSUME TypeOK, NEW s \in Sessions, NEW q \in Packets,
         net_queue' = Append(net_queue, [fn |-> "write", s |-> s, packet |-> q])
  PROVE  /\ net_queue' \in Seq(NetFn)
         /\ \A x \in Sessions :
              /\ Deletions(x)' = Deletions(x)
              /\ Count(net_queue', Writes(x)) =
                   IF x = s THEN Count(net_queue, Writes(x)) + 1 ELSE Count(net_queue, Writes(x))
              /\ \A p : Count(net_queue', PacketTo(x, p)) =
                          IF x = s /\ p = q THEN Count(net_queue, PacketTo(x, p)) + 1
                                            ELSE Count(net_queue, PacketTo(x, p))
<1> DEFINE e == [fn |-> "write", s |-> s, packet |-> q]
<1>1. /\ e \in NetFn /\ net_queue \in Seq(NetFn)
      /\ net_queue' = Append(net_queue, e)
  BY DEF NetFn, TypeOK
<1>2. \A x \in Sessions : /\ e \notin At("destroy", x)
                          /\ e \in Writes(x) <=> x = s
                          /\ \A p : e \in PacketTo(x, p) <=> x = s /\ p = q
  BY DEF At, Writes, PacketTo
<1> HIDE DEF e
<1>3. net_queue' \in Seq(NetFn)
  BY <1>1, AppendProperties
<1>4. \A V : Count(net_queue', V) = Count(net_queue, V) + One(e \in V)
  BY <1>1, CountAppend
<1>5. \A V : Count(net_queue, V) \in Nat
  BY <1>1, CountType
<1> QED BY <1>2, <1>3, <1>4, <1>5 DEF Deletions, One

(* The network thread takes the function at the head of its queue. *)
LEMMA PollEffect ==
  ASSUME TypeOK, net_queue # <<>>, net_queue' = Tail(net_queue)
  PROVE  LET e == Head(net_queue)
         IN /\ net_queue' \in Seq(NetFn)
            /\ e \in NetFn /\ e.s \in Sessions
            /\ e.fn = "write" => e.packet \in Packets
            /\ \A x \in Sessions :
                 /\ Deletions(x)' \in Nat
                 /\ Deletions(x) = IF e.fn = "destroy" /\ x = e.s THEN Deletions(x)' + 1
                                     ELSE Deletions(x)'
                 /\ Count(net_queue', Writes(x)) \in Nat
                 /\ Count(net_queue, Writes(x)) =
                      IF e.fn = "write" /\ x = e.s
                        THEN Count(net_queue', Writes(x)) + 1 ELSE Count(net_queue', Writes(x))
                 /\ \A p : /\ Count(net_queue', PacketTo(x, p)) \in Nat
                           /\ Count(net_queue, PacketTo(x, p)) =
                                IF e.fn = "write" /\ x = e.s /\ p = e.packet
                                  THEN Count(net_queue', PacketTo(x, p)) + 1
                                  ELSE Count(net_queue', PacketTo(x, p))
<1> DEFINE e == Head(net_queue)
<1>1. net_queue \in Seq(NetFn)
  BY DEF TypeOK
<1>2. e \in NetFn /\ net_queue' \in Seq(NetFn)
  BY <1>1, HeadTailProperties
<1>3. /\ e.s \in Sessions
      /\ e.fn = "write" => e.packet \in Packets
  BY <1>2 DEF NetFn
<1>4. \A x \in Sessions : /\ e \in At("destroy", x) <=> e.fn = "destroy" /\ x = e.s
                          /\ e \in Writes(x) <=> e.fn = "write" /\ x = e.s
                          /\ \A p : e \in PacketTo(x, p) <=>
                                      e.fn = "write" /\ x = e.s /\ p = e.packet
  BY <1>2 DEF At, Writes, PacketTo, NetFn
<1>5. \A V : Count(net_queue, V) = Count(net_queue', V) + One(e \in V)
  BY <1>1, CountTail
<1>6. \A V : Count(net_queue', V) \in Nat
  BY <1>2, CountType
<1> HIDE DEF e
<1>7. \A x \in Sessions :
        /\ Deletions(x)' \in Nat
        /\ Deletions(x) = IF e.fn = "destroy" /\ x = e.s THEN Deletions(x)' + 1
                            ELSE Deletions(x)'
        /\ Count(net_queue', Writes(x)) \in Nat
        /\ Count(net_queue, Writes(x)) =
             IF e.fn = "write" /\ x = e.s
               THEN Count(net_queue', Writes(x)) + 1 ELSE Count(net_queue', Writes(x))
  BY <1>4, <1>5, <1>6 DEF Deletions, One
<1>8. \A x \in Sessions : \A p :
        /\ Count(net_queue', PacketTo(x, p)) \in Nat
        /\ Count(net_queue, PacketTo(x, p)) =
             IF e.fn = "write" /\ x = e.s /\ p = e.packet
               THEN Count(net_queue', PacketTo(x, p)) + 1
               ELSE Count(net_queue', PacketTo(x, p))
  BY <1>4, <1>5, <1>6 DEF One
<1> QED BY <1>2, <1>3, <1>7, <1>8 DEF e

-----------------------------------------------------------------------------
(* The invariant holds initially. *)
LEMMA InitIInv == Init => IInv
<1> SUFFICES ASSUME Init PROVE IInv
  OBVIOUS
<1>1. TypeOK
  BY SessionsAssumption DEF Init, TypeOK, Packets
<1>2. \A x : /\ \A fn : OnMaster(fn, x) = 0
             /\ Deletions(x) = 0 /\ Count(net_queue, Writes(x)) = 0
             /\ \A p : Count(net_queue, PacketTo(x, p)) = 0
  BY CountEmpty DEF Init, OnMaster, Deletions
<1>3. ASSUME NEW x \in Sessions PROVE Good(x)
  <2>1. /\ \A p : /\ Count(packet_queue[x], {p}) = 0
                  /\ Count(writing[x], {p}) = 0
                  /\ Count(sent[x], {p}) = 0
        /\ Len(packet_queue[x]) = 0 /\ Len(writing[x]) = 0
    BY CountEmpty DEF Init
  <2>2. ~InCallback("receiveError", x) /\ ~InCallback("sendError", x)
    BY SessionsAssumption DEF Init, InCallback
  <2>3. Counted(x) /\ BornOnce(x) /\ HeldOnce(x)
    BY <1>2, <2>1, <2>2 DEF Init, Counted, BornOnce, HeldOnce, Reads, Written, One, isOpen
  <2>4. Busy(x) /\ Asked(x)
    BY <1>2 DEF Init, Busy, Asked
  <2>5. SentOnce(x)
    BY <1>2, <2>1 DEF Init, SentOnce, Copies, One, Packets
  <2> QED BY <2>3, <2>4, <2>5 DEF Good
<1> QED BY <1>1, <1>3 DEF IInv

(* onStart posts the actor and its first read; it is the only action that
   posts either. *)
LEMMA StartStep == \A s \in Sessions : IInv /\ onStart(s) => IInv'
<1> SUFFICES ASSUME IInv, NEW s \in Sessions, onStart(s) PROVE IInv'
  OBVIOUS
<1> DEFINE first  == [fn |-> "addActor", s |-> s]
           second == [fn |-> "onStart", s |-> s]
<1>1. /\ <<first, second>> \in Seq(MasterFn)
      /\ master_queue \in Seq(MasterFn)
      /\ master_queue' = master_queue \o <<first, second>>
  BY DEF IInv, TypeOK, onStart, MasterFn
<1>2. master_queue' \in Seq(MasterFn)
  BY <1>1, ConcatProperties
<1>3. \A g, x : OnMaster(g, x)' =
                  IF g \in {"addActor", "onStart"} /\ x = s THEN OnMaster(g, x) + 1
                                                         ELSE OnMaster(g, x)
  <2>1. \A g, x : (first \in At(g, x) <=> g = "addActor" /\ x = s)
                  /\ (second \in At(g, x) <=> g = "onStart" /\ x = s)
    BY DEF At
  <2>2. <<first>> \in Seq(MasterFn) /\ <<second>> \in Seq(MasterFn)
        /\ <<first, second>> = <<first>> \o <<second>>
    BY DEF MasterFn
  <2> HIDE DEF first, second
  <2>3. \A V : /\ Count(<<first>>, V) = One(first \in V)
               /\ Count(<<second>>, V) = One(second \in V)
    BY CountOne
  <2>4. \A V : Count(<<first>> \o <<second>>, V) = Count(<<first>>, V) + Count(<<second>>, V)
    BY <2>2, CountConcat
  <2>5. \A V : Count(master_queue', V) = Count(master_queue, V) + Count(<<first, second>>, V)
    BY <1>1, CountConcat
  <2>6. \A V : Count(master_queue, V) \in Nat
    BY <1>1, CountType
  <2> QED BY <2>1, <2>3, <2>4, <2>5, <2>6 DEF OnMaster, One
<1> HIDE DEF first, second
<1>4. TypeOK'
  BY <1>2 DEF IInv, TypeOK, onStart, actor_vars
<1>5. ASSUME NEW x \in Sessions PROVE Good(x)'
  <2>1. Good(x) /\ TypeOK
    BY DEF IInv
  <2>2. /\ UNCHANGED <<reading, writing, process_write, packet_queue, write_deadline,
                       callback, sent, net_queue, actor_list, hazard, first_process, read_cnt,
                       write_cnt, main_loop, requested, accepted>>
        /\ isOpen(x)' => isOpen(x)
        /\ session'[x] = IF x = s THEN "started" ELSE session[x]
        /\ session[s] = "handshake"
    BY <2>1 DEF onStart, actor_vars, isOpen, TypeOK
  <2>3. Deletions(x)' = Deletions(x)
    BY <2>2 DEF Deletions
  <2>4. (Counted(x) /\ Busy(x) /\ Asked(x) /\ SentOnce(x))'
    BY <1>3, <2>1, <2>2, NumbersType
       DEF Good, Counted, Reads, Written, Busy, Asked, SentOnce, Copies, InCallback
  <2>5. /\ OnMaster("addActor", x)' = IF x = s THEN OnMaster("addActor", x) + 1
                                               ELSE OnMaster("addActor", x)
        /\ OnMaster("onStart", x)' = IF x = s THEN OnMaster("onStart", x) + 1
                                              ELSE OnMaster("onStart", x)
        /\ Reads(x)' = Reads(x) /\ Written(x)' = Written(x)
    BY <1>3, <2>2 DEF Reads, Written, InCallback
  <2>6. BornOnce(x)'
    BY <2>1, <2>2, <2>3, <2>5, NumbersType DEF Good, BornOnce, Unborn
  <2>7. HeldOnce(x)'
    BY <2>1, <2>2, <2>3, <2>5, NumbersType DEF Good, BornOnce, HeldOnce, One
  <2> QED BY <2>4, <2>6, <2>7 DEF Good
<1> QED BY <1>4, <1>5 DEF IInv

-----------------------------------------------------------------------------
(* The numbers that the network thread and the workers leave alone: what
   they do moves a read or a write from one place to another. *)
Moved(x) ==
  /\ session'[x] = session[x]
  /\ socket'[x] = "closed" \/ socket'[x] = socket[x]
  /\ hazard' = hazard /\ actor_list' = actor_list
  /\ first_process' = first_process
  /\ read_cnt' = read_cnt /\ write_cnt' = write_cnt
  /\ OnMaster("addActor", x)' = OnMaster("addActor", x)
  /\ OnMaster("onStart", x)' = OnMaster("onStart", x)
  /\ Deletions(x)' = Deletions(x)
  /\ Reads(x)' = Reads(x)
  /\ Written(x)' = Written(x)

(* A step that only moves reads and writes keeps the invariant, as far as
   these are concerned. *)
LEMMA MovedIsGood ==
  ASSUME NEW x \in Sessions, Good(x), Moved(x), Busy(x)', Asked(x)', SentOnce(x)'
  PROVE  Good(x)'
<1>1. Counted(x)'
  BY DEF Good, Moved, Counted
<1>2. BornOnce(x)'
  BY DEF Good, Moved, BornOnce, Unborn
<1>3. HeldOnce(x)'
  BY DEF Good, Moved, HeldOnce, isOpen
<1> QED BY <1>1, <1>2, <1>3 DEF Good

(* Reading: a read is outstanding, in its callback or told to the master. *)
LEMMA ReadStep ==
  \A s \in Sessions : IInv /\ (ReadData(s) \/ ReadError(s)) => IInv'
<1> SUFFICES ASSUME IInv, NEW s \in Sessions, ReadData(s) \/ ReadError(s) PROVE IInv'
  OBVIOUS
<1>1. TypeOK /\ reading[s] /\ callback = None
  BY DEF IInv, ReadData, ReadError
<1>2. CASE ReadData(s)
  <2>1. /\ master_queue' \in Seq(MasterFn)
        /\ \A g, x : OnMaster(g, x)' = IF g = "received" /\ x = s THEN OnMaster(g, x) + 1
                                                             ELSE OnMaster(g, x)
    BY <1>1, <1>2, PostEffect DEF ReadData
  <2>2. TypeOK'
    BY <1>1, <1>2, <2>1 DEF TypeOK, ReadData, actor_vars
  <2>3. ASSUME NEW x \in Sessions PROVE Good(x)'
    <3>1. /\ UNCHANGED <<session, socket, writing, process_write, packet_queue, callback, sent,
                         net_queue, actor_list, hazard, first_process, read_cnt, write_cnt,
                         requested, accepted>>
          /\ reading'[x] = IF x = s THEN FALSE ELSE reading[x]
          /\ Good(x)
      BY <1>1, <1>2 DEF IInv, ReadData, actor_vars, TypeOK
    <3>2. /\ OnMaster("received", x)' = IF x = s THEN OnMaster("received", x) + 1
                                                  ELSE OnMaster("received", x)
          /\ \A g \in {"addActor", "onStart", "write", "receiveError", "onSendFinish"} :
               OnMaster(g, x)' = OnMaster(g, x)
      BY <2>1
    <3>3. Reads(x)' = Reads(x)
      <4>1. OnMaster("received", x) \in Nat /\ OnMaster("receiveError", x) \in Nat
        BY <1>1, NumbersType
      <4>2. InCallback("receiveError", x)' = InCallback("receiveError", x)
        BY <3>1 DEF InCallback
      <4>3. CASE x = s
        BY <1>1, <3>1, <3>2, <4>1, <4>2, <4>3 DEF Reads, One
      <4>4. CASE x # s
        BY <3>1, <3>2, <4>2, <4>4 DEF Reads, One
      <4> QED BY <4>3, <4>4
    <3>4. Written(x)' = Written(x)
      BY <3>1, <3>2 DEF Written, InCallback
    <3>5. Moved(x)
      BY <3>1, <3>2, <3>3, <3>4 DEF Moved, Deletions
    <3>6. (Busy(x) /\ Asked(x) /\ SentOnce(x))'
      BY <3>1, <3>2 DEF Good, Busy, Asked, SentOnce, Copies, isOpen
    <3> QED BY <3>1, <3>5, <3>6, MovedIsGood
  <2> QED BY <2>2, <2>3 DEF IInv
<1>3. CASE ReadError(s)
  <2>1. TypeOK'
    BY <1>1, <1>3 DEF TypeOK, ReadError, actor_vars
  <2>2. ASSUME NEW x \in Sessions PROVE Good(x)'
    <3>1. /\ UNCHANGED <<session, writing, process_write, packet_queue, sent, net_queue,
                         actor_list, hazard, first_process, read_cnt, write_cnt,
                         master_queue, requested, accepted>>
          /\ reading'[x] = IF x = s THEN FALSE ELSE reading[x]
          /\ socket'[x] = IF x = s THEN "closed" ELSE socket[x]
          /\ callback' = [s |-> s, at |-> "receiveError"]
          /\ Good(x)
      BY <1>1, <1>3 DEF IInv, ReadError, actor_vars, TypeOK
    <3>2. /\ ~InCallback("receiveError", x) /\ ~InCallback("sendError", x)
          /\ InCallback("receiveError", x)' <=> x = s
          /\ ~InCallback("sendError", x)'
      BY <1>1, <3>1, SessionsAssumption DEF InCallback
    <3>3. Moved(x)
      BY <1>1, <3>1, <3>2, NumbersType DEF Moved, Deletions, OnMaster, Reads, Written, One
    <3>4. (Busy(x) /\ Asked(x) /\ SentOnce(x))'
      BY <3>1 DEF Good, Busy, Asked, OnMaster, SentOnce, Copies, isOpen
    <3> QED BY <3>1, <3>3, <3>4, MovedIsGood
  <2> QED BY <2>1, <2>2 DEF IInv
<1> QED BY <1>2, <1>3

(* The callbacks of a failed read and of a failed write tell the master. *)
LEMMA CallbackStep == IInv /\ (ReadErrorFinish \/ WriteErrorFinish) => IInv'
<1> SUFFICES ASSUME IInv, ReadErrorFinish \/ WriteErrorFinish PROVE IInv'
  OBVIOUS
<1> DEFINE s  == callback.s
           fn == IF callback.at = "receiveError" THEN "receiveError" ELSE "onSendFinish"
<1>1. /\ TypeOK /\ callback' = None
      /\ s \in Sessions /\ callback = [s |-> s, at |-> callback.at]
      /\ callback.at \in {"receiveError", "sendError"}
  BY DEF IInv, TypeOK, ReadErrorFinish, WriteErrorFinish
<1>2. postMaster(fn, s)
  BY DEF ReadErrorFinish, WriteErrorFinish
<1>3. /\ UNCHANGED <<session, socket, reading, writing, packet_queue, sent, net_queue,
                     actor_list, hazard, first_process, read_cnt, write_cnt, main_loop,
                     requested, accepted>>
      /\ write_deadline' \in [Sessions -> BOOLEAN]
      /\ process_write' \in [Sessions -> BOOLEAN]
      /\ \A x \in Sessions : process_write'[x] => process_write[x]
  BY <1>1 DEF ReadErrorFinish, WriteErrorFinish, TypeOK, actor_vars
<1>4. /\ master_queue' \in Seq(MasterFn)
      /\ \A g, x : OnMaster(g, x)' = IF g = fn /\ x = s THEN OnMaster(g, x) + 1
                                                       ELSE OnMaster(g, x)
  BY <1>1, <1>2, PostEffect
<1>5. TypeOK'
  BY <1>1, <1>3, <1>4 DEF TypeOK
<1>6. ASSUME NEW x \in Sessions PROVE Good(x)'
  <2>1. Good(x)
    BY DEF IInv
  <2>2. /\ ~InCallback("receiveError", x)' /\ ~InCallback("sendError", x)'
        /\ InCallback("receiveError", x) <=> x = s /\ fn = "receiveError"
        /\ InCallback("sendError", x) <=> x = s /\ fn = "onSendFinish"
    BY <1>1, SessionsAssumption DEF InCallback
  <2>3. fn \in {"receiveError", "onSendFinish"}
    OBVIOUS
  <2> HIDE DEF s, fn
  <2>4. /\ OnMaster("addActor", x)' = OnMaster("addActor", x)
        /\ OnMaster("onStart", x)' = OnMaster("onStart", x)
        /\ OnMaster("write", x)' = OnMaster("write", x)
        /\ OnMaster("received", x)' = OnMaster("received", x)
        /\ OnMaster("receiveError", x)' = IF fn = "receiveError" /\ x = s
                                         THEN OnMaster("receiveError", x) + 1
                                         ELSE OnMaster("receiveError", x)
        /\ OnMaster("onSendFinish", x)' = IF fn = "onSendFinish" /\ x = s
                                         THEN OnMaster("onSendFinish", x) + 1
                                         ELSE OnMaster("onSendFinish", x)
    BY <1>4, <2>3
  <2> DEFINE n1 == OnMaster("received", x)
             n2 == OnMaster("receiveError", x)
             n3 == OnMaster("onSendFinish", x)
             n4 == Count(net_queue, Writes(x)) + Len(packet_queue[x]) + Len(writing[x])
  <2>0. n1 \in Nat /\ n2 \in Nat /\ n3 \in Nat /\ n4 \in Nat
    BY <1>1, NumbersType
  <2>5. Reads(x)' = Reads(x)
    <3>1. One(reading[x])' = One(reading[x]) /\ One(reading[x]) \in Nat
      BY <1>3 DEF One
    <3>2. /\ One(InCallback("receiveError", x))' = 0
          /\ One(InCallback("receiveError", x)) = IF x = s /\ fn = "receiveError" THEN 1 ELSE 0
      BY <2>2 DEF One
    <3> QED BY <2>0, <2>4, <3>1, <3>2 DEF Reads
  <2>6. Written(x)' = Written(x)
    BY <1>3, <2>0, <2>2, <2>4 DEF Written, One
  <2>7. Moved(x)
    BY <1>3, <2>4, <2>5, <2>6 DEF Moved, Deletions
  <2>8. (Busy(x) /\ Asked(x) /\ SentOnce(x))'
    BY <1>3, <2>1, <2>4 DEF Good, Busy, Asked, SentOnce, Copies, isOpen
  <2> QED BY <2>1, <2>7, <2>8, MovedIsGood
<1> QED BY <1>5, <1>6 DEF IInv

(* A dispatched packet waits, or is being written (writeAsync). *)
LEMMA WriteAsyncStep == IInv /\ writeAsync => IInv'
<1> SUFFICES ASSUME IInv, writeAsync PROVE IInv'
  OBVIOUS
<1> DEFINE s == Head(net_queue).s
           q == Head(net_queue).packet
<1>1. /\ TypeOK /\ net_queue # <<>> /\ net_queue' = Tail(net_queue)
      /\ Head(net_queue).fn = "write"
  BY DEF IInv, writeAsync
<1>2. /\ UNCHANGED <<session, socket, reading, callback, sent, actor_list, hazard,
                     first_process, read_cnt, write_cnt, master_queue, main_loop,
                     requested, accepted>>
      /\ \/ /\ process_write[s]
            /\ packet_queue' = [packet_queue EXCEPT ![s] = Append(@, q)]
            /\ UNCHANGED <<writing, process_write, write_deadline>>
         \/ /\ writing' = [writing EXCEPT ![s] = Append(@, q)]
            /\ process_write' = [process_write EXCEPT ![s] = TRUE]
            /\ write_deadline' = [write_deadline EXCEPT ![s] = TRUE]
            /\ UNCHANGED packet_queue
  BY DEF writeAsync, actor_vars
<1>3. /\ s \in Sessions /\ q \in Packets /\ net_queue' \in Seq(NetFn)
      /\ \A x \in Sessions :
           /\ Deletions(x)' = Deletions(x)
           /\ Count(net_queue', Writes(x)) \in Nat
           /\ Count(net_queue, Writes(x)) = IF x = s THEN Count(net_queue', Writes(x)) + 1
                                                     ELSE Count(net_queue', Writes(x))
           /\ \A p : /\ Count(net_queue', PacketTo(x, p)) \in Nat
                     /\ Count(net_queue, PacketTo(x, p)) =
                          IF x = s /\ p = q THEN Count(net_queue', PacketTo(x, p)) + 1
                                            ELSE Count(net_queue', PacketTo(x, p))
  BY <1>1, PollEffect
<1> HIDE DEF s, q
<1>4. \A t \in Seq(Packets) : /\ Append(t, q) \in Seq(Packets)
                              /\ Append(t, q) # <<>>
                              /\ Len(Append(t, q)) = Len(t) + 1
                              /\ \A p : Count(Append(t, q), {p}) = IF p = q
                                          THEN Count(t, {p}) + 1 ELSE Count(t, {p})
  <2>1. ASSUME NEW t \in Seq(Packets)
        PROVE  /\ Append(t, q) \in Seq(Packets)
               /\ Append(t, q) # <<>>
               /\ Len(Append(t, q)) = Len(t) + 1
    BY <1>3, AppendProperties
  <2>2. ASSUME NEW t \in Seq(Packets), NEW p
        PROVE  Count(Append(t, q), {p}) = IF p = q THEN Count(t, {p}) + 1 ELSE Count(t, {p})
    <3>1. Count(Append(t, q), {p}) = Count(t, {p}) + One(q \in {p})
      BY <1>3, CountAppend
    <3>2. Count(t, {p}) \in Nat
      BY CountType
    <3> QED BY <3>1, <3>2 DEF One
  <2> QED BY <2>1, <2>2
<1>5. TypeOK'
  <2>1. /\ packet_queue \in [Sessions -> Seq(Packets)] /\ writing \in [Sessions -> Seq(Packets)]
        /\ process_write \in [Sessions -> BOOLEAN] /\ write_deadline \in [Sessions -> BOOLEAN]
    BY <1>1 DEF TypeOK
  <2>2. Append(packet_queue[s], q) \in Seq(Packets) /\ Append(writing[s], q) \in Seq(Packets)
    BY <1>3, <1>4, <2>1
  <2>3. /\ packet_queue' \in [Sessions -> Seq(Packets)] /\ writing' \in [Sessions -> Seq(Packets)]
        /\ process_write' \in [Sessions -> BOOLEAN] /\ write_deadline' \in [Sessions -> BOOLEAN]
    BY <1>2, <2>1, <2>2
  <2> QED BY <1>1, <1>2, <1>3, <2>3 DEF TypeOK
<1>6. ASSUME NEW x \in Sessions PROVE Good(x)'
  <2>1. /\ Good(x)
        /\ packet_queue[x] \in Seq(Packets) /\ writing[x] \in Seq(Packets)
    BY <1>1 DEF IInv, TypeOK
  <2>0. /\ packet_queue \in [Sessions -> Seq(Packets)] /\ writing \in [Sessions -> Seq(Packets)]
        /\ process_write \in [Sessions -> BOOLEAN]
    BY <1>1 DEF TypeOK
  <2>2. \/ /\ UNCHANGED <<packet_queue[x], writing[x], process_write[x]>>
           /\ x # s
        \/ /\ x = s /\ process_write[x]
           /\ packet_queue'[x] = Append(packet_queue[x], q)
           /\ UNCHANGED <<writing[x], process_write[x]>>
        \/ /\ x = s
           /\ writing'[x] = Append(writing[x], q)
           /\ UNCHANGED packet_queue[x]
    BY <1>2, <1>3, <2>0
  <2>3. Reads(x)' = Reads(x) /\ \A g : OnMaster(g, x)' = OnMaster(g, x)
    BY <1>2 DEF Reads, OnMaster, InCallback
  <2>4. Written(x)' = Written(x)
    <3> DEFINE a == Count(net_queue', Writes(x))
               b == OnMaster("onSendFinish", x)
               c == One(InCallback("sendError", x))
    <3>1. a \in Nat /\ b \in Nat /\ c \in Nat /\ One(InCallback("sendError", x))' = c
      BY <1>1, <1>2, <1>3, NumbersType DEF InCallback, One
    <3>2. Len(packet_queue[x]) \in Nat /\ Len(writing[x]) \in Nat
      BY <1>1, NumbersType
    <3> HIDE DEF a, b, c
    <3>3. Written(x) = Count(net_queue, Writes(x)) + Len(packet_queue[x])
                         + Len(writing[x]) + c + b
      BY DEF Written, c, b
    <3>4. Written(x)' = a + Len(packet_queue'[x]) + Len(writing'[x]) + c + b
      BY <2>3, <3>1 DEF Written, a, b
    <3>5. Count(net_queue, Writes(x)) = IF x = s THEN a + 1 ELSE a
      BY <1>3 DEF a
    <3>6. /\ Len(Append(packet_queue[x], q)) = Len(packet_queue[x]) + 1
          /\ Len(Append(writing[x], q)) = Len(writing[x]) + 1
      BY <1>4, <2>1
    <3> DEFINE l1 == Len(packet_queue[x])
               l2 == Len(writing[x])
               m1 == Len(packet_queue'[x])
               m2 == Len(writing'[x])
    <3>7. \/ m1 = l1 /\ m2 = l2 /\ x # s
          \/ m1 = l1 + 1 /\ m2 = l2 /\ x = s
          \/ m1 = l1 /\ m2 = l2 + 1 /\ x = s
      BY <2>2, <3>6
    <3>8. /\ Written(x) = Count(net_queue, Writes(x)) + l1 + l2 + c + b
          /\ Written(x)' = a + m1 + m2 + c + b
          /\ l1 \in Nat /\ l2 \in Nat
      BY <3>2, <3>3, <3>4
    <3> HIDE DEF l1, l2, m1, m2
    <3> QED BY <3>1, <3>5, <3>7, <3>8
  <2>5. Moved(x)
    BY <1>2, <1>3, <2>3, <2>4 DEF Moved
  <2>6. Busy(x)' /\ Asked(x)'
    BY <1>2, <1>4, <2>1, <2>2, <2>3 DEF Good, Busy, Asked, isOpen
  <2>7. ASSUME NEW p \in Packets PROVE Copies(x, p)' = Copies(x, p)
    <3> DEFINE a == Count(net_queue', PacketTo(x, p))
    <3>1. /\ a \in Nat /\ Count(packet_queue[x], {p}) \in Nat
          /\ Count(writing[x], {p}) \in Nat /\ Count(sent[x], {p}) \in Nat
      BY <1>1, <1>3, NumbersType
    <3>2. Count(net_queue, PacketTo(x, p)) = IF x = s /\ p = q THEN a + 1 ELSE a
      BY <1>3
    <3> HIDE DEF a
    <3>3. Copies(x, p) = Count(net_queue, PacketTo(x, p)) + Count(packet_queue[x], {p})
                           + Count(writing[x], {p}) + Count(sent[x], {p})
      BY DEF Copies
    <3>4. Copies(x, p)' = a + Count(packet_queue'[x], {p}) + Count(writing'[x], {p})
                            + Count(sent[x], {p})
      BY <1>2 DEF Copies, a
    <3>5. /\ Count(Append(packet_queue[x], q), {p}) =
               IF p = q THEN Count(packet_queue[x], {p}) + 1 ELSE Count(packet_queue[x], {p})
          /\ Count(Append(writing[x], q), {p}) =
               IF p = q THEN Count(writing[x], {p}) + 1 ELSE Count(writing[x], {p})
      BY <1>4, <2>1
    <3> DEFINE l1 == Count(packet_queue[x], {p})
               l2 == Count(writing[x], {p})
               m1 == Count(packet_queue'[x], {p})
               m2 == Count(writing'[x], {p})
    <3>6. \/ m1 = l1 /\ m2 = l2 /\ (x # s \/ p # q)
          \/ m1 = l1 + 1 /\ m2 = l2 /\ x = s /\ p = q
          \/ m1 = l1 /\ m2 = l2 + 1 /\ x = s /\ p = q
      BY <2>2, <3>5
    <3> HIDE DEF l1, l2, m1, m2
    <3> QED BY <3>1, <3>2, <3>3, <3>4, <3>6 DEF l1, l2, m1, m2
  <2>8. SentOnce(x)'
    BY <1>2, <2>1, <2>7 DEF Good, SentOnce, isOpen
  <2> QED BY <2>1, <2>5, <2>6, <2>8, MovedIsGood
<1> QED BY <1>5, <1>6 DEF IInv

(* The oldest write completes, and the oldest waiting packet is started in
   its place while the connection is open (WriteDone). *)
LEMMA WriteDoneStep == \A s \in Sessions : IInv /\ WriteDone(s) => IInv'
<1> SUFFICES ASSUME IInv, NEW s \in Sessions, WriteDone(s) PROVE IInv'
  OBVIOUS
<1> DEFINE w == writing[s]
           k == packet_queue[s]
           next == isOpen(s) /\ k # <<>>
           w2 == Tail(w) \o IF next THEN <<Head(k)>> ELSE <<>>
           k2 == IF next THEN Tail(k) ELSE k
           done == Append(sent[s], Head(w))
<1>1. /\ TypeOK /\ w \in Seq(Packets) /\ k \in Seq(Packets) /\ sent[s] \in Seq(Packets)
      /\ w # <<>>
  BY DEF IInv, TypeOK, WriteDone
<1>2. /\ UNCHANGED <<session, socket, reading, callback, net_queue, actor_list, hazard,
                     first_process, read_cnt, write_cnt, main_loop, requested, accepted>>
      /\ sent' = [sent EXCEPT ![s] = done]
      /\ writing' = [writing EXCEPT ![s] = w2]
      /\ packet_queue' = [packet_queue EXCEPT ![s] = k2]
      /\ process_write' = [process_write EXCEPT ![s] = FALSE]
      /\ write_deadline' = [write_deadline EXCEPT ![s] = FALSE]
  BY DEF WriteDone, actor_vars
<1>3. /\ master_queue' \in Seq(MasterFn)
      /\ \A g, x : OnMaster(g, x)' = IF g = "onSendFinish" /\ x = s THEN OnMaster(g, x) + 1
                                                               ELSE OnMaster(g, x)
  BY <1>1, PostEffect DEF WriteDone
<1>4. /\ Head(w) \in Packets /\ Tail(w) \in Seq(Packets) /\ Len(Tail(w)) = Len(w) - 1
      /\ done \in Seq(Packets)
  BY <1>1, HeadTailProperties, AppendProperties
<1>5. \A p : /\ Count(w, {p}) = Count(Tail(w), {p}) + One(Head(w) \in {p})
             /\ Count(done, {p}) = Count(sent[s], {p}) + One(Head(w) \in {p})
             /\ Count(Tail(w), {p}) \in Nat /\ Count(sent[s], {p}) \in Nat
             /\ Count(k, {p}) \in Nat
  <2> SUFFICES ASSUME NEW p
               PROVE  /\ Count(w, {p}) = Count(Tail(w), {p}) + One(Head(w) \in {p})
                      /\ Count(done, {p}) = Count(sent[s], {p}) + One(Head(w) \in {p})
                      /\ Count(Tail(w), {p}) \in Nat /\ Count(sent[s], {p}) \in Nat
                      /\ Count(k, {p}) \in Nat
    OBVIOUS
  <2>1. Count(w, {p}) = Count(Tail(w), {p}) + One(Head(w) \in {p})
    BY <1>1, CountTail
  <2>2. Count(done, {p}) = Count(sent[s], {p}) + One(Head(w) \in {p})
    BY <1>1, <1>4, CountAppend
  <2>3. Count(Tail(w), {p}) \in Nat /\ Count(sent[s], {p}) \in Nat /\ Count(k, {p}) \in Nat
    BY <1>1, <1>4, CountType
  <2> QED BY <2>1, <2>2, <2>3
<1>6. /\ w2 \in Seq(Packets) /\ k2 \in Seq(Packets)
      /\ Len(w2) + Len(k2) = Len(Tail(w)) + Len(k)
      /\ \A p : Count(w2, {p}) + Count(k2, {p}) = Count(Tail(w), {p}) + Count(k, {p})
      /\ isOpen(s) /\ k2 # <<>> => w2 # <<>>
  <2>1. CASE next
    <3> DEFINE h == Head(k)
    <3>1. h \in Packets /\ Tail(k) \in Seq(Packets) /\ Len(Tail(k)) = Len(k) - 1
      BY <1>1, <2>1, HeadTailProperties
    <3>2. w2 = Append(Tail(w), h) /\ k2 = Tail(k)
      <4>1. Append(Tail(w), h) = Tail(w) \o <<h>>
        BY <1>4, <3>1, AppendIsConcat
      <4> QED BY <2>1, <4>1
    <3>3. \A p : Count(k, {p}) = Count(Tail(k), {p}) + One(h \in {p})
      BY <1>1, <2>1, CountTail
    <3>4. \A p : Count(Tail(k), {p}) \in Nat
      BY <3>1, CountType
    <3> HIDE DEF w2, k2, h, w, k
    <3>5. w2 \in Seq(Packets) /\ w2 # <<>> /\ Len(w2) = Len(Tail(w)) + 1
      BY <1>4, <3>1, <3>2, AppendProperties
    <3>6. \A p : Count(w2, {p}) = Count(Tail(w), {p}) + One(h \in {p})
      <4>1. \A V : Count(Append(Tail(w), h), V) = Count(Tail(w), V) + One(h \in V)
        BY <1>4, <3>1, CountAppend
      <4> QED BY <3>2, <4>1
    <3>7. Len(k) \in Nat /\ Len(Tail(w)) \in Nat
      BY <1>1, <1>4, LenProperties
    <3>8. Len(w2) + Len(k2) = Len(Tail(w)) + Len(k)
      BY <3>1, <3>2, <3>5, <3>7
    <3>9. \A p : Count(w2, {p}) + Count(k2, {p}) = Count(Tail(w), {p}) + Count(k, {p})
      <4> SUFFICES ASSUME NEW p
                   PROVE  Count(w2, {p}) + Count(k2, {p}) = Count(Tail(w), {p}) + Count(k, {p})
        OBVIOUS
      <4> DEFINE o  == One(h \in {p})
                 c1 == Count(Tail(w), {p})
                 c2 == Count(Tail(k), {p})
      <4>1. o \in Nat
        BY DEF One
      <4>2. c1 \in Nat /\ c2 \in Nat
        BY <1>5, <3>4
      <4>3. /\ Count(w2, {p}) = c1 + o
            /\ Count(k2, {p}) = c2
            /\ Count(k, {p}) = c2 + o
        BY <3>2, <3>3, <3>6
      <4> HIDE DEF o, c1, c2
      <4>4. Count(w2, {p}) + Count(k2, {p}) = c1 + Count(k, {p})
        BY <4>1, <4>2, <4>3
      <4> QED BY <4>4 DEF c1
    <3> QED BY <3>1, <3>2, <3>5, <3>8, <3>9
  <2>2. CASE ~next
    <3>1. w2 = Tail(w) /\ k2 = k
      BY <1>4, <2>2, ConcatEmptySeq
    <3> QED BY <1>1, <1>4, <2>2, <3>1
  <2> QED BY <2>1, <2>2
<1> HIDE DEF w2, k2, done
<1>7. TypeOK'
  BY <1>1, <1>2, <1>3, <1>4, <1>6 DEF TypeOK
<1>8. ASSUME NEW x \in Sessions PROVE Good(x)'
  <2>1. /\ Good(x)
        /\ writing'[x] = IF x = s THEN w2 ELSE writing[x]
        /\ packet_queue'[x] = IF x = s THEN k2 ELSE packet_queue[x]
        /\ sent'[x] = IF x = s THEN done ELSE sent[x]
        /\ process_write'[x] = IF x = s THEN FALSE ELSE process_write[x]
    BY <1>1, <1>2 DEF IInv, TypeOK
  <2>2. /\ OnMaster("onSendFinish", x)' = IF x = s THEN OnMaster("onSendFinish", x) + 1
                                                  ELSE OnMaster("onSendFinish", x)
        /\ \A g \in {"addActor", "onStart", "write", "received", "receiveError"} :
             OnMaster(g, x)' = OnMaster(g, x)
    BY <1>3
  <2>3. Reads(x)' = Reads(x)
    BY <1>2, <2>2 DEF Reads, InCallback
  <2>4. Written(x)' = Written(x)
    <3> DEFINE a == Count(net_queue, Writes(x))
               b == OnMaster("onSendFinish", x)
               c == One(InCallback("sendError", x))
    <3>1. a \in Nat /\ b \in Nat /\ c \in Nat /\ One(InCallback("sendError", x))' = c
      BY <1>1, <1>2, NumbersType DEF InCallback, One
    <3>2. /\ Written(x) = a + Len(packet_queue[x]) + Len(writing[x]) + c + b
          /\ Written(x)' = a + Len(packet_queue'[x]) + Len(writing'[x]) + c
                             + IF x = s THEN b + 1 ELSE b
      BY <1>2, <2>2, <3>1 DEF Written
    <3> HIDE DEF a, b, c
    <3>3. CASE x = s
      <4>1. /\ Len(k) \in Nat /\ Len(w) \in Nat /\ Len(k2) \in Nat /\ Len(w2) \in Nat
        BY <1>1, <1>6, LenProperties
      <4>3. Len(k2) + Len(w2) + 1 = Len(k) + Len(w)
        <5> HIDE DEF k, w
        <5> QED BY <1>4, <1>6, <4>1
      <4>2. /\ Written(x) = a + Len(k) + Len(w) + c + b
            /\ Written(x)' = a + Len(k2) + Len(w2) + c + (b + 1)
        BY <2>1, <3>2, <3>3
      <4> HIDE DEF k, w
      <4> QED BY <3>1, <4>1, <4>2, <4>3
    <3>4. CASE x # s
      BY <2>1, <3>2, <3>4
    <3> QED BY <3>3, <3>4
  <2>5. Moved(x)
    BY <1>2, <2>2, <2>3, <2>4 DEF Moved, Deletions
  <2>6. Busy(x)' /\ Asked(x)'
    BY <1>2, <1>6, <2>1, <2>2 DEF Good, Busy, Asked, isOpen
  <2>7. ASSUME NEW p \in Packets PROVE Copies(x, p)' = Copies(x, p)
    <3> DEFINE a == Count(net_queue, PacketTo(x, p))
    <3>1. a \in Nat
      BY <1>1, NumbersType
    <3>2. /\ Copies(x, p) = a + Count(packet_queue[x], {p}) + Count(writing[x], {p})
                              + Count(sent[x], {p})
          /\ Copies(x, p)' = a + Count(packet_queue'[x], {p}) + Count(writing'[x], {p})
                               + Count(sent'[x], {p})
      BY <1>2 DEF Copies
    <3> HIDE DEF a
    <3>3. CASE x = s
      <4> DEFINE k0 == Count(k, {p})
                 w0 == Count(w, {p})
                 t0 == Count(Tail(w), {p})
                 k1 == Count(k2, {p})
                 w1 == Count(w2, {p})
                 o  == One(Head(w) \in {p})
                 d0 == Count(sent[s], {p})
      <4>1. /\ w0 = t0 + o /\ w1 + k1 = t0 + k0
            /\ o \in Nat /\ t0 \in Nat /\ d0 \in Nat /\ k0 \in Nat
            /\ w1 \in Nat /\ k1 \in Nat
        <5>1. /\ Count(w, {p}) = Count(Tail(w), {p}) + One(Head(w) \in {p})
              /\ Count(w2, {p}) + Count(k2, {p}) = Count(Tail(w), {p}) + Count(k, {p})
          BY <1>5, <1>6
        <5>2. Count(w2, {p}) \in Nat /\ Count(k2, {p}) \in Nat
          BY <1>6, CountType
        <5>3. Count(Tail(w), {p}) \in Nat /\ Count(sent[s], {p}) \in Nat /\ Count(k, {p}) \in Nat
          BY <1>5
        <5>4. One(Head(w) \in {p}) \in Nat
          BY DEF One
        <5> QED BY <5>1, <5>2, <5>3, <5>4
      <4>2. /\ Copies(x, p) = a + k0 + w0 + d0
            /\ Copies(x, p)' = a + k1 + w1 + (d0 + o)
        BY <1>5, <2>1, <3>2, <3>3
      <4> HIDE DEF k0, w0, t0, k1, w1, o, d0
      <4> QED BY <3>1, <4>1, <4>2
    <3>4. CASE x # s
      BY <2>1, <3>2, <3>4
    <3> QED BY <3>3, <3>4
  <2>8. SentOnce(x)'
    BY <1>2, <2>1, <2>7 DEF Good, SentOnce, isOpen
  <2> QED BY <2>1, <2>5, <2>6, <2>8, MovedIsGood
<1> QED BY <1>7, <1>8 DEF IInv

(* A write fails, or its deadline closes the socket under it. *)
LEMMA WriteFailsStep ==
  \A s \in Sessions : IInv /\ (WriteError(s) \/ checkWriteDeadline(s)) => IInv'
<1> SUFFICES ASSUME IInv, NEW s \in Sessions, WriteError(s) \/ checkWriteDeadline(s)
             PROVE  IInv'
  OBVIOUS
<1>1. /\ TypeOK /\ callback = None /\ writing[s] \in Seq(Packets)
      /\ UNCHANGED <<session, reading, process_write, packet_queue, sent, net_queue,
                     actor_list, hazard, first_process, read_cnt, write_cnt, master_queue,
                     main_loop, requested, accepted>>
      /\ socket' = [socket EXCEPT ![s] = "closed"]
  BY DEF IInv, TypeOK, WriteError, checkWriteDeadline, actor_vars
<1>2. ASSUME NEW x \in Sessions, x = s => Written(x)' = Written(x),
             x # s => UNCHANGED writing[x] /\ (InCallback("sendError", x)' <=> InCallback("sendError", x)),
             ~InCallback("receiveError", x)'
      PROVE  Good(x)'
  <2>1. /\ Good(x)
        /\ socket'[x] = IF x = s THEN "closed" ELSE socket[x]
        /\ ~InCallback("receiveError", x)
    BY <1>1, SessionsAssumption DEF IInv, TypeOK, InCallback
  <2>2. \A g : OnMaster(g, x)' = OnMaster(g, x)
    BY <1>1 DEF OnMaster
  <2>3. Moved(x)
    BY <1>1, <1>2, <2>1, <2>2 DEF Moved, Deletions, Reads, Written, One
  <2>4. (Busy(x) /\ Asked(x) /\ SentOnce(x))'
    BY <1>1, <1>2, <2>1, <2>2 DEF Good, Busy, Asked, SentOnce, Copies, isOpen
  <2> QED BY <2>1, <2>3, <2>4, MovedIsGood
<1>3. CASE WriteError(s)
  <2>1. /\ writing[s] # <<>> /\ writing' = [writing EXCEPT ![s] = Tail(writing[s])]
        /\ callback' = [s |-> s, at |-> "sendError"]
        /\ UNCHANGED write_deadline
    BY <1>3 DEF WriteError
  <2>2. Tail(writing[s]) \in Seq(Packets) /\ Len(Tail(writing[s])) = Len(writing[s]) - 1
    BY <1>1, <2>1, HeadTailProperties
  <2>3. TypeOK'
    BY <1>1, <2>1, <2>2 DEF TypeOK
  <2>4. ASSUME NEW x \in Sessions PROVE Good(x)'
    <3>1. /\ ~InCallback("sendError", x)
          /\ InCallback("sendError", x)' <=> x = s
          /\ ~InCallback("receiveError", x)'
      BY <1>1, <2>1, SessionsAssumption DEF InCallback
    <3>2. x # s => UNCHANGED writing[x]
      BY <1>1, <2>1 DEF TypeOK
    <3>3. x = s => Written(x)' = Written(x)
      <4> SUFFICES ASSUME x = s PROVE Written(x)' = Written(x)
        OBVIOUS
      <4> DEFINE a == Count(net_queue, Writes(x)) + Len(packet_queue[x])
                 b == OnMaster("onSendFinish", x)
                 l == Len(writing[x])
      <4>1. a \in Nat /\ b \in Nat /\ l \in Nat
        BY <1>1, NumbersType
      <4>2. Len(writing'[x]) = l - 1
        BY <1>1, <2>1, <2>2 DEF TypeOK
      <4>3. /\ One(InCallback("sendError", x)) = 0
            /\ One(InCallback("sendError", x))' = 1
        BY <3>1 DEF One
      <4>4. Written(x) = a + l + 0 + b /\ Written(x)' = a + (l - 1) + 1 + b
        BY <1>1, <4>2, <4>3 DEF Written, OnMaster
      <4> HIDE DEF a, b, l
      <4> QED BY <4>1, <4>4
    <3> QED BY <1>2, <3>1, <3>2, <3>3
  <2> QED BY <2>3, <2>4 DEF IInv
<1>4. CASE checkWriteDeadline(s)
  <2>1. UNCHANGED <<writing, callback>> /\ write_deadline' = [write_deadline EXCEPT ![s] = FALSE]
    BY <1>4 DEF checkWriteDeadline
  <2>2. TypeOK'
    BY <1>1, <2>1 DEF TypeOK
  <2>3. ASSUME NEW x \in Sessions PROVE Good(x)'
    <3>1. /\ InCallback("sendError", x)' <=> InCallback("sendError", x)
          /\ ~InCallback("receiveError", x)'
      BY <1>1, <2>1, SessionsAssumption DEF InCallback
    <3>2. Written(x)' = Written(x)
      BY <1>1, <2>1 DEF Written, OnMaster, InCallback
    <3> QED BY <1>2, <2>1, <3>1, <3>2
  <2> QED BY <2>2, <2>3 DEF IInv
<1> QED BY <1>3, <1>4

(* A worker asks for a packet to be sent (writeTCPSocket). *)
LEMMA RequestStep == \A s \in Sessions : IInv /\ writeTCPSocket(s) => IInv'
<1> SUFFICES ASSUME IInv, NEW s \in Sessions, writeTCPSocket(s) PROVE IInv'
  OBVIOUS
<1>1. /\ TypeOK /\ requested[s] < MaxWrites /\ requested' = [requested EXCEPT ![s] = @ + 1]
      /\ UNCHANGED <<session, socket, reading, writing, process_write, packet_queue,
                     write_deadline, callback, sent, net_queue, actor_list, hazard,
                     first_process, read_cnt, write_cnt, main_loop, accepted>>
  BY DEF IInv, writeTCPSocket, session_vars, actor_vars
<1>2. /\ master_queue' \in Seq(MasterFn)
      /\ \A g, x : OnMaster(g, x)' = IF g = "write" /\ x = s THEN OnMaster(g, x) + 1
                                                        ELSE OnMaster(g, x)
  BY <1>1, PostEffect DEF writeTCPSocket
<1>3. requested[s] + 1 \in 0..MaxWrites /\ requested[s] \in Nat
  BY <1>1, SessionsAssumption DEF TypeOK
<1>4. TypeOK'
  BY <1>1, <1>2, <1>3 DEF TypeOK
<1>5. ASSUME NEW x \in Sessions PROVE Good(x)'
  <2>1. Good(x) /\ requested'[x] = IF x = s THEN requested[x] + 1 ELSE requested[x]
    BY <1>1 DEF IInv, TypeOK
  <2>2. /\ OnMaster("write", x)' = IF x = s THEN OnMaster("write", x) + 1
                                            ELSE OnMaster("write", x)
        /\ \A g \in {"addActor", "onStart", "received", "receiveError", "onSendFinish"} :
             OnMaster(g, x)' = OnMaster(g, x)
    BY <1>2
  <2>3. Moved(x)
    BY <1>1, <2>2 DEF Moved, Deletions, Reads, Written, InCallback
  <2>4. OnMaster("write", x) \in Nat /\ accepted[x] \in Nat /\ requested[x] \in Nat
    <3>1. OnMaster("write", x) \in Nat
      BY <1>1, NumbersType
    <3>2. accepted[x] \in 0..MaxWrites /\ requested[x] \in 0..MaxWrites
      BY <1>1 DEF TypeOK
    <3> QED BY <3>1, <3>2, SessionsAssumption
  <2>5. Asked(x)'
    BY <1>1, <2>1, <2>2, <2>4 DEF Good, Asked
  <2>6. (Busy(x) /\ SentOnce(x))'
    BY <1>1, <2>1 DEF Good, Busy, SentOnce, Copies, isOpen
  <2> QED BY <2>1, <2>3, <2>5, <2>6, MovedIsGood
<1> QED BY <1>4, <1>5 DEF IInv

(* A handshake that fails: nothing knows the session yet. *)
LEMMA HandshakeErrorStep == \A s \in Sessions : IInv /\ HandshakeError(s) => IInv'
<1> SUFFICES ASSUME IInv, NEW s \in Sessions, HandshakeError(s) PROVE IInv'
  OBVIOUS
<1>1. /\ TypeOK /\ session[s] = "handshake"
      /\ session' = [session EXCEPT ![s] = "destroyed"]
      /\ socket' = [socket EXCEPT ![s] = "closed"]
      /\ UNCHANGED <<reading, writing, process_write, packet_queue, write_deadline, callback,
                     sent, net_queue, actor_list, hazard, first_process, read_cnt, write_cnt,
                     master_queue, main_loop, requested, accepted>>
  BY DEF IInv, HandshakeError, actor_vars
<1>2. TypeOK'
  BY <1>1 DEF TypeOK
<1>3. ASSUME NEW x \in Sessions PROVE Good(x)'
  <2>1. /\ Good(x)
        /\ session'[x] = IF x = s THEN "destroyed" ELSE session[x]
        /\ socket'[x] = IF x = s THEN "closed" ELSE socket[x]
    BY <1>1 DEF IInv, TypeOK
  <2>2. /\ Reads(x)' = Reads(x) /\ Written(x)' = Written(x) /\ Deletions(x)' = Deletions(x)
        /\ \A g : OnMaster(g, x)' = OnMaster(g, x)
    BY <1>1 DEF Reads, Written, Deletions, OnMaster, InCallback
  <2>3. Reads(x) \in Nat /\ Written(x) \in Nat
    BY <1>1, HeldType
  <2>4. Counted(x)' /\ BornOnce(x)'
    BY <1>1, <2>1, <2>2 DEF Good, Counted, BornOnce, Unborn
  <2>5. x = s => Reads(x) = 0 /\ Written(x) = 0
    BY <1>1, <2>1, <2>3 DEF Good, Counted, BornOnce, Unborn
  <2>6. HeldOnce(x)'
    BY <1>1, <2>1, <2>2, <2>5 DEF Good, BornOnce, Unborn, HeldOnce, One, isOpen
  <2>7. (Busy(x) /\ Asked(x) /\ SentOnce(x))'
    BY <1>1, <2>1, <2>2 DEF Good, Busy, Asked, SentOnce, Copies, isOpen
  <2> QED BY <2>4, <2>6, <2>7 DEF Good
<1> QED BY <1>2, <1>3 DEF IInv

(* The session is deleted (destroyAsync): the invariant has made it quiet
   when its destruction was dispatched. *)
LEMMA DestroyStep == IInv /\ destroyAsync => IInv'
<1> SUFFICES ASSUME IInv, destroyAsync PROVE IInv'
  OBVIOUS
<1> DEFINE s == Head(net_queue).s
<1>1. /\ TypeOK /\ net_queue # <<>> /\ net_queue' = Tail(net_queue)
      /\ Head(net_queue).fn = "destroy"
      /\ session' = [session EXCEPT ![s] = "destroyed"]
      /\ socket' = [socket EXCEPT ![s] = "closed"]
      /\ UNCHANGED <<reading, writing, process_write, packet_queue, write_deadline, callback,
                     sent, actor_list, hazard, first_process, read_cnt, write_cnt,
                     master_queue, main_loop, requested, accepted>>
  BY DEF IInv, destroyAsync, actor_vars
<1>2. /\ s \in Sessions /\ net_queue' \in Seq(NetFn)
      /\ \A x \in Sessions :
           /\ Deletions(x)' \in Nat
           /\ Deletions(x) = IF x = s THEN Deletions(x)' + 1 ELSE Deletions(x)'
           /\ Count(net_queue', Writes(x)) = Count(net_queue, Writes(x))
           /\ \A p : Count(net_queue', PacketTo(x, p)) = Count(net_queue, PacketTo(x, p))
  BY <1>1, PollEffect
<1> HIDE DEF s
<1>3. TypeOK'
  BY <1>1, <1>2 DEF TypeOK
<1>4. ASSUME NEW x \in Sessions PROVE Good(x)'
  <2>1. /\ Good(x)
        /\ session'[x] = IF x = s THEN "destroyed" ELSE session[x]
        /\ socket'[x] = IF x = s THEN "closed" ELSE socket[x]
    BY <1>1, <1>2 DEF IInv, TypeOK
  <2>2. /\ Reads(x)' = Reads(x) /\ Written(x)' = Written(x)
        /\ \A g : OnMaster(g, x)' = OnMaster(g, x)
    BY <1>1, <1>2 DEF Reads, Written, OnMaster, InCallback
  <2>3. /\ Deletions(x)' \in Nat
        /\ Deletions(x) = IF x = s THEN Deletions(x)' + 1 ELSE Deletions(x)'
    BY <1>2
  <2>4. HeldOnce(x)'
    BY <1>1, <2>1, <2>2, <2>3 DEF Good, HeldOnce, One, isOpen
  <2>5. Counted(x)' /\ BornOnce(x)'
    BY <1>1, <2>1, <2>2, <2>3 DEF Good, Counted, BornOnce, HeldOnce, Unborn
  <2>6. (Busy(x) /\ Asked(x) /\ SentOnce(x))'
    BY <1>1, <1>2, <2>1, <2>2 DEF Good, Busy, Asked, SentOnce, Copies, isOpen
  <2> QED BY <2>4, <2>5, <2>6 DEF Good
<1> QED BY <1>3, <1>4 DEF IInv

-----------------------------------------------------------------------------
(* What the master thread does to one session leaves the others alone. *)
Kept(x) ==
  /\ session'[x] = session[x] /\ socket'[x] = socket[x]
  /\ hazard'[x] = hazard[x] /\ (x \in actor_list' <=> x \in actor_list)
  /\ first_process'[x] = first_process[x]
  /\ read_cnt'[x] = read_cnt[x] /\ write_cnt'[x] = write_cnt[x]
  /\ Reads(x)' = Reads(x) /\ Written(x)' = Written(x)
  /\ Deletions(x)' = Deletions(x)
  /\ OnMaster("addActor", x)' = OnMaster("addActor", x)
  /\ OnMaster("onStart", x)' = OnMaster("onStart", x)

LEMMA KeptIsGood ==
  ASSUME NEW x \in Sessions, Good(x), Kept(x), Busy(x)', Asked(x)', SentOnce(x)'
  PROVE  Good(x)'
<1>1. Counted(x)' /\ BornOnce(x)'
  BY DEF Good, Kept, Counted, BornOnce, Unborn
<1>2. HeldOnce(x)'
  BY DEF Good, Kept, HeldOnce, isOpen
<1> QED BY <1>1, <1>2 DEF Good

(* The actor is added: it has no reads or writes yet, and is the first of
   its session. *)
LEMMA AddStep == IInv /\ addActor => IInv'
<1> SUFFICES ASSUME IInv, addActor PROVE IInv'
  OBVIOUS
<1> DEFINE s == Self
<1>1. /\ TypeOK /\ NextFn("addActor")
      /\ actor_list' = actor_list \cup {s}
      /\ hazard' = [hazard EXCEPT ![s] = "held"]
      /\ UNCHANGED <<session, socket, reading, writing, process_write, packet_queue,
                     write_deadline, callback, sent, net_queue, first_process, read_cnt,
                     write_cnt, main_loop, requested, accepted>>
  BY DEF IInv, addActor, session_vars
<1>2. /\ master_queue' \in Seq(MasterFn) /\ s \in Sessions
      /\ \A g, x : /\ OnMaster(g, x)' \in Nat
                   /\ OnMaster(g, x) = IF g = "addActor" /\ x = s THEN OnMaster(g, x)' + 1
                                                               ELSE OnMaster(g, x)'
  BY <1>1, NextEffect
<1> HIDE DEF s
<1>3. TypeOK'
  BY <1>1, <1>2 DEF TypeOK
<1>4. ASSUME NEW x \in Sessions PROVE Good(x)'
  <2>1. /\ Good(x)
        /\ hazard'[x] = IF x = s THEN "held" ELSE hazard[x]
        /\ x \in actor_list' <=> x = s \/ x \in actor_list
    BY <1>1, <1>2 DEF IInv, TypeOK
  <2>2. /\ OnMaster("addActor", x)' \in Nat
        /\ OnMaster("addActor", x) = IF x = s THEN OnMaster("addActor", x)' + 1
                                              ELSE OnMaster("addActor", x)'
        /\ \A g \in {"onStart", "write", "received", "receiveError", "onSendFinish"} :
             OnMaster(g, x)' = OnMaster(g, x)
    BY <1>2
  <2>3. /\ Reads(x)' = Reads(x) /\ Written(x)' = Written(x) /\ Deletions(x)' = Deletions(x)
        /\ Reads(x) \in Nat /\ Written(x) \in Nat /\ Deletions(x) \in Nat
    BY <1>1, <2>2, HeldType, NumbersType DEF Reads, Written, Deletions, InCallback
  <2>4. (Busy(x) /\ Asked(x) /\ SentOnce(x))'
    BY <1>1, <2>1, <2>2 DEF Good, Busy, Asked, SentOnce, Copies, isOpen
  <2>5. CASE x = s
    <3>1. /\ Unborn(x) /\ session[x] # "handshake" /\ session[x] # "destroyed"
          /\ Deletions(x) = 0 /\ OnMaster("addActor", x)' = 0
      BY <2>1, <2>2, <2>3, <2>5 DEF Good, BornOnce, HeldOnce, Unborn
    <3>2. Reads(x) = 0 /\ Written(x) = 0 /\ read_cnt[x] = 0 /\ write_cnt[x] = 0
      BY <2>1, <2>3, <3>1 DEF Good, Counted, BornOnce
    <3>3. Counted(x)'
      BY <1>1, <2>3, <3>2 DEF Counted
    <3>4. BornOnce(x)'
      BY <1>1, <2>1, <2>2, <2>3, <3>1 DEF Good, BornOnce, Unborn
    <3>5. HeldOnce(x)'
      BY <1>1, <2>1, <2>2, <2>3, <2>5, <3>1 DEF Good, HeldOnce, One
    <3> QED BY <2>4, <3>3, <3>4, <3>5 DEF Good
  <2>6. CASE x # s
    <3>1. Kept(x)
      BY <1>1, <2>1, <2>2, <2>3, <2>6 DEF Kept
    <3> QED BY <2>1, <2>4, <3>1, KeptIsGood
  <2> QED BY <2>5, <2>6
<1> QED BY <1>3, <1>4 DEF IInv

(* The first read is started: the actor had none, and is not new any more. *)
LEMMA ActorStartStep == IInv /\ ActorStart => IInv'
<1> SUFFICES ASSUME IInv, ActorStart PROVE IInv'
  OBVIOUS
<1> DEFINE s == Self
<1>1. /\ TypeOK /\ NextFn("onStart")
      /\ UNCHANGED <<session, socket, writing, process_write, packet_queue, write_deadline,
                     callback, sent, net_queue, actor_list, hazard, write_cnt, main_loop,
                     requested, accepted>>
  BY DEF IInv, ActorStart
<1>2. /\ master_queue' \in Seq(MasterFn) /\ s \in Sessions
      /\ \A g, x : /\ OnMaster(g, x)' \in Nat
                   /\ OnMaster(g, x) = IF g = "onStart" /\ x = s THEN OnMaster(g, x)' + 1
                                                              ELSE OnMaster(g, x)'
  BY <1>1, NextEffect
<1>3. \A x \in Sessions :
        /\ read_cnt'[x] = IF x = s /\ Found THEN read_cnt[x] + 1 ELSE read_cnt[x]
        /\ first_process'[x] = IF x = s /\ Found THEN FALSE ELSE first_process[x]
        /\ reading'[x] = IF x = s /\ Found THEN TRUE ELSE reading[x]
  <2> HIDE DEF s
  <2>1. CASE Found
    <3>1. /\ read_cnt' = [read_cnt EXCEPT ![s] = @ + 1]
          /\ first_process' = [first_process EXCEPT ![s] = FALSE]
          /\ reading' = [reading EXCEPT ![s] = TRUE]
      BY <2>1 DEF ActorStart, s
    <3>2. /\ read_cnt \in [Sessions -> Nat] /\ first_process \in [Sessions -> BOOLEAN]
          /\ reading \in [Sessions -> BOOLEAN]
      BY <1>1 DEF TypeOK
    <3> QED BY <1>2, <2>1, <3>1, <3>2
  <2>2. CASE ~Found
    BY <2>2 DEF ActorStart
  <2> QED BY <2>1, <2>2
<1>4. /\ reading' \in [Sessions -> BOOLEAN] /\ first_process' \in [Sessions -> BOOLEAN]
      /\ read_cnt' \in [Sessions -> Nat]
  <2>1. /\ read_cnt \in [Sessions -> Nat] /\ first_process \in [Sessions -> BOOLEAN]
        /\ reading \in [Sessions -> BOOLEAN]
    BY <1>1 DEF TypeOK
  <2>2. read_cnt[s] + 1 \in Nat
    BY <1>2, <2>1
  <2> HIDE DEF s
  <2> QED BY <1>2, <2>1, <2>2 DEF ActorStart, s
<1>5. TypeOK'
  BY <1>1, <1>2, <1>4 DEF TypeOK
<1>6. Found <=> s \in actor_list
  BY DEF Found
<1> HIDE DEF s
<1>7. ASSUME NEW x \in Sessions PROVE Good(x)'
  <2>1. Good(x)
    BY DEF IInv
  <2>2. /\ OnMaster("onStart", x)' \in Nat
        /\ OnMaster("onStart", x) = IF x = s THEN OnMaster("onStart", x)' + 1
                                             ELSE OnMaster("onStart", x)'
        /\ \A g \in {"addActor", "write", "received", "receiveError", "onSendFinish"} :
             OnMaster(g, x)' = OnMaster(g, x)
    BY <1>2
  <2>3. /\ Written(x)' = Written(x) /\ Deletions(x)' = Deletions(x)
        /\ Reads(x) \in Nat /\ Written(x) \in Nat /\ Deletions(x) \in Nat
    BY <1>1, <2>2, HeldType, NumbersType DEF Written, Deletions, InCallback
  <2>4. (Busy(x) /\ Asked(x) /\ SentOnce(x))'
    BY <1>1, <2>1, <2>2 DEF Good, Busy, Asked, SentOnce, Copies, isOpen
  <2>5. CASE x = s /\ Found
    <3>1. /\ first_process[x] /\ read_cnt[x] = 0 /\ Reads(x) = 0
          /\ hazard[x] = "held" /\ ~Unborn(x)
          /\ OnMaster("onStart", x)' = 0
      BY <1>6, <2>1, <2>2, <2>3, <2>5 DEF Good, Counted, BornOnce, HeldOnce
    <3>2. Reads(x)' = 1
      <4> DEFINE a == One(InCallback("receiveError", x))
                 b == OnMaster("received", x)
                 c == OnMaster("receiveError", x)
      <4>1. a \in Nat /\ b \in Nat /\ c \in Nat /\ One(reading[x]) \in Nat
        BY <1>1, NumbersType DEF One
      <4>2. Reads(x) = One(reading[x]) + a + b + c
        BY DEF Reads
      <4>3. Reads(x)' = 1 + a + b + c
        BY <1>1, <1>3, <2>2, <2>5 DEF Reads, InCallback, One
      <4> HIDE DEF a, b, c
      <4> QED BY <3>1, <4>1, <4>2, <4>3
    <3>6. read_cnt'[x] = 1 /\ ~first_process'[x]
      <4>1. read_cnt'[x] = read_cnt[x] + 1
        BY <1>3, <2>5
      <4>2. ~first_process'[x]
        BY <1>3, <2>5
      <4> QED BY <3>1, <4>1, <4>2
    <3>3. Counted(x)'
      BY <1>1, <2>1, <2>3, <3>2, <3>6 DEF Good, Counted
    <3>4. BornOnce(x)'
      BY <1>1, <2>1, <2>2, <2>3, <3>1, <3>6 DEF Good, BornOnce, Unborn
    <3>5. HeldOnce(x)'
      BY <1>1, <2>1, <2>3, <3>1, NumbersType DEF Good, HeldOnce, One
    <3> QED BY <2>4, <3>3, <3>4, <3>5 DEF Good
  <2>6. CASE ~(x = s /\ Found)
    <3>1. Reads(x)' = Reads(x) /\ UNCHANGED <<read_cnt[x], first_process[x]>>
      BY <1>1, <1>3, <2>2, <2>6 DEF Reads, InCallback
    <3>2. Counted(x)' /\ BornOnce(x)'
      BY <1>1, <2>1, <2>2, <2>3, <3>1 DEF Good, Counted, BornOnce, Unborn
    <3>3. HeldOnce(x)'
      BY <1>1, <2>1, <2>2, <2>3, <3>1 DEF Good, HeldOnce, isOpen
    <3> QED BY <2>4, <3>2, <3>3 DEF Good
  <2> QED BY <2>5, <2>6
<1> QED BY <1>5, <1>7 DEF IInv

(* A read has finished: the next is started, or the actor counts one less.
   It was the only one, so no other is outstanding. *)
LEMMA ReceivedStep == IInv /\ onReceiveFinish => IInv'
<1> SUFFICES ASSUME IInv, onReceiveFinish PROVE IInv'
  OBVIOUS
<1> DEFINE s     == Self
           fn    == Head(master_queue).fn
           again == fn = "received" /\ isOpen(s)
<1>1. /\ TypeOK /\ NextFn(fn) /\ fn \in {"received", "receiveError"}
      /\ UNCHANGED <<session, socket, writing, process_write, packet_queue, write_deadline,
                     callback, sent, net_queue, actor_list, hazard, first_process, write_cnt,
                     main_loop, requested, accepted>>
  BY DEF IInv, onReceiveFinish, NextFn
<1>2. /\ master_queue' \in Seq(MasterFn) /\ s \in Sessions
      /\ \A g, x : /\ OnMaster(g, x)' \in Nat
                   /\ OnMaster(g, x) = IF g = fn /\ x = s THEN OnMaster(g, x)' + 1
                                                       ELSE OnMaster(g, x)'
  BY <1>1, NextEffect
<1>3. again \in BOOLEAN
  OBVIOUS
<1>4. \A x \in Sessions :
        /\ read_cnt'[x] = IF x = s /\ Found /\ ~again THEN read_cnt[x] - 1 ELSE read_cnt[x]
        /\ reading'[x] = IF x = s /\ Found THEN again ELSE reading[x]
  BY <1>1 DEF onReceiveFinish, TypeOK
<1>5. /\ reading' \in [Sessions -> BOOLEAN]
      /\ Found => read_cnt' = [read_cnt EXCEPT ![s] = IF again THEN @ ELSE @ - 1]
      /\ ~Found => read_cnt' = read_cnt
  BY <1>1, <1>2 DEF onReceiveFinish, TypeOK
<1>6. Found <=> s \in actor_list
  BY DEF Found
<1> HIDE DEF s, fn, again
<1>7. ASSUME NEW x \in Sessions
      PROVE  /\ OnMaster("received", x)' \in Nat /\ OnMaster("receiveError", x)' \in Nat
             /\ OnMaster("received", x) = IF x = s /\ fn = "received"
                                             THEN OnMaster("received", x)' + 1
                                             ELSE OnMaster("received", x)'
             /\ OnMaster("receiveError", x) = IF x = s /\ fn # "received"
                                                 THEN OnMaster("receiveError", x)' + 1
                                                 ELSE OnMaster("receiveError", x)'
             /\ \A g \in {"addActor", "onStart", "write", "onSendFinish"} :
                  OnMaster(g, x)' = OnMaster(g, x)
  BY <1>1, <1>2
<1>8. Reads(s) >= 1 /\ (Found => Reads(s) = 1 /\ read_cnt[s] = 1)
  <2> DEFINE a == One(reading[s])
             b == One(InCallback("receiveError", s))
             c == OnMaster("received", s)
             d == OnMaster("receiveError", s)
  <2>1. a \in Nat /\ b \in Nat /\ c \in Nat /\ d \in Nat /\ (c >= 1 \/ d >= 1)
    BY <1>1, <1>2, <1>7, NumbersType DEF One
  <2>2. Reads(s) = a + b + c + d
    BY DEF Reads
  <2> HIDE DEF a, b, c, d
  <2>3. Reads(s) >= 1
    BY <2>1, <2>2
  <2>4. Found => Reads(s) = read_cnt[s] /\ read_cnt[s] <= 1
    BY <1>2, <1>6 DEF IInv, Good, Counted
  <2>5. read_cnt[s] \in Nat
    BY <1>1, <1>2 DEF TypeOK
  <2> QED BY <2>3, <2>4, <2>5
<1>9. read_cnt' \in [Sessions -> Nat]
  <2>1. read_cnt \in [Sessions -> Nat]
    BY <1>1 DEF TypeOK
  <2>2. CASE Found
    <3>1. read_cnt[s] - 1 = 0
      BY <1>8, <2>2
    <3> QED BY <1>2, <1>3, <1>5, <2>1, <2>2, <3>1
  <2> QED BY <1>5, <2>1, <2>2
<1>10. TypeOK'
  BY <1>1, <1>2, <1>5, <1>9 DEF TypeOK
<1>11. ASSUME NEW x \in Sessions PROVE Good(x)'
  <2>1. Good(x)
    BY DEF IInv
  <2>2. /\ Written(x)' = Written(x) /\ Deletions(x)' = Deletions(x)
        /\ Reads(x) \in Nat /\ Written(x) \in Nat /\ Deletions(x) \in Nat
    BY <1>1, <1>7, HeldType, NumbersType DEF Written, Deletions, InCallback
  <2>3. (Busy(x) /\ Asked(x) /\ SentOnce(x))'
    BY <1>1, <1>7, <2>1 DEF Good, Busy, Asked, SentOnce, Copies, isOpen
  <2>4. Reads(x)' = IF x = s THEN IF Found /\ again THEN 1 ELSE Reads(x) - 1 ELSE Reads(x)
    <3> DEFINE a  == One(reading[x])
               a1 == One(reading'[x])
               b  == One(InCallback("receiveError", x))
               c  == OnMaster("received", x)
               d  == OnMaster("receiveError", x)
               c1 == OnMaster("received", x)'
               d1 == OnMaster("receiveError", x)'
    <3>1. /\ a \in Nat /\ a1 \in Nat /\ b \in Nat /\ c1 \in Nat /\ d1 \in Nat
      BY <1>7 DEF One
    <3>2. /\ c = IF x = s /\ fn = "received" THEN c1 + 1 ELSE c1
          /\ d = IF x = s /\ fn # "received" THEN d1 + 1 ELSE d1
      BY <1>7
    <3>3. Reads(x) = a + b + c + d /\ Reads(x)' = a1 + b + c1 + d1
      BY <1>1 DEF Reads, InCallback
    <3>4. /\ x = s /\ Found => a1 = IF again THEN 1 ELSE 0
          /\ ~(x = s /\ Found) => a1 = a
      BY <1>4, <1>3 DEF One
    <3>5. x = s /\ Found => Reads(x) = 1
      BY <1>8
    <3> HIDE DEF a, a1, b, c, d, c1, d1
    <3> QED BY <3>1, <3>2, <3>3, <3>4, <3>5
  <2>5. CASE x = s
    <3>1. Counted(x)'
      BY <1>1, <1>4, <1>6, <1>8, <2>1, <2>2, <2>4, <2>5, NumbersType DEF Good, Counted
    <3>2. read_cnt[x] = 0 => read_cnt'[x] = 0
      BY <1>4, <1>8, <2>5
    <3>3. BornOnce(x)'
      BY <1>1, <1>7, <2>1, <2>2, <3>2 DEF Good, BornOnce, Unborn
    <3>4. ~(session[x] = "destroyed" \/ Deletions(x) > 0)
      BY <1>8, <2>1, <2>5 DEF Good, HeldOnce
    <3>5. HeldOnce(x)'
      BY <1>1, <2>1, <2>2, <3>4 DEF Good, HeldOnce
    <3> QED BY <2>3, <3>1, <3>3, <3>5 DEF Good
  <2>6. CASE x # s
    <3>1. Kept(x)
      BY <1>1, <1>4, <1>7, <2>2, <2>4, <2>6 DEF Kept
    <3> QED BY <2>1, <2>3, <3>1, KeptIsGood
  <2> QED BY <2>5, <2>6
<1> QED BY <1>10, <1>11 DEF IInv

(* A write has been completed, or has failed: the actor counts one less. *)
LEMMA SendFinishStep == IInv /\ onSendFinish => IInv'
<1> SUFFICES ASSUME IInv, onSendFinish PROVE IInv'
  OBVIOUS
<1> DEFINE s == Self
<1>1. /\ TypeOK /\ NextFn("onSendFinish")
      /\ UNCHANGED <<session, socket, reading, writing, process_write, packet_queue,
                     write_deadline, callback, sent, net_queue, actor_list, hazard,
                     first_process, read_cnt, main_loop, requested, accepted>>
      /\ write_cnt' = IF Found THEN [write_cnt EXCEPT ![s] = @ - 1] ELSE write_cnt
  BY DEF IInv, onSendFinish, session_vars
<1>2. /\ master_queue' \in Seq(MasterFn) /\ s \in Sessions
      /\ \A g, x : /\ OnMaster(g, x)' \in Nat
                   /\ OnMaster(g, x) = IF g = "onSendFinish" /\ x = s
                                        THEN OnMaster(g, x)' + 1 ELSE OnMaster(g, x)'
  BY <1>1, NextEffect
<1>3. Found <=> s \in actor_list
  BY DEF Found
<1> HIDE DEF s
<1>4. ASSUME NEW x \in Sessions
      PROVE  /\ Written(x)' \in Nat
             /\ Written(x) = IF x = s THEN Written(x)' + 1 ELSE Written(x)'
  <2> DEFINE a == Count(net_queue, Writes(x)) + Len(packet_queue[x]) + Len(writing[x])
             b == One(InCallback("sendError", x))
             c == OnMaster("onSendFinish", x)'
  <2>1. a \in Nat /\ b \in Nat /\ c \in Nat
    BY <1>1, <1>2, NumbersType DEF One
  <2>2. /\ Written(x)' = a + b + c
        /\ Written(x) = a + b + IF x = s THEN c + 1 ELSE c
    BY <1>1, <1>2 DEF Written, InCallback
  <2> HIDE DEF a, b, c
  <2> QED BY <2>1, <2>2
<1>5. ASSUME NEW x \in Sessions
      PROVE  /\ write_cnt'[x] \in Nat
             /\ Written(x)' <= write_cnt'[x]
             /\ x \in actor_list => Written(x)' = write_cnt'[x]
             /\ write_cnt[x] = 0 => write_cnt'[x] = 0
  <2>1. /\ write_cnt[x] \in Nat /\ write_cnt \in [Sessions -> Nat]
        /\ Written(x) <= write_cnt[x]
        /\ x \in actor_list => Written(x) = write_cnt[x]
    BY <1>1 DEF IInv, TypeOK, Good, Counted
  <2>2. CASE x = s /\ x \in actor_list
    <3>1. write_cnt'[x] = write_cnt[x] - 1
      BY <1>1, <1>2, <1>3, <2>1, <2>2
    <3> QED BY <1>4, <2>1, <2>2, <3>1
  <2>3. CASE ~(x = s /\ x \in actor_list)
    <3>1. write_cnt'[x] = write_cnt[x]
      BY <1>1, <1>2, <1>3, <2>1, <2>3
    <3> QED BY <1>4, <2>1, <2>3, <3>1
  <2> QED BY <2>2, <2>3
<1>6. write_cnt' \in [Sessions -> Nat]
  <2>1. write_cnt \in [Sessions -> Nat]
    BY <1>1 DEF TypeOK
  <2>2. write_cnt' = [x \in Sessions |-> write_cnt'[x]]
    BY <1>1, <2>1
  <2> QED BY <1>5, <2>2
<1>7. TypeOK'
  BY <1>1, <1>2, <1>6 DEF TypeOK
<1>8. ASSUME NEW x \in Sessions PROVE Good(x)'
  <2>1. Good(x)
    BY DEF IInv
  <2>2. \A g \in {"addActor", "onStart", "write", "received", "receiveError"} :
          OnMaster(g, x)' = OnMaster(g, x)
    BY <1>2
  <2>3. /\ Reads(x)' = Reads(x) /\ Deletions(x)' = Deletions(x)
    BY <1>1, <2>2 DEF Reads, Deletions, InCallback
  <2>4. (Busy(x) /\ Asked(x) /\ SentOnce(x))'
    BY <1>1, <2>1, <2>2 DEF Good, Busy, Asked, SentOnce, Copies, isOpen
  <2>5. Counted(x)'
    BY <1>1, <1>5, <2>1, <2>3 DEF Good, Counted
  <2>6. BornOnce(x)'
    BY <1>1, <1>5, <2>1, <2>2, <2>3 DEF Good, BornOnce, Unborn
  <2>7. HeldOnce(x)'
    BY <1>1, <1>4, <2>1, <2>2, <2>3 DEF Good, HeldOnce, isOpen
  <2> QED BY <2>4, <2>5, <2>6, <2>7 DEF Good
<1> QED BY <1>7, <1>8 DEF IInv

(* A packet is passed on (UserClient::write): it is the next of those that
   were requested, and one more write is counted and held. *)
LEMMA WriteStep == IInv /\ write => IInv'
<1> SUFFICES ASSUME IInv, write PROVE IInv'
  OBVIOUS
<1> DEFINE s    == Self
           q    == accepted[s] + 1
           pass == Found /\ isOpen(s)
<1>1. /\ TypeOK /\ NextFn("write")
      /\ UNCHANGED <<session, socket, reading, writing, process_write, packet_queue,
                     write_deadline, callback, sent, actor_list, hazard, first_process,
                     read_cnt, main_loop, requested>>
  BY DEF IInv, write, session_vars
<1>2. /\ master_queue' \in Seq(MasterFn) /\ s \in Sessions
      /\ \A g, x : /\ OnMaster(g, x)' \in Nat
                   /\ OnMaster(g, x) = IF g = "write" /\ x = s THEN OnMaster(g, x)' + 1
                                                            ELSE OnMaster(g, x)'
  BY <1>1, NextEffect
<1>3. /\ pass => /\ write_cnt' = [write_cnt EXCEPT ![s] = @ + 1]
                 /\ accepted' = [accepted EXCEPT ![s] = q]
                 /\ net_queue' = Append(net_queue, [fn |-> "write", s |-> s, packet |-> q])
      /\ ~pass => UNCHANGED <<write_cnt, accepted, net_queue>>
  BY DEF write
<1>4. pass => s \in actor_list /\ isOpen(s)
  BY DEF Found
<1> HIDE DEF s, pass
<1>5. \A x \in Sessions :
        /\ OnMaster("write", x)' \in Nat
        /\ OnMaster("write", x) = IF x = s THEN OnMaster("write", x)' + 1
                                           ELSE OnMaster("write", x)'
        /\ \A g \in {"addActor", "onStart", "received", "receiveError", "onSendFinish"} :
             OnMaster(g, x)' = OnMaster(g, x)
  BY <1>2
<1>6. accepted[s] \in Nat /\ q \in Packets /\ q \in 0..MaxWrites /\ q <= requested[s]
  <2>1. accepted[s] + OnMaster("write", s) <= requested[s]
    BY <1>2 DEF IInv, Good, Asked
  <2>2. accepted[s] \in 0..MaxWrites /\ requested[s] \in 0..MaxWrites
    BY <1>1, <1>2 DEF TypeOK
  <2>3. OnMaster("write", s) \in Nat /\ OnMaster("write", s) >= 1
    BY <1>2, <1>5
  <2>4. accepted[s] + 1 <= requested[s]
    BY <2>1, <2>2, <2>3
  <2> QED BY <2>2, <2>4, SessionsAssumption DEF Packets
<1>7. \A x \in Sessions : Reads(x)' = Reads(x)
  BY <1>1, <1>5 DEF Reads, InCallback
<1>8. CASE pass
  <2>1. /\ net_queue' \in Seq(NetFn)
        /\ \A x \in Sessions :
             /\ Deletions(x)' = Deletions(x)
             /\ Count(net_queue', Writes(x)) =
                  IF x = s THEN Count(net_queue, Writes(x)) + 1
                           ELSE Count(net_queue, Writes(x))
             /\ \A p : Count(net_queue', PacketTo(x, p)) =
                         IF x = s /\ p = q THEN Count(net_queue, PacketTo(x, p)) + 1
                                           ELSE Count(net_queue, PacketTo(x, p))
    <3> HIDE DEF q
    <3> QED BY <1>1, <1>2, <1>3, <1>6, <1>8, DispatchEffect
  <2>2. \A x \in Sessions :
          /\ write_cnt'[x] = IF x = s THEN write_cnt[x] + 1 ELSE write_cnt[x]
          /\ accepted'[x] = IF x = s THEN q ELSE accepted[x]
          /\ write_cnt[x] \in Nat /\ accepted[x] \in Nat
    <3> HIDE DEF q
    <3>1. write_cnt \in [Sessions -> Nat] /\ accepted \in [Sessions -> 0..MaxWrites]
      BY <1>1 DEF TypeOK
    <3>2. \A x \in Sessions : write_cnt[x] \in Nat /\ accepted[x] \in Nat
      BY <3>1, SessionsAssumption
    <3> QED BY <1>2, <1>3, <1>8, <3>1, <3>2
  <2>3. TypeOK'
    <3>1. write_cnt[s] + 1 \in Nat
      BY <1>2, <2>2
    <3>2. write_cnt' \in [Sessions -> Nat] /\ accepted' \in [Sessions -> 0..MaxWrites]
      <4>1. write_cnt \in [Sessions -> Nat] /\ accepted \in [Sessions -> 0..MaxWrites]
        BY <1>1 DEF TypeOK
      <4>2. q \in 0..MaxWrites
        BY <1>6
      <4> HIDE DEF q
      <4> QED BY <1>3, <1>8, <3>1, <4>1, <4>2
    <3> QED BY <1>1, <1>2, <2>1, <3>2 DEF TypeOK
  <2>4. ASSUME NEW x \in Sessions PROVE Good(x)'
    <3>1. Good(x)
      BY DEF IInv
    <3>2. Written(x) \in Nat /\ Written(x)' = IF x = s THEN Written(x) + 1 ELSE Written(x)
      <4> DEFINE a == Count(net_queue, Writes(x))
                 b1 == Len(packet_queue[x])
                 b2 == Len(writing[x])
                 b3 == One(InCallback("sendError", x))
                 b == b1 + b2 + b3
                 c == OnMaster("onSendFinish", x)
      <4>1. a \in Nat /\ b1 \in Nat /\ b2 \in Nat /\ b3 \in Nat /\ c \in Nat
        BY <1>1, NumbersType DEF One
      <4>2. /\ Written(x) = a + b + c
            /\ Written(x)' = (IF x = s THEN a + 1 ELSE a) + b + c
        <5>1. Written(x) = a + b1 + b2 + b3 + c
          BY DEF Written
        <5>2. Written(x)' = (IF x = s THEN a + 1 ELSE a) + b1 + b2 + b3 + c
          BY <1>1, <1>5, <2>1 DEF Written, InCallback
        <5> HIDE DEF a, b1, b2, b3, c
        <5> QED BY <4>1, <5>1, <5>2
      <4> HIDE DEF a, b1, b2, b3, c
      <4> QED BY <4>1, <4>2
    <3>3. Counted(x)'
      BY <1>1, <1>7, <2>2, <3>1, <3>2 DEF Good, Counted
    <3>4. x = s => /\ hazard[x] = "held" /\ ~Unborn(x)
                   /\ session[x] # "destroyed" /\ ~(Deletions(x) > 0)
      BY <1>4, <1>8, <3>1 DEF Good, BornOnce, HeldOnce, isOpen
    <3>5. BornOnce(x)'
      BY <1>1, <1>5, <2>1, <2>2, <3>1, <3>4 DEF Good, BornOnce, Unborn
    <3>6. HeldOnce(x)'
      BY <1>1, <1>5, <1>7, <2>1, <3>1, <3>2, <3>4 DEF Good, HeldOnce, isOpen
    <3>7. Asked(x)'
      <4>1. accepted[x] + OnMaster("write", x) <= requested[x] /\ UNCHANGED requested[x]
        BY <1>1, <3>1 DEF Good, Asked
      <4>2. /\ accepted'[x] = IF x = s THEN accepted[x] + 1 ELSE accepted[x]
            /\ OnMaster("write", x) = IF x = s THEN OnMaster("write", x)' + 1
                                               ELSE OnMaster("write", x)'
            /\ OnMaster("write", x)' \in Nat /\ accepted[x] \in Nat
        BY <1>5, <2>2
      <4>3. accepted'[x] + OnMaster("write", x)' = accepted[x] + OnMaster("write", x)
        BY <4>2
      <4> QED BY <4>1, <4>3 DEF Asked
    <3>8. SentOnce(x)'
      <4> SUFFICES ASSUME isOpen(x), NEW p \in Packets
                   PROVE  Copies(x, p)' = One(p <= accepted'[x])
        BY <1>1 DEF SentOnce, isOpen
      <4> DEFINE a == Count(net_queue, PacketTo(x, p))
                 b == Count(packet_queue[x], {p})
                 c == Count(writing[x], {p})
                 d == Count(sent[x], {p})
      <4>0. p \in Int
        BY DEF Packets
      <4>1. a \in Nat /\ b \in Nat /\ c \in Nat /\ d \in Nat
        BY <1>1, NumbersType
      <4>2. /\ Copies(x, p) = a + b + c + d
            /\ Copies(x, p)' = (IF x = s /\ p = q THEN a + 1 ELSE a) + b + c + d
        BY <1>1, <2>1 DEF Copies
      <4>3. Copies(x, p) = One(p <= accepted[x])
        BY <3>1 DEF Good, SentOnce
      <4> HIDE DEF a, b, c, d
      <4>4. accepted'[x] = IF x = s THEN accepted[x] + 1 ELSE accepted[x]
        BY <2>2
      <4>5. x = s => q = accepted[x] + 1
        OBVIOUS
      <4> HIDE DEF q
      <4>6. accepted[x] \in Nat
        BY <2>2
      <4>7. CASE x = s /\ p = q
        <5>1. ~(p <= accepted[x]) /\ p <= accepted'[x]
          BY <4>0, <4>4, <4>5, <4>6, <4>7
        <5> QED BY <4>1, <4>2, <4>3, <4>7, <5>1 DEF One
      <4>8. CASE ~(x = s /\ p = q)
        <5>1. p <= accepted[x] <=> p <= accepted'[x]
          BY <4>0, <4>4, <4>5, <4>6, <4>8
        <5> QED BY <4>1, <4>2, <4>3, <4>8, <5>1 DEF One
      <4> QED BY <4>7, <4>8
    <3>9. Busy(x)'
      BY <1>1, <3>1 DEF Good, Busy, isOpen
    <3> QED BY <3>3, <3>5, <3>6, <3>7, <3>8, <3>9 DEF Good
  <2> QED BY <2>3, <2>4 DEF IInv
<1>9. CASE ~pass
  <2>1. UNCHANGED <<write_cnt, accepted, net_queue>>
    BY <1>3, <1>9
  <2>2. TypeOK'
    BY <1>1, <1>2, <2>1 DEF TypeOK
  <2>3. ASSUME NEW x \in Sessions PROVE Good(x)'
    <3>1. Good(x)
      BY DEF IInv
    <3>2. Kept(x)
      BY <1>1, <1>5, <1>7, <2>1 DEF Kept, Written, Deletions, InCallback
    <3>3. Asked(x)'
      <4>1. accepted[x] \in Nat /\ requested[x] \in Nat /\ OnMaster("write", x)' \in Nat
        BY <1>1, <1>5, SessionsAssumption DEF TypeOK
      <4> QED BY <1>1, <1>5, <2>1, <3>1, <4>1 DEF Good, Asked
    <3>4. Busy(x)' /\ SentOnce(x)'
      BY <1>1, <2>1, <3>1 DEF Good, Busy, SentOnce, Copies, isOpen
    <3> QED BY <3>1, <3>2, <3>3, <3>4, KeptIsGood
  <2> QED BY <2>2, <2>3 DEF IInv
<1> QED BY <1>8, <1>9

-----------------------------------------------------------------------------
(* The main loop goes on. *)
LEMMA LoopStep == IInv /\ (update \/ PollReturns \/ UNCHANGED vars) => IInv'
<1> SUFFICES ASSUME IInv, update \/ PollReturns \/ UNCHANGED vars PROVE IInv'
  OBVIOUS
<1>1. /\ TypeOK /\ main_loop' \in {"idle", "poll", "update"}
      /\ UNCHANGED <<session_vars, net_queue, actor_vars, master_queue, requested, accepted>>
  BY DEF IInv, TypeOK, update, PollReturns, vars
<1>2. TypeOK'
  BY <1>1 DEF TypeOK, session_vars, actor_vars
<1>3. ASSUME NEW x \in Sessions PROVE Good(x)'
  <2>1. Good(x)
    BY DEF IInv
  <2>2. Kept(x)
    BY <1>1 DEF Kept, Reads, Written, Deletions, OnMaster, InCallback, session_vars, actor_vars
  <2>3. (Busy(x) /\ Asked(x) /\ SentOnce(x))'
    BY <1>1, <2>1 DEF Good, Busy, Asked, OnMaster, SentOnce, Copies, isOpen, session_vars,
                      actor_vars
  <2> QED BY <2>1, <2>2, <2>3, KeptIsGood
<1> QED BY <1>2, <1>3 DEF IInv

(* An actor that cannot be found any more keeps its entry, as deleted. *)
LEMMA RemovedIsGood ==
  ASSUME NEW x \in Sessions, Good(x),
         UNCHANGED <<session_vars, first_process, read_cnt, write_cnt, master_queue,
                     requested, accepted>>,
         Count(net_queue', Writes(x)) = Count(net_queue, Writes(x)),
         \A p : Count(net_queue', PacketTo(x, p)) = Count(net_queue, PacketTo(x, p)),
         Deletions(x)' = Deletions(x),
         x \in actor_list' <=> hazard'[x] = "held",
         x \in actor_list' => x \in actor_list,
         hazard'[x] = "none" <=> hazard[x] = "none"
  PROVE  Good(x)'
<1>1. /\ Reads(x)' = Reads(x) /\ Written(x)' = Written(x)
      /\ \A g : OnMaster(g, x)' = OnMaster(g, x)
  BY DEF Reads, Written, OnMaster, InCallback, session_vars
<1>2. Counted(x)' /\ BornOnce(x)'
  BY <1>1 DEF Good, Counted, BornOnce, Unborn, session_vars
<1>3. HeldOnce(x)'
  BY <1>1 DEF Good, HeldOnce, isOpen, session_vars
<1>4. (Busy(x) /\ Asked(x) /\ SentOnce(x))'
  BY <1>1 DEF Good, Busy, Asked, SentOnce, Copies, isOpen, session_vars
<1> QED BY <1>2, <1>3, <1>4 DEF Good

LEMMA RemoveStep == \A s \in Sessions : IInv /\ removeActor(s) => IInv'
<1> SUFFICES ASSUME IInv, NEW s \in Sessions, removeActor(s) PROVE IInv'
  OBVIOUS
<1>1. /\ TypeOK /\ s \in actor_list
      /\ actor_list' = actor_list \ {s} /\ hazard' = Deleted({s})
      /\ UNCHANGED <<session_vars, net_queue, first_process, read_cnt, write_cnt, master_queue,
                     main_loop, requested, accepted>>
  BY DEF IInv, removeActor
<1>2. TypeOK'
  BY <1>1 DEF TypeOK, Deleted, session_vars
<1>3. ASSUME NEW x \in Sessions PROVE Good(x)'
  <2>1. Good(x) /\ (x \in actor_list <=> hazard[x] = "held")
    BY DEF IInv, Good, HeldOnce
  <2>2. hazard'[x] = IF x = s /\ hazard[x] = "held" THEN "deleted" ELSE hazard[x]
    BY <1>1 DEF Deleted
  <2>3. Deletions(x)' = Deletions(x)
    BY <1>1 DEF Deletions
  <2> QED BY <1>1, <2>1, <2>2, <2>3, RemovedIsGood
<1> QED BY <1>2, <1>3 DEF IInv

(* The destructions that updateActor dispatches: one of each erased actor. *)
LEMMA EraseEffect ==
  ASSUME TypeOK, NEW erased \in SUBSET Sessions, updateActor(erased)
  PROVE  /\ net_queue' \in Seq(NetFn)
         /\ \A x \in Sessions :
              /\ Deletions(x)' \in Nat
              /\ x \in erased => Deletions(x)' <= Deletions(x) + 1
              /\ x \notin erased => Deletions(x)' = Deletions(x)
              /\ Count(net_queue', Writes(x)) = Count(net_queue, Writes(x))
              /\ \A p : Count(net_queue', PacketTo(x, p)) = Count(net_queue, PacketTo(x, p))
<1>1. PICK order \in [1..Cardinality(erased) -> erased] :
        /\ \A i, j \in DOMAIN order : order[i] = order[j] => i = j
        /\ net_queue' = net_queue \o [i \in DOMAIN order |-> [fn |-> "destroy", s |-> order[i]]]
  BY DEF updateActor
<1> DEFINE n == Cardinality(erased)
           r == [i \in DOMAIN order |-> [fn |-> "destroy", s |-> order[i]]]
<1>2. n \in Nat
  BY SessionsAssumption, FS_Subset, FS_CardinalityType
<1> HIDE DEF n
<1>3. /\ DOMAIN r = 1..n /\ \A i \in 1..n : r[i] = [fn |-> "destroy", s |-> order[i]]
      /\ \A i \in 1..n : order[i] \in erased
      /\ \A i, j \in 1..n : order[i] = order[j] => i = j
  BY <1>1 DEF n
<1>4. r \in Seq(NetFn) /\ net_queue \in Seq(NetFn)
  <2>1. \A i \in 1..n : r[i] \in NetFn
    BY <1>3 DEF NetFn
  <2>2. r = [i \in 1..n |-> r[i]]
    BY <1>3
  <2> HIDE DEF r
  <2>3. r \in [1..n -> NetFn]
    BY <2>1, <2>2
  <2> QED BY <1>2, <2>3, SeqDef DEF TypeOK
<1>4a. net_queue' = net_queue \o r
  BY <1>1
<1> HIDE DEF r
<1>5. net_queue' \in Seq(NetFn)
  BY <1>4, <1>4a, ConcatProperties
<1>6. \A V : Count(net_queue', V) = Count(net_queue, V) + Count(r, V)
  BY <1>4, <1>4a, CountConcat
<1>7. ASSUME NEW V, \A i \in 1..n : r[i] \notin V PROVE Count(r, V) = 0
  <2>1. {i \in DOMAIN r : r[i] \in V} = {}
    BY <1>3, <1>7
  <2> QED BY <2>1, FS_EmptySet DEF Count
<1>8. \A V : Count(net_queue, V) \in Nat
  BY <1>4, CountType
<1>9. \A x \in Sessions : /\ Count(net_queue', Writes(x)) = Count(net_queue, Writes(x))
                          /\ \A p : Count(net_queue', PacketTo(x, p)) =
                                      Count(net_queue, PacketTo(x, p))
  <2>1. \A x \in Sessions : /\ \A i \in 1..n : r[i] \notin Writes(x)
                            /\ \A p : \A i \in 1..n : r[i] \notin PacketTo(x, p)
    BY <1>3 DEF Writes, PacketTo
  <2>2. \A x \in Sessions : /\ Count(r, Writes(x)) = 0
                            /\ \A p : Count(r, PacketTo(x, p)) = 0
    BY <1>7, <2>1
  <2>3. ASSUME NEW V, Count(r, V) = 0 PROVE Count(net_queue', V) = Count(net_queue, V)
    BY <1>6, <1>8, <2>3
  <2> QED BY <2>2, <2>3
<1>10. ASSUME NEW x \in Sessions
       PROVE  /\ Count(r, At("destroy", x)) \in Nat /\ Count(r, At("destroy", x)) <= 1
              /\ x \notin erased => Count(r, At("destroy", x)) = 0
  <2> DEFINE H == {i \in DOMAIN r : r[i] \in At("destroy", x)}
  <2>1. \A i \in H : i \in 1..n /\ order[i] = x
    BY <1>3 DEF At
  <2>2. CASE H = {}
    <3>1. Count(r, At("destroy", x)) = 0
      BY <2>2, FS_EmptySet DEF Count
    <3> QED BY <3>1
  <2>3. CASE H # {}
    <3>1. PICK i0 \in H : TRUE
      BY <2>3
    <3>2. H = {i0}
      BY <1>3, <2>1, <3>1
    <3>3. Count(r, At("destroy", x)) = 1
      BY <3>2, FS_Singleton DEF Count
    <3>4. x \in erased
      BY <1>3, <2>1, <3>1
    <3> QED BY <3>3, <3>4
  <2> QED BY <2>2, <2>3
<1>11. ASSUME NEW x \in Sessions
       PROVE  /\ Deletions(x)' \in Nat
              /\ x \in erased => Deletions(x)' <= Deletions(x) + 1
              /\ x \notin erased => Deletions(x)' = Deletions(x)
  <2>1. /\ Deletions(x)' = Deletions(x) + Count(r, At("destroy", x))
        /\ Deletions(x) \in Nat
    BY <1>6, <1>8 DEF Deletions
  <2> QED BY <1>10, <2>1
<1> QED BY <1>5, <1>9, <1>11

(* updateActor: what it erases is quiet, and is destroyed once. *)
LEMMA UpdateActorStep ==
  \A erased \in SUBSET Sessions : IInv /\ updateActor(erased) => IInv'
<1> SUFFICES ASSUME IInv, NEW erased \in SUBSET Sessions, updateActor(erased) PROVE IInv'
  OBVIOUS
<1>1. /\ TypeOK /\ main_loop' = "idle" /\ erased \subseteq Erasable
      /\ actor_list' = actor_list \ Closed
      /\ hazard' = [x \in Sessions |-> IF x \in erased THEN "none" ELSE Deleted(Closed)[x]]
      /\ UNCHANGED <<session_vars, first_process, read_cnt, write_cnt, master_queue, requested,
                     accepted>>
  BY DEF IInv, updateActor
<1>2. /\ net_queue' \in Seq(NetFn)
      /\ \A x \in Sessions :
           /\ Deletions(x)' \in Nat
           /\ x \in erased => Deletions(x)' <= Deletions(x) + 1
           /\ x \notin erased => Deletions(x)' = Deletions(x)
           /\ Count(net_queue', Writes(x)) = Count(net_queue, Writes(x))
           /\ \A p : Count(net_queue', PacketTo(x, p)) = Count(net_queue, PacketTo(x, p))
  BY <1>1, EraseEffect
<1>3. \A x \in Sessions :
        hazard'[x] = IF x \in erased THEN "none"
                     ELSE IF x \in Closed /\ hazard[x] = "held" THEN "deleted" ELSE hazard[x]
  BY <1>1 DEF Deleted
<1>4. TypeOK'
  <2>1. hazard \in [Sessions -> {"none", "held", "deleted"}]
    BY <1>1 DEF TypeOK
  <2>2. hazard' \in [Sessions -> {"none", "held", "deleted"}]
    <3>1. hazard' = [x \in Sessions |-> hazard'[x]]
      BY <1>1
    <3>2. \A x \in Sessions : hazard'[x] \in {"none", "held", "deleted"}
      BY <1>3, <2>1
    <3> QED BY <3>1, <3>2
  <2>3. actor_list' \in SUBSET Sessions
    BY <1>1 DEF TypeOK
  <2> QED BY <1>1, <1>2, <2>2, <2>3 DEF TypeOK, session_vars
<1>5. ASSUME NEW x \in Sessions PROVE Good(x)'
  <2>1. Good(x) /\ (x \in actor_list <=> hazard[x] = "held")
    BY DEF IInv, Good, HeldOnce
  <2>2. CASE x \notin erased
    <3>1. /\ x \in actor_list' <=> hazard'[x] = "held"
          /\ x \in actor_list' => x \in actor_list
          /\ hazard'[x] = "none" <=> hazard[x] = "none"
      BY <1>1, <1>3, <2>1, <2>2 DEF Closed
    <3> QED BY <1>1, <1>2, <2>1, <2>2, <3>1, RemovedIsGood
  <2>3. CASE x \in erased
    <3>1. /\ hazard[x] = "deleted" /\ ~isOpen(x) /\ ~first_process[x]
          /\ read_cnt[x] = 0 /\ write_cnt[x] = 0
      <4>1. read_cnt[x] \in Nat /\ write_cnt[x] \in Nat
        BY <1>1 DEF TypeOK
      <4> QED BY <1>1, <2>3, <4>1 DEF Erasable, isActive
    <3>2. hazard'[x] = "none" /\ x \notin actor_list'
      BY <1>1, <1>3, <2>1, <2>3, <3>1
    <3>3. /\ Reads(x)' = Reads(x) /\ Written(x)' = Written(x)
          /\ \A g : OnMaster(g, x)' = OnMaster(g, x)
          /\ Reads(x) \in Nat /\ Written(x) \in Nat
      BY <1>1, <1>2, HeldType DEF Reads, Written, OnMaster, InCallback, session_vars
    <3>4. Reads(x) = 0 /\ Written(x) = 0
      BY <2>1, <3>1, <3>3 DEF Good, Counted
    <3>5. OnMaster("addActor", x) \in Nat /\ OnMaster("onStart", x) \in Nat /\ Deletions(x) \in Nat
      BY <1>1, NumbersType
    <3>6. OnMaster("addActor", x) = 0 /\ OnMaster("onStart", x) = 0 /\ session[x] # "handshake"
      BY <2>1, <3>1, <3>5 DEF Good, BornOnce, Unborn
    <3>7. Deletions(x) = 0 /\ session[x] # "destroyed" /\ Deletions(x)' <= 1
      <4>1. One(hazard[x] # "none") = 1 /\ One(session[x] = "destroyed") \in {0, 1}
            /\ (session[x] = "destroyed" => One(session[x] = "destroyed") = 1)
        BY <3>1 DEF One
      <4>2. Deletions(x) + One(session[x] = "destroyed") + One(hazard[x] # "none") <= 1
        BY <2>1 DEF Good, HeldOnce
      <4>3. Deletions(x)' <= Deletions(x) + 1
        BY <1>2, <2>3
      <4> QED BY <3>5, <4>1, <4>2, <4>3
    <3>8. Counted(x)'
      BY <1>1, <2>1, <3>2, <3>3 DEF Good, Counted
    <3>9. BornOnce(x)'
      BY <1>1, <2>1, <3>2, <3>3, <3>6 DEF Good, BornOnce, Unborn, session_vars
    <3>10. HeldOnce(x)'
      <4>1. Deletions(x)' + One(session'[x] = "destroyed") + One(hazard'[x] # "none") <= 1
        <5>1. One(session'[x] = "destroyed") = 0 /\ One(hazard'[x] # "none") = 0
          BY <1>1, <3>2, <3>7 DEF One, session_vars
        <5>2. Deletions(x)' \in Nat
          BY <1>2
        <5> QED BY <3>7, <5>1, <5>2
      <4> QED BY <1>1, <3>1, <3>2, <3>3, <3>4, <3>6, <4>1 DEF HeldOnce, isOpen, session_vars
    <3>11. (Busy(x) /\ Asked(x) /\ SentOnce(x))'
      BY <1>1, <1>2, <2>1, <3>3 DEF Good, Busy, Asked, SentOnce, Copies, isOpen, session_vars
    <3> QED BY <3>8, <3>9, <3>10, <3>11 DEF Good
  <2> QED BY <2>2, <2>3
<1> QED BY <1>4, <1>5 DEF IInv

LEMMA NextStep == IInv /\ [Next]_vars => IInv'
<1> SUFFICES ASSUME IInv, [Next]_vars PROVE IInv'
  OBVIOUS
<1>1. CASE Network
  BY <1>1, StartStep, HandshakeErrorStep, ReadStep, WriteDoneStep, WriteFailsStep, CallbackStep,
     WriteAsyncStep, DestroyStep DEF Network
<1>2. CASE Functions
  BY <1>2, AddStep, ActorStartStep, ReceivedStep, SendFinishStep, WriteStep DEF Functions
<1>3. CASE MainLoop
  BY <1>3, LoopStep, UpdateActorStep DEF MainLoop
<1>4. CASE \E s \in Sessions : writeTCPSocket(s) \/ removeActor(s)
  BY <1>4, RequestStep, RemoveStep
<1>5. CASE UNCHANGED vars
  BY <1>5, LoopStep
<1> QED BY <1>1, <1>2, <1>3, <1>4, <1>5 DEF Next

-----------------------------------------------------------------------------
(***************************************************************************)
(* The theorems.                                                           *)
(***************************************************************************)

(* The inductive invariant holds in every reachable state. *)
THEOREM Invariance == Spec => []IInv
  BY InitIInv, NextStep, PTL DEF Spec

(* Every variable keeps its type; the counters of UserClient, which are
   unsigned in the code, never pass below zero. *)
THEOREM TypeCorrect == Spec => []TypeOK
<1>1. IInv => TypeOK
  BY DEF IInv
<1> QED BY <1>1, Invariance, PTL

(* The numbers of the invariant are those of the properties. *)
LEMMA Numbers ==
  ASSUME TypeOK, NEW x \in Sessions
  PROVE  /\ ReadsHeld(x) = Reads(x) /\ WritesHeld(x) = Written(x)
         /\ Cardinality(Destroys(x)) = Deletions(x)
         /\ Destroys(x) # {} => Deletions(x) > 0
         /\ \A fn : OnMaster(fn, x) = 0 => Posted(fn, x) = {}
<1>1. master_queue \in Seq(MasterFn) /\ net_queue \in Seq(NetFn)
  BY DEF TypeOK
<1>2. \A i \in DOMAIN net_queue : net_queue[i] \in NetFn
  BY <1>1
<1>3. \A fn : Posted(fn, x) = {i \in DOMAIN master_queue : master_queue[i] \in At(fn, x)}
  BY DEF Posted, At
<1>4. \A fn : Cardinality(Posted(fn, x)) = OnMaster(fn, x)
  BY <1>3 DEF OnMaster, Count
<1>5. /\ NetWrites(x) = {i \in DOMAIN net_queue : net_queue[i] \in Writes(x)}
      /\ Destroys(x) = {i \in DOMAIN net_queue : net_queue[i] \in At("destroy", x)}
  <2>1. \A e \in NetFn : /\ e.fn = "write" /\ e.s = x <=> e \in Writes(x)
                         /\ e.fn = "destroy" /\ e.s = x <=> e \in At("destroy", x)
    BY DEF NetFn, Writes, At
  <2> QED BY <1>2, <2>1 DEF NetWrites, Destroys
<1>6. /\ Cardinality(NetWrites(x)) = Count(net_queue, Writes(x))
      /\ Cardinality(Destroys(x)) = Deletions(x)
  BY <1>5 DEF Count, Deletions
<1>7. ReadsHeld(x) = Reads(x) /\ WritesHeld(x) = Written(x)
  BY <1>4, <1>6 DEF ReadsHeld, WritesHeld, Reads, Written
<1>8. Destroys(x) # {} => Deletions(x) > 0
  BY <1>1, <1>5, CountType DEF Deletions
<1>9. \A fn : OnMaster(fn, x) = 0 => Posted(fn, x) = {}
  <2>1. ASSUME NEW V, Count(master_queue, V) = 0
        PROVE  {i \in DOMAIN master_queue : master_queue[i] \in V} = {}
    <3>1. \A i \in DOMAIN master_queue : master_queue[i] \in V => Count(master_queue, V) > 0
      BY <1>1, CountType
    <3> QED BY <2>1, <3>1
  <2> QED BY <1>3, <2>1 DEF OnMaster
<1> QED BY <1>6, <1>7, <1>8, <1>9

(* The counters account for every read and write that can still use the
   session, and are exact as long as the actor can be found. *)
THEOREM CountersAccount == Spec => []CountersHold
<1>1. IInv => CountersHold
  <2> SUFFICES ASSUME IInv PROVE CountersHold
    OBVIOUS
  <2>1. \A x \in Sessions : /\ ReadsHeld(x) = Reads(x)
                            /\ WritesHeld(x) = Written(x)
    BY Numbers DEF IInv
  <2> QED BY <2>1 DEF IInv, Good, Counted, CountersHold
<1> QED BY <1>1, Invariance, PTL

(* A session is deleted at most once, and only when no callback, no function
   in a queue and no key leads to it any more. *)
THEOREM DestroyedQuietly == Spec => []QuietWhenDestroyed
<1>1. IInv => QuietWhenDestroyed
  <2> SUFFICES ASSUME IInv, NEW x \in Sessions
               PROVE  /\ session[x] = "destroyed" \/ Destroys(x) # {} => Quiet(x)
                      /\ Cardinality(Destroys(x)) + One(session[x] = "destroyed") <= 1
    BY DEF QuietWhenDestroyed
  <2>1. TypeOK /\ HeldOnce(x)
    BY DEF IInv, Good
  <2>2. /\ ReadsHeld(x) = Reads(x) /\ WritesHeld(x) = Written(x)
        /\ Cardinality(Destroys(x)) = Deletions(x)
        /\ Destroys(x) # {} => Deletions(x) > 0
        /\ OnMaster("addActor", x) = 0 => Posted("addActor", x) = {}
        /\ OnMaster("onStart", x) = 0 => Posted("onStart", x) = {}
    BY <2>1, Numbers
  <2>3. Deletions(x) \in Nat
    BY <2>1, NumbersType
  <2>4. /\ One(session[x] = "destroyed") \in {0, 1} /\ One(hazard[x] # "none") \in {0, 1}
        /\ session[x] = "destroyed" => One(session[x] = "destroyed") = 1
        /\ hazard[x] # "none" => One(hazard[x] # "none") = 1
    BY DEF One
  <2>5. Deletions(x) + One(session[x] = "destroyed") + One(hazard[x] # "none") <= 1
    BY <2>1 DEF HeldOnce
  <2>6. Deletions(x) + One(session[x] = "destroyed") <= 1
    BY <2>3, <2>4, <2>5
  <2>7. session[x] = "destroyed" \/ Deletions(x) > 0 => x \notin actor_list
    BY <2>1, <2>3, <2>4, <2>5 DEF HeldOnce
  <2> QED BY <2>1, <2>2, <2>6, <2>7 DEF HeldOnce, Quiet
<1> QED BY <1>1, Invariance, PTL

(* As long as the connection is open, a packet that waits in packet_queue
   has a write before it, although process_write is cleared too early. *)
THEOREM WaitingIsServed == Spec => []QueueMoves
<1>1. IInv => QueueMoves
  BY DEF IInv, Good, Busy, QueueMoves
<1> QED BY <1>1, Invariance, PTL

(* As long as the connection is open, a packet that was passed on is in
   exactly one place, and no other packet is anywhere. *)
THEOREM PassedOnOnce == Spec => []OnceEach
<1>1. IInv => OnceEach
  <2> SUFFICES ASSUME IInv, NEW x \in Sessions, NEW p \in Packets, isOpen(x)
               PROVE  Cardinality({i \in NetWrites(x) : net_queue[i].packet = p})
                        + Times(p, packet_queue[x]) + Times(p, writing[x]) + Times(p, sent[x])
                        = One(p <= accepted[x])
    BY DEF OnceEach
  <2>1. net_queue \in Seq(NetFn) /\ \A i \in DOMAIN net_queue : net_queue[i] \in NetFn
    BY DEF IInv, TypeOK
  <2>2. {i \in NetWrites(x) : net_queue[i].packet = p}
          = {i \in DOMAIN net_queue : net_queue[i] \in PacketTo(x, p)}
    <3>1. \A e \in NetFn : (e.fn = "write" /\ e.s = x) /\ e.packet = p <=> e \in PacketTo(x, p)
      BY DEF NetFn, PacketTo
    <3> QED BY <2>1, <3>1 DEF NetWrites
  <2>3. \A seq : Times(p, seq) = Count(seq, {p})
    <3> SUFFICES ASSUME NEW seq PROVE Times(p, seq) = Count(seq, {p})
      OBVIOUS
    <3>1. {i \in DOMAIN seq : seq[i] = p} = {i \in DOMAIN seq : seq[i] \in {p}}
      OBVIOUS
    <3> QED BY <3>1 DEF Times, Count
  <2>4. Copies(x, p) = One(p <= accepted[x])
    BY DEF IInv, Good, SentOnce
  <2>5. Cardinality({i \in NetWrites(x) : net_queue[i].packet = p})
          = Count(net_queue, PacketTo(x, p))
    BY <2>2 DEF Count
  <2> QED BY <2>3, <2>4, <2>5 DEF Copies
<1> QED BY <1>1, Invariance, PTL

=============================================================================
