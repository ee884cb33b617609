----------------------- MODULE BattleProcessorProofs -----------------------
(***************************************************************************)
(* Proofs about BattleProcessor, for any number of keys, workers, clients  *)
(* and requests.                                                           *)
(***************************************************************************)
EXTENDS BattleProcessor, SequenceTheorems, FiniteSetTheorems, WellFoundedInduction, TLAPS

-----------------------------------------------------------------------------
(***************************************************************************)
(* What the operators of BattleRules return and preserve.                  *)
(***************************************************************************)

(* The opponent of a side is the other side (playerAction). *)
LEMMA OtherSide ==
  \A s \in Sides : Other(s) \in Sides /\ Other(s) # s /\ Other(Other(s)) = s
BY DEF Sides, Other

(* A battle created from its roster is well formed (execJoin2). *)
LEMMA NewBattleType ==
  ASSUME NEW roster \in BattleRoster
  PROVE  NewBattle(roster) \in Battle
<1>1. \A s \in Sides : NewPlayer(roster, s) \in Player
  BY DEF NewPlayer, Player, BattleRoster
<1>2. QED
  BY <1>1 DEF NewBattle, Battle

(* Damage keeps hit points natural numbers and never adds to them. *)
LEMMA DamageHpType ==
  ASSUME NEW hp \in Nat, NEW value \in Nat
  PROVE  /\ damageHp(hp, value) \in Nat
         /\ damageHp(hp, value) <= hp
         /\ value > 0 /\ hp > 0 => damageHp(hp, value) < hp
BY DEF damageHp

(* Recording a sequence id keeps a battle well formed (setSeqId). *)
LEMMA SetSeqIdType ==
  ASSUME NEW b \in Battle, NEW s \in Sides, NEW n \in SeqIds
  PROVE  setSeqId(b, s, n) \in Battle
BY DEF setSeqId, Battle

(* Damage leaves everything but one character's hit points as it is; with
   somebody alive, those of the first living one shrink. *)
LEMMA TakeDamageType ==
  ASSUME NEW p \in Player, NEW value \in Nat
  PROVE  /\ TakeDamage(p, value) \in Player
         /\ Len(TakeDamage(p, value).hp) = Len(p.hp)
         /\ \A f \in {"id", "actor_key", "joined", "udp_endpoint"} :
              TakeDamage(p, value)[f] = p[f]
         /\ \A j \in 1..Len(p.hp) :
              TakeDamage(p, value).hp[j] = IF j = FirstAlive(p)
                                           THEN damageHp(p.hp[j], value)
                                           ELSE p.hp[j]
<1> DEFINE i == FirstAlive(p)
           hp2 == [p.hp EXCEPT ![i] = damageHp(p.hp[i], value)]
<1>1. p.hp \in Seq(Nat) /\ DOMAIN p.hp = 1..Len(p.hp)
  BY DEF Player
<1>2. hp2 \in Seq(Nat) /\ Len(hp2) = Len(p.hp)
  <2>1. CASE i \in 1..Len(p.hp)
    <3> HIDE DEF i
    <3>1. p.hp[i] \in Nat
      BY <1>1, <2>1, ElementOfSeq
    <3>2. damageHp(p.hp[i], value) \in Nat
      BY <3>1, DamageHpType
    <3>3. QED
      BY <1>1, <3>2, <2>1, ExceptSeq
  <2>2. CASE i \notin 1..Len(p.hp)
    <3> HIDE DEF i
    <3>1. hp2 = p.hp
      BY <1>1, <2>2
    <3>2. QED
      BY <1>1, <3>1
  <2>3. QED
    BY <2>1, <2>2
<1>3. TakeDamage(p, value) = [p EXCEPT !.hp = hp2]
  BY DEF TakeDamage, Player
<1>4. TakeDamage(p, value) \in Player
  BY <1>2, <1>3 DEF Player
<1>5. TakeDamage(p, value).hp = hp2
  BY <1>3 DEF Player
<1>6. \A j \in 1..Len(p.hp) : hp2[j] = IF j = i THEN damageHp(p.hp[j], value)
                                                ELSE p.hp[j]
  BY <1>1
<1>7. \A f \in {"id", "actor_key", "joined", "udp_endpoint"} :
        TakeDamage(p, value)[f] = p[f]
  BY <1>3 DEF Player
<1>8. QED
  BY <1>2, <1>4, <1>5, <1>6, <1>7

(* An attack keeps a battle well formed (engage). *)
LEMMA EngageType ==
  ASSUME NEW b \in Battle, NEW s \in Sides, NEW hits \in Nat
  PROVE  engage(b, s, hits) \in Battle
<1>1. Other(s) \in Sides
  BY OtherSide
<1>2. hits * DAMAGE \in Nat
  BY DEF DAMAGE
<1>3. TakeDamage(b.player[Other(s)], hits * DAMAGE) \in Player
  BY <1>1, <1>2, TakeDamageType DEF Battle
<1>4. ASSUME NEW q \in Player, NEW o \in Sides, NEW n \in Nat
      PROVE  [b EXCEPT !.player[o] = q, !.battle_seq_id = n] \in Battle
  BY DEF Battle
<1>5. b.battle_seq_id + 1 \in Nat
  BY DEF Battle
<1>6. QED
  BY <1>1, <1>3, <1>4, <1>5 DEF engage

(* An input over TCP or UDP keeps a battle well formed (playerAction,
   playerActionUdp). *)
LEMMA ActionTypes ==
  ASSUME NEW b \in Battle, NEW n \in SeqIds, NEW hits \in Nat
  PROVE  /\ \A a : playerAction(b, a, n, hits) \in Battle
         /\ \A ep : playerActionUdp(b, ep, n, hits) \in Battle
<1>1. ASSUME NEW a
      PROVE  playerAction(b, a, n, hits) \in Battle
  <2>1. SideOfActor(b, a) \in Sides
    BY DEF SideOfActor, Sides
  <2>2. engage(setSeqId(b, SideOfActor(b, a), n), SideOfActor(b, a), hits) \in Battle
    BY <2>1, SetSeqIdType, EngageType
  <2>3. QED
    BY <2>2 DEF playerAction
<1>2. ASSUME NEW ep
      PROVE  playerActionUdp(b, ep, n, hits) \in Battle
  <2>1. SideOfEndpoint(b, ep) \in Sides
    BY DEF SideOfEndpoint, Sides
  <2>2. engage(setSeqId(b, SideOfEndpoint(b, ep), n), SideOfEndpoint(b, ep), hits) \in Battle
    BY <2>1, SetSeqIdType, EngageType
  <2>3. QED
    BY <2>2 DEF playerActionUdp
<1>3. QED
  BY <1>1, <1>2

-----------------------------------------------------------------------------
(***************************************************************************)
(* Packets, joins and handshakes.                                          *)
(***************************************************************************)

(* The worker of a key is one of the workers (CalcThreadIndex). *)
LEMMA IndexType == \A k \in Keys : CalcThreadIndex(k) \in Threads
BY ConstantsAssumption DEF CalcThreadIndex, Threads

(* Every packet names a key of the server. *)
LEMMA PacketKey == \A p \in BattlePacket : p.key \in Keys
BY DEF BattlePacket, TcpRequest, UdpRequest, JoinPacket, Join2Packet, LeavePacket,
       PlayerInputPacket, PlayerInputUdpPacket, UdpHandshakePacket, ErrorPacket,
       EndBattlePacket

(* What the type of a packet says of its fields. *)
LEMMA PacketFields ==
  ASSUME NEW p \in BattlePacket
  PROVE  /\ p.type = "JOIN" => p \in JoinPacket
         /\ p.type = "JOIN2" => p \in Join2Packet
         /\ p.type = "PLAYER_INPUT" => p \in PlayerInputPacket
         /\ p.type = "PLAYER_INPUT_UDP" => p \in PlayerInputUdpPacket
         /\ p.type = "UDP_HANDSHAKE" => p \in UdpHandshakePacket
BY DEF BattlePacket, TcpRequest, UdpRequest, JoinPacket, Join2Packet, LeavePacket,
       PlayerInputPacket, PlayerInputUdpPacket, UdpHandshakePacket, ErrorPacket,
       EndBattlePacket

(* The packets the server makes itself are packets (receiveError, execJoin,
   endBattle). *)
LEMMA ServerPackets ==
  ASSUME NEW k \in Keys
  PROVE  /\ [type |-> "END_BATTLE", key |-> k] \in BattlePacket
         /\ \A a \in Actors : [type |-> "ERROR", key |-> k, actor |-> a] \in BattlePacket
         /\ \A p \in JoinPacket, ok \in BOOLEAN :
              [type |-> "JOIN2", key |-> p.key, player_id |-> p.player_id,
               actor |-> p.actor, verified |-> ok] \in BattlePacket
<1>1. [type |-> "END_BATTLE", key |-> k] \in EndBattlePacket
  BY DEF EndBattlePacket
<1>2. \A a \in Actors : [type |-> "ERROR", key |-> k, actor |-> a] \in ErrorPacket
  BY DEF ErrorPacket
<1>3. \A p \in JoinPacket, ok \in BOOLEAN :
        [type |-> "JOIN2", key |-> p.key, player_id |-> p.player_id,
         actor |-> p.actor, verified |-> ok] \in Join2Packet
  BY DEF JoinPacket, Join2Packet
<1>4. QED
  BY <1>1, <1>2, <1>3 DEF BattlePacket

(* Joining, and a UDP handshake, keep a battle well formed (execJoin2,
   execUdpHandshake). *)
LEMMA JoinTypes ==
  ASSUME NEW b \in Battle, NEW k \in Keys, NEW id \in PlayerIds
  PROVE  /\ \A a \in Actors : BindPlayer(b, k, id, a) \in Battle
         /\ \A ep \in Endpoints : SetEndpoint(b, id, ep) \in Battle
<1>1. ASSUME NEW s \in Sides, NEW a \in Actors
      PROVE  [b EXCEPT !.player[s] = resetActorKey(@, a)] \in Battle
  <2>1. resetActorKey(b.player[s], a) \in Player
    BY DEF resetActorKey, Player, Battle
  <2>2. ASSUME NEW q \in Player
        PROVE  [b EXCEPT !.player[s] = q] \in Battle
    BY DEF Battle
  <2>3. QED
    BY <2>1, <2>2
<1>2. \A a \in Actors : BindPlayer(b, k, id, a) \in Battle
  BY <1>1 DEF BindPlayer, Sides
<1>3. ASSUME NEW ep \in Endpoints
      PROVE  SetEndpoint(b, id, ep) \in Battle
  <2>1. \A s \in Sides : [b.player[s] EXCEPT !.udp_endpoint = ep] \in Player
    BY DEF Player, Battle
  <2> DEFINE pl == [s \in Sides |->
                      IF b.player[s].id = id THEN [b.player[s] EXCEPT !.udp_endpoint = ep]
                                             ELSE b.player[s]]
  <2>2. pl \in [Sides -> Player]
    BY <2>1 DEF Battle
  <2> HIDE DEF pl
  <2>3. [b EXCEPT !.player = pl] \in Battle
    BY <2>2 DEF Battle
  <2>4. QED
    BY <2>3 DEF SetEndpoint, pl
<1>4. QED
  BY <1>2, <1>3

(* What endBattle posts to the master (removeActorInfo). *)
LEMMA EndOpsType ==
  ASSUME TypeOK, NEW k \in Keys, Listed(k)
  PROVE  /\ EndOps(k) \in Seq(MasterOp)
         /\ {battle_list[k].player[s].actor_key : s \in Sides}
              \subseteq Actors \cup {NoActor}
<1>1. battle_list[k] \in Battle
  BY DEF TypeOK, Listed
<1>2. \A s \in Sides : battle_list[k].player[s].actor_key \in Actors \cup {NoActor}
  BY <1>1 DEF Battle, Player
<1>3. \A a \in Actors \cup {NoActor} : removeActorInfo(a, k) \in MasterOp
  BY DEF removeActorInfo, MasterOp, RemoveOp
<1>4. EndOps(k) \in Seq(MasterOp)
  BY <1>2, <1>3 DEF EndOps, Sides
<1>5. QED
  BY <1>2, <1>4

-----------------------------------------------------------------------------
(* Queues. *)

(* The head of a queue is one of its elements. *)
LEMMA HeadAndTail ==
  ASSUME NEW S, NEW q \in Seq(S), q # <<>>
  PROVE  Head(q) \in S /\ Tail(q) \in Seq(S)
BY HeadTailProperties, EmptySeq

(* A worker's handler leaves a queue of packets behind (pushPacket). *)
LEMMA QueueType ==
  ASSUME TypeOK, NEW t \in Threads, NEW q \in Seq(BattlePacket),
         packet_queue' = [packet_queue EXCEPT ![t] = q]
  PROVE  packet_queue' \in [Threads -> Seq(BattlePacket)]
BY DEF TypeOK

(* A packet is pushed to the worker of its key (pushPacket). *)
LEMMA PushType ==
  ASSUME TypeOK, NEW p \in BattlePacket, pushPacket(p)
  PROVE  packet_queue' \in [Threads -> Seq(BattlePacket)]
<1>1. CalcThreadIndex(p.key) \in Threads
  BY IndexType, PacketKey
<1>2. Append(packet_queue[CalcThreadIndex(p.key)], p) \in Seq(BattlePacket)
  BY <1>1, AppendProperties DEF TypeOK
<1>3. QED
  BY <1>1, <1>2, QueueType DEF pushPacket

(* endBattle keeps the queues and ended well typed. *)
LEMMA EndBattleType ==
  ASSUME TypeOK, NEW t \in Threads, NEW k \in Keys, Listed(k),
         NEW q \in Seq(BattlePacket), endBattle(k, t, q)
  PROVE  /\ packet_queue' \in [Threads -> Seq(BattlePacket)]
         /\ master_queue' \in Seq(MasterOp)
         /\ ended' \in [Keys -> BOOLEAN]
<1>1. Append(q, [type |-> "END_BATTLE", key |-> k]) \in Seq(BattlePacket)
  BY ServerPackets, AppendProperties
<1>2. packet_queue' \in [Threads -> Seq(BattlePacket)]
  BY <1>1, QueueType DEF endBattle
<1>3. master_queue' \in Seq(MasterOp)
  BY EndOpsType, ConcatProperties DEF endBattle, TypeOK
<1>4. ended' \in [Keys -> BOOLEAN]
  BY DEF endBattle, TypeOK
<1>5. QED
  BY <1>2, <1>3, <1>4

(* The packet a worker pops, the queue it leaves and the round. *)
LEMMA NextPacketType ==
  ASSUME TypeOK, NEW t \in Threads, NEW type, NextPacket(t, type)
  PROVE  /\ Head(packet_queue[t]) \in BattlePacket
         /\ Head(packet_queue[t]).type = type
         /\ Head(packet_queue[t]).key \in Keys
         /\ Tail(packet_queue[t]) \in Seq(BattlePacket)
         /\ PopPacket(t) => packet_queue' \in [Threads -> Seq(BattlePacket)]
         /\ rounds' \in [Threads -> [left: 0..LoopCount, due: SUBSET Keys]]
<1>1. packet_queue[t] \in Seq(BattlePacket) /\ packet_queue[t] # <<>>
  BY DEF TypeOK, NextPacket
<1>2. Head(packet_queue[t]) \in BattlePacket /\ Tail(packet_queue[t]) \in Seq(BattlePacket)
  BY <1>1, HeadAndTail
<1>3. Head(packet_queue[t]).key \in Keys
  BY <1>2, PacketKey
<1>4. PopPacket(t) => packet_queue' \in [Threads -> Seq(BattlePacket)]
  BY <1>2, QueueType DEF PopPacket
<1>5. rounds' \in [Threads -> [left: 0..LoopCount, due: SUBSET Keys]]
  <2>1. rounds[t].left - 1 \in 0..LoopCount
    BY ConstantsAssumption DEF TypeOK, NextPacket
  <2>2. rounds' = [rounds EXCEPT ![t].left = rounds[t].left - 1]
    BY DEF NextPacket
  <2>3. QED
    BY <2>1, <2>2 DEF TypeOK
<1>6. QED
  BY <1>2, <1>3, <1>4, <1>5 DEF NextPacket

(* A join puts a well-formed battle in the list, under the key of its packet
   (execJoin2). *)
LEMMA JoinedBattle ==
  ASSUME TypeOK, NEW t \in Threads, execJoin2(t)
  PROVE  LET k == Head(packet_queue[t]).key
         IN \/ UNCHANGED <<battle_list, incarnation>>
            \/ /\ \E b \in Battle : battle_list' = [battle_list EXCEPT ![k] = b]
               /\ incarnation' = IF Listed(k) THEN incarnation
                                 ELSE [incarnation EXCEPT ![k] = @ + 1]
<1> DEFINE p == Head(packet_queue[t])
           k == p.key
           found == IF Listed(k) THEN battle_list[k] ELSE NewBattle(Roster[k])
<1>1. p \in Join2Packet
  BY NextPacketType, PacketFields DEF execJoin2
<1>2. /\ k \in Keys /\ p.player_id \in PlayerIds /\ p.actor \in Actors
  BY <1>1 DEF Join2Packet
<1>3. found \in Battle
  BY <1>2, NewBattleType, ConstantsAssumption DEF TypeOK, Listed
<1>4. BindPlayer(found, k, p.player_id, p.actor) \in Battle
  BY <1>2, <1>3, JoinTypes
<1>5. \/ UNCHANGED <<battle_list, incarnation>>
      \/ /\ battle_list' = [battle_list EXCEPT ![k] = BindPlayer(found, k, p.player_id, p.actor)]
         /\ incarnation' = IF Listed(k) THEN incarnation
                           ELSE [incarnation EXCEPT ![k] = @ + 1]
  BY DEF execJoin2
<1> HIDE DEF found
<1>6. QED
  BY <1>4, <1>5

(* An input or a handshake changes at most the battle of its packet's key,
   if there is one (execPlayerInput, execPlayerInputUdp, execUdpHandshake). *)
LEMMA InputBattle ==
  ASSUME TypeOK, NEW t \in Threads,
         execPlayerInput(t) \/ execPlayerInputUdp(t) \/ execUdpHandshake(t)
  PROVE  LET k == Head(packet_queue[t]).key
         IN \/ battle_list' = battle_list
            \/ /\ Listed(k)
               /\ \E b \in Battle : battle_list' = [battle_list EXCEPT ![k] = b]
<1> DEFINE p == Head(packet_queue[t])
<1>1. p \in BattlePacket /\ p.key \in Keys
  BY NextPacketType DEF execPlayerInput, execPlayerInputUdp, execUdpHandshake
<1>2. Listed(p.key) => battle_list[p.key] \in Battle
  BY <1>1 DEF TypeOK, Listed
<1>3. CASE execPlayerInput(t)
  <2>1. p.seq_id \in SeqIds /\ p.hits \in Nat
    BY <1>3, <1>1, PacketFields, NextPacketType DEF execPlayerInput, PlayerInputPacket
  <2>2. Listed(p.key) =>
          playerAction(battle_list[p.key], p.actor, p.seq_id, p.hits) \in Battle
    BY <1>2, <2>1, ActionTypes
  <2>3. QED
    BY <1>3, <2>2 DEF execPlayerInput
<1>4. CASE execPlayerInputUdp(t)
  <2>1. p.seq_id \in SeqIds /\ p.hits \in Nat
    BY <1>4, <1>1, PacketFields, NextPacketType DEF execPlayerInputUdp, PlayerInputUdpPacket
  <2>2. Listed(p.key) =>
          playerActionUdp(battle_list[p.key], p.ep, p.seq_id, p.hits) \in Battle
    BY <1>2, <2>1, ActionTypes
  <2>3. QED
    BY <1>4, <2>2 DEF execPlayerInputUdp
<1>5. CASE execUdpHandshake(t)
  <2>1. p.player_id \in PlayerIds /\ p.ep \in Endpoints
    BY <1>5, <1>1, PacketFields, NextPacketType DEF execUdpHandshake, UdpHandshakePacket
  <2>2. Listed(p.key) => SetEndpoint(battle_list[p.key], p.player_id, p.ep) \in Battle
    BY <1>1, <1>2, <2>1, JoinTypes
  <2>3. QED
    BY <1>5, <2>2 DEF execUdpHandshake
<1>6. QED
  BY <1>3, <1>4, <1>5

-----------------------------------------------------------------------------
(* Every step keeps every variable in its type. *)
LEMMA TypeStep ==
  ASSUME TypeOK, DueListed, [Next]_vars
  PROVE  TypeOK'
<1> USE DEF worker_vars, network_vars, task_vars
<1>1. ASSUME NEW r \in Requests, Request(r)
      PROVE  TypeOK'
  <2>1. r \in BattlePacket
    BY ConstantsAssumption DEF BattlePacket
  <2>2. packet_queue' \in [Threads -> Seq(BattlePacket)]
    BY <1>1, <2>1, PushType DEF Request
  <2>3. sent' \in 0..MaxRequests
    BY <1>1, ConstantsAssumption DEF Request, TypeOK
  <2>4. QED
    BY <1>1, <2>2, <2>3 DEF Request, TypeOK
<1>2. ASSUME NEW a \in Actors, SessionError(a)
      PROVE  TypeOK'
  <2>1. onError(a) \in MasterOp
    BY DEF onError, MasterOp, ErrorOp
  <2>2. master_queue' \in Seq(MasterOp)
    BY <1>2, <2>1, AppendProperties DEF SessionError, TypeOK
  <2>3. QED
    BY <1>2, <2>2 DEF SessionError, TypeOK
<1>3. ASSUME NEW a \in Actors, SessionClose(a) \/ RemoveClosedActor(a)
      PROVE  TypeOK'
  BY <1>3 DEF SessionClose, RemoveClosedActor, TypeOK
<1>4. CASE MasterQueue
  <2>1. master_queue # <<>>
    BY <1>4 DEF MasterQueue, ApplyAddActorInfo, ApplyRemoveActorInfo,
                ApplyReceiveError, ApplyOnError, NextOp
  <2>2. Head(master_queue) \in MasterOp /\ Tail(master_queue) \in Seq(MasterOp)
    BY <2>1, HeadAndTail DEF TypeOK
  <2>3. CASE ApplyAddActorInfo
    <3>1. Head(master_queue).key \in Keys
      BY <2>2, <2>3 DEF MasterOp, AddOp, RemoveOp, ErrorOp, NextOp, ApplyAddActorInfo
    <3>2. actor_map' = [actor_map EXCEPT ![Head(master_queue).actor] = Head(master_queue).key]
      BY <2>3 DEF ApplyAddActorInfo
    <3>3. actor_map' \in [Actors -> Keys \cup {NoKey}]
      BY <3>1, <3>2 DEF TypeOK
    <3>4. QED
      BY <2>2, <2>3, <3>3 DEF ApplyAddActorInfo, TypeOK
  <2>4. CASE ApplyRemoveActorInfo
    <3>1. actor_map' \in [Actors -> Keys \cup {NoKey}]
      <4> DEFINE op == Head(master_queue)
      <4>1. actor_map' = [a \in Actors |-> IF a = op.actor /\ actor_map[a] = op.key
                                          THEN NoKey ELSE actor_map[a]]
        BY <2>4 DEF ApplyRemoveActorInfo
      <4> HIDE DEF op
      <4>2. QED
        BY <4>1 DEF TypeOK
    <3>2. QED
      BY <2>2, <2>4, <3>1 DEF ApplyRemoveActorInfo, TypeOK
  <2>5. CASE ApplyReceiveError
    <3> DEFINE a == Head(master_queue).actor
    <3>1. a \in Actors
      BY <2>2, <2>5 DEF MasterOp, AddOp, RemoveOp, ErrorOp, NextOp, ApplyReceiveError
    <3>2. packet_queue' \in [Threads -> Seq(BattlePacket)]
      <4> HIDE DEF a
      <4>1. CASE BattleOfError(a) = NoKey
        BY <2>5, <4>1 DEF ApplyReceiveError, TypeOK, a
      <4>2. CASE BattleOfError(a) # NoKey
        <5> DEFINE p == [type |-> "ERROR", key |-> BattleOfError(a), actor |-> a]
        <5>1. BattleOfError(a) \in Keys
          BY <3>1, <4>2 DEF BattleOfError, TypeOK
        <5>2. p \in BattlePacket
          BY <3>1, <5>1, ServerPackets
        <5>3. pushPacket(p)
          BY <2>5, <4>2 DEF ApplyReceiveError, a
        <5>4. QED
          BY <5>2, <5>3, PushType
      <4>3. QED
        BY <4>1, <4>2
    <3>3. QED
      BY <2>2, <2>5, <3>2 DEF ApplyReceiveError, TypeOK
  <2>6. CASE ApplyOnError
    <3>1. Head(master_queue).actor \in Actors
      BY <2>2, <2>6 DEF MasterOp, AddOp, RemoveOp, ErrorOp, NextOp, ApplyOnError
    <3>2. receiveError(Head(master_queue).actor) \in MasterOp
      BY <3>1 DEF receiveError, MasterOp, ErrorOp
    <3>3. master_queue' \in Seq(MasterOp)
      BY <2>2, <2>6, <3>2, AppendProperties DEF ApplyOnError
    <3>4. QED
      BY <2>6, <3>3 DEF ApplyOnError, TypeOK
  <2>7. QED
    BY <1>4, <2>3, <2>4, <2>5, <2>6 DEF MasterQueue
<1>5. CASE Scheduler
  <2>1. CASE RunAddTask
    <3>1. Head(task_posts) \in EndTask /\ Tail(task_posts) \in Seq(EndTask)
      BY <2>1, HeadAndTail DEF RunAddTask, TypeOK
    <3>2. QED
      BY <2>1, <3>1 DEF RunAddTask, TypeOK, EndTask
  <2>2. ASSUME NEW k \in Keys, FireEndTask(k)
        PROVE  TypeOK'
    BY <2>2 DEF FireEndTask, TypeOK
  <2>3. QED
    BY <1>5, <2>1, <2>2 DEF Scheduler
<1>6. CASE RedisReply
  <2>1. Head(redis_queue) \in JoinPacket /\ Tail(redis_queue) \in Seq(JoinPacket)
    BY <1>6, HeadAndTail DEF RedisReply, TypeOK
  <2>2. packet_queue' \in [Threads -> Seq(BattlePacket)]
    <3> DEFINE p == Head(redis_queue)
               p2(ok) == [type |-> "JOIN2", key |-> p.key, player_id |-> p.player_id,
                          actor |-> p.actor, verified |-> ok]
    <3>1. p.key \in Keys
      BY <2>1 DEF JoinPacket
    <3>2. \A ok \in BOOLEAN : p2(ok) \in BattlePacket
      BY <2>1, <3>1, ServerPackets
    <3>3. UNCHANGED packet_queue \/ \E ok \in BOOLEAN : pushPacket(p2(ok))
      BY <1>6 DEF RedisReply
    <3> HIDE DEF p2
    <3>4. CASE UNCHANGED packet_queue
      BY <3>4 DEF TypeOK
    <3>5. ASSUME NEW ok \in BOOLEAN, pushPacket(p2(ok))
          PROVE  packet_queue' \in [Threads -> Seq(BattlePacket)]
      BY <3>2, <3>5, PushType
    <3>6. QED
      BY <3>3, <3>4, <3>5
  <2>3. QED
    BY <1>6, <2>1, <2>2 DEF RedisReply, TypeOK
<1>7. ASSUME NEW t \in Threads, Dispatch(t)
      PROVE  TypeOK'
  <2> DEFINE p == Head(packet_queue[t])
  <2>1. CASE execEndBattle(t)
    <3>1. NextPacket(t, "END_BATTLE") /\ PopPacket(t)
      BY <2>1 DEF execEndBattle
    <3>2. p.key \in Keys
      BY <3>1, NextPacketType
    <3>3. task_posts' \in Seq(EndTask)
      <4>1. CASE Listed(p.key)
        <5> DEFINE task == [key |-> p.key, actors |-> PlayerKeys(battle_list[p.key])]
        <5>1. task \in EndTask
          BY <3>2, <4>1, EndOpsType DEF EndTask, PlayerKeys
        <5>2. task_posts' = Append(task_posts, task)
          BY <2>1, <4>1 DEF execEndBattle
        <5>3. QED
          BY <5>1, <5>2, AppendProperties DEF TypeOK
      <4>2. CASE ~Listed(p.key)
        BY <2>1, <4>2 DEF execEndBattle, TypeOK
      <4>3. QED
        BY <4>1, <4>2
    <3>4. battle_list' \in [Keys -> Battle \cup {NoBattle}] /\ ended' \in [Keys -> BOOLEAN]
      BY <2>1 DEF execEndBattle, TypeOK
    <3>5. /\ packet_queue' \in [Threads -> Seq(BattlePacket)]
          /\ rounds' \in [Threads -> [left: 0..LoopCount, due: SUBSET Keys]]
      BY <3>1, NextPacketType
    <3>6. QED
      BY <2>1, <3>3, <3>4, <3>5 DEF execEndBattle, TypeOK
  <2>2. ASSUME \/ execError(t) \/ execLeave(t)
        PROVE  TypeOK'
    <3>1. /\ Tail(packet_queue[t]) \in Seq(BattlePacket)
          /\ p.key \in Keys
          /\ PopPacket(t) => packet_queue' \in [Threads -> Seq(BattlePacket)]
          /\ rounds' \in [Threads -> [left: 0..LoopCount, due: SUBSET Keys]]
      BY <2>2, NextPacketType DEF execError, execLeave
    <3>2. \/ Listed(p.key) /\ endBattle(p.key, t, Tail(packet_queue[t]))
          \/ PopPacket(t) /\ UNCHANGED <<master_queue, ended>>
      BY <2>2 DEF execError, execLeave
    <3>3. /\ packet_queue' \in [Threads -> Seq(BattlePacket)]
          /\ master_queue' \in Seq(MasterOp)
          /\ ended' \in [Keys -> BOOLEAN]
      <4>1. CASE Listed(p.key) /\ endBattle(p.key, t, Tail(packet_queue[t]))
        BY <3>1, <4>1, EndBattleType
      <4>2. CASE PopPacket(t) /\ UNCHANGED <<master_queue, ended>>
        BY <3>1, <4>2 DEF TypeOK
      <4>3. QED
        BY <3>2, <4>1, <4>2
    <3>4. /\ UNCHANGED <<network_vars, task_vars, actor_map, redis_queue, battle_list,
                         incarnation>>
      BY <2>2 DEF execError, execLeave
    <3>5. QED
      BY <3>1, <3>3, <3>4 DEF TypeOK
  <2>3. CASE execJoin(t)
    <3>1. /\ packet_queue' \in [Threads -> Seq(BattlePacket)]
          /\ rounds' \in [Threads -> [left: 0..LoopCount, due: SUBSET Keys]]
          /\ p \in JoinPacket
      BY <2>3, NextPacketType, PacketFields DEF execJoin
    <3>2. redis_queue' \in Seq(JoinPacket)
      BY <2>3, <3>1, AppendProperties DEF execJoin, TypeOK
    <3>3. QED
      BY <2>3, <3>1, <3>2 DEF execJoin, TypeOK
  <2>4. CASE execJoin2(t)
    <3>1. /\ packet_queue' \in [Threads -> Seq(BattlePacket)]
          /\ rounds' \in [Threads -> [left: 0..LoopCount, due: SUBSET Keys]]
          /\ p \in Join2Packet
      BY <2>4, NextPacketType, PacketFields DEF execJoin2
    <3>2. p.key \in Keys /\ p.actor \in Actors
      BY <3>1 DEF Join2Packet
    <3>3. battle_list' \in [Keys -> Battle \cup {NoBattle}]
      BY <2>4, JoinedBattle DEF TypeOK
    <3>4. incarnation' \in [Keys -> Nat]
      <4>1. \/ incarnation' = incarnation
            \/ incarnation' = [incarnation EXCEPT ![p.key] = @ + 1]
        BY <2>4, JoinedBattle
      <4>2. QED
        BY <4>1 DEF TypeOK
    <3>5. master_queue' \in Seq(MasterOp)
      <4>1. addActorInfo(p.actor, p.key) \in MasterOp
        BY <3>2 DEF addActorInfo, MasterOp, AddOp
      <4>2. master_queue' = Append(master_queue, addActorInfo(p.actor, p.key))
        BY <2>4 DEF execJoin2, RouteErrors
      <4>3. QED
        BY <4>1, <4>2, AppendProperties DEF TypeOK
    <3>6. UNCHANGED <<network_vars, task_vars, actor_map, redis_queue, ended>>
      BY <2>4 DEF execJoin2
    <3>7. QED
      BY <3>1, <3>3, <3>4, <3>5, <3>6 DEF TypeOK
  <2>5. ASSUME execPlayerInput(t) \/ execPlayerInputUdp(t) \/ execUdpHandshake(t)
        PROVE  TypeOK'
    <3>1. /\ packet_queue' \in [Threads -> Seq(BattlePacket)]
          /\ rounds' \in [Threads -> [left: 0..LoopCount, due: SUBSET Keys]]
          /\ p \in BattlePacket
          /\ p.key \in Keys
      BY <2>5, NextPacketType DEF execPlayerInput, execPlayerInputUdp, execUdpHandshake
    <3>2. \/ battle_list' = battle_list
          \/ \E b \in Battle : battle_list' = [battle_list EXCEPT ![p.key] = b]
      BY <2>5, InputBattle
    <3>3. battle_list' \in [Keys -> Battle \cup {NoBattle}]
      BY <3>2 DEF TypeOK
    <3>4. UNCHANGED <<network_vars, task_vars, actor_map, master_queue, redis_queue,
                      ended, incarnation>>
      BY <2>5 DEF execPlayerInput, execPlayerInputUdp, execUdpHandshake
    <3>5. QED
      BY <3>1, <3>3, <3>4 DEF TypeOK
  <2>6. QED
    BY <1>7, <2>1, <2>2, <2>3, <2>4, <2>5 DEF Dispatch
<1>8. ASSUME NEW t \in Threads, Update(t)
      PROVE  TypeOK'
  <2>1. ASSUME NEW due \in SUBSET Keys, BeginUpdate(t, due)
        PROVE  TypeOK'
    <3>1. [left |-> LoopCount, due |-> due] \in [left: 0..LoopCount, due: SUBSET Keys]
      BY ConstantsAssumption
    <3>2. rounds' \in [Threads -> [left: 0..LoopCount, due: SUBSET Keys]]
      BY <2>1, <3>1 DEF BeginUpdate, TypeOK
    <3>3. QED
      BY <2>1, <3>2 DEF BeginUpdate, TypeOK
  <2>2. ASSUME NEW k \in Keys, UpdateBattle(t, k)
        PROVE  TypeOK'
    <3>1. Listed(k) /\ packet_queue[t] \in Seq(BattlePacket)
      BY <2>2 DEF UpdateBattle, DueListed, BattlesOf, TypeOK
    <3>2. rounds' \in [Threads -> [left: 0..LoopCount, due: SUBSET Keys]]
      BY <2>2 DEF UpdateBattle, TypeOK
    <3>3. \/ endBattle(k, t, packet_queue[t])
          \/ UNCHANGED <<packet_queue, master_queue, ended>>
      BY <2>2 DEF UpdateBattle
    <3>4. /\ packet_queue' \in [Threads -> Seq(BattlePacket)]
          /\ master_queue' \in Seq(MasterOp)
          /\ ended' \in [Keys -> BOOLEAN]
      BY <3>1, <3>3, EndBattleType DEF TypeOK
    <3>5. UNCHANGED <<network_vars, task_vars, battle_list, actor_map, redis_queue,
                      incarnation>>
      BY <2>2 DEF UpdateBattle
    <3>6. QED
      BY <3>2, <3>4, <3>5 DEF TypeOK
  <2>3. QED
    BY <1>8, <2>1, <2>2 DEF Update
<1>9. CASE UNCHANGED vars
  BY <1>9 DEF vars, TypeOK
<1>10. QED
  BY <1>1, <1>2, <1>3, <1>4, <1>5, <1>6, <1>7, <1>8, <1>9
     DEF Next, Client, Network, joinPlayer, leavePlayer, playerInput, playerInputUdp,
         udpHandshake

-----------------------------------------------------------------------------
(* What pushing and popping do to the END_BATTLE packets of a queue, and to
   where its packets belong. *)
LEMMA AppendPacket ==
  ASSUME NEW q \in Seq(BattlePacket), NEW p \in BattlePacket
  PROVE  /\ \A k : EndIn(Append(q, p), k)
                     <=> EndIn(q, k) \/ (p.type = "END_BATTLE" /\ p.key = k)
         /\ \A t : AtHome(q, t) /\ CalcThreadIndex(p.key) = t => AtHome(Append(q, p), t)
<1>1. /\ Len(Append(q, p)) = Len(q) + 1 /\ Len(q) \in Nat
      /\ \A i \in 1..Len(q) : Append(q, p)[i] = q[i]
      /\ Append(q, p)[Len(q) + 1] = p
  BY AppendProperties, LenProperties
<1>2. 1..(Len(q) + 1) = (1..Len(q)) \cup {Len(q) + 1}
  BY <1>1
<1>3. QED
  BY <1>1, <1>2 DEF EndIn, AtHome

(* The same for the packet at the head (runLoop). *)
LEMMA PopPacketOf ==
  ASSUME NEW q \in Seq(BattlePacket), q # <<>>
  PROVE  /\ \A k : EndIn(q, k)
                     <=> EndIn(Tail(q), k) \/ (Head(q).type = "END_BATTLE" /\ Head(q).key = k)
         /\ \A t : AtHome(q, t) => AtHome(Tail(q), t) /\ CalcThreadIndex(Head(q).key) = t
<1>1. /\ Len(q) \in Nat \ {0}
      /\ Len(Tail(q)) = Len(q) - 1
      /\ Head(q) = q[1]
      /\ \A i \in 1..Len(Tail(q)) : Tail(q)[i] = q[i + 1]
  BY LenProperties, EmptySeq, HeadTailProperties
<1>2. \A i \in 1..Len(q) : i = 1 \/ (i - 1 \in 1..Len(Tail(q)) /\ Tail(q)[i - 1] = q[i])
  BY <1>1
<1>3. \A i \in 1..Len(Tail(q)) : i + 1 \in 1..Len(q)
  BY <1>1
<1>4. 1 \in 1..Len(q)
  BY <1>1
<1>5. \A k : EndIn(q, k)
               <=> EndIn(Tail(q), k) \/ (Head(q).type = "END_BATTLE" /\ Head(q).key = k)
  BY <1>1, <1>2, <1>3, <1>4 DEF EndIn
<1>6. \A t : AtHome(q, t) => AtHome(Tail(q), t) /\ CalcThreadIndex(Head(q).key) = t
  BY <1>1, <1>3, <1>4 DEF AtHome
<1>7. QED
  BY <1>5, <1>6

(* A queue that is replaced by one of packets that are at home. *)
LEMMA ReplaceQueue ==
  ASSUME TypeOK, PacketsAtHome, NEW t \in Threads, NEW q,
         packet_queue' = [packet_queue EXCEPT ![t] = q], AtHome(q, t)
  PROVE  /\ PacketsAtHome'
         /\ \A k \in Keys : EndQueued(k)' <=> IF CalcThreadIndex(k) = t THEN EndIn(q, k)
                                                                      ELSE EndQueued(k)
<1>1. \A u \in Threads : packet_queue'[u] = IF u = t THEN q ELSE packet_queue[u]
  BY DEF TypeOK
<1>2. PacketsAtHome'
  BY <1>1 DEF PacketsAtHome, AtHome
<1>3. \A k \in Keys : EndQueued(k)' <=> IF CalcThreadIndex(k) = t THEN EndIn(q, k)
                                                                ELSE EndQueued(k)
  BY <1>1, IndexType DEF EndQueued, EndIn
<1>4. QED
  BY <1>2, <1>3

(* Only endBattle pushes END_BATTLE packets. *)
LEMMA PushHome ==
  ASSUME TypeOK, PacketsAtHome, NEW p \in BattlePacket, p.type # "END_BATTLE",
         pushPacket(p)
  PROVE  /\ PacketsAtHome'
         /\ \A k \in Keys : EndQueued(k)' <=> EndQueued(k)
<1> DEFINE t == CalcThreadIndex(p.key)
           q == Append(packet_queue[t], p)
<1>1. t \in Threads
  BY IndexType, PacketKey
<1>2. packet_queue[t] \in Seq(BattlePacket) /\ AtHome(packet_queue[t], t)
  BY <1>1 DEF TypeOK, PacketsAtHome
<1>3. AtHome(q, t) /\ \A k : EndIn(q, k) <=> EndIn(packet_queue[t], k)
  BY <1>2, AppendPacket
<1>4. packet_queue' = [packet_queue EXCEPT ![t] = q]
  BY DEF pushPacket
<1> HIDE DEF t, q
<1>5. QED
  BY <1>1, <1>3, <1>4, ReplaceQueue DEF EndQueued

(* A worker pops packets of its own keys only (runLoop). *)
LEMMA PopHome ==
  ASSUME TypeOK, PacketsAtHome, NEW t \in Threads, NEW type, NextPacket(t, type)
  PROVE  /\ AtHome(Tail(packet_queue[t]), t)
         /\ CalcThreadIndex(Head(packet_queue[t]).key) = t
         /\ \A k \in Keys : CalcThreadIndex(k) = t =>
              (EndQueued(k) <=> \/ EndIn(Tail(packet_queue[t]), k)
                                \/ type = "END_BATTLE" /\ Head(packet_queue[t]).key = k)
         /\ PopPacket(t) => PacketsAtHome'
<1>1. /\ packet_queue[t] \in Seq(BattlePacket) /\ packet_queue[t] # <<>>
      /\ Head(packet_queue[t]).type = type
      /\ AtHome(packet_queue[t], t)
  BY DEF TypeOK, NextPacket, PacketsAtHome
<1>2. /\ AtHome(Tail(packet_queue[t]), t)
      /\ CalcThreadIndex(Head(packet_queue[t]).key) = t
  BY <1>1, PopPacketOf
<1>3. \A k \in Keys : CalcThreadIndex(k) = t =>
        (EndQueued(k) <=> \/ EndIn(Tail(packet_queue[t]), k)
                          \/ type = "END_BATTLE" /\ Head(packet_queue[t]).key = k)
  BY <1>1, PopPacketOf DEF EndQueued
<1>4. PopPacket(t) => PacketsAtHome'
  BY <1>2, ReplaceQueue DEF PopPacket
<1>5. QED
  BY <1>2, <1>3, <1>4

-----------------------------------------------------------------------------
(***************************************************************************)
(* What a step can do to the battles of a key: nothing (at most the last   *)
(* END_BATTLE packet of a key without a battle is dropped), end its        *)
(* battle, erase it, or create one.                                        *)
(***************************************************************************)
Same(k) == /\ Listed(k)' <=> Listed(k)
           /\ ended'[k] = ended[k]
           /\ incarnation'[k] = incarnation[k]
           /\ EndQueued(k)' => EndQueued(k)
           /\ Listed(k) /\ EndQueued(k) => EndQueued(k)'

Ends(k) == /\ Listed(k) /\ Listed(k)'
           /\ ended'[k] = TRUE
           /\ incarnation'[k] = incarnation[k]
           /\ EndQueued(k)'

Erases(k) == /\ Listed(k) /\ EndQueued(k) /\ ~Listed(k)'
             /\ ended'[k] = FALSE
             /\ incarnation'[k] = incarnation[k]

Creates(k) == /\ ~Listed(k) /\ Listed(k)'
              /\ ended'[k] = ended[k]
              /\ incarnation'[k] = incarnation[k] + 1
              /\ EndQueued(k)' <=> EndQueued(k)

AllSame == \A k \in Keys : Same(k)

OneMoves == \E k \in Keys : /\ Ends(k) \/ Erases(k) \/ Creates(k)
                            /\ \A j \in Keys \ {k} : Same(j)

(* A step that leaves the battles and their queues alone changes no key. *)
LEMMA QuietStep ==
  ASSUME \A k \in Keys : battle_list'[k] = battle_list[k],
         UNCHANGED <<ended, incarnation>>,
         \A k \in Keys : EndQueued(k)' <=> EndQueued(k)
  PROVE  AllSame
BY DEF AllSame, Same, Listed

(* Battles found due stay listed as long as their worker erases none
   (runLoop). *)
LEMMA DueKept ==
  ASSUME DueListed, \A t \in Threads : rounds'[t].due \subseteq rounds[t].due,
         \A k \in Keys : Listed(k) => Listed(k)'
  PROVE  DueListed'
BY DEF DueListed, BattlesOf

(* endBattle, called by the worker of the key: the END_BATTLE packet is
   queued at home, and the other keys keep theirs. *)
LEMMA EndHome ==
  ASSUME TypeOK, PacketsAtHome, NEW t \in Threads, NEW k \in Keys,
         CalcThreadIndex(k) = t, Listed(k),
         NEW q \in Seq(BattlePacket), AtHome(q, t),
         \A j \in Keys : CalcThreadIndex(j) = t => (EndQueued(j) <=> EndIn(q, j)),
         endBattle(k, t, q), UNCHANGED <<battle_list, incarnation>>
  PROVE  PacketsAtHome' /\ OneMoves
<1> DEFINE p == [type |-> "END_BATTLE", key |-> k]
<1>1. p \in BattlePacket
  BY ServerPackets
<1>2. /\ AtHome(Append(q, p), t)
      /\ \A j : EndIn(Append(q, p), j) <=> EndIn(q, j) \/ j = k
  <2>1. p.type = "END_BATTLE" /\ p.key = k
    OBVIOUS
  <2> HIDE DEF p
  <2>2. QED
    BY <1>1, <2>1, AppendPacket
<1>3. packet_queue' = [packet_queue EXCEPT ![t] = Append(q, p)]
  BY DEF endBattle
<1> HIDE DEF p
<1>4. /\ PacketsAtHome'
      /\ \A j \in Keys : EndQueued(j)' <=> EndQueued(j) \/ j = k
  BY <1>2, <1>3, ReplaceQueue
<1>5. \A j \in Keys : ended'[j] = IF j = k THEN TRUE ELSE ended[j]
  BY DEF endBattle, TypeOK
<1>6. Ends(k)
  BY <1>4, <1>5 DEF Ends, Listed
<1>7. \A j \in Keys \ {k} : Same(j)
  BY <1>4, <1>5 DEF Same, Listed
<1>8. QED
  BY <1>4, <1>6, <1>7 DEF OneMoves

(* Every step keeps the packets and the due battles at home, and moves at
   most one key's battle on. *)
LEMMA KeyStep ==
  ASSUME IInv, TypeOK', [Next]_vars
  PROVE  /\ PacketsAtHome'
         /\ DueListed'
         /\ AllSame \/ OneMoves
<1> USE DEF worker_vars, network_vars, task_vars
<1>0. TypeOK /\ PacketsAtHome /\ DueListed
  BY DEF IInv
<1>1. ASSUME UNCHANGED worker_vars,
             \/ UNCHANGED packet_queue
             \/ \E p \in BattlePacket : p.type # "END_BATTLE" /\ pushPacket(p)
      PROVE  PacketsAtHome' /\ DueListed' /\ AllSame
  <2>1. PacketsAtHome' /\ \A k \in Keys : EndQueued(k)' <=> EndQueued(k)
    <3>1. CASE UNCHANGED packet_queue
      BY <1>0, <3>1 DEF PacketsAtHome, EndQueued
    <3>2. CASE \E p \in BattlePacket : p.type # "END_BATTLE" /\ pushPacket(p)
      BY <1>0, <3>2, PushHome
    <3>3. QED
      BY <1>1, <3>1, <3>2
  <2>2. DueListed'
    BY <1>0, <1>1, DueKept DEF Listed
  <2>3. AllSame
    BY <1>1, <2>1, QuietStep
  <2>4. QED
    BY <2>1, <2>2, <2>3
<1>2. ASSUME NEW r \in Requests, Request(r)
      PROVE  PacketsAtHome' /\ DueListed' /\ AllSame
  <2>1. r \in BattlePacket /\ r.type # "END_BATTLE"
    <3>1. r \in TcpRequest \cup UdpRequest
      BY ConstantsAssumption
    <3>2. r.type # "END_BATTLE"
      BY <3>1 DEF TcpRequest, UdpRequest, JoinPacket, LeavePacket, PlayerInputPacket,
                  PlayerInputUdpPacket, UdpHandshakePacket
    <3>3. QED
      BY <3>1, <3>2 DEF BattlePacket
  <2>2. QED
    BY <1>1, <1>2, <2>1 DEF Request
<1>3. ASSUME NEW a \in Actors, SessionError(a) \/ SessionClose(a) \/ RemoveClosedActor(a)
      PROVE  PacketsAtHome' /\ DueListed' /\ AllSame
  BY <1>1, <1>3 DEF SessionError, SessionClose, RemoveClosedActor
<1>4. CASE MasterQueue
  <2>1. CASE ApplyAddActorInfo \/ ApplyRemoveActorInfo \/ ApplyOnError
    BY <1>1, <2>1 DEF ApplyAddActorInfo, ApplyRemoveActorInfo, ApplyOnError
  <2>2. CASE ApplyReceiveError
    <3> DEFINE a == Head(master_queue).actor
               p == [type |-> "ERROR", key |-> BattleOfError(a), actor |-> a]
    <3>1. UNCHANGED packet_queue \/ (BattleOfError(a) # NoKey /\ pushPacket(p))
      BY <2>2 DEF ApplyReceiveError
    <3>2. BattleOfError(a) # NoKey => p \in BattlePacket /\ p.type # "END_BATTLE"
      <4>1. Head(master_queue) \in MasterOp
        BY <1>0, <2>2, HeadAndTail DEF ApplyReceiveError, NextOp, TypeOK
      <4>2. a \in Actors
        BY <2>2, <4>1 DEF MasterOp, AddOp, RemoveOp, ErrorOp, NextOp, ApplyReceiveError
      <4> HIDE DEF a
      <4>3. BattleOfError(a) # NoKey => BattleOfError(a) \in Keys
        BY <1>0, <4>2 DEF BattleOfError, TypeOK
      <4>4. QED
        BY <4>2, <4>3, ServerPackets
    <3>3. UNCHANGED worker_vars
      BY <2>2 DEF ApplyReceiveError
    <3> HIDE DEF p
    <3>4. QED
      BY <1>1, <3>1, <3>2, <3>3
  <2>3. QED
    BY <1>4, <2>1, <2>2 DEF MasterQueue
<1>5. CASE Scheduler
  BY <1>1, <1>5 DEF Scheduler, RunAddTask, FireEndTask
<1>6. CASE RedisReply
  <2> DEFINE p(ok) == [type |-> "JOIN2", key |-> Head(redis_queue).key,
                       player_id |-> Head(redis_queue).player_id,
                       actor |-> Head(redis_queue).actor, verified |-> ok]
  <2>1. Head(redis_queue) \in JoinPacket
    BY <1>0, <1>6, HeadAndTail DEF RedisReply, TypeOK
  <2>2. Head(redis_queue).key \in Keys
    BY <2>1 DEF JoinPacket
  <2>3. \A ok \in BOOLEAN : p(ok) \in BattlePacket /\ p(ok).type # "END_BATTLE"
    BY <2>1, <2>2, ServerPackets
  <2>4. UNCHANGED packet_queue \/ \E ok \in BOOLEAN : pushPacket(p(ok))
    BY <1>6 DEF RedisReply
  <2>5. UNCHANGED worker_vars
    BY <1>6 DEF RedisReply
  <2> HIDE DEF p
  <2>6. QED
    BY <1>1, <2>3, <2>4, <2>5
<1>7. ASSUME NEW t \in Threads, Dispatch(t)
      PROVE  PacketsAtHome' /\ DueListed' /\ (AllSame \/ OneMoves)
  <2> DEFINE p == Head(packet_queue[t])
             q == Tail(packet_queue[t])
  <2>1. \E type : NextPacket(t, type)
    BY <1>7 DEF Dispatch, execEndBattle, execError, execJoin, execJoin2, execLeave,
                execPlayerInput, execPlayerInputUdp, execUdpHandshake
  <2>2. /\ \A u \in Threads : rounds'[u].due = rounds[u].due
        /\ rounds[t].due = {}
    <3>1. rounds' = [rounds EXCEPT ![t].left = @ - 1] /\ rounds[t].due = {}
      BY <2>1 DEF NextPacket
    <3>2. QED
      BY <1>0, <3>1 DEF TypeOK
  <2>3. /\ p.key \in Keys /\ CalcThreadIndex(p.key) = t
        /\ q \in Seq(BattlePacket) /\ AtHome(q, t)
        /\ PopPacket(t) => PacketsAtHome'
    BY <1>0, <2>1, NextPacketType, PopHome
  <2>4. ASSUME PopPacket(t)
        PROVE  \A k \in Keys : EndQueued(k)' <=> IF CalcThreadIndex(k) = t THEN EndIn(q, k)
                                                                         ELSE EndQueued(k)
    BY <1>0, <2>3, <2>4, ReplaceQueue DEF PopPacket
  <2>5. ASSUME NEW type, type # "END_BATTLE", NextPacket(t, type)
        PROVE  \A k \in Keys : CalcThreadIndex(k) = t => (EndQueued(k) <=> EndIn(q, k))
    BY <1>0, <2>5, PopHome
  <2> HIDE DEF p, q
  <2>6. CASE execEndBattle(t)
    <3> PICK k \in Keys : k = p.key
      BY <2>3
    <3>1. NextPacket(t, "END_BATTLE") /\ PopPacket(t) /\ UNCHANGED incarnation
      BY <2>6 DEF execEndBattle
    <3>2. \A j \in Keys : CalcThreadIndex(j) = t => (EndQueued(j) <=> EndIn(q, j) \/ j = k)
      BY <1>0, <3>1, PopHome DEF p, q
    <3>3. \A j \in Keys : /\ EndQueued(j)' => EndQueued(j)
                          /\ j # k => (EndQueued(j)' <=> EndQueued(j))
      BY <2>4, <3>1, <3>2
    <3>4. CASE Listed(k)
      <4>1. /\ battle_list' = [battle_list EXCEPT ![k] = NoBattle]
            /\ ended' = [ended EXCEPT ![k] = FALSE]
        BY <2>6, <3>4 DEF execEndBattle, p
      <4>2. \A j \in Keys : /\ battle_list'[j] = IF j = k THEN NoBattle ELSE battle_list[j]
                            /\ ended'[j] = IF j = k THEN FALSE ELSE ended[j]
        BY <1>0, <4>1 DEF TypeOK
      <4>3. Erases(k)
        BY <2>3, <3>1, <3>2, <3>4, <4>2 DEF Erases, Listed
      <4>4. \A j \in Keys \ {k} : Same(j)
        BY <3>1, <3>3, <4>2 DEF Same, Listed
      <4>5. DueListed'
        <5>1. ASSUME NEW u \in Threads, NEW j \in rounds'[u].due
              PROVE  j \in BattlesOf(u)'
          <6>1. j \in rounds[u].due
            BY <2>2, <5>1
          <6>2. u # t /\ j \in BattlesOf(u)
            BY <1>0, <2>2, <6>1 DEF DueListed
          <6>3. j # k
            BY <2>3, <6>2 DEF BattlesOf
          <6>4. QED
            BY <4>2, <6>2, <6>3 DEF BattlesOf, Listed
        <5>2. QED
          BY <5>1 DEF DueListed
      <4>6. QED
        BY <2>3, <3>1, <4>3, <4>4, <4>5 DEF OneMoves
    <3>5. CASE ~Listed(k)
      <4>1. UNCHANGED <<battle_list, ended>>
        BY <2>6, <3>5 DEF execEndBattle, p
      <4>2. DueListed'
        BY <1>0, <2>2, <4>1, DueKept DEF Listed
      <4>3. AllSame
        BY <3>1, <3>3, <3>5, <4>1 DEF AllSame, Same, Listed
      <4>4. QED
        BY <2>3, <3>1, <4>2, <4>3
    <3>6. QED
      BY <3>4, <3>5
  <2>7. CASE execError(t) \/ execLeave(t)
    <3>1. /\ \E type : type # "END_BATTLE" /\ NextPacket(t, type)
          /\ UNCHANGED <<battle_list, incarnation>>
      BY <2>7 DEF execError, execLeave
    <3>2. \/ Listed(p.key) /\ endBattle(p.key, t, q)
          \/ PopPacket(t) /\ UNCHANGED ended
      BY <2>7 DEF execError, execLeave, p, q
    <3>3. DueListed'
      BY <1>0, <2>2, <3>1, DueKept DEF Listed
    <3>4. CASE Listed(p.key) /\ endBattle(p.key, t, q)
      BY <1>0, <2>3, <2>5, <3>1, <3>3, <3>4, EndHome
    <3>5. CASE PopPacket(t) /\ UNCHANGED ended
      <4>1. \A k \in Keys : EndQueued(k)' <=> EndQueued(k)
        BY <2>4, <2>5, <3>1, <3>5
      <4>2. AllSame
        BY <3>1, <3>5, <4>1, QuietStep
      <4>3. QED
        BY <2>3, <3>3, <3>5, <4>2
    <3>6. QED
      BY <3>2, <3>4, <3>5
  <2>8. ASSUME PopPacket(t), \E type : type # "END_BATTLE" /\ NextPacket(t, type),
               UNCHANGED <<ended, incarnation>>,
               \A k \in Keys : Listed(k)' <=> Listed(k)
        PROVE  PacketsAtHome' /\ DueListed' /\ AllSame
    <3>1. \A k \in Keys : EndQueued(k)' <=> EndQueued(k)
      BY <2>4, <2>5, <2>8
    <3>2. AllSame
      BY <2>8, <3>1 DEF AllSame, Same
    <3>3. DueListed'
      BY <1>0, <2>2, <2>8, DueKept
    <3>4. QED
      BY <2>3, <2>8, <3>2, <3>3
  <2>9. CASE execJoin(t)
    BY <2>8, <2>9 DEF execJoin, Listed
  <2>10. CASE execJoin2(t)
    <3> PICK k \in Keys : k = p.key
      BY <2>3
    <3>1. PopPacket(t) /\ NextPacket(t, "JOIN2") /\ UNCHANGED ended
      BY <2>10 DEF execJoin2
    <3>2. \A j \in Keys : EndQueued(j)' <=> EndQueued(j)
      BY <2>4, <2>5, <3>1
    <3>3. CASE UNCHANGED <<battle_list, incarnation>>
      BY <2>8, <3>1, <3>3 DEF Listed
    <3>4. ASSUME NEW b \in Battle, battle_list' = [battle_list EXCEPT ![k] = b],
                 incarnation' = IF Listed(k) THEN incarnation
                                ELSE [incarnation EXCEPT ![k] = @ + 1]
          PROVE  PacketsAtHome' /\ DueListed' /\ (AllSame \/ OneMoves)
      <4>1. \A j \in Keys : battle_list'[j] = IF j = k THEN b ELSE battle_list[j]
        BY <1>0, <3>4 DEF TypeOK
      <4>2. b # NoBattle
        BY ConstantsAssumption
      <4>3. CASE Listed(k)
        BY <2>8, <3>1, <3>4, <4>1, <4>2, <4>3 DEF Listed
      <4>4. CASE ~Listed(k)
        <5>1. \A j \in Keys : incarnation'[j] = IF j = k THEN incarnation[k] + 1
                                                         ELSE incarnation[j]
          BY <1>0, <3>4, <4>4 DEF TypeOK
        <5>2. Creates(k)
          BY <2>3, <3>1, <3>2, <4>1, <4>2, <4>4, <5>1 DEF Creates, Listed
        <5>3. \A j \in Keys \ {k} : Same(j)
          BY <3>1, <3>2, <4>1, <5>1 DEF Same, Listed
        <5>4. DueListed'
          BY <1>0, <2>2, <4>1, <4>2, DueKept DEF Listed
        <5>5. QED
          BY <2>3, <3>1, <5>2, <5>3, <5>4 DEF OneMoves
      <4>5. QED
        BY <4>3, <4>4
    <3>5. QED
      BY <1>0, <2>10, <3>3, <3>4, JoinedBattle DEF p
  <2>11. CASE execPlayerInput(t) \/ execPlayerInputUdp(t) \/ execUdpHandshake(t)
    <3>1. /\ PopPacket(t) /\ UNCHANGED <<ended, incarnation>>
          /\ \E type : type # "END_BATTLE" /\ NextPacket(t, type)
      BY <2>11 DEF execPlayerInput, execPlayerInputUdp, execUdpHandshake
    <3>2. \/ battle_list' = battle_list
          \/ Listed(p.key) /\ \E b \in Battle : battle_list' = [battle_list EXCEPT ![p.key] = b]
      BY <1>0, <2>11, InputBattle DEF p
    <3>3. \A k \in Keys : Listed(k)' <=> Listed(k)
      <4>1. ASSUME NEW b \in Battle, Listed(p.key),
                   battle_list' = [battle_list EXCEPT ![p.key] = b]
            PROVE  \A k \in Keys : Listed(k)' <=> Listed(k)
        <5>1. \A k \in Keys : battle_list'[k] = IF k = p.key THEN b ELSE battle_list[k]
          BY <1>0, <4>1 DEF TypeOK
        <5>2. b # NoBattle
          BY ConstantsAssumption
        <5>3. QED
          BY <4>1, <5>1, <5>2 DEF Listed
      <4>2. CASE battle_list' = battle_list
        BY <4>2 DEF Listed
      <4>3. QED
        BY <3>2, <4>1, <4>2
    <3>4. QED
      BY <2>8, <3>1, <3>3
  <2>12. QED
    BY <1>7, <2>6, <2>7, <2>9, <2>10, <2>11 DEF Dispatch
<1>8. ASSUME NEW t \in Threads, Update(t)
      PROVE  PacketsAtHome' /\ DueListed' /\ (AllSame \/ OneMoves)
  <2>1. ASSUME NEW due \in SUBSET Keys, BeginUpdate(t, due)
        PROVE  PacketsAtHome' /\ DueListed' /\ AllSame
    <3>1. UNCHANGED <<packet_queue, battle_list, ended, incarnation>>
      BY <2>1 DEF BeginUpdate
    <3>2. DueListed'
      BY <1>0, <2>1, <3>1 DEF BeginUpdate, DueListed, BattlesOf, Listed, TypeOK
    <3>3. PacketsAtHome' /\ \A k \in Keys : EndQueued(k)' <=> EndQueued(k)
      BY <1>0, <3>1 DEF PacketsAtHome, EndQueued
    <3>4. QED
      BY <3>1, <3>2, <3>3, QuietStep
  <2>2. ASSUME NEW k \in Keys, UpdateBattle(t, k)
        PROVE  PacketsAtHome' /\ DueListed' /\ (AllSame \/ OneMoves)
    <3>1. /\ UNCHANGED <<battle_list, incarnation>>
          /\ Listed(k) /\ CalcThreadIndex(k) = t
          /\ packet_queue[t] \in Seq(BattlePacket) /\ AtHome(packet_queue[t], t)
      BY <1>0, <2>2 DEF UpdateBattle, DueListed, BattlesOf, TypeOK, PacketsAtHome
    <3>2. DueListed'
      <4>1. \A u \in Threads : rounds'[u].due \subseteq rounds[u].due
        BY <1>0, <2>2 DEF UpdateBattle, TypeOK
      <4>2. QED
        BY <1>0, <3>1, <4>1, DueKept DEF Listed
    <3>3. CASE endBattle(k, t, packet_queue[t])
      <4>1. \A j \in Keys : CalcThreadIndex(j) = t =>
              (EndQueued(j) <=> EndIn(packet_queue[t], j))
        BY DEF EndQueued
      <4>2. QED
        BY <1>0, <3>1, <3>2, <3>3, <4>1, EndHome
    <3>4. CASE UNCHANGED <<packet_queue, ended>>
      <4>1. PacketsAtHome' /\ \A j \in Keys : EndQueued(j)' <=> EndQueued(j)
        BY <1>0, <3>4 DEF PacketsAtHome, EndQueued
      <4>2. QED
        BY <3>1, <3>2, <3>4, <4>1, QuietStep
    <3>5. QED
      BY <2>2, <3>3, <3>4 DEF UpdateBattle
  <2>3. QED
    BY <1>8, <2>1, <2>2 DEF Update
<1>9. CASE UNCHANGED vars
  BY <1>1, <1>9 DEF vars
<1>10. QED
  BY <1>2, <1>3, <1>4, <1>5, <1>6, <1>7, <1>8, <1>9
     DEF Next, Client, Network, joinPlayer, leavePlayer, playerInput, playerInputUdp,
         udpHandshake

-----------------------------------------------------------------------------
(* The inductive invariant holds initially. *)
LEMMA InitInv == Init => IInv
<1> SUFFICES ASSUME Init
             PROVE  IInv
  OBVIOUS
<1> USE DEF Init
<1>1. TypeOK
  <2>1. \A S : <<>> \in Seq(S)
    OBVIOUS
  <2>2. LoopCount \in 0..LoopCount /\ 0 \in 0..MaxRequests
    BY ConstantsAssumption
  <2>3. QED
    BY <2>1, <2>2 DEF TypeOK
<1>2. \A k \in Keys : ~Listed(k)
  BY DEF Listed
<1>3. \A k \in Keys : ~EndQueued(k)
  BY IndexType DEF EndQueued, EndIn
<1>4. PacketsAtHome
  BY DEF PacketsAtHome, AtHome
<1>5. DueListed
  BY DEF DueListed
<1>6. EndedIsListed /\ EndsAreCounted /\ EndedHasEndPacket /\ StaleEndHasPredecessor
  BY <1>2, <1>3 DEF EndedIsListed, EndsAreCounted, EndedHasEndPacket,
                    StaleEndHasPredecessor, Running
<1>7. QED
  BY <1>1, <1>4, <1>5, <1>6 DEF IInv

(* Every step keeps it: the packets and the types by the lemmas above, the
   rest key by key. *)
LEMMA StepInv == IInv /\ [Next]_vars => IInv'
<1> SUFFICES ASSUME IInv, [Next]_vars
             PROVE  IInv'
  OBVIOUS
<1>1. TypeOK'
  BY TypeStep DEF IInv
<1>2. PacketsAtHome' /\ DueListed' /\ (AllSame \/ OneMoves)
  BY <1>1, KeyStep
<1> DEFINE Good(k) == /\ ended[k] => Listed(k)
                      /\ Listed(k) \/ EndQueued(k) => incarnation[k] > 0
                      /\ Listed(k) /\ ended[k] => EndQueued(k)
                      /\ Listed(k) /\ ~ended[k] /\ EndQueued(k) => incarnation[k] > 1
<1>3. \A k \in Keys : Good(k)
  BY DEF IInv, EndedIsListed, EndsAreCounted, EndedHasEndPacket,
         StaleEndHasPredecessor, Running
<1>4. \A k \in Keys : /\ incarnation[k] \in Nat
                      /\ ended[k] \in BOOLEAN
                      /\ ended'[k] \in BOOLEAN
  BY <1>1 DEF IInv, TypeOK
<1>5. ASSUME NEW k \in Keys, Same(k) \/ Ends(k) \/ Erases(k) \/ Creates(k)
      PROVE  Good(k)'
  <2>1. Good(k) /\ incarnation[k] \in Nat /\ ended[k] \in BOOLEAN
    BY <1>3, <1>4
  <2>2. CASE Same(k)
    BY <2>1, <2>2 DEF Same
  <2>3. CASE Ends(k)
    BY <2>1, <2>3 DEF Ends
  <2>4. CASE Erases(k)
    BY <2>1, <2>4 DEF Erases
  <2>5. CASE Creates(k)
    BY <2>1, <2>5 DEF Creates
  <2>6. QED
    BY <1>5, <2>2, <2>3, <2>4, <2>5
<1>6. \A k \in Keys : Same(k) \/ Ends(k) \/ Erases(k) \/ Creates(k)
  BY <1>2 DEF AllSame, OneMoves
<1>7. \A k \in Keys : Good(k)'
  BY <1>5, <1>6
<1>8. (EndedIsListed /\ EndsAreCounted /\ EndedHasEndPacket /\ StaleEndHasPredecessor)'
  BY <1>7 DEF EndedIsListed, EndsAreCounted, EndedHasEndPacket, StaleEndHasPredecessor,
              Running
<1>9. QED
  BY <1>1, <1>2, <1>8 DEF IInv

(* The inductive invariant holds in every reachable state. *)
THEOREM Invariance == Spec => []IInv
BY InitInv, StepInv, PTL DEF Spec

(* The state of the server is always well typed. *)
THEOREM TypeCorrect == Spec => []TypeOK
<1>1. IInv => TypeOK
  BY DEF IInv
<1>2. QED
  BY <1>1, Invariance, PTL

(* A battle that has ended is on its way out: the END_BATTLE packet that
   erases it is queued (endBattle, execEndBattle). *)
THEOREM EndedBattlesAreErased == Spec => []EndedHasEndPacket
<1>1. IInv => EndedHasEndPacket
  BY DEF IInv
<1>2. QED
  BY <1>1, Invariance, PTL

(* The first battle of a key is never erased before it has ended: the
   END_BATTLE packet of another one threatens only the later ones. *)
THEOREM FirstBattleIsSafe == Spec => []StaleEndHasPredecessor
<1>1. IInv => StaleEndHasPredecessor
  BY DEF IInv
<1>2. QED
  BY <1>1, Invariance, PTL

-----------------------------------------------------------------------------
(* Every step of the server is a step of the abstract life of battles, or
   none: a key is ended, erased, discarded or created, and the others
   stutter. *)
LEMMA LifecycleStep ==
  ASSUME IInv, IInv', [Next]_vars
  PROVE  [Lifecycle!Next]_(Lifecycle!vars)
<1> DEFINE phase == [k \in Keys |-> Phase(k)]
<1>1. AllSame \/ OneMoves
  BY KeyStep DEF IInv
<1>2. /\ incarnation \in [Keys -> Nat] /\ incarnation' \in [Keys -> Nat]
      /\ ended \in [Keys -> BOOLEAN] /\ ended' \in [Keys -> BOOLEAN]
  BY DEF IInv, TypeOK
<1>3. \A k \in Keys : Same(k) => Phase(k)' = Phase(k)
  BY DEF Same, Phase
<1>4. CASE AllSame
  <2>1. phase' = phase
    BY <1>3, <1>4 DEF AllSame
  <2>2. incarnation' = incarnation
    BY <1>2, <1>4 DEF AllSame, Same
  <2>3. QED
    BY <2>1, <2>2 DEF Lifecycle!vars
<1>5. ASSUME NEW k \in Keys, Ends(k) \/ Erases(k) \/ Creates(k),
             \A j \in Keys \ {k} : Same(j)
      PROVE  [Lifecycle!Next]_(Lifecycle!vars)
  <2>1. phase' = [phase EXCEPT ![k] = Phase(k)']
    BY <1>3, <1>5
  <2>2. \A j \in Keys \ {k} : incarnation'[j] = incarnation[j]
    BY <1>5 DEF Same
  <2>3. incarnation'[k] = incarnation[k] => incarnation' = incarnation
    BY <1>2, <2>2
  <2>4. phase[k] = Phase(k)
    OBVIOUS
  <2>5. CASE Ends(k)
    <3>1. Phase(k)' = "ending" /\ incarnation' = incarnation
      BY <1>2, <2>3, <2>5 DEF Ends, Phase
    <3>2. CASE ended[k]
      <4>1. phase' = phase
        BY <2>1, <2>5, <3>1, <3>2 DEF Ends, Phase
      <4>2. QED
        BY <3>1, <4>1 DEF Lifecycle!vars
    <3>3. CASE ~ended[k]
      <4>1. Phase(k) = "running"
        BY <2>5, <3>3 DEF Ends, Phase
      <4>2. Lifecycle!End(k)
        BY <2>1, <2>4, <3>1, <4>1 DEF Lifecycle!End, Lifecycle!Move
      <4>3. QED
        BY <4>2 DEF Lifecycle!Next
    <3>4. QED
      BY <1>2, <3>2, <3>3
  <2>6. CASE Erases(k)
    <3>1. Phase(k)' = "none" /\ incarnation' = incarnation
      BY <2>3, <2>6 DEF Erases, Phase
    <3>2. CASE ended[k]
      <4>1. Phase(k) = "ending"
        BY <2>6, <3>2 DEF Erases, Phase
      <4>2. Lifecycle!Erase(k)
        BY <2>1, <2>4, <3>1, <4>1 DEF Lifecycle!Erase, Lifecycle!Move
      <4>3. QED
        BY <4>2 DEF Lifecycle!Next
    <3>3. CASE ~ended[k]
      <4>1. Phase(k) = "running"
        BY <2>6, <3>3 DEF Erases, Phase
      <4>2. incarnation[k] > 1
        BY <2>6, <3>3 DEF Erases, IInv, StaleEndHasPredecessor, Running
      <4>3. Lifecycle!Discard(k)
        BY <2>1, <2>4, <3>1, <4>1, <4>2 DEF Lifecycle!Discard, Lifecycle!Move
      <4>4. QED
        BY <4>3 DEF Lifecycle!Next
    <3>4. QED
      BY <1>2, <3>2, <3>3
  <2>7. CASE Creates(k)
    <3>1. Phase(k) = "none" /\ Phase(k)' = "running"
      BY <2>7 DEF Creates, Phase, IInv, EndedIsListed
    <3>2. incarnation' = [incarnation EXCEPT ![k] = @ + 1]
      BY <1>2, <2>2, <2>7 DEF Creates
    <3>3. Lifecycle!Create(k)
      BY <2>1, <2>4, <3>1, <3>2 DEF Lifecycle!Create, Lifecycle!Move
    <3>4. QED
      BY <3>3 DEF Lifecycle!Next
  <2>8. QED
    BY <1>5, <2>5, <2>6, <2>7
<1>6. QED
  BY <1>1, <1>4, <1>5 DEF OneMoves

(* The server implements the abstract life of battles: a battle is created
   running, ends once and is erased after that; only the battle of a key
   that is used again may be erased while it runs. *)
THEOREM LifecycleImplemented == Spec => LifecycleSafe
<1>1. Init => Lifecycle!Init
  BY DEF Init, Lifecycle!Init, Phase, Listed
<1>2. IInv /\ IInv' /\ [Next]_vars => [Lifecycle!Next]_(Lifecycle!vars)
  BY LifecycleStep
<1>3. QED
  BY <1>1, <1>2, Invariance, PTL DEF Spec, LifecycleSafe, Lifecycle!Spec

-----------------------------------------------------------------------------
(***************************************************************************)
(* The fight of one battle.                                                *)
(***************************************************************************)

(* A side that is not dead has a first living character: the natural
   numbers are well founded (getFirstAlive). *)
LEMMA FirstAliveIsFirst ==
  ASSUME NEW p \in Player, Alive(p) # {}
  PROVE  FirstAlive(p) \in Alive(p) /\ \A j \in Alive(p) : FirstAlive(p) <= j
<1> DEFINE R == {ss \in Nat \X Nat : ss[1] < ss[2]}
<1>1. \A i, j \in Nat : <<i, j>> \in R <=> i < j
  OBVIOUS
<1>2. IsWellFoundedOn(R, Nat)
  BY NatLessThanWellFounded DEF OpToRel
<1>3. Alive(p) \subseteq Nat
  BY DEF Alive
<1> HIDE DEF R
<1>4. \E i \in Alive(p) : \A j \in Alive(p) : ~(<<j, i>> \in R)
  BY <1>2, <1>3, WFMin
<1>5. \E i \in Alive(p) : \A j \in Alive(p) : i <= j
  <2>1. \A i, j \in Alive(p) : ~(<<j, i>> \in R) => i <= j
    BY <1>1, <1>3
  <2> QED BY <1>4, <2>1
<1> QED BY <1>5 DEF FirstAlive

(* Who a side is bound to. *)
SameBinding(p, q) ==
  q.id = p.id /\ q.actor_key = p.actor_key /\ q.udp_endpoint = p.udp_endpoint

(* What an input does to a battle c, if anything: it uses up a sequence id of
   one side, and its attack, if there is one, falls on one side that is not
   dead and is announced. *)
Unhurt(b, c) == /\ \A s \in Sides : c.player[s].hp = b.player[s].hp
                /\ c.battle_seq_id = b.battle_seq_id

Hurt(b, c) ==
  \E o \in Sides : /\ Alive(b.player[o]) # {}
                   /\ \E v \in Nat \ {0} : c.player[o] = TakeDamage(b.player[o], v)
                   /\ c.player[Other(o)] = b.player[Other(o)]
                   /\ c.battle_seq_id = b.battle_seq_id + 1

Attack(b, c) ==
  /\ \A s \in Sides : SameBinding(b.player[s], c.player[s])
  /\ \E s \in Sides, n \in SeqIds :
       n \notin b.seq_ids[s] /\ c.seq_ids = [b.seq_ids EXCEPT ![s] = @ \cup {n}]
  /\ Unhurt(b, c) \/ Hurt(b, c)

(* An input that is not refused attacks (engage, setSeqId). *)
LEMMA EngageEffect ==
  ASSUME NEW b \in Battle, NEW s \in Sides, NEW n \in SeqIds, NEW hits \in Nat,
         validSeqId(b, s, n)
  PROVE  Attack(b, engage(setSeqId(b, s, n), s, hits))
<1> DEFINE m == setSeqId(b, s, n)
           o == Other(s)
           c == engage(m, s, hits)
<1>1. /\ m \in Battle /\ m.player = b.player /\ m.battle_seq_id = b.battle_seq_id
      /\ m.seq_ids = [b.seq_ids EXCEPT ![s] = @ \cup {n}]
      /\ n \notin b.seq_ids[s]
  BY SetSeqIdType DEF setSeqId, validSeqId, Battle
<1>2. o \in Sides /\ Other(o) = s /\ o # s /\ b.player[o] \in Player
  BY OtherSide DEF Battle
<1> HIDE DEF m, o
<1>3. CASE Alive(b.player[o]) = {} \/ hits = 0
  <2>1. c = m
    BY <1>1, <1>3 DEF engage, o
  <2> HIDE DEF c
  <2>2. Unhurt(b, c) /\ \A r \in Sides : SameBinding(b.player[r], c.player[r])
    BY <1>1, <2>1 DEF Unhurt, SameBinding
  <2> QED BY <1>1, <2>1, <2>2 DEF Attack, c, m
<1>4. CASE ~(Alive(b.player[o]) = {} \/ hits = 0)
  <2> DEFINE v == hits * DAMAGE
             q == TakeDamage(b.player[o], v)
  <2>1. v \in Nat \ {0}
    BY <1>4 DEF DAMAGE
  <2> HIDE DEF v
  <2>2. /\ q \in Player
        /\ \A f \in {"id", "actor_key", "joined", "udp_endpoint"} : q[f] = b.player[o][f]
    BY <1>2, <2>1, TakeDamageType
  <2>3. c = [m EXCEPT !.player[o] = q, !.battle_seq_id = @ + 1]
    BY <1>1, <1>4 DEF engage, o, v
  <2> HIDE DEF q, c
  <2>4. /\ c.seq_ids = m.seq_ids
        /\ c.battle_seq_id = b.battle_seq_id + 1
        /\ c.player[o] = q /\ c.player[s] = b.player[s]
    BY <1>1, <1>2, <2>3 DEF Battle
  <2>5. Hurt(b, c)
    BY <1>2, <1>4, <2>1, <2>4 DEF Hurt, q
  <2>6. \A r \in Sides : SameBinding(b.player[r], c.player[r])
    <3>1. \A r \in Sides : r = s \/ r = o
      BY <1>2 DEF Sides
    <3>2. SameBinding(b.player[o], q)
      BY <2>2 DEF SameBinding
    <3> QED BY <2>4, <3>1, <3>2 DEF SameBinding
  <2> QED BY <1>1, <2>4, <2>5, <2>6 DEF Attack, c, m
<1> QED BY <1>3, <1>4

(* So does every input over TCP or UDP, or it leaves the battle as it is
   (playerAction, playerActionUdp). *)
LEMMA ActionEffect ==
  ASSUME NEW b \in Battle, NEW n \in SeqIds, NEW hits \in Nat
  PROVE  /\ \A a : LET c == playerAction(b, a, n, hits) IN c = b \/ Attack(b, c)
         /\ \A ep : LET c == playerActionUdp(b, ep, n, hits) IN c = b \/ Attack(b, c)
<1>1. \A a : SideOfActor(b, a) \in Sides
  BY DEF SideOfActor, Sides
<1>2. \A ep : SideOfEndpoint(b, ep) \in Sides
  BY DEF SideOfEndpoint, Sides
<1>3. ASSUME NEW a
      PROVE  playerAction(b, a, n, hits) = b \/ Attack(b, playerAction(b, a, n, hits))
  BY <1>1, EngageEffect DEF playerAction
<1>4. ASSUME NEW ep
      PROVE  playerActionUdp(b, ep, n, hits) = b \/ Attack(b, playerActionUdp(b, ep, n, hits))
  BY <1>2, EngageEffect DEF playerActionUdp
<1> QED BY <1>3, <1>4

(* A step does one of these to the battle of a key: nothing, erase it, bind a
   side to the connection of the JOIN2 packet at the head of a queue, or to
   the endpoint of the handshake there, or apply an input. *)
Untouched(k) == battle_list'[k] = battle_list[k]
Erased(k)    == battle_list'[k] = NoBattle

FoundBattle(k) == IF Listed(k) THEN battle_list[k] ELSE NewBattle(Roster[k])

Binds(k, t) ==
  /\ packet_queue[t] # <<>>
  /\ execJoin2(t)
  /\ LET p == Head(packet_queue[t])
     IN /\ p \in Join2Packet /\ p.key = k
        /\ battle_list'[k] = BindPlayer(FoundBattle(k), k, p.player_id, p.actor)

Greets(k, t) ==
  /\ packet_queue[t] # <<>>
  /\ Listed(k)
  /\ LET p == Head(packet_queue[t])
     IN /\ p \in UdpHandshakePacket /\ p.key = k
        /\ battle_list'[k] = SetEndpoint(battle_list[k], p.player_id, p.ep)

Attacked(k) == Listed(k) /\ Attack(battle_list[k], battle_list'[k])

LEMMA BattleStep ==
  ASSUME TypeOK, [Next]_vars, NEW k \in Keys
  PROVE  \/ Untouched(k) \/ Erased(k) \/ Attacked(k)
         \/ \E t \in Threads : Binds(k, t) \/ Greets(k, t)
<1> USE DEF worker_vars, network_vars, task_vars
<1>1. CASE UNCHANGED battle_list
  BY <1>1 DEF Untouched
<1>2. ASSUME NEW t \in Threads, Dispatch(t)
      PROVE  \/ Untouched(k) \/ Erased(k) \/ Attacked(k) \/ Binds(k, t) \/ Greets(k, t)
  <2> DEFINE p == Head(packet_queue[t])
  <2>1. ASSUME NEW c, battle_list' = [battle_list EXCEPT ![p.key] = c]
        PROVE  battle_list'[k] = IF p.key = k THEN c ELSE battle_list[k]
    BY <2>1 DEF TypeOK
  <2>2. CASE execEndBattle(t)
    <3>1. UNCHANGED battle_list \/ battle_list' = [battle_list EXCEPT ![p.key] = NoBattle]
      BY <2>2 DEF execEndBattle
    <3> QED BY <2>1, <3>1 DEF Untouched, Erased
  <2>3. CASE execError(t) \/ execLeave(t) \/ execJoin(t)
    BY <2>3 DEF execError, execLeave, execJoin, Untouched
  <2>4. CASE execJoin2(t)
    <3> DEFINE c == BindPlayer(FoundBattle(p.key), p.key, p.player_id, p.actor)
    <3>1. packet_queue[t] # <<>> /\ p \in Join2Packet
      BY <2>4, NextPacketType, PacketFields DEF execJoin2, NextPacket
    <3>2. UNCHANGED battle_list \/ battle_list' = [battle_list EXCEPT ![p.key] = c]
      BY <2>4 DEF execJoin2, FoundBattle
    <3> QED BY <2>1, <2>4, <3>1, <3>2 DEF Untouched, Binds
  <2>5. CASE execUdpHandshake(t)
    <3> DEFINE c == SetEndpoint(battle_list[p.key], p.player_id, p.ep)
    <3>1. packet_queue[t] # <<>> /\ p \in UdpHandshakePacket
      BY <2>5, NextPacketType, PacketFields DEF execUdpHandshake, NextPacket
    <3>2. UNCHANGED battle_list \/ (Listed(p.key) /\ battle_list' = [battle_list EXCEPT ![p.key] = c])
      <4>1. battle_list' = IF Listed(p.key) THEN [battle_list EXCEPT ![p.key] = c]
                                            ELSE battle_list
        BY <2>5 DEF execUdpHandshake
      <4> HIDE DEF c
      <4> QED BY <4>1
    <3> QED BY <2>1, <3>1, <3>2 DEF Untouched, Greets
  <2>6. CASE execPlayerInput(t)
    <3> DEFINE c == playerAction(battle_list[p.key], p.actor, p.seq_id, p.hits)
    <3>1. p \in PlayerInputPacket /\ p.key \in Keys
      BY <2>6, NextPacketType, PacketFields DEF execPlayerInput
    <3>2. p.seq_id \in SeqIds /\ p.hits \in Nat
      BY <3>1 DEF PlayerInputPacket
    <3>3. UNCHANGED battle_list \/ (Listed(p.key) /\ battle_list' = [battle_list EXCEPT ![p.key] = c])
      <4>1. battle_list' = IF Listed(p.key) /\ \E s \in Sides : HasActor(battle_list[p.key], s, p.actor)
                           THEN [battle_list EXCEPT ![p.key] = c] ELSE battle_list
        BY <2>6 DEF execPlayerInput
      <4> HIDE DEF c
      <4> QED BY <4>1
    <3>4. Listed(p.key) => c = battle_list[p.key] \/ Attack(battle_list[p.key], c)
      BY <3>1, <3>2, ActionEffect DEF Listed, TypeOK
    <3> HIDE DEF c, p
    <3> QED BY <2>1, <3>3, <3>4 DEF Untouched, Attacked
  <2>7. CASE execPlayerInputUdp(t)
    <3> DEFINE c == playerActionUdp(battle_list[p.key], p.ep, p.seq_id, p.hits)
    <3>1. p \in PlayerInputUdpPacket /\ p.key \in Keys
      BY <2>7, NextPacketType, PacketFields DEF execPlayerInputUdp
    <3>2. p.seq_id \in SeqIds /\ p.hits \in Nat
      BY <3>1 DEF PlayerInputUdpPacket
    <3>3. UNCHANGED battle_list \/ (Listed(p.key) /\ battle_list' = [battle_list EXCEPT ![p.key] = c])
      <4>1. battle_list' = IF Listed(p.key) /\ \E s \in Sides : HasEndpoint(battle_list[p.key], s, p.ep)
                           THEN [battle_list EXCEPT ![p.key] = c] ELSE battle_list
        BY <2>7 DEF execPlayerInputUdp
      <4> HIDE DEF c
      <4> QED BY <4>1
    <3>4. Listed(p.key) => c = battle_list[p.key] \/ Attack(battle_list[p.key], c)
      BY <3>1, <3>2, ActionEffect DEF Listed, TypeOK
    <3> HIDE DEF c, p
    <3> QED BY <2>1, <3>3, <3>4 DEF Untouched, Attacked
  <2> QED BY <1>2, <2>2, <2>3, <2>4, <2>5, <2>6, <2>7 DEF Dispatch
<1>3. ASSUME NEW t \in Threads, Update(t) PROVE UNCHANGED battle_list
  BY <1>3 DEF Update, BeginUpdate, UpdateBattle
<1>4. CASE Client \/ Network \/ Scheduler \/ \E a \in Actors : RemoveClosedActor(a)
  BY <1>1, <1>4 DEF Client, joinPlayer, leavePlayer, playerInput, playerInputUdp, udpHandshake,
                    Request, Network, SessionError, SessionClose, Scheduler, RunAddTask,
                    FireEndTask, RemoveClosedActor
<1>5. CASE MasterQueue \/ RedisReply
  BY <1>1, <1>5 DEF MasterQueue, ApplyAddActorInfo, ApplyRemoveActorInfo, ApplyReceiveError,
                    ApplyOnError, RedisReply
<1>6. CASE UNCHANGED vars
  BY <1>1, <1>6 DEF vars
<1> QED BY <1>1, <1>2, <1>3, <1>4, <1>5, <1>6 DEF Next

(* Joining or greeting changes who the sides are bound to, not the fight. *)
SameFight(b, c) == c.seq_ids = b.seq_ids /\ Unhurt(b, c)

(* A join binds one side at most, the one with the player id it carries, and
   a handshake the sides with that player id (BindPlayer, SetEndpoint). *)
LEMMA BindEffect ==
  ASSUME NEW b \in Battle, NEW k \in Keys, NEW id \in PlayerIds, NEW a \in Actors
  PROVE  LET c == BindPlayer(b, k, id, a)
         IN /\ SameFight(b, c)
            /\ \A s \in Sides :
                 /\ c.player[s].id = b.player[s].id
                 /\ c.player[s].udp_endpoint = b.player[s].udp_endpoint
                 /\ \/ c.player[s].actor_key = b.player[s].actor_key
                    \/ c.player[s].actor_key = a /\ id = Roster[k].id[s]
<1> DEFINE Bound(o) == [b EXCEPT !.player[o] = resetActorKey(@, a)]
           q(o) == resetActorKey(b.player[o], a)
<1>1. \A o \in Sides : b.player[o] \in Player
  BY DEF Battle
<1>2. \A o \in Sides :
        /\ Bound(o).seq_ids = b.seq_ids
        /\ Bound(o).battle_seq_id = b.battle_seq_id
        /\ \A s \in Sides : Bound(o).player[s] = IF s = o THEN q(o) ELSE b.player[s]
  BY DEF Battle
<1>3. \A o \in Sides : /\ q(o).id = b.player[o].id
                       /\ q(o).hp = b.player[o].hp
                       /\ q(o).udp_endpoint = b.player[o].udp_endpoint
                       /\ q(o).actor_key = a
  BY <1>1 DEF resetActorKey, Player
<1>4. \/ \E o \in Sides : BindPlayer(b, k, id, a) = Bound(o) /\ id = Roster[k].id[o]
      \/ BindPlayer(b, k, id, a) = b
  BY DEF BindPlayer, Sides
<1> HIDE DEF Bound, q
<1> QED BY <1>2, <1>3, <1>4 DEF SameFight, Unhurt

LEMMA GreetEffect ==
  ASSUME NEW b \in Battle, NEW id \in PlayerIds, NEW ep \in Endpoints
  PROVE  LET c == SetEndpoint(b, id, ep)
         IN /\ SameFight(b, c)
            /\ \A s \in Sides :
                 /\ c.player[s].id = b.player[s].id
                 /\ c.player[s].actor_key = b.player[s].actor_key
                 /\ \/ c.player[s].udp_endpoint = b.player[s].udp_endpoint
                    \/ c.player[s].udp_endpoint = ep /\ id = b.player[s].id
<1> DEFINE c == SetEndpoint(b, id, ep)
           q(s) == [b.player[s] EXCEPT !.udp_endpoint = ep]
<1>1. \A s \in Sides : b.player[s] \in Player
  BY DEF Battle
<1>2. /\ c.seq_ids = b.seq_ids
      /\ c.battle_seq_id = b.battle_seq_id
      /\ \A s \in Sides : c.player[s] = IF b.player[s].id = id THEN q(s) ELSE b.player[s]
  BY DEF SetEndpoint, Battle
<1>3. \A s \in Sides : /\ q(s).id = b.player[s].id
                       /\ q(s).hp = b.player[s].hp
                       /\ q(s).udp_endpoint = ep
                       /\ q(s).actor_key = b.player[s].actor_key
  BY <1>1 DEF Player
<1> HIDE DEF c, q
<1> QED BY <1>2, <1>3 DEF SameFight, Unhurt, c

(* The fight of a battle b of key k so far: every announced attack has used
   up a sequence id, and whoever was hit stands behind dead characters. *)
Accounted(b) ==
  /\ \A s \in Sides : IsFiniteSet(b.seq_ids[s])
  /\ b.battle_seq_id - 1 <= Cardinality(b.seq_ids[1]) + Cardinality(b.seq_ids[2])

Focused(k, b) ==
  \A s \in Sides : LET hp == b.player[s].hp
                   IN \A j \in 1..Len(hp) : hp[j] # Roster[k].base_hp[s][j] =>
                        \A i \in 1..(j - 1) : isDead(hp[i])

Fights == \A k \in Keys : Listed(k) => /\ Accounted(battle_list[k])
                                       /\ Focused(k, battle_list[k])

(* A battle begins without attacks (NewBattle). *)
LEMMA NewFight ==
  ASSUME NEW k \in Keys
  PROVE  Accounted(NewBattle(Roster[k])) /\ Focused(k, NewBattle(Roster[k]))
<1> DEFINE b == NewBattle(Roster[k])
<1>1. /\ \A s \in Sides : b.seq_ids[s] = {} /\ b.player[s].hp = Roster[k].base_hp[s]
      /\ b.battle_seq_id = 1
  BY DEF NewBattle, NewPlayer
<1> HIDE DEF b
<1>2. Cardinality({}) = 0 /\ IsFiniteSet({})
  BY FS_EmptySet
<1>3. Accounted(b)
  <2>1. \A s \in Sides : IsFiniteSet(b.seq_ids[s]) /\ Cardinality(b.seq_ids[s]) = 0
    BY <1>1, <1>2
  <2>2. Cardinality(b.seq_ids[1]) = 0 /\ Cardinality(b.seq_ids[2]) = 0
    BY <2>1 DEF Sides
  <2>3. b.battle_seq_id - 1 <= Cardinality(b.seq_ids[1]) + Cardinality(b.seq_ids[2])
    BY <1>1, <2>2
  <2> QED BY <2>1, <2>3 DEF Accounted
<1>4. Focused(k, b)
  BY <1>1 DEF Focused
<1> QED BY <1>3, <1>4 DEF b

(* A step that is not an attack keeps it, whatever the bindings. *)
LEMMA SameFightKeeps ==
  ASSUME NEW k, NEW b, NEW c, SameFight(b, c), Accounted(b), Focused(k, b)
  PROVE  Accounted(c) /\ Focused(k, c)
BY DEF SameFight, Unhurt, Accounted, Focused

(* An attack is accounted for by the sequence id it used up (setSeqId). *)
LEMMA AttackAccounted ==
  ASSUME NEW b \in Battle, NEW c, Attack(b, c), Accounted(b)
  PROVE  Accounted(c)
<1>1. c.battle_seq_id = b.battle_seq_id \/ c.battle_seq_id = b.battle_seq_id + 1
  BY DEF Attack, Unhurt, Hurt
<1>2. PICK s \in Sides, n \in SeqIds :
        n \notin b.seq_ids[s] /\ c.seq_ids = [b.seq_ids EXCEPT ![s] = @ \cup {n}]
  BY DEF Attack
<1>3. \A r \in Sides : c.seq_ids[r] = IF r = s THEN b.seq_ids[r] \cup {n} ELSE b.seq_ids[r]
  BY <1>2 DEF Battle
<1>4. /\ IsFiniteSet(b.seq_ids[s] \cup {n})
      /\ Cardinality(b.seq_ids[s] \cup {n}) = Cardinality(b.seq_ids[s]) + 1
  BY <1>2, FS_AddElement DEF Accounted
<1>5. \A r \in Sides : Cardinality(b.seq_ids[r]) \in Nat
  BY FS_CardinalityType DEF Accounted
<1>6. \A r \in Sides : IsFiniteSet(c.seq_ids[r])
  BY <1>3, <1>4 DEF Accounted
<1>7. \A r \in Sides : Cardinality(c.seq_ids[r]) =
                         IF r = s THEN Cardinality(b.seq_ids[r]) + 1
                                  ELSE Cardinality(b.seq_ids[r])
  BY <1>3, <1>4
<1>8. b.battle_seq_id \in Nat
  BY DEF Battle
<1>9. c.battle_seq_id - 1 <= Cardinality(c.seq_ids[1]) + Cardinality(c.seq_ids[2])
  BY <1>1, <1>5, <1>7, <1>8 DEF Accounted, Sides
<1> QED BY <1>6, <1>9 DEF Accounted

(* It falls on the first living character (TakeDamage). *)
LEMMA AttackFocused ==
  ASSUME NEW b \in Battle, NEW k \in Keys, NEW c, Attack(b, c), Focused(k, b)
  PROVE  Focused(k, c)
<1>1. CASE Unhurt(b, c)
  BY <1>1 DEF Unhurt, Focused
<1>2. CASE Hurt(b, c)
  <2>1. PICK o \in Sides : /\ Alive(b.player[o]) # {}
                           /\ \E v \in Nat \ {0} : c.player[o] = TakeDamage(b.player[o], v)
                           /\ c.player[Other(o)] = b.player[Other(o)]
    BY <1>2 DEF Hurt
  <2>2. PICK v \in Nat \ {0} : c.player[o] = TakeDamage(b.player[o], v)
    BY <2>1
  <2> DEFINE hp == b.player[o].hp
             hp2 == c.player[o].hp
             base == Roster[k].base_hp[o]
             f == FirstAlive(b.player[o])
  <2>3. b.player[o] \in Player /\ hp \in Seq(Nat)
    BY DEF Battle, Player
  <2>4. /\ Len(hp2) = Len(hp)
        /\ \A j \in 1..Len(hp) : hp2[j] = IF j = f THEN damageHp(hp[j], v) ELSE hp[j]
    BY <2>2, <2>3, TakeDamageType
  <2>5. f \in 1..Len(hp) /\ \A i \in 1..(f - 1) : isDead(hp[i])
    <3>1. f \in Alive(b.player[o]) /\ \A j \in Alive(b.player[o]) : f <= j
      BY <2>1, <2>3, FirstAliveIsFirst
    <3> HIDE DEF f
    <3> QED BY <2>3, <3>1 DEF Alive
  <2>6. \A i \in 1..Len(hp) : isDead(hp[i]) => isDead(hp2[i])
    <3> SUFFICES ASSUME NEW i \in 1..Len(hp), isDead(hp[i])
                 PROVE  isDead(hp2[i])
      OBVIOUS
    <3>1. hp[i] \in Nat
      BY <2>3, ElementOfSeq
    <3>2. damageHp(hp[i], v) <= hp[i] /\ damageHp(hp[i], v) \in Nat
      BY <3>1, DamageHpType
    <3> HIDE DEF hp, hp2, f
    <3> QED BY <2>4, <3>1, <3>2 DEF isDead
  <2>7. \A j \in 1..Len(hp) : hp[j] # base[j] => \A i \in 1..(j - 1) : isDead(hp[i])
    BY DEF Focused
  <2>8. ASSUME NEW j \in 1..Len(hp2), hp2[j] # base[j], NEW i \in 1..(j - 1)
        PROVE  isDead(hp2[i])
    <3> Len(hp) \in Nat
      BY <2>3
    <3> HIDE DEF hp, hp2, base, f
    <3>1. i \in 1..Len(hp) /\ j \in 1..Len(hp)
      BY <2>4, <2>8
    <3>2. CASE j = f
      BY <2>5, <2>6, <3>1, <3>2
    <3>3. CASE j # f
      BY <2>4, <2>6, <2>7, <2>8, <3>1, <3>3
    <3> QED BY <3>2, <3>3
  <2>9. \A s \in Sides : s = o \/ s = Other(o)
    BY DEF Sides, Other
  <2> QED BY <2>1, <2>8, <2>9 DEF Focused
<1> QED BY <1>1, <1>2 DEF Attack

(* Every step keeps the fight of every battle accounted for and focused. *)
LEMMA FightStep ==
  ASSUME TypeOK, [Next]_vars, Fights
  PROVE  Fights'
<1> SUFFICES ASSUME NEW k \in Keys, Listed(k)'
             PROVE  Accounted(battle_list'[k]) /\ Focused(k, battle_list'[k])
  BY DEF Fights
<1> DEFINE c == battle_list'[k]
<1>1. Listed(k) => /\ battle_list[k] \in Battle
                   /\ Accounted(battle_list[k]) /\ Focused(k, battle_list[k])
  BY DEF TypeOK, Listed, Fights
<1>2. FoundBattle(k) \in Battle /\ Accounted(FoundBattle(k)) /\ Focused(k, FoundBattle(k))
  BY <1>1, NewFight, NewBattleType, ConstantsAssumption DEF FoundBattle
<1>3. CASE Untouched(k)
  BY <1>1, <1>3 DEF Untouched, Listed
<1>4. CASE Erased(k)
  BY <1>4 DEF Erased, Listed
<1>5. CASE Attacked(k)
  BY <1>1, <1>5, AttackAccounted, AttackFocused DEF Attacked
<1>6. ASSUME NEW t \in Threads, Binds(k, t)
      PROVE  Accounted(c) /\ Focused(k, c)
  <2> DEFINE p == Head(packet_queue[t])
  <2>1. p.player_id \in PlayerIds /\ p.actor \in Actors
    BY <1>6 DEF Binds, Join2Packet
  <2>2. c = BindPlayer(FoundBattle(k), k, p.player_id, p.actor)
    BY <1>6 DEF Binds
  <2>3. SameFight(FoundBattle(k), c)
    BY <1>2, <2>1, <2>2, BindEffect
  <2> HIDE DEF c
  <2> QED BY <1>2, <2>3, SameFightKeeps
<1>7. ASSUME NEW t \in Threads, Greets(k, t)
      PROVE  Accounted(c) /\ Focused(k, c)
  <2> DEFINE p == Head(packet_queue[t])
  <2>1. p.player_id \in PlayerIds /\ p.ep \in Endpoints
    BY <1>7 DEF Greets, UdpHandshakePacket
  <2>2. Listed(k) /\ c = SetEndpoint(battle_list[k], p.player_id, p.ep)
    BY <1>7 DEF Greets
  <2>3. SameFight(battle_list[k], c)
    BY <1>1, <2>1, <2>2, GreetEffect
  <2> HIDE DEF c
  <2> QED BY <1>1, <2>2, <2>3, SameFightKeeps
<1> QED BY <1>3, <1>4, <1>5, <1>6, <1>7, BattleStep

(* The fights of all battles stay so. *)
LEMMA FightsHold == Spec => []Fights
<1>1. Init => Fights
  BY DEF Init, Fights, Listed
<1>2. TypeOK /\ Fights /\ [Next]_vars => Fights'
  BY FightStep
<1> QED BY <1>1, <1>2, TypeCorrect, PTL DEF Spec

(* No input is applied twice: a battle announces at most one attack for each
   sequence id its players have used up, over TCP and UDP together
   (validSeqId, setSeqId, engage). *)
THEOREM AttacksAreCounted == Spec => []AttackPerSeqId
<1>1. Fights => AttackPerSeqId
  BY DEF Fights, Accounted, AttackPerSeqId
<1> QED BY <1>1, FightsHold, PTL

(* Whoever has been hit stands behind dead characters alone (engage). *)
THEOREM FrontFallsFirst == Spec => []FocusFire
<1>1. Fights => FocusFire
  BY DEF Fights, Focused, FocusFire
<1> QED BY <1>1, FightsHold, PTL

(* A step on a battle that goes on is a join, a handshake or an attack, and
   hit points change with the battle's number (engage). *)
LEMMA AnnounceStep ==
  ASSUME TypeOK, [Next]_vars, NEW k \in Keys, SameBattle(k)
  PROVE  LET b == battle_list[k]
             hurt == {s \in Sides : b.player[s].hp # battle_list'[k].player[s].hp}
         IN /\ battle_list'[k].battle_seq_id = b.battle_seq_id + Cardinality(hurt)
            /\ Cardinality(hurt) <= 1
            /\ \A s \in hurt : \A i \in 1..Len(b.player[s].hp) :
                 battle_list'[k].player[s].hp[i] <= b.player[s].hp[i]
<1> DEFINE b == battle_list[k]
           c == battle_list'[k]
           hurt == {s \in Sides : b.player[s].hp # c.player[s].hp}
<1>1. Listed(k) /\ Listed(k)' /\ b \in Battle /\ b.battle_seq_id \in Nat
  BY DEF SameBattle, TypeOK, Listed, Battle
<1>2. ASSUME Unhurt(b, c)
      PROVE  /\ c.battle_seq_id = b.battle_seq_id + Cardinality(hurt)
             /\ Cardinality(hurt) <= 1
             /\ hurt = {}
  <2>1. hurt = {} /\ c.battle_seq_id = b.battle_seq_id
    BY <1>2 DEF Unhurt
  <2> HIDE DEF hurt, b, c
  <2> QED BY <1>1, <2>1, FS_EmptySet
<1>3. ASSUME Hurt(b, c)
      PROVE  /\ c.battle_seq_id = b.battle_seq_id + Cardinality(hurt)
             /\ Cardinality(hurt) <= 1
             /\ \A s \in hurt : \A i \in 1..Len(b.player[s].hp) :
                  c.player[s].hp[i] <= b.player[s].hp[i]
  <2>1. PICK o \in Sides : /\ Alive(b.player[o]) # {}
                           /\ \E v \in Nat \ {0} : c.player[o] = TakeDamage(b.player[o], v)
                           /\ c.player[Other(o)] = b.player[Other(o)]
                           /\ c.battle_seq_id = b.battle_seq_id + 1
    BY <1>3 DEF Hurt
  <2>2. PICK v \in Nat \ {0} : c.player[o] = TakeDamage(b.player[o], v)
    BY <2>1
  <2> DEFINE hp == b.player[o].hp
             hp2 == c.player[o].hp
             f == FirstAlive(b.player[o])
  <2>3. b.player[o] \in Player /\ hp \in Seq(Nat)
    BY <1>1 DEF Battle, Player
  <2>4. \A j \in 1..Len(hp) : hp2[j] = IF j = f THEN damageHp(hp[j], v) ELSE hp[j]
    BY <2>2, <2>3, TakeDamageType
  <2>5. \A j \in 1..Len(hp) : hp[j] \in Nat
    BY <2>3, ElementOfSeq
  <2>6. \A j \in 1..Len(hp) : damageHp(hp[j], v) <= hp[j]
    BY <2>5, DamageHpType
  <2>7. f \in 1..Len(hp) /\ hp[f] > 0
    <3>1. f \in Alive(b.player[o])
      BY <2>1, <2>3, FirstAliveIsFirst
    <3> HIDE DEF f, b
    <3> QED BY <2>5, <3>1 DEF Alive, isDead
  <2>8. hp2[f] < hp[f]
    <3> HIDE DEF hp, hp2, f
    <3>1. hp[f] \in Nat /\ v \in Nat /\ v > 0
      BY <2>5, <2>7
    <3>2. damageHp(hp[f], v) < hp[f]
      BY <2>7, <3>1, DamageHpType
    <3> QED BY <2>4, <2>7, <3>2
  <2>9. \A s \in Sides : s = o \/ s = Other(o)
    BY DEF Sides, Other
  <2>10. hp2 # hp
    <3> HIDE DEF hp, hp2, f
    <3> QED BY <2>5, <2>7, <2>8
  <2>11. hurt = {o}
    BY <2>1, <2>9, <2>10
  <2>12. \A j \in 1..Len(hp) : hp2[j] <= hp[j]
    <3> HIDE DEF hp, hp2, f
    <3> QED BY <2>4, <2>5, <2>6
  <2>13. Cardinality(hurt) = 1
    BY <2>11, FS_Singleton
  <2> HIDE DEF hurt, b, c
  <2>14. \A s \in hurt : s = o
    BY <2>11
  <2> QED BY <1>1, <2>1, <2>12, <2>13, <2>14
<1>4. CASE Untouched(k)
  BY <1>2, <1>4 DEF Untouched, Unhurt
<1>5. CASE Attacked(k)
  BY <1>2, <1>3, <1>5 DEF Attacked, Attack
<1>6. ASSUME NEW t \in Threads, Binds(k, t) \/ Greets(k, t)
      PROVE  Unhurt(b, c)
  <2> DEFINE p == Head(packet_queue[t])
  <2>1. CASE Binds(k, t)
    <3>1. p.player_id \in PlayerIds /\ p.actor \in Actors
      BY <2>1 DEF Binds, Join2Packet
    <3>2. c = BindPlayer(b, k, p.player_id, p.actor)
      BY <1>1, <2>1 DEF Binds, FoundBattle
    <3> QED BY <1>1, <3>1, <3>2, BindEffect DEF SameFight
  <2>2. CASE Greets(k, t)
    <3>1. p.player_id \in PlayerIds /\ p.ep \in Endpoints
      BY <2>2 DEF Greets, UdpHandshakePacket
    <3>2. c = SetEndpoint(b, p.player_id, p.ep)
      BY <2>2 DEF Greets
    <3> QED BY <1>1, <3>1, <3>2, GreetEffect DEF SameFight
  <2> QED BY <1>6, <2>1, <2>2
<1>7. ~Erased(k)
  BY <1>1 DEF Erased, Listed
<1>8. Untouched(k) \/ Attacked(k) \/ Unhurt(b, c)
  BY <1>6, <1>7, BattleStep
<1> QED BY <1>2, <1>4, <1>5, <1>8

(* The clients can follow a battle by its announcements: hit points change
   in exactly the steps that advance battle_seq_id (engage). *)
THEOREM DamageIsAnnounced == Spec => DamageAnnounced
<1> DEFINE A(k) ==
      LET b == battle_list[k]
          hurt == {s \in Sides : b.player[s].hp # battle_list'[k].player[s].hp}
      IN /\ battle_list'[k].battle_seq_id = b.battle_seq_id + Cardinality(hurt)
         /\ Cardinality(hurt) <= 1
         /\ \A s \in hurt : \A i \in 1..Len(b.player[s].hp) :
              battle_list'[k].player[s].hp[i] <= b.player[s].hp[i]
<1>1. TypeOK /\ [Next]_vars => [\A k \in Keys : SameBattle(k) => A(k)]_vars
  BY AnnounceStep
<1> QED BY <1>1, TypeCorrect, PTL DEF Spec, DamageAnnounced

-----------------------------------------------------------------------------
(***************************************************************************)
(* Who may be bound to a side.  A join travels as a JOIN packet, a GET     *)
(* that Redis answers, a JOIN2 packet and a function posted to the master. *)
(* All of them carry what a client asked for.                              *)
(***************************************************************************)
Asked(k, id, a) ==
  [type |-> "JOIN", key |-> k, player_id |-> id, actor |-> a] \in Requests

Joined(a, k) == \E id \in PlayerIds : Asked(k, id, a)

ClaimedPacket ==
  {p \in BattlePacket : /\ p.type \in {"JOIN", "UDP_HANDSHAKE"} => p \in Requests
                        /\ p.type = "JOIN2" => Asked(p.key, p.player_id, p.actor)}

ClaimedReply == JoinPacket \cap Requests

ClaimedOp == {op \in MasterOp : op.op = "addActorInfo" => Joined(op.actor, op.key)}

Claims == /\ packet_queue \in [Threads -> Seq(ClaimedPacket)]
          /\ redis_queue \in Seq(ClaimedReply)
          /\ master_queue \in Seq(ClaimedOp)
          /\ SidesClaimed

(* A client's request is what it asks for; and a packet that asks for
   nothing claims nothing. *)
LEMMA PlainPackets ==
  /\ Requests \subseteq ClaimedPacket
  /\ \A p \in BattlePacket : p.type \notin {"JOIN", "JOIN2", "UDP_HANDSHAKE"}
                               => p \in ClaimedPacket
<1>1. ASSUME NEW p \in Requests PROVE p \in BattlePacket /\ p.type # "JOIN2"
  BY ConstantsAssumption DEF BattlePacket, TcpRequest, UdpRequest, JoinPacket, LeavePacket,
     PlayerInputPacket, PlayerInputUdpPacket, UdpHandshakePacket
<1> QED BY <1>1 DEF ClaimedPacket

(* Once joined, joined as the player of one's id. *)
LEMMA AskedFields ==
  ASSUME NEW p \in JoinPacket
  PROVE  /\ p = [type |-> "JOIN", key |-> p.key, player_id |-> p.player_id,
                 actor |-> p.actor]
         /\ p \in Requests => Asked(p.key, p.player_id, p.actor)
BY DEF JoinPacket, Asked

(* An END_BATTLE packet is pushed, behind a packet that is popped or not. *)
PushesEnd(t, k) ==
  \/ packet_queue' = [packet_queue EXCEPT ![t] =
                         Append(@, [type |-> "END_BATTLE", key |-> k])]
  \/ /\ packet_queue[t] # <<>>
     /\ packet_queue' = [packet_queue EXCEPT ![t] =
                           Append(Tail(@), [type |-> "END_BATTLE", key |-> k])]

(* What a step does to the packet queues: one packet is pushed, by another
   thread than the worker's, or one is popped, and an END_BATTLE packet may
   be pushed behind what is left. *)
LEMMA QueueStep ==
  ASSUME TypeOK, Claims, [Next]_vars
  PROVE  \/ UNCHANGED packet_queue
         \/ \E p \in ClaimedPacket : pushPacket(p)
         \/ \E t \in Threads : packet_queue[t] # <<>> /\ PopPacket(t)
         \/ \E t \in Threads, k \in Keys : PushesEnd(t, k)
<1> USE DEF worker_vars, network_vars, task_vars
<1>1. CASE Client
  BY <1>1, PlainPackets DEF Client, joinPlayer, leavePlayer, playerInput, playerInputUdp,
     udpHandshake, Request
<1>2. CASE Network \/ Scheduler \/ (\E a \in Actors : RemoveClosedActor(a)) \/ UNCHANGED vars
  BY <1>2 DEF Network, SessionError, SessionClose, Scheduler, RunAddTask, FireEndTask,
     RemoveClosedActor, vars
<1>3. CASE MasterQueue
  <2>1. CASE ApplyReceiveError
    <3> DEFINE a == Head(master_queue).actor
               p == [type |-> "ERROR", key |-> BattleOfError(a), actor |-> a]
    <3>1. Head(master_queue) \in MasterOp /\ Head(master_queue).op = "receiveError"
      BY <2>1, HeadAndTail DEF ApplyReceiveError, NextOp, TypeOK
    <3>2. a \in Actors
      BY <3>1 DEF MasterOp, AddOp, RemoveOp, ErrorOp
    <3>3. BattleOfError(a) # NoKey => BattleOfError(a) \in Keys
      BY <3>2 DEF BattleOfError, TypeOK
    <3>4. BattleOfError(a) # NoKey => p \in ClaimedPacket
      BY <3>2, <3>3, ServerPackets, PlainPackets
    <3>5. IF BattleOfError(a) # NoKey THEN pushPacket(p) ELSE UNCHANGED packet_queue
      BY <2>1 DEF ApplyReceiveError
    <3> HIDE DEF p
    <3> QED BY <3>4, <3>5
  <2> QED BY <1>3, <2>1 DEF MasterQueue, ApplyAddActorInfo, ApplyRemoveActorInfo, ApplyOnError
<1>4. CASE RedisReply
  <2> DEFINE p == Head(redis_queue)
             p2(ok) == [type |-> "JOIN2", key |-> p.key, player_id |-> p.player_id,
                        actor |-> p.actor, verified |-> ok]
  <2>1. p \in JoinPacket /\ p \in Requests
    BY <1>4, HeadAndTail DEF RedisReply, Claims, ClaimedReply
  <2>2. \A ok \in BOOLEAN : p2(ok) \in ClaimedPacket
    <3>1. p.key \in Keys
      BY <2>1 DEF JoinPacket
    <3>2. \A ok \in BOOLEAN : p2(ok) \in BattlePacket
      BY <2>1, <3>1, ServerPackets
    <3> QED BY <2>1, <3>2, AskedFields DEF ClaimedPacket
  <2>3. UNCHANGED packet_queue \/ \E ok \in BOOLEAN : pushPacket(p2(ok))
    BY <1>4 DEF RedisReply
  <2> HIDE DEF p2
  <2> QED BY <2>2, <2>3
<1>5. ASSUME NEW t \in Threads, Dispatch(t)
      PROVE  \/ packet_queue[t] # <<>> /\ PopPacket(t)
             \/ \E k \in Keys : PushesEnd(t, k)
  <2>1. CASE execError(t) \/ execLeave(t)
    <3> DEFINE k == Head(packet_queue[t]).key
    <3>1. packet_queue[t] # <<>> /\ k \in Keys
      BY <2>1, NextPacketType DEF execError, execLeave, NextPacket
    <3>2. PopPacket(t) \/ endBattle(k, t, Tail(packet_queue[t]))
      BY <2>1 DEF execError, execLeave
    <3> HIDE DEF k
    <3> QED BY <3>1, <3>2 DEF endBattle, PushesEnd, TypeOK
  <2> QED BY <1>5, <2>1 DEF Dispatch, execEndBattle, execJoin, execJoin2, execPlayerInput,
        execPlayerInputUdp, execUdpHandshake, NextPacket
<1>6. ASSUME NEW t \in Threads, Update(t)
      PROVE  \/ UNCHANGED packet_queue
             \/ \E k \in Keys : PushesEnd(t, k)
  BY <1>6 DEF Update, BeginUpdate, UpdateBattle, endBattle, PushesEnd, TypeOK
<1> QED BY <1>1, <1>2, <1>3, <1>4, <1>5, <1>6 DEF Next

(* So the packets that are queued keep claiming what was asked for. *)
LEMMA PacketsClaimed ==
  ASSUME TypeOK, Claims, [Next]_vars
  PROVE  packet_queue' \in [Threads -> Seq(ClaimedPacket)]
<1>1. packet_queue \in [Threads -> Seq(ClaimedPacket)]
  BY DEF Claims
<1>2. ASSUME NEW t \in Threads, NEW q \in Seq(ClaimedPacket),
             packet_queue' = [packet_queue EXCEPT ![t] = q]
      PROVE  packet_queue' \in [Threads -> Seq(ClaimedPacket)]
  BY <1>1, <1>2
<1>3. CASE UNCHANGED packet_queue
  BY <1>1, <1>3
<1>4. ASSUME NEW p \in ClaimedPacket, pushPacket(p)
      PROVE  packet_queue' \in [Threads -> Seq(ClaimedPacket)]
  <2> DEFINE t == CalcThreadIndex(p.key)
  <2>1. t \in Threads
    BY IndexType, PacketKey DEF ClaimedPacket
  <2>2. packet_queue' = [packet_queue EXCEPT ![t] = Append(packet_queue[t], p)]
    BY <1>4 DEF pushPacket
  <2> HIDE DEF t
  <2>3. Append(packet_queue[t], p) \in Seq(ClaimedPacket)
    BY <1>1, <2>1, AppendProperties
  <2> QED BY <1>2, <2>1, <2>2, <2>3
<1>5. \A t \in Threads : packet_queue[t] # <<>> => Tail(packet_queue[t]) \in Seq(ClaimedPacket)
  BY <1>1, HeadAndTail
<1>6. ASSUME NEW t \in Threads, packet_queue[t] # <<>>, PopPacket(t)
      PROVE  packet_queue' \in [Threads -> Seq(ClaimedPacket)]
  BY <1>2, <1>5, <1>6 DEF PopPacket
<1>7. ASSUME NEW t \in Threads, NEW k \in Keys, PushesEnd(t, k)
      PROVE  packet_queue' \in [Threads -> Seq(ClaimedPacket)]
  <2>1. [type |-> "END_BATTLE", key |-> k] \in ClaimedPacket
    BY ServerPackets, PlainPackets
  <2>2. PICK q \in Seq(ClaimedPacket) :
          packet_queue' = [packet_queue EXCEPT ![t] =
                             Append(q, [type |-> "END_BATTLE", key |-> k])]
    BY <1>1, <1>5, <1>7 DEF PushesEnd
  <2>3. Append(q, [type |-> "END_BATTLE", key |-> k]) \in Seq(ClaimedPacket)
    BY <2>1, <2>2, AppendProperties
  <2> QED BY <1>2, <2>2, <2>3
<1> QED BY <1>3, <1>4, <1>6, <1>7, QueueStep

(* A packet at the head of a queue claims what it should. *)
LEMMA HeadClaimed ==
  ASSUME Claims, NEW t \in Threads, packet_queue[t] # <<>>
  PROVE  Head(packet_queue[t]) \in ClaimedPacket
BY HeadAndTail DEF Claims

(* The GETs wait for the joins that were asked for (execJoin). *)
LEMMA RepliesClaimed ==
  ASSUME TypeOK, Claims, [Next]_vars
  PROVE  redis_queue' \in Seq(ClaimedReply)
<1> USE DEF worker_vars, network_vars, task_vars
<1>1. redis_queue \in Seq(ClaimedReply)
  BY DEF Claims
<1>2. CASE RedisReply
  BY <1>1, <1>2, HeadAndTail DEF RedisReply
<1>3. ASSUME NEW t \in Threads, execJoin(t)
      PROVE  redis_queue' \in Seq(ClaimedReply)
  <2> DEFINE p == Head(packet_queue[t])
  <2>1. p \in ClaimedPacket /\ p \in JoinPacket /\ p.type = "JOIN"
    BY <1>3, HeadClaimed, NextPacketType, PacketFields DEF execJoin, NextPacket
  <2>2. p \in ClaimedReply
    BY <2>1 DEF ClaimedPacket, ClaimedReply
  <2> QED BY <1>1, <1>3, <2>2, AppendProperties DEF execJoin
<1>4. ASSUME NEW t \in Threads, Dispatch(t), ~execJoin(t)
      PROVE  UNCHANGED redis_queue
  BY <1>4 DEF Dispatch, execEndBattle, execError, execJoin2, execLeave, execPlayerInput,
     execPlayerInputUdp, execUdpHandshake
<1>5. ASSUME NEW t \in Threads, Update(t) PROVE UNCHANGED redis_queue
  BY <1>5 DEF Update, BeginUpdate, UpdateBattle
<1>6. CASE Client \/ Network \/ Scheduler \/ (\E a \in Actors : RemoveClosedActor(a))
  BY <1>1, <1>6 DEF Client, joinPlayer, leavePlayer, playerInput, playerInputUdp, udpHandshake,
                    Request, Network, SessionError, SessionClose, Scheduler, RunAddTask,
                    FireEndTask, RemoveClosedActor
<1>7. CASE MasterQueue \/ UNCHANGED vars
  BY <1>1, <1>7 DEF MasterQueue, ApplyAddActorInfo, ApplyRemoveActorInfo, ApplyReceiveError,
                    ApplyOnError, vars
<1> QED BY <1>1, <1>2, <1>3, <1>4, <1>5, <1>6, <1>7 DEF Next

(* What a step does to the functions queued for the master: the master runs
   the first, a function that routes nothing is posted, a join posts its
   addActorInfo, or an end its two removeActorInfo. *)
Posts(op) == master_queue' = Append(master_queue, op) /\ UNCHANGED actor_map

PostsEnd(k) ==
  /\ Listed(k)
  /\ ended' = [ended EXCEPT ![k] = TRUE]
  /\ master_queue' = master_queue \o EndOps(k)
  /\ UNCHANGED actor_map

LEMMA MasterStep ==
  ASSUME TypeOK, DueListed, [Next]_vars
  PROVE  \/ UNCHANGED <<master_queue, actor_map>>
         \/ MasterQueue
         \/ \E a \in Actors : Posts(onError(a))
         \/ \E t \in Threads :
              /\ execJoin2(t)
              /\ Head(packet_queue[t]) \in Join2Packet
              /\ packet_queue[t] # <<>>
              /\ Posts(addActorInfo(Head(packet_queue[t]).actor, Head(packet_queue[t]).key))
         \/ \E k \in Keys : PostsEnd(k)
<1> USE DEF worker_vars, network_vars, task_vars
<1>1. CASE Client \/ Scheduler \/ (\E a \in Actors : RemoveClosedActor(a))
  BY <1>1 DEF Client, joinPlayer, leavePlayer, playerInput, playerInputUdp, udpHandshake,
              Request, Scheduler, RunAddTask, FireEndTask, RemoveClosedActor
<1>2. CASE Network
  BY <1>2 DEF Network, SessionError, SessionClose, Posts
<1>3. CASE RedisReply \/ UNCHANGED vars
  BY <1>3 DEF RedisReply, vars
<1>4. ASSUME NEW t \in Threads, Dispatch(t)
      PROVE  \/ UNCHANGED <<master_queue, actor_map>>
             \/ /\ execJoin2(t)
                /\ Head(packet_queue[t]) \in Join2Packet
                /\ packet_queue[t] # <<>>
                /\ Posts(addActorInfo(Head(packet_queue[t]).actor, Head(packet_queue[t]).key))
             \/ \E k \in Keys : PostsEnd(k)
  <2>1. CASE execError(t) \/ execLeave(t)
    <3> DEFINE k == Head(packet_queue[t]).key
    <3>1. k \in Keys
      BY <2>1, NextPacketType DEF execError, execLeave
    <3>2. \/ Listed(k) /\ endBattle(k, t, Tail(packet_queue[t]))
          \/ UNCHANGED <<master_queue, ended>>
      BY <2>1 DEF execError, execLeave
    <3>3. UNCHANGED actor_map
      BY <2>1 DEF execError, execLeave
    <3> HIDE DEF k
    <3> QED BY <3>1, <3>2, <3>3 DEF endBattle, PostsEnd
  <2>2. CASE execJoin2(t)
    <3>1. Head(packet_queue[t]) \in Join2Packet /\ packet_queue[t] # <<>>
      BY <2>2, NextPacketType, PacketFields DEF execJoin2, NextPacket
    <3>2. Posts(addActorInfo(Head(packet_queue[t]).actor, Head(packet_queue[t]).key))
      BY <2>2 DEF execJoin2, RouteErrors, Posts
    <3> QED BY <2>2, <3>1, <3>2
  <2>3. CASE execEndBattle(t) \/ execJoin(t)
    BY <2>3 DEF execEndBattle, execJoin
  <2>4. CASE execPlayerInput(t) \/ execPlayerInputUdp(t) \/ execUdpHandshake(t)
    BY <2>4 DEF execPlayerInput, execPlayerInputUdp, execUdpHandshake
  <2> QED BY <1>4, <2>1, <2>2, <2>3, <2>4 DEF Dispatch
<1>5. ASSUME NEW t \in Threads, Update(t)
      PROVE  \/ UNCHANGED <<master_queue, actor_map>>
             \/ \E k \in Keys : PostsEnd(k)
  <2>1. ASSUME NEW k \in Keys, UpdateBattle(t, k)
        PROVE  UNCHANGED <<master_queue, actor_map>> \/ PostsEnd(k)
    <3>1. Listed(k)
      BY <2>1 DEF UpdateBattle, DueListed, BattlesOf
    <3> QED BY <2>1, <3>1 DEF UpdateBattle, endBattle, PostsEnd
  <2>2. ASSUME NEW due \in SUBSET Keys, BeginUpdate(t, due)
        PROVE  UNCHANGED <<master_queue, actor_map>>
    BY <2>2 DEF BeginUpdate
  <2> QED BY <1>5, <2>1, <2>2 DEF Update
<1> QED BY <1>1, <1>2, <1>3, <1>4, <1>5 DEF Next

(* The functions that do not enter an actor claim nothing. *)
LEMMA PlainOps ==
  \A op \in MasterOp : op.op # "addActorInfo" => op \in ClaimedOp
BY DEF ClaimedOp

(* The addActorInfo functions are for connections that asked to join. *)
LEMMA OpsClaimed ==
  ASSUME TypeOK, DueListed, Claims, [Next]_vars
  PROVE  master_queue' \in Seq(ClaimedOp)
<1>1. master_queue \in Seq(ClaimedOp)
  BY DEF Claims
<1>2. ASSUME NEW op \in ClaimedOp, Posts(op)
      PROVE  master_queue' \in Seq(ClaimedOp)
  BY <1>1, <1>2, AppendProperties DEF Posts
<1>3. ASSUME NEW a \in Actors
      PROVE  onError(a) \in ClaimedOp /\ receiveError(a) \in ClaimedOp
  BY DEF onError, receiveError, ClaimedOp, MasterOp, ErrorOp
<1>4. CASE MasterQueue
  <2>1. master_queue # <<>>
    BY <1>4 DEF MasterQueue, ApplyAddActorInfo, ApplyRemoveActorInfo, ApplyReceiveError,
                ApplyOnError, NextOp
  <2>2. Tail(master_queue) \in Seq(ClaimedOp) /\ Head(master_queue) \in MasterOp
    BY <1>1, <2>1, HeadAndTail DEF TypeOK
  <2>3. CASE ApplyOnError
    <3> DEFINE a == Head(master_queue).actor
    <3>1. a \in Actors
      BY <2>2, <2>3 DEF ApplyOnError, NextOp, MasterOp, AddOp, RemoveOp, ErrorOp
    <3>2. Append(Tail(master_queue), receiveError(a)) \in Seq(ClaimedOp)
      BY <1>3, <2>2, <3>1, AppendProperties
    <3> QED BY <2>2, <2>3, <3>2 DEF ApplyOnError
  <2> QED BY <1>4, <2>2, <2>3 DEF MasterQueue, ApplyAddActorInfo, ApplyRemoveActorInfo,
                                  ApplyReceiveError
<1>5. ASSUME NEW t \in Threads, packet_queue[t] # <<>>, Head(packet_queue[t]) \in Join2Packet
      PROVE  addActorInfo(Head(packet_queue[t]).actor, Head(packet_queue[t]).key) \in ClaimedOp
  <2> DEFINE p == Head(packet_queue[t])
  <2>1. p \in ClaimedPacket
    BY <1>5, HeadClaimed
  <2>2. p.key \in Keys /\ p.actor \in Actors /\ p.player_id \in PlayerIds /\ p.type = "JOIN2"
    BY <1>5 DEF Join2Packet
  <2>3. Asked(p.key, p.player_id, p.actor)
    BY <2>1, <2>2 DEF ClaimedPacket
  <2> HIDE DEF p
  <2>4. Joined(p.actor, p.key)
    BY <2>2, <2>3 DEF Joined
  <2>5. addActorInfo(p.actor, p.key) \in MasterOp
    BY <2>2 DEF addActorInfo, MasterOp, AddOp
  <2>6. addActorInfo(p.actor, p.key) \in ClaimedOp
    BY <2>4, <2>5 DEF addActorInfo, ClaimedOp
  <2> QED BY <2>6 DEF p
<1>6. ASSUME NEW k \in Keys, PostsEnd(k)
      PROVE  master_queue' \in Seq(ClaimedOp)
  <2>1. battle_list[k] \in Battle
    BY <1>6 DEF PostsEnd, TypeOK, Listed
  <2>2. \A s \in Sides : battle_list[k].player[s].actor_key \in Actors \cup {NoActor}
    BY <2>1 DEF Battle, Player
  <2>3. \A a \in Actors \cup {NoActor} : removeActorInfo(a, k) \in ClaimedOp
    BY DEF removeActorInfo, ClaimedOp, MasterOp, RemoveOp
  <2>4. EndOps(k) \in Seq(ClaimedOp)
    BY <2>2, <2>3 DEF EndOps, Sides
  <2> QED BY <1>1, <1>6, <2>4, ConcatProperties DEF PostsEnd
<1> QED BY <1>1, <1>2, <1>3, <1>4, <1>5, <1>6, MasterStep

(* The sides of one battle are claimed. *)
SideClaim(k, s, p) ==
  /\ p.id = Roster[k].id[s]
  /\ p.actor_key # NoActor => Asked(k, p.id, p.actor_key)
  /\ enableUdp(p) => [type |-> "UDP_HANDSHAKE", key |-> k, player_id |-> p.id,
                      ep |-> p.udp_endpoint] \in Requests

LEMMA SidesAre ==
  SidesClaimed <=> \A k \in Keys : Listed(k) =>
                     \A s \in Sides : SideClaim(k, s, battle_list[k].player[s])
BY DEF SidesClaimed, SideClaim, Asked

(* A side is bound to who asked for it (execJoin2, execUdpHandshake). *)
LEMMA SidesStep ==
  ASSUME TypeOK, Claims, [Next]_vars
  PROVE  SidesClaimed'
<1> SUFFICES ASSUME NEW k \in Keys, Listed(k)', NEW s \in Sides
             PROVE  SideClaim(k, s, battle_list'[k].player[s])
  BY DEF SidesClaimed, SideClaim, Asked
<1> DEFINE c == battle_list'[k]
           found == FoundBattle(k)
<1>1. Listed(k) => SideClaim(k, s, battle_list[k].player[s])
  BY SidesAre DEF Claims
<1>2. Listed(k) => battle_list[k] \in Battle
  BY DEF TypeOK, Listed
<1>3. found \in Battle /\ SideClaim(k, s, found.player[s])
  <2>1. SideClaim(k, s, NewPlayer(Roster[k], s))
    BY DEF SideClaim, NewPlayer, enableUdp
  <2>2. SideClaim(k, s, NewBattle(Roster[k]).player[s])
    BY <2>1 DEF NewBattle
  <2> QED BY <1>1, <1>2, <2>2, NewBattleType, ConstantsAssumption DEF FoundBattle
<1>4. CASE Untouched(k)
  BY <1>1, <1>4 DEF Untouched, Listed
<1>5. CASE Attacked(k)
  <2>1. Listed(k) /\ SameBinding(battle_list[k].player[s], c.player[s])
    BY <1>5 DEF Attacked, Attack
  <2> QED BY <1>1, <2>1 DEF SameBinding, SideClaim, enableUdp
<1>6. ASSUME NEW t \in Threads, Binds(k, t)
      PROVE  SideClaim(k, s, c.player[s])
  <2> DEFINE p == Head(packet_queue[t])
  <2>1. p \in ClaimedPacket /\ p \in Join2Packet /\ p.key = k
    BY <1>6, HeadClaimed DEF Binds
  <2>2. p.player_id \in PlayerIds /\ p.actor \in Actors /\ Asked(k, p.player_id, p.actor)
    BY <2>1 DEF Join2Packet, ClaimedPacket
  <2>3. c = BindPlayer(found, k, p.player_id, p.actor)
    BY <1>6 DEF Binds
  <2> HIDE DEF c, p, found
  <2>4. /\ c.player[s].id = found.player[s].id
        /\ c.player[s].udp_endpoint = found.player[s].udp_endpoint
        /\ \/ c.player[s].actor_key = found.player[s].actor_key
           \/ c.player[s].actor_key = p.actor /\ p.player_id = Roster[k].id[s]
    BY <1>3, <2>2, <2>3, BindEffect
  <2> QED BY <1>3, <2>2, <2>4 DEF SideClaim, enableUdp
<1>7. ASSUME NEW t \in Threads, Greets(k, t)
      PROVE  SideClaim(k, s, c.player[s])
  <2> DEFINE p == Head(packet_queue[t])
             b == battle_list[k]
  <2>1. p \in ClaimedPacket /\ p \in UdpHandshakePacket /\ p.key = k /\ Listed(k)
    BY <1>7, HeadClaimed DEF Greets
  <2>2. /\ p.player_id \in PlayerIds /\ p.ep \in Endpoints
        /\ p = [type |-> "UDP_HANDSHAKE", key |-> k, player_id |-> p.player_id, ep |-> p.ep]
        /\ p \in Requests
    BY <2>1 DEF UdpHandshakePacket, ClaimedPacket
  <2>3. c = SetEndpoint(b, p.player_id, p.ep)
    BY <1>7 DEF Greets
  <2> HIDE DEF c, p, b
  <2>4. /\ c.player[s].id = b.player[s].id
        /\ c.player[s].actor_key = b.player[s].actor_key
        /\ \/ c.player[s].udp_endpoint = b.player[s].udp_endpoint
           \/ c.player[s].udp_endpoint = p.ep /\ p.player_id = b.player[s].id
    BY <1>2, <2>1, <2>2, <2>3, GreetEffect DEF b
  <2>5. SideClaim(k, s, b.player[s])
    BY <1>1, <2>1 DEF b
  <2> QED BY <2>2, <2>4, <2>5 DEF SideClaim, enableUdp
<1> QED BY <1>4, <1>5, <1>6, <1>7, BattleStep DEF Erased, Listed

(* Everything that travels keeps claiming what was asked for. *)
LEMMA ClaimsHold == Spec => []Claims
<1>1. Init => Claims
  BY EmptySeq DEF Init, Claims, SidesClaimed, Listed
<1>2. TypeOK /\ DueListed /\ Claims /\ [Next]_vars => Claims'
  BY PacketsClaimed, RepliesClaimed, OpsClaimed, SidesStep DEF Claims
<1>3. IInv => TypeOK /\ DueListed
  BY DEF IInv
<1> QED BY <1>1, <1>2, <1>3, Invariance, PTL DEF Spec

(* A side of a battle is only ever bound to a connection that asked to join
   that battle as that very player, and its UDP endpoint to one that sent a
   handshake for that player (execJoin, execJoin2, execUdpHandshake). *)
THEOREM BoundAsAsked == Spec => []SidesClaimed
<1>1. Claims => SidesClaimed
  BY DEF Claims
<1> QED BY <1>1, ClaimsHold, PTL

-----------------------------------------------------------------------------
(***************************************************************************)
(* Where the errors of a connection go.  WillRoute looks at the functions  *)
(* queued for the master; Route is the same of any queue q and any entry m *)
(* of actor_map.                                                           *)
(***************************************************************************)
Removes(op, a, k) == op.op = "removeActorInfo" /\ op.actor = a /\ op.key = k
Adds(op, a)       == op.op = "addActorInfo" /\ op.actor = a

Route(m, q, a, k) ==
  \/ m = k /\ \A i \in 1..Len(q) : ~Removes(q[i], a, k)
  \/ \E i \in 1..Len(q) : /\ Adds(q[i], a) /\ q[i].key = k
                          /\ \A j \in (i + 1)..Len(q) : ~Removes(q[j], a, k)

LEMMA RouteIs ==
  \A a \in Actors, k \in Keys : WillRoute(a, k) <=> Route(actor_map[a], master_queue, a, k)
BY DEF WillRoute, Route, Removes, Adds

(* A function that is posted takes the route away only if it removes it,
   and addActorInfo makes it. *)
LEMMA RouteAppend ==
  ASSUME NEW q \in Seq(MasterOp), NEW op \in MasterOp, NEW m, NEW a, NEW k
  PROVE  /\ Route(m, q, a, k) /\ ~Removes(op, a, k) => Route(m, Append(q, op), a, k)
         /\ Adds(op, a) /\ op.key = k => Route(m, Append(q, op), a, k)
<1> DEFINE q2 == Append(q, op)
           n == Len(q)
<1>1. /\ n \in Nat /\ Len(q2) = n + 1 /\ q2[n + 1] = op
      /\ \A i \in 1..n : q2[i] = q[i]
  BY AppendProperties
<1> HIDE DEF q2
<1>2. ASSUME m = k, \A i \in 1..n : ~Removes(q[i], a, k), ~Removes(op, a, k)
      PROVE  Route(m, q2, a, k)
  <2>1. \A i \in 1..Len(q2) : ~Removes(q2[i], a, k)
    <3> HIDE DEF n
    <3> QED BY <1>1, <1>2
  <2> QED BY <1>2, <2>1 DEF Route
<1>3. ASSUME NEW i \in 1..n, Adds(q[i], a), q[i].key = k, ~Removes(op, a, k),
             \A j \in (i + 1)..n : ~Removes(q[j], a, k)
      PROVE  Route(m, q2, a, k)
  <2> HIDE DEF n
  <2>1. \A j \in (i + 1)..Len(q2) : ~Removes(q2[j], a, k)
    BY <1>1, <1>3
  <2>2. i \in 1..Len(q2) /\ Adds(q2[i], a) /\ q2[i].key = k
    BY <1>1, <1>3
  <2> QED BY <2>1, <2>2 DEF Route
<1>4. ASSUME Adds(op, a), op.key = k
      PROVE  Route(m, q2, a, k)
  <2> HIDE DEF n
  <2>1. \A j \in ((n + 1) + 1)..Len(q2) : ~Removes(q2[j], a, k)
    BY <1>1
  <2>2. n + 1 \in 1..Len(q2) /\ Adds(q2[n + 1], a) /\ q2[n + 1].key = k
    BY <1>1, <1>4
  <2> QED BY <2>1, <2>2 DEF Route
<1> QED BY <1>2, <1>3, <1>4 DEF Route, q2

(* The first function of the queue is run: it makes the route, leaves it
   alone, or was not the one the route rests on. *)
LEMMA RouteTail ==
  ASSUME NEW q \in Seq(MasterOp), q # <<>>, NEW m, NEW m2, NEW a, NEW k,
         Route(m, q, a, k),
         Adds(Head(q), a) /\ Head(q).key = k => m2 = k,
         m = k /\ ~Removes(Head(q), a, k) => m2 = k
  PROVE  Route(m2, Tail(q), a, k)
<1> DEFINE q2 == Tail(q)
           n == Len(q2)
<1>1. /\ n \in Nat /\ Len(q) = n + 1 /\ Head(q) = q[1]
      /\ \A i \in 1..n : q2[i] = q[i + 1]
  BY HeadTailProperties, EmptySeq
<1> HIDE DEF q2, n
<1>2. ASSUME m = k, \A i \in 1..Len(q) : ~Removes(q[i], a, k)
      PROVE  Route(m2, q2, a, k)
  <2>1. m2 = k
    BY <1>1, <1>2
  <2>2. \A i \in 1..n : i + 1 \in 1..Len(q)
    BY <1>1
  <2>3. \A i \in 1..n : ~Removes(q2[i], a, k)
    BY <1>1, <1>2, <2>2
  <2> QED BY <2>1, <2>3 DEF Route, n
<1>3. ASSUME NEW i \in 1..Len(q), Adds(q[i], a), q[i].key = k,
             \A j \in (i + 1)..Len(q) : ~Removes(q[j], a, k)
      PROVE  Route(m2, q2, a, k)
  <2>1. \A j \in 1..n : j >= i => j + 1 \in (i + 1)..Len(q)
    BY <1>1
  <2>2. \A j \in 1..n : j >= i => ~Removes(q2[j], a, k)
    BY <1>1, <1>3, <2>1
  <2>3. CASE i = 1
    <3>1. m2 = k
      BY <1>1, <1>3, <2>3
    <3>2. \A j \in 1..n : ~Removes(q2[j], a, k)
      BY <2>2, <2>3
    <3> QED BY <3>1, <3>2 DEF Route, n
  <2>4. CASE i # 1
    <3> DEFINE h == i - 1
    <3>1. h \in 1..n /\ h + 1 = i
      BY <1>1, <2>4
    <3> HIDE DEF h
    <3>2. Adds(q2[h], a) /\ q2[h].key = k
      BY <1>1, <1>3, <3>1
    <3>3. \A j \in (h + 1)..n : ~Removes(q2[j], a, k)
      BY <1>1, <2>2, <3>1
    <3> QED BY <3>1, <3>2, <3>3 DEF Route, n
  <2> QED BY <2>3, <2>4
<1> QED BY <1>2, <1>3 DEF Route, q2

(* Whoever plays in a running battle after a step did so before, or has just
   been bound by the join that is handled in it (execJoin2). *)
JoinsNow(a, k) == \E t \in Threads : /\ execJoin2(t)
                                     /\ Head(packet_queue[t]).actor = a
                                     /\ Head(packet_queue[t]).key = k

LEMMA WhyPlaying ==
  ASSUME IInv, TypeOK', [Next]_vars, NEW k \in Keys, NEW a \in Actors,
         Running(k)', PlaysIn(a, k)'
  PROVE  (Running(k) /\ PlaysIn(a, k)) \/ JoinsNow(a, k)
<1> DEFINE c == battle_list'[k]
<1>1. Listed(k)' /\ ~ended'[k] /\ \E s \in Sides : c.player[s].actor_key = a
  BY DEF Running, PlaysIn, Listed, HasActor
<1>2. TypeOK /\ (ended[k] => Listed(k))
  BY DEF IInv, EndedIsListed
<1>3. Same(k) \/ Ends(k) \/ Erases(k) \/ Creates(k)
  BY KeyStep DEF AllSame, OneMoves
<1>4. ~ended[k]
  BY <1>1, <1>2, <1>3 DEF Same, Ends, Erases, Creates
<1>5. SUFFICES ASSUME ~JoinsNow(a, k)
               PROVE  Listed(k) /\ \E s \in Sides : battle_list[k].player[s].actor_key = a
  BY <1>4 DEF Running, PlaysIn, HasActor
<1>6. CASE Untouched(k)
  BY <1>1, <1>6 DEF Untouched, Listed
<1>7. CASE Attacked(k)
  <2>1. Listed(k) /\ \A s \in Sides : SameBinding(battle_list[k].player[s], c.player[s])
    BY <1>7 DEF Attacked, Attack
  <2> QED BY <1>1, <2>1 DEF SameBinding
<1>8. ASSUME NEW t \in Threads, Binds(k, t)
      PROVE  Listed(k) /\ \E s \in Sides : battle_list[k].player[s].actor_key = a
  <2> DEFINE p == Head(packet_queue[t])
             found == FoundBattle(k)
  <2>1. /\ p.player_id \in PlayerIds /\ p.actor \in Actors /\ p.actor # a
        /\ c = BindPlayer(found, k, p.player_id, p.actor)
    BY <1>5, <1>8 DEF Binds, Join2Packet, JoinsNow
  <2>2. found \in Battle
    BY <1>2, NewBattleType, ConstantsAssumption DEF FoundBattle, TypeOK, Listed
  <2> HIDE DEF p, found
  <2>3. \A s \in Sides : \/ c.player[s].actor_key = found.player[s].actor_key
                         \/ c.player[s].actor_key = p.actor
    BY <2>1, <2>2, BindEffect
  <2>4. \E s \in Sides : found.player[s].actor_key = a
    BY <1>1, <2>1, <2>3
  <2>5. ~Listed(k) => \A s \in Sides : found.player[s].actor_key = NoActor
    BY DEF found, FoundBattle, NewBattle, NewPlayer
  <2>6. Listed(k) => found = battle_list[k]
    BY DEF found, FoundBattle
  <2> QED BY <2>4, <2>5, <2>6, ConstantsAssumption
<1>9. ASSUME NEW t \in Threads, Greets(k, t)
      PROVE  Listed(k) /\ \E s \in Sides : battle_list[k].player[s].actor_key = a
  <2> DEFINE p == Head(packet_queue[t])
  <2>1. /\ p.player_id \in PlayerIds /\ p.ep \in Endpoints /\ Listed(k)
        /\ c = SetEndpoint(battle_list[k], p.player_id, p.ep)
    BY <1>9 DEF Greets, UdpHandshakePacket
  <2>2. battle_list[k] \in Battle
    BY <1>2, <2>1 DEF TypeOK, Listed
  <2> HIDE DEF p
  <2>3. \A s \in Sides : c.player[s].actor_key = battle_list[k].player[s].actor_key
    BY <2>1, <2>2, GreetEffect
  <2> QED BY <1>1, <2>1, <2>3
<1>10. ~Erased(k)
  BY <1>1 DEF Erased, Listed
<1> QED BY <1>2, <1>6, <1>7, <1>8, <1>9, <1>10, BattleStep

(* A connection that plays in one battle joins no other. *)
LEMMA PlaysWhereJoined ==
  ASSUME TypeOK, SidesClaimed, OneBattlePerConnection, NEW k \in Keys, NEW a \in Actors,
         PlaysIn(a, k)
  PROVE  \A j \in Keys : Joined(a, j) => j = k
<1>1. PICK s \in Sides : Listed(k) /\ battle_list[k].player[s].actor_key = a
  BY DEF PlaysIn, HasActor
<1>2. battle_list[k].player[s] \in Player
  BY <1>1 DEF TypeOK, Listed, Battle
<1>3. Asked(k, battle_list[k].player[s].id, a)
  BY <1>1, ConstantsAssumption DEF SidesClaimed, Asked
<1>4. PICK id \in PlayerIds : Asked(k, id, a)
  BY <1>2, <1>3 DEF Player
<1>5. ASSUME NEW j \in Keys, NEW id2 \in PlayerIds, Asked(j, id2, a)
      PROVE  j = k
  <2> DEFINE q == [type |-> "JOIN", key |-> j, player_id |-> id2, actor |-> a]
             r == [type |-> "JOIN", key |-> k, player_id |-> id, actor |-> a]
  <2>1. q \in Requests /\ r \in Requests
    BY <1>4, <1>5 DEF Asked
  <2>2. q \in JoinPacket /\ r \in JoinPacket
    BY DEF JoinPacket
  <2>3. q.actor = r.actor /\ q.key = j /\ r.key = k
    OBVIOUS
  <2> HIDE DEF q, r
  <2> QED BY <2>1, <2>2, <2>3 DEF OneBattlePerConnection
<1> QED BY <1>5 DEF Joined

(* Running a function of the master does not lose a player's route: if it
   enters the player's connection, then for this battle, the only one it
   joins; and if it removes that entry, a later one enters it again
   (addActorInfo, removeActorInfo). *)
LEMMA RouteRuns ==
  ASSUME TypeOK, Claims, OneBattlePerConnection, MasterQueue,
         NEW k \in Keys, NEW a \in Actors, PlaysIn(a, k), WillRoute(a, k)
  PROVE  WillRoute(a, k)'
<1> USE DEF worker_vars, network_vars, task_vars
<1> DEFINE q == master_queue
           h == Head(master_queue)
<1>1. q # <<>>
  BY DEF MasterQueue, ApplyAddActorInfo, ApplyRemoveActorInfo, ApplyReceiveError,
         ApplyOnError, NextOp
<1>2. h \in MasterOp /\ h \in ClaimedOp /\ q \in Seq(MasterOp) /\ Tail(q) \in Seq(MasterOp)
  BY <1>1, HeadAndTail DEF TypeOK, Claims
<1>3. Route(actor_map[a], q, a, k)
  BY RouteIs
<1>4. ASSUME Route(actor_map'[a], master_queue', a, k)
      PROVE  WillRoute(a, k)'
  BY <1>4 DEF WillRoute, Route, Removes, Adds
<1>5. ASSUME Adds(h, a) => h.key = k /\ actor_map'[a] = k,
             actor_map[a] = k /\ ~Removes(h, a, k) => actor_map'[a] = k
      PROVE  Route(actor_map'[a], Tail(q), a, k)
  <2> HIDE DEF q
  <2> QED BY <1>1, <1>2, <1>3, <1>5, RouteTail DEF q
<1>6. CASE ApplyAddActorInfo
  <2>1. /\ h.op = "addActorInfo"
        /\ actor_map' = [actor_map EXCEPT ![h.actor] = h.key]
        /\ master_queue' = Tail(q)
    BY <1>6 DEF ApplyAddActorInfo, NextOp
  <2>2. h.actor \in Actors /\ h.key \in Keys /\ Joined(h.actor, h.key)
    BY <1>2, <2>1 DEF MasterOp, AddOp, RemoveOp, ErrorOp, ClaimedOp
  <2>3. h.actor = a => h.key = k
    BY <2>2, PlaysWhereJoined DEF Claims
  <2> HIDE DEF h
  <2>4. actor_map'[a] = IF h.actor = a THEN h.key ELSE actor_map[a]
    BY <2>1, <2>2 DEF TypeOK
  <2> QED BY <1>4, <1>5, <2>1, <2>3, <2>4 DEF Adds
<1>7. CASE ApplyRemoveActorInfo
  <2>1. /\ h.op = "removeActorInfo"
        /\ actor_map' = [b \in Actors |-> IF b = h.actor /\ actor_map[b] = h.key
                                          THEN NoKey ELSE actor_map[b]]
        /\ master_queue' = Tail(q)
    BY <1>7 DEF ApplyRemoveActorInfo, NextOp
  <2> HIDE DEF h
  <2>2. actor_map'[a] = IF a = h.actor /\ actor_map[a] = h.key THEN NoKey ELSE actor_map[a]
    BY <2>1
  <2> QED BY <1>4, <1>5, <2>1, <2>2 DEF Adds, Removes
<1>8. CASE ApplyReceiveError
  <2>1. h.op = "receiveError" /\ actor_map' = actor_map /\ master_queue' = Tail(q)
    BY <1>8 DEF ApplyReceiveError, NextOp
  <2> QED BY <1>4, <1>5, <2>1 DEF Adds
<1>9. CASE ApplyOnError
  <2>1. /\ h.op = "onError" /\ actor_map' = actor_map
        /\ \/ master_queue' = Tail(q)
           \/ master_queue' = Append(Tail(q), receiveError(h.actor))
    BY <1>9 DEF ApplyOnError, NextOp
  <2>2. Route(actor_map'[a], Tail(q), a, k)
    BY <1>5, <2>1 DEF Adds
  <2>3. receiveError(h.actor) \in MasterOp /\ ~Removes(receiveError(h.actor), a, k)
    BY <1>2, <2>1 DEF MasterOp, AddOp, RemoveOp, ErrorOp, receiveError, Removes
  <2>4. Route(actor_map'[a], Append(Tail(q), receiveError(h.actor)), a, k)
    <3> HIDE DEF q, h
    <3> QED BY <1>2, <2>2, <2>3, RouteAppend
  <2> QED BY <1>4, <2>1, <2>2, <2>4
<1> QED BY <1>6, <1>7, <1>8, <1>9 DEF MasterQueue

(* Every step keeps the errors of the players routed: a join posts its
   addActorInfo when it binds its side, and only the end of the battle
   itself posts removals of its entries. *)
LEMMA RouteStep ==
  ASSUME IInv, Claims, OneBattlePerConnection, ErrorsRouted, [Next]_vars
  PROVE  ErrorsRouted'
<1> USE DEF worker_vars, network_vars, task_vars
<1>1. TypeOK /\ DueListed /\ TypeOK'
  BY StepInv DEF IInv
<1> SUFFICES ASSUME NEW k \in Keys, NEW a \in Actors, Running(k)', PlaysIn(a, k)'
             PROVE  WillRoute(a, k)'
  BY DEF ErrorsRouted
<1> DEFINE q == master_queue
<1>2. (Running(k) /\ PlaysIn(a, k)) \/ JoinsNow(a, k)
  BY <1>1, WhyPlaying
<1>3. Running(k) /\ PlaysIn(a, k) => WillRoute(a, k) /\ Route(actor_map[a], q, a, k)
  BY RouteIs DEF ErrorsRouted
<1>4. ASSUME Route(actor_map'[a], master_queue', a, k)
      PROVE  WillRoute(a, k)'
  BY <1>4 DEF WillRoute, Route, Removes, Adds
<1>5. ASSUME JoinsNow(a, k)
      PROVE  WillRoute(a, k)'
  <2>1. PICK t \in Threads : /\ execJoin2(t)
                             /\ Head(packet_queue[t]).actor = a
                             /\ Head(packet_queue[t]).key = k
    BY <1>5 DEF JoinsNow
  <2>2. master_queue' = Append(q, addActorInfo(a, k))
    BY <2>1 DEF execJoin2, RouteErrors
  <2>3. /\ addActorInfo(a, k) \in MasterOp
        /\ Adds(addActorInfo(a, k), a)
        /\ addActorInfo(a, k).key = k
    BY DEF addActorInfo, MasterOp, AddOp, Adds
  <2>4. Route(actor_map'[a], Append(q, addActorInfo(a, k)), a, k)
    BY <1>1, <2>3, RouteAppend DEF TypeOK
  <2> QED BY <1>4, <2>2, <2>4
<1>6. ASSUME ~JoinsNow(a, k)
      PROVE  WillRoute(a, k)'
  <2>1. WillRoute(a, k) /\ Route(actor_map[a], q, a, k) /\ PlaysIn(a, k) /\ Running(k)
    BY <1>2, <1>3, <1>6
  <2>2. ASSUME NEW op \in MasterOp, Posts(op), ~Removes(op, a, k)
        PROVE  WillRoute(a, k)'
    <3>1. Route(actor_map[a], Append(q, op), a, k)
      BY <1>1, <2>1, <2>2, RouteAppend DEF TypeOK
    <3> QED BY <1>4, <2>2, <3>1 DEF Posts
  <2>3. CASE UNCHANGED <<master_queue, actor_map>>
    BY <1>4, <2>1, <2>3
  <2>4. CASE MasterQueue
    BY <1>1, <2>1, <2>4, RouteRuns
  <2>5. ASSUME NEW b \in Actors, Posts(onError(b))
        PROVE  WillRoute(a, k)'
    <3>1. onError(b) \in MasterOp /\ ~Removes(onError(b), a, k)
      BY DEF onError, MasterOp, ErrorOp, Removes
    <3> QED BY <2>2, <2>5, <3>1
  <2>6. ASSUME NEW p \in Join2Packet, Posts(addActorInfo(p.actor, p.key))
        PROVE  WillRoute(a, k)'
    <3>1. /\ addActorInfo(p.actor, p.key) \in MasterOp
          /\ ~Removes(addActorInfo(p.actor, p.key), a, k)
      BY DEF addActorInfo, MasterOp, AddOp, Removes, Join2Packet
    <3> QED BY <2>2, <2>6, <3>1
  <2>7. ASSUME NEW j \in Keys, PostsEnd(j)
        PROVE  WillRoute(a, k)'
    <3>1. j # k
      BY <1>1, <2>7 DEF PostsEnd, Running, TypeOK
    <3> DEFINE r(s) == removeActorInfo(battle_list[j].player[s].actor_key, j)
    <3>2. /\ r(1) \in MasterOp /\ ~Removes(r(1), a, k)
          /\ r(2) \in MasterOp /\ ~Removes(r(2), a, k)
      <4>1. battle_list[j] \in Battle
        BY <1>1, <2>7 DEF PostsEnd, TypeOK, Listed
      <4>2. \A s \in Sides : battle_list[j].player[s].actor_key \in Actors \cup {NoActor}
        BY <4>1 DEF Battle, Player
      <4> QED BY <3>1, <4>2 DEF removeActorInfo, MasterOp, RemoveOp, Removes, Sides
    <3>3. master_queue' = q \o <<r(1), r(2)>> /\ UNCHANGED actor_map
      BY <2>7 DEF PostsEnd, EndOps
    <3> HIDE DEF r
    <3>4. q \o <<r(1), r(2)>> = Append(Append(q, r(1)), r(2))
      BY <1>1, <3>2 DEF TypeOK
    <3>5. q \in Seq(MasterOp) /\ Append(q, r(1)) \in Seq(MasterOp)
      BY <1>1, <3>2, AppendProperties DEF TypeOK
    <3>6. Route(actor_map[a], Append(q, r(1)), a, k)
      BY <2>1, <3>2, <3>5, RouteAppend
    <3>7. Route(actor_map[a], Append(Append(q, r(1)), r(2)), a, k)
      <4> HIDE DEF q
      <4> QED BY <3>2, <3>5, <3>6, RouteAppend
    <3> QED BY <1>4, <3>3, <3>4, <3>7
  <2> QED BY <1>1, <2>3, <2>4, <2>5, <2>6, <2>7, MasterStep
<1> QED BY <1>5, <1>6

(* If every connection joins one battle only, errors find their battle:
   whoever plays in a running battle is in actor_map, or will be before any
   error that is reported from now on is looked up (addActorInfo,
   removeActorInfo, receiveError). *)
THEOREM ErrorsFindTheirBattle ==
  ASSUME OneBattlePerConnection
  PROVE  Spec => []ErrorsRouted
<1>1. Init => ErrorsRouted
  BY DEF Init, ErrorsRouted, Running, Listed
<1>2. IInv /\ Claims /\ ErrorsRouted /\ [Next]_vars => ErrorsRouted'
  BY RouteStep
<1> QED BY <1>1, <1>2, Invariance, ClaimsHold, PTL DEF Spec

=============================================================================
