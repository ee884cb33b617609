-------------------------- MODULE BattleProcessor --------------------------
(***************************************************************************)
(* The battle server: BattleManager, its BattleProcessor workers, and the  *)
(* parts of the framework that drive them.                                 *)
(*                                                                         *)
(*   - The master thread runs the requests of the connected clients, the   *)
(*     functions posted to it (master_queue, first in first out), the      *)
(*     removal of closed actors and the delayed tasks.                     *)
(*   - Every worker thread pops its packet_queue, at most LoopCount        *)
(*     packets a round, and then updates the battles that are due.         *)
(*   - The Redis thread answers the GETs of execJoin in the order they     *)
(*     were sent.                                                          *)
(*   - The network thread opens connections, and reports their failure.    *)
(*                                                                         *)
(* A packet is handled in one step: its handler runs to completion on its  *)
(* thread and shares nothing but the queues with the others.               *)
(***************************************************************************)
EXTENDS BattleRules

CONSTANTS Keys,          \* battle keys
          NoKey,         \* actor_map has no entry
          NoBattle,      \* battle_list has no entry
          Roster,        \* the battle information Redis holds for each key
          CharTotal,     \* the sum of the character codes of each key
          thread_size,   \* number of battle workers (4 in Global::onStart)
          LoopCount,     \* LOOP_COUNT (1024)
          Requests,      \* the packets clients may ask for
          MaxRequests,   \* bound: how many requests clients send in all
          MaxQueued,     \* bound: packets queued when a client adds another
          Unreliable     \* bound: the connections that may fail

Threads == 0 .. thread_size - 1

JoinPacket  == [type: {"JOIN"}, key: Keys, player_id: PlayerIds, actor: Actors]
Join2Packet == [type: {"JOIN2"}, key: Keys, player_id: PlayerIds,
                actor: Actors, verified: BOOLEAN]
LeavePacket == [type: {"LEAVE"}, key: Keys, actor: Actors]
PlayerInputPacket ==
  [type: {"PLAYER_INPUT"}, key: Keys, actor: Actors, seq_id: SeqIds, hits: Nat]
PlayerInputUdpPacket ==
  [type: {"PLAYER_INPUT_UDP"}, key: Keys, ep: Endpoints, seq_id: SeqIds, hits: Nat]
UdpHandshakePacket ==
  [type: {"UDP_HANDSHAKE"}, key: Keys, player_id: PlayerIds, ep: Endpoints]
ErrorPacket     == [type: {"ERROR"}, key: Keys, actor: Actors]
EndBattlePacket == [type: {"END_BATTLE"}, key: Keys]

TcpRequest == JoinPacket \cup LeavePacket \cup PlayerInputPacket
UdpRequest == PlayerInputUdpPacket \cup UdpHandshakePacket

BattlePacket == TcpRequest \cup UdpRequest \cup Join2Packet
                  \cup ErrorPacket \cup EndBattlePacket

(***************************************************************************)
(* The functions other threads post to the master.                         *)
(***************************************************************************)
AddOp    == [op: {"addActorInfo"}, actor: Actors, key: Keys]
RemoveOp == [op: {"removeActorInfo"}, actor: Actors \cup {NoActor}, key: Keys]
ErrorOp  == [op: {"receiveError", "onError"}, actor: Actors]
MasterOp == AddOp \cup RemoveOp \cup ErrorOp

EndTask == [key: Keys, actors: SUBSET (Actors \cup {NoActor})]

ASSUME ConstantsAssumption ==
  /\ NoActor \notin Actors
  /\ NoEndpoint \notin Endpoints
  /\ NoKey \notin Keys
  /\ NoBattle \notin Battle
  /\ Roster \in [Keys -> BattleRoster]
  /\ CharTotal \in [Keys -> Nat]
  /\ thread_size \in Nat \ {0}
  /\ LoopCount \in Nat \ {0}
  /\ Requests \subseteq TcpRequest \cup UdpRequest
  /\ MaxRequests \in Nat
  /\ MaxQueued \in Nat
  /\ Unreliable \subseteq Actors

VARIABLES
  packet_queue,   \* per worker: the packets pushed and not yet popped
  battle_list,    \* per key: the battle its worker keeps
  rounds,         \* per worker: packets this round may still pop, and the
                  \* battles found due and not yet updated
  actor_map,      \* BattleManager: the battle an actor's errors go to
  master_queue,   \* functions posted to the master
  redis_queue,    \* GETs sent and not yet answered
  task_posts,     \* addTask calls not yet run by the scheduler
  task_list,      \* the actors each "<key>_end" task is to remove
  actor_list,     \* keys in the user ActorManager
  conn,           \* each connection: open, failing or closed
  sent,           \* number of requests so far
  ended,          \* history: endBattle has run for the listed battle
  incarnation     \* history: how many battles the key has had

worker_vars  == <<battle_list, rounds, ended, incarnation>>
network_vars == <<actor_list, conn, sent>>
task_vars    == <<task_posts, task_list>>
vars == <<packet_queue, battle_list, rounds, actor_map, master_queue,
          redis_queue, task_posts, task_list, actor_list, conn, sent,
          ended, incarnation>>

(* Every variable has its type: the queues hold the packets and functions
   their handlers expect, and a round pops at most LoopCount packets. *)
TypeOK ==
  /\ packet_queue \in [Threads -> Seq(BattlePacket)]
  /\ battle_list \in [Keys -> Battle \cup {NoBattle}]
  /\ rounds \in [Threads -> [left: 0..LoopCount, due: SUBSET Keys]]
  /\ actor_map \in [Actors -> Keys \cup {NoKey}]
  /\ master_queue \in Seq(MasterOp)
  /\ redis_queue \in Seq(JoinPacket)
  /\ task_posts \in Seq(EndTask)
  /\ task_list \in [Keys -> SUBSET (Actors \cup {NoActor})]
  /\ actor_list \in SUBSET Actors
  /\ conn \in [Actors -> {"open", "failing", "closed"}]
  /\ sent \in 0..MaxRequests
  /\ ended \in [Keys -> BOOLEAN]
  /\ incarnation \in [Keys -> Nat]

Init ==
  /\ packet_queue = [t \in Threads |-> <<>>]
  /\ battle_list = [k \in Keys |-> NoBattle]
  /\ rounds = [t \in Threads |-> [left |-> LoopCount, due |-> {}]]
  /\ actor_map = [a \in Actors |-> NoKey]
  /\ master_queue = <<>>
  /\ redis_queue = <<>>
  /\ task_posts = <<>>
  /\ task_list = [k \in Keys |-> {}]
  /\ actor_list = Actors
  /\ conn = [a \in Actors |-> "open"]
  /\ sent = 0
  /\ ended = [k \in Keys |-> FALSE]
  /\ incarnation = [k \in Keys |-> 0]

-----------------------------------------------------------------------------
(***************************************************************************)
(* BattleManager: pushing packets, and the functions it posts.             *)
(***************************************************************************)
CalcThreadIndex(k) == CharTotal[k] % thread_size

\* Mutant: every packet goes to the first worker.
pushPacket_First(p) == packet_queue' = [packet_queue EXCEPT ![0] = Append(@, p)]

pushPacket(p) ==
  packet_queue' = [packet_queue EXCEPT ![CalcThreadIndex(p.key)] = Append(@, p)]

addActorInfo(a, k)    == [op |-> "addActorInfo", actor |-> a, key |-> k]
removeActorInfo(a, k) == [op |-> "removeActorInfo", actor |-> a, key |-> k]
receiveError(a)       == [op |-> "receiveError", actor |-> a]
onError(a)            == [op |-> "onError", actor |-> a]

(***************************************************************************)
(* A client's request reaches BattleManager on the master thread.  Over    *)
(* TCP it is dispatched only while its actor is in the ActorManager; UDP   *)
(* datagrams have no actor, and may be lost, doubled or reordered: any     *)
(* request of the set may come at any time, any number of times.           *)
(***************************************************************************)
Request(r) ==
  /\ sent < MaxRequests
  /\ Len(packet_queue[CalcThreadIndex(r.key)]) < MaxQueued
  /\ sent' = sent + 1
  /\ pushPacket(r)
  /\ UNCHANGED <<worker_vars, task_vars, actor_map, master_queue, redis_queue,
                 actor_list, conn>>

joinPlayer(r)     == r \in JoinPacket /\ r.actor \in actor_list /\ Request(r)
leavePlayer(r)    == r \in LeavePacket /\ r.actor \in actor_list /\ Request(r)
playerInput(r)    == r \in PlayerInputPacket /\ r.actor \in actor_list /\ Request(r)
playerInputUdp(r) == r \in PlayerInputUdpPacket /\ Request(r)
udpHandshake(r)   == r \in UdpHandshakePacket /\ Request(r)

-----------------------------------------------------------------------------
(***************************************************************************)
(* Connections.  All are open from the start: one that has sent nothing    *)
(* yet is as good as none.  A session that fails first posts the error and *)
(* then closes its socket; the two are separate steps of the network       *)
(* thread, and the master may run between them.                            *)
(***************************************************************************)
SessionError(a) ==
  /\ a \in Unreliable
  /\ conn[a] = "open"
  /\ conn' = [conn EXCEPT ![a] = "failing"]
  /\ master_queue' = Append(master_queue, onError(a))
  /\ UNCHANGED <<worker_vars, task_vars, packet_queue, actor_map, redis_queue,
                 actor_list, sent>>

SessionClose(a) ==
  /\ conn[a] = "failing"
  /\ conn' = [conn EXCEPT ![a] = "closed"]
  /\ UNCHANGED <<worker_vars, task_vars, packet_queue, actor_map, master_queue,
                 redis_queue, actor_list, sent>>

isOpen(a) == conn[a] # "closed"

(***************************************************************************)
(* MainLoop::updateActor removes the actors whose connection is closed.    *)
(***************************************************************************)
RemoveClosedActor(a) ==
  /\ a \in actor_list
  /\ ~isOpen(a)
  /\ actor_list' = actor_list \ {a}
  /\ UNCHANGED <<worker_vars, task_vars, packet_queue, actor_map, master_queue,
                 redis_queue, conn, sent>>

-----------------------------------------------------------------------------
(***************************************************************************)
(* The master runs the function at the head of its queue.                  *)
(***************************************************************************)
NextOp(op) == master_queue # <<>> /\ Head(master_queue).op = op

ApplyAddActorInfo ==
  /\ NextOp("addActorInfo")
  /\ actor_map' = [actor_map EXCEPT ![Head(master_queue).actor] = Head(master_queue).key]
  /\ master_queue' = Tail(master_queue)
  /\ UNCHANGED <<worker_vars, task_vars, network_vars, packet_queue, redis_queue>>

(***************************************************************************)
(* Only an entry that still names the battle is erased; there is none for  *)
(* the actor key 0.                                                        *)
(***************************************************************************)
ApplyRemoveActorInfo ==
  /\ NextOp("removeActorInfo")
  /\ LET op == Head(master_queue)
     IN actor_map' = [a \in Actors |->
                        IF a = op.actor /\ actor_map[a] = op.key
                        THEN NoKey ELSE actor_map[a]]
  /\ master_queue' = Tail(master_queue)
  /\ UNCHANGED <<worker_vars, task_vars, network_vars, packet_queue, redis_queue>>

\* Mutant: the error is dropped if the actor has been removed meanwhile.
BattleOfError_Present(a) == IF a \in actor_list THEN actor_map[a] ELSE NoKey

BattleOfError(a) == actor_map[a]

ApplyReceiveError ==
  /\ NextOp("receiveError")
  /\ LET a == Head(master_queue).actor
     IN IF BattleOfError(a) # NoKey
        THEN pushPacket([type |-> "ERROR", key |-> BattleOfError(a), actor |-> a])
        ELSE UNCHANGED packet_queue
  /\ master_queue' = Tail(master_queue)
  /\ UNCHANGED <<worker_vars, task_vars, network_vars, actor_map, redis_queue>>

(***************************************************************************)
(* The error of a session reaches its actor, whose error handler is        *)
(* BattleManager::receiveError, which posts once more.  The error of an    *)
(* actor that has been removed is dropped.                                 *)
(***************************************************************************)
ApplyOnError ==
  /\ NextOp("onError")
  /\ LET a == Head(master_queue).actor
     IN master_queue' = IF a \in actor_list
                        THEN Append(Tail(master_queue), receiveError(a))
                        ELSE Tail(master_queue)
  /\ UNCHANGED <<worker_vars, task_vars, network_vars, packet_queue, actor_map,
                 redis_queue>>

-----------------------------------------------------------------------------
(***************************************************************************)
(* The delayed tasks of the application scheduler, which runs on the       *)
(* master thread.  A task of the same name is overwritten; the 2000 ms a   *)
(* task waits are abstracted to "at any later time".                       *)
(***************************************************************************)
RunAddTask ==
  /\ task_posts # <<>>
  /\ task_list' = [task_list EXCEPT ![Head(task_posts).key] = Head(task_posts).actors]
  /\ task_posts' = Tail(task_posts)
  /\ UNCHANGED <<worker_vars, network_vars, packet_queue, actor_map, master_queue,
                 redis_queue>>

FireEndTask(k) ==
  /\ task_list[k] # {}
  /\ actor_list' = actor_list \ task_list[k]
  /\ task_list' = [task_list EXCEPT ![k] = {}]
  /\ UNCHANGED <<worker_vars, packet_queue, actor_map, master_queue, redis_queue,
                 task_posts, conn, sent>>

-----------------------------------------------------------------------------
(***************************************************************************)
(* The answer to the oldest GET: a string, whose buffer verifies or not,   *)
(* pushes the second half of the join; anything else drops the join.       *)
(***************************************************************************)
RedisReply ==
  /\ redis_queue # <<>>
  /\ redis_queue' = Tail(redis_queue)
  /\ LET p == Head(redis_queue)
     IN \/ \E ok \in BOOLEAN :
             pushPacket([type |-> "JOIN2", key |-> p.key, player_id |-> p.player_id,
                         actor |-> p.actor, verified |-> ok])
        \/ UNCHANGED packet_queue
  /\ UNCHANGED <<worker_vars, task_vars, network_vars, actor_map, master_queue>>

-----------------------------------------------------------------------------
(***************************************************************************)
(* The workers.                                                            *)
(***************************************************************************)
Listed(k) == battle_list[k] # NoBattle

(***************************************************************************)
(* Worker t pops the packet at the head of its queue, of the given type.   *)
(***************************************************************************)
NextPacket(t, type) ==
  /\ rounds[t].due = {}
  /\ rounds[t].left > 0
  /\ packet_queue[t] # <<>>
  /\ Head(packet_queue[t]).type = type
  /\ rounds' = [rounds EXCEPT ![t].left = @ - 1]

PopPacket(t) == packet_queue' = [packet_queue EXCEPT ![t] = Tail(@)]

(***************************************************************************)
(* endBattle: the players' errors are no longer routed to the battle, and  *)
(* an END_BATTLE packet is pushed behind whatever is queued.  The battle   *)
(* stays listed until that packet is popped.                               *)
(***************************************************************************)
EndOps(k) ==
  LET b == battle_list[k]
  IN <<removeActorInfo(b.player[1].actor_key, k),
       removeActorInfo(b.player[2].actor_key, k)>>

\* Mutant: the battle ends without an END_BATTLE packet.
endBattle_NoPacket(k, t, queue) ==
  /\ master_queue' = master_queue \o EndOps(k)
  /\ packet_queue' = [packet_queue EXCEPT ![t] = queue]
  /\ ended' = [ended EXCEPT ![k] = TRUE]

endBattle(k, t, queue) ==
  /\ master_queue' = master_queue \o EndOps(k)
  /\ packet_queue' = [packet_queue EXCEPT ![t] =
                        Append(queue, [type |-> "END_BATTLE", key |-> k])]
  /\ ended' = [ended EXCEPT ![k] = TRUE]

\* Mutant: the task removes player 1 twice.
PlayerKeys_One(b) == {b.player[1].actor_key}

(* The actors the delayed task removes: the players' when the battle is erased. *)
PlayerKeys(b) == {b.player[s].actor_key : s \in Sides}

execEndBattle(t) ==
  /\ NextPacket(t, "END_BATTLE")
  /\ PopPacket(t)
  /\ LET k == Head(packet_queue[t]).key
     IN IF Listed(k)
        THEN /\ task_posts' = Append(task_posts,
                              [key |-> k, actors |-> PlayerKeys(battle_list[k])])
             /\ battle_list' = [battle_list EXCEPT ![k] = NoBattle]
             /\ ended' = [ended EXCEPT ![k] = FALSE]
        ELSE UNCHANGED <<task_posts, battle_list, ended>>
  /\ UNCHANGED <<network_vars, actor_map, master_queue, redis_queue, task_list,
                 incarnation>>

\* Mutant: the battle of the error is not looked up.
execError_Unchecked(t) ==
  /\ NextPacket(t, "ERROR")
  /\ LET k == Head(packet_queue[t]).key
     IN IF Listed(k)
        THEN endBattle(k, t, Tail(packet_queue[t]))
        ELSE /\ packet_queue' = [packet_queue EXCEPT ![t] =
                    Append(Tail(@), [type |-> "END_BATTLE", key |-> k])]
             /\ UNCHANGED <<master_queue, ended>>
  /\ UNCHANGED <<network_vars, task_vars, actor_map, redis_queue, battle_list,
                 incarnation>>

(***************************************************************************)
(* The actor of an error packet is not compared with the players.          *)
(***************************************************************************)
execError(t) ==
  /\ NextPacket(t, "ERROR")
  /\ LET k == Head(packet_queue[t]).key
     IN IF Listed(k)
        THEN endBattle(k, t, Tail(packet_queue[t]))
        ELSE PopPacket(t) /\ UNCHANGED <<master_queue, ended>>
  /\ UNCHANGED <<network_vars, task_vars, actor_map, redis_queue, battle_list,
                 incarnation>>

execJoin(t) ==
  /\ NextPacket(t, "JOIN")
  /\ PopPacket(t)
  /\ redis_queue' = Append(redis_queue, Head(packet_queue[t]))
  /\ UNCHANGED <<network_vars, task_vars, actor_map, master_queue, battle_list,
                 ended, incarnation>>

\* Mutant: whoever is not player 1 takes player 2's place.
BindPlayer_Anyone(b, k, id, a) ==
  IF id = Roster[k].id[1]
  THEN [b EXCEPT !.player[1] = resetActorKey(@, a)]
  ELSE [b EXCEPT !.player[2] = resetActorKey(@, a)]

(***************************************************************************)
(* A join binds the connection to the player whose id it carries, if the   *)
(* roster has it.  The first join of a key creates the battle; every later *)
(* one starts it (startBattle only notifies).  The actor's errors are      *)
(* routed to the battle before the buffer is verified.                     *)
(***************************************************************************)
BindPlayer(b, k, id, a) ==
  IF id = Roster[k].id[1]
  THEN [b EXCEPT !.player[1] = resetActorKey(@, a)]
  ELSE IF id = Roster[k].id[2]
       THEN [b EXCEPT !.player[2] = resetActorKey(@, a)]
       ELSE b

\* Mutant: the actor of a later join is not entered in actor_map.
RouteErrors_FirstOnly(p) ==
  IF Listed(p.key) THEN master_queue
                   ELSE Append(master_queue, addActorInfo(p.actor, p.key))

RouteErrors(p) == Append(master_queue, addActorInfo(p.actor, p.key))

execJoin2(t) ==
  /\ NextPacket(t, "JOIN2")
  /\ PopPacket(t)
  /\ LET p == Head(packet_queue[t])
         k == p.key
         found == IF Listed(k) THEN battle_list[k] ELSE NewBattle(Roster[k])
     IN /\ master_queue' = RouteErrors(p)
        /\ IF p.verified
           THEN /\ battle_list' =
                     [battle_list EXCEPT ![k] = BindPlayer(found, k, p.player_id, p.actor)]
                /\ incarnation' = IF Listed(k) THEN incarnation
                                  ELSE [incarnation EXCEPT ![k] = @ + 1]
           ELSE UNCHANGED <<battle_list, incarnation>>
  /\ UNCHANGED <<network_vars, task_vars, actor_map, redis_queue, ended>>

execLeave(t) ==
  /\ NextPacket(t, "LEAVE")
  /\ LET p == Head(packet_queue[t])
     IN IF Listed(p.key) /\ \E s \in Sides : HasActor(battle_list[p.key], s, p.actor)
        THEN endBattle(p.key, t, Tail(packet_queue[t]))
        ELSE PopPacket(t) /\ UNCHANGED <<master_queue, ended>>
  /\ UNCHANGED <<network_vars, task_vars, actor_map, redis_queue, battle_list,
                 incarnation>>

execPlayerInput(t) ==
  /\ NextPacket(t, "PLAYER_INPUT")
  /\ PopPacket(t)
  /\ LET p == Head(packet_queue[t])
         b == battle_list[p.key]
     IN battle_list' =
          IF Listed(p.key) /\ \E s \in Sides : HasActor(b, s, p.actor)
          THEN [battle_list EXCEPT ![p.key] = playerAction(b, p.actor, p.seq_id, p.hits)]
          ELSE battle_list
  /\ UNCHANGED <<network_vars, task_vars, actor_map, master_queue, redis_queue,
                 ended, incarnation>>

execPlayerInputUdp(t) ==
  /\ NextPacket(t, "PLAYER_INPUT_UDP")
  /\ PopPacket(t)
  /\ LET p == Head(packet_queue[t])
         b == battle_list[p.key]
     IN battle_list' =
          IF Listed(p.key) /\ \E s \in Sides : HasEndpoint(b, s, p.ep)
          THEN [battle_list EXCEPT ![p.key] = playerActionUdp(b, p.ep, p.seq_id, p.hits)]
          ELSE battle_list
  /\ UNCHANGED <<network_vars, task_vars, actor_map, master_queue, redis_queue,
                 ended, incarnation>>

SetEndpoint(b, id, ep) ==
  [b EXCEPT !.player = [s \in Sides |->
     IF b.player[s].id = id THEN [b.player[s] EXCEPT !.udp_endpoint = ep]
                            ELSE b.player[s]]]

execUdpHandshake(t) ==
  /\ NextPacket(t, "UDP_HANDSHAKE")
  /\ PopPacket(t)
  /\ LET p == Head(packet_queue[t])
     IN battle_list' =
          IF Listed(p.key)
          THEN [battle_list EXCEPT ![p.key] = SetEndpoint(@, p.player_id, p.ep)]
          ELSE battle_list
  /\ UNCHANGED <<network_vars, task_vars, actor_map, master_queue, redis_queue,
                 ended, incarnation>>

-----------------------------------------------------------------------------
(***************************************************************************)
(* When the queue is empty or the round has popped its share, the worker   *)
(* goes through its battles.  Which of them were last updated 50 ms ago or *)
(* more is left open: due is any set of them.                              *)
(***************************************************************************)
BattlesOf(t) == {k \in Keys : CalcThreadIndex(k) = t /\ Listed(k)}

BeginUpdate(t, due) ==
  /\ rounds[t].due = {}
  /\ packet_queue[t] = <<>> \/ rounds[t].left = 0
  /\ due \subseteq BattlesOf(t)
  /\ rounds' = [rounds EXCEPT ![t] = [left |-> LoopCount, due |-> due]]
  /\ UNCHANGED <<network_vars, task_vars, packet_queue, battle_list, actor_map,
                 master_queue, redis_queue, ended, incarnation>>

UpdateBattle(t, k) ==
  /\ k \in rounds[t].due
  /\ rounds' = [rounds EXCEPT ![t].due = @ \ {k}]
  /\ IF Finished(battle_list[k])
     THEN endBattle(k, t, packet_queue[t])
     ELSE UNCHANGED <<packet_queue, master_queue, ended>>
  /\ UNCHANGED <<network_vars, task_vars, battle_list, actor_map, redis_queue,
                 incarnation>>

-----------------------------------------------------------------------------
Client == \E r \in Requests :
  joinPlayer(r) \/ leavePlayer(r) \/ playerInput(r) \/ playerInputUdp(r) \/ udpHandshake(r)

Network == \E a \in Actors : SessionError(a) \/ SessionClose(a)

MasterQueue ==
  ApplyAddActorInfo \/ ApplyRemoveActorInfo \/ ApplyReceiveError \/ ApplyOnError

Scheduler == RunAddTask \/ \E k \in Keys : FireEndTask(k)

Dispatch(t) ==
  \/ execEndBattle(t) \/ execError(t) \/ execJoin(t) \/ execJoin2(t) \/ execLeave(t)
  \/ execPlayerInput(t) \/ execPlayerInputUdp(t) \/ execUdpHandshake(t)

Update(t) == \/ \E due \in SUBSET Keys : BeginUpdate(t, due)
             \/ \E k \in Keys : UpdateBattle(t, k)

Next ==
  \/ Client
  \/ Network
  \/ \E a \in Actors : RemoveClosedActor(a)
  \/ MasterQueue
  \/ Scheduler
  \/ RedisReply
  \/ \E t \in Threads : Dispatch(t) \/ Update(t)

Spec == Init /\ [][Next]_vars

(***************************************************************************)
(* Fairness.  The workers, the master and the scheduler are loops of their *)
(* own threads and never block.  A battle that stays listed is found due   *)
(* again and again, since the clock goes on.  Clients, the network and     *)
(* Redis owe nothing.                                                      *)
(***************************************************************************)
Fairness ==
  /\ \A t \in Threads : WF_vars(Dispatch(t) \/ Update(t))
  /\ \A t \in Threads, k \in Keys :
       SF_vars(\E due \in SUBSET Keys : k \in due /\ BeginUpdate(t, due))
  /\ WF_vars(MasterQueue)
  /\ WF_vars(Scheduler)

FairSpec == Spec /\ Fairness

-----------------------------------------------------------------------------
(***************************************************************************)
(* Properties.                                                             *)
(***************************************************************************)
Running(k) == Listed(k) /\ ~ended[k]

PlaysIn(a, k) == Listed(k) /\ \E s \in Sides : HasActor(battle_list[k], s, a)

EndIn(q, k) == \E i \in 1..Len(q) : q[i].type = "END_BATTLE" /\ q[i].key = k

EndQueued(k) == EndIn(packet_queue[CalcThreadIndex(k)], k)

SameBattle(k) == Listed(k) /\ Listed(k)' /\ incarnation'[k] = incarnation[k]

(* No input is applied twice, although one sequence of numbers serves TCP
   and UDP (validSeqId, setSeqId): a battle has announced at most as many
   attacks as sequence ids its players have used up. *)
AttackPerSeqId ==
  \A k \in Keys : Listed(k) =>
    battle_list[k].battle_seq_id - 1 <=
      Cardinality(battle_list[k].seq_ids[1]) + Cardinality(battle_list[k].seq_ids[2])

(* The clients can follow a battle by its announcements (engage): hit points
   change in exactly the steps that advance battle_seq_id, by one, and then
   on one side only, and never grow. *)
DamageAnnounced ==
  [][\A k \in Keys : SameBattle(k) =>
       LET b == battle_list[k]
           hurt == {s \in Sides : b.player[s].hp # battle_list'[k].player[s].hp}
       IN /\ battle_list'[k].battle_seq_id = b.battle_seq_id + Cardinality(hurt)
          /\ Cardinality(hurt) <= 1
          /\ \A s \in hurt : \A i \in 1..Len(b.player[s].hp) :
               battle_list'[k].player[s].hp[i] <= b.player[s].hp[i]]_vars

(* Attacks fall on the first living character only (engage): whoever has
   been hit stands behind dead characters alone. *)
FocusFire ==
  \A k \in Keys : Listed(k) =>
    \A s \in Sides : LET hp == battle_list[k].player[s].hp
                     IN \A j \in 1..Len(hp) : hp[j] # Roster[k].base_hp[s][j] =>
                          \A i \in 1..(j - 1) : isDead(hp[i])

(* A battle whose players were told that it is over, and whose errors are no
   longer routed, is on its way out (endBattle): the END_BATTLE packet that
   will erase it is in its worker's queue. *)
EndedHasEndPacket ==
  \A k \in Keys : Listed(k) /\ ended[k] => EndQueued(k)

(* A running battle is threatened by an END_BATTLE packet only if an earlier
   battle of the same key left it behind (endBattle can run several times
   before its packet is popped): the first battle of a key is erased after
   its own end, never before. *)
StaleEndHasPredecessor ==
  \A k \in Keys : Running(k) /\ EndQueued(k) => incarnation[k] > 1

AtHome(q, t) == \A i \in 1..Len(q) : CalcThreadIndex(q[i].key) = t

PacketsAtHome == \A t \in Threads : AtHome(packet_queue[t], t)

DueListed == \A t \in Threads : rounds[t].due \subseteq BattlesOf(t)

EndedIsListed == \A k \in Keys : ended[k] => Listed(k)

EndsAreCounted == \A k \in Keys : Listed(k) \/ EndQueued(k) => incarnation[k] > 0

(* The inductive invariant: what the ends of battles rest on.  Workers keep
   to the packets and the battles of their own keys (CalcThreadIndex), so a
   battle found due is still there when it is updated (runLoop), and an
   END_BATTLE packet has a battle that pushed it (endBattle). *)
IInv == /\ TypeOK
        /\ PacketsAtHome
        /\ DueListed
        /\ EndedIsListed
        /\ EndsAreCounted
        /\ EndedHasEndPacket
        /\ StaleEndHasPredecessor

(* A side of a battle is only ever bound to a connection that asked to join
   that battle as that very player, through JOIN, the Redis reply and JOIN2;
   and its UDP endpoint to one that sent a handshake for that player. *)
SidesClaimed ==
  \A k \in Keys : Listed(k) =>
    \A s \in Sides :
      LET p == battle_list[k].player[s]
      IN /\ p.id = Roster[k].id[s]
         /\ p.actor_key # NoActor =>
              [type |-> "JOIN", key |-> k, player_id |-> p.id,
               actor |-> p.actor_key] \in Requests
         /\ enableUdp(p) =>
              [type |-> "UDP_HANDSHAKE", key |-> k, player_id |-> p.id,
               ep |-> p.udp_endpoint] \in Requests

(* Assumption on the clients: a connection joins one battle key only. *)
OneBattlePerConnection ==
  \A q, r \in Requests : (q \in JoinPacket /\ r \in JoinPacket /\ q.actor = r.actor)
                           => q.key = r.key

(* The entry of actor_map that the errors of a find once the functions
   queued now have run: the last of them that adds or removes one decides. *)
WillRoute(a, k) ==
  LET removed(i) == /\ master_queue[i].op = "removeActorInfo"
                    /\ master_queue[i].actor = a
                    /\ master_queue[i].key = k
      added(i) == /\ master_queue[i].op = "addActorInfo"
                  /\ master_queue[i].actor = a
      N == Len(master_queue)
  IN \/ /\ actor_map[a] = k
        /\ \A i \in 1..N : ~removed(i)
     \/ \E i \in 1..N : /\ added(i) /\ master_queue[i].key = k
                        /\ \A j \in (i + 1)..N : ~removed(j)

(* Errors find their battle (addActorInfo, removeActorInfo): whoever plays
   in a running battle is in actor_map, or will be before any error that is
   reported from now on is looked up.  The removals posted by earlier
   battles of the key and by earlier ends come first in the queue.  It holds
   while every connection joins one battle only (OneBattlePerConnection): an
   actor has one entry, and the join of another battle takes it over. *)
ErrorsRouted ==
  \A k \in Keys : \A a \in Actors : Running(k) /\ PlaysIn(a, k) => WillRoute(a, k)

(* Once receiveError has been called for a player of a running battle, and
   its lookup posted behind the addActorInfo of the player's join, the battle
   ends (receiveError, execError), however far master and worker are behind. *)
ErrorEndsBattle ==
  \A k \in Keys : \A a \in Actors :
    (/\ Running(k) /\ PlaysIn(a, k)
     /\ master_queue # <<>> /\ master_queue[Len(master_queue)] = receiveError(a))
      ~> (~Listed(k) \/ ended[k])

(* A battle with a side that has no living character is erased (runLoop
   finds it due, endBattle pushes END_BATTLE, execEndBattle erases it). *)
FinishedIsErased ==
  \A k \in Keys :
    (Listed(k) /\ \E s \in Sides : Alive(battle_list[k].player[s]) = {}) ~> ~Listed(k)

(* Whoever plays in a battle that has ended is disconnected: the battle is
   erased, its delayed task is posted, added and run, and removes the players
   (execEndBattle, addTask, removeActor).  Two things prevent it: another
   connection takes over the player's side before the battle is erased, and a
   later battle of the key, whose task replaces one that has not yet run. *)
EndedPlayersLeave ==
  \A k \in Keys, a \in Actors :
    (Listed(k) /\ ended[k] /\ PlaysIn(a, k))
      ~> a \notin actor_list \/ Running(k) \/ (Listed(k) /\ ~PlaysIn(a, k))

(* The battles of every key live the life BattleLifecycle describes. *)
Phase(k) == IF ~Listed(k) THEN "none" ELSE IF ended[k] THEN "ending" ELSE "running"

Lifecycle == INSTANCE BattleLifecycle
  WITH phase <- [k \in Keys |-> Phase(k)], count <- incarnation

LifecycleSafe == Lifecycle!Spec
LifecycleFair == Lifecycle!FairSpec

=============================================================================
