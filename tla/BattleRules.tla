---------------------------- MODULE BattleRules ----------------------------
(***************************************************************************)
(* The rules of one battle: the data of BattleInfo, BattlePlayer and       *)
(* BattleCharacter, and what BattlePrcoessorDetail does to it.  Everything *)
(* here is a pure operator on a battle record; the threads, the queues and *)
(* the life of a battle are in module BattleProcessor.                     *)
(*                                                                         *)
(* The two players are sides 1 and 2.  A player's characters are the       *)
(* sequence of their hit points, in list order; names, mana and the other  *)
(* attributes decide nothing and are left out.                             *)
(***************************************************************************)
EXTENDS Integers, Sequences, FiniteSets

CONSTANTS Actors,      \* keys of the connections (WebsocketSession::getKey)
          NoActor,     \* the actor key 0 of a player nobody has joined as
          PlayerIds,   \* the player ids of the rosters and of the requests
          Endpoints,   \* UDP endpoints of the clients
          NoEndpoint,  \* enable_udp_flag is false
          SeqIds       \* the sequence ids clients put on their inputs

DAMAGE == 50

Sides == {1, 2}
Other(s) == 3 - s

Player == [id: PlayerIds, actor_key: Actors \cup {NoActor}, joined: BOOLEAN,
           udp_endpoint: Endpoints \cup {NoEndpoint}, hp: Seq(Nat)]

Battle == [player: [Sides -> Player],
           seq_ids: [Sides -> SUBSET SeqIds],
           battle_seq_id: Nat]

(***************************************************************************)
(* What a battle's Redis value says of it: the two player ids and the base *)
(* hit points of their characters.                                         *)
(***************************************************************************)
BattleRoster == [id: [Sides -> PlayerIds], base_hp: [Sides -> Seq(Nat)]]

enableUdp(p) == p.udp_endpoint # NoEndpoint

resetActorKey(p, a) == [p EXCEPT !.actor_key = a, !.joined = TRUE]

NewPlayer(roster, s) ==
  [id |-> roster.id[s], actor_key |-> NoActor, joined |-> FALSE,
   udp_endpoint |-> NoEndpoint, hp |-> roster.base_hp[s]]

NewBattle(roster) ==
  [player |-> [s \in Sides |-> NewPlayer(roster, s)],
   seq_ids |-> [s \in Sides |-> {}],
   battle_seq_id |-> 1]

-----------------------------------------------------------------------------
isDead(hp) == hp <= 0

Alive(p) == {i \in 1..Len(p.hp) : ~isDead(p.hp[i])}

\* Mutant: the search for a target does not stop at the first.
FirstAlive_Last(p) == CHOOSE i \in Alive(p) : \A j \in Alive(p) : j <= i

FirstAlive(p) == CHOOSE i \in Alive(p) : \A j \in Alive(p) : i <= j

damageHp(hp, value) == IF hp - value < 0 THEN 0 ELSE hp - value

\* Damage always falls on the first living character.
TakeDamage(p, value) == [p EXCEPT !.hp[FirstAlive(p)] = damageHp(@, value)]

(***************************************************************************)
(* The side a TCP input acts for: the first whose actor key it carries.    *)
(* The caller has checked that there is one.                               *)
(***************************************************************************)
HasActor(b, s, a) == b.player[s].actor_key = a
SideOfActor(b, a) == IF HasActor(b, 1, a) THEN 1 ELSE 2

HasEndpoint(b, s, ep) == /\ enableUdp(b.player[s])
                         /\ b.player[s].udp_endpoint = ep
SideOfEndpoint(b, ep) == IF HasEndpoint(b, 1, ep) THEN 1 ELSE 2

validSeqId(b, s, seq_id) == seq_id \notin b.seq_ids[s]

\* Mutant: the sequence id is not recorded.
setSeqId_Lost(b, s, seq_id) == b

setSeqId(b, s, seq_id) == [b EXCEPT !.seq_ids[s] = @ \cup {seq_id}]

\* Mutant: the battle's own number does not advance.
engage_NotCounted(b, s, hits) ==
  LET target == b.player[Other(s)]
  IN IF Alive(target) = {} \/ hits = 0
     THEN b
     ELSE [b EXCEPT !.player[Other(s)] = TakeDamage(@, hits * DAMAGE)]

(***************************************************************************)
(* The first living character of the other side takes DAMAGE once for      *)
(* every entry of the input list, dead or not after the first ones; the    *)
(* clamped subtractions add up to one.  An input list without entries and  *)
(* a side without survivors leave the battle as it is; any other attack is *)
(* announced under the current battle_seq_id, which then advances.         *)
(***************************************************************************)
engage(b, s, hits) ==
  LET target == b.player[Other(s)]
  IN IF Alive(target) = {} \/ hits = 0
     THEN b
     ELSE [b EXCEPT !.player[Other(s)] = TakeDamage(@, hits * DAMAGE),
                    !.battle_seq_id = @ + 1]

(***************************************************************************)
(* An input that came over TCP.  One against a side without survivors does *)
(* not use up its sequence id.                                             *)
(***************************************************************************)
playerAction(b, a, seq_id, hits) ==
  LET s == SideOfActor(b, a)
  IN IF Alive(b.player[Other(s)]) # {} /\ validSeqId(b, s, seq_id)
     THEN engage(setSeqId(b, s, seq_id), s, hits)
     ELSE b

(***************************************************************************)
(* An input that came over UDP.  It shares the sequence ids with TCP, and  *)
(* uses its own up whether or not anyone is left to attack.                *)
(***************************************************************************)
playerActionUdp(b, ep, seq_id, hits) ==
  LET s == SideOfEndpoint(b, ep)
  IN IF validSeqId(b, s, seq_id)
     THEN engage(setSeqId(b, s, seq_id), s, hits)
     ELSE b

\* Mutant: the battle goes on until both sides are dead.
Finished_Both(b) == \A s \in Sides : Alive(b.player[s]) = {}

(***************************************************************************)
(* BattleStatus::FINISH: a side has no living character.                   *)
(***************************************************************************)
Finished(b) == \E s \in Sides : Alive(b.player[s]) = {}
=============================================================================
