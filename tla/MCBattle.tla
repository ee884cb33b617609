------------------------------ MODULE MCBattle ------------------------------
(***************************************************************************)
(* Constants for the runs of BattleProcessor with one battle key.          *)
(***************************************************************************)
EXTENDS BattleProcessor

CONSTANTS k1, a1, a2, a3, p1, p2, p3, e1, e2

MCRoster == [k \in Keys |->
  [id |-> <<p1, p2>>, base_hp |-> << <<50>>, <<50>> >>]]

\* 120 is no multiple of DAMAGE: the last hit is clamped.
MCRosterCombat == [k \in Keys |->
  [id |-> <<p1, p2>>, base_hp |-> << <<50, 50>>, <<120>> >>]]

MCCharTotal == [k \in Keys |-> 5]

join(a, p)  == [type |-> "JOIN", key |-> k1, player_id |-> p, actor |-> a]
leave(a)    == [type |-> "LEAVE", key |-> k1, actor |-> a]
input(a, n, h) ==
  [type |-> "PLAYER_INPUT", key |-> k1, actor |-> a, seq_id |-> n, hits |-> h]
udp(e, n, h) ==
  [type |-> "PLAYER_INPUT_UDP", key |-> k1, ep |-> e, seq_id |-> n, hits |-> h]
handshake(p, e) ==
  [type |-> "UDP_HANDSHAKE", key |-> k1, player_id |-> p, ep |-> e]

\* Joins, a rejoin over a new connection, leaving, and one deadly input.
LifeRequests == {join(a1, p1), join(a2, p2), join(a3, p1), leave(a1), input(a2, 1, 1)}

\* A fight over TCP and UDP with repeated sequence ids, empty input lists
\* and a client whose endpoint serves both players.
CombatRequests ==
  {join(a1, p1), join(a2, p2), join(a1, p3), handshake(p1, e1), handshake(p2, e1)}
    \cup {input(a1, n, h) : n \in {1, 2}, h \in {0, 1, 2}}
    \cup {input(a2, 1, 1)}
    \cup {udp(e1, n, 1) : n \in {1, 2}}

\* The ways a battle ends (an error, a leave, a death), and a side taken over.
LiveRequests ==
  {join(a1, p1), join(a2, p2), join(a2, p1), leave(a1), input(a1, 1, 1)}
=============================================================================
