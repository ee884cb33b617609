--------------------------- MODULE MCRedisService ---------------------------
(* Small instances of RedisService for TLC. *)
EXTENDS RedisService, TLC

CONSTANTS c1, c2, c3, s1, s2

ThreeCommands    == {c1, c2, c3}
TwoSubscriptions == {s1, s2}

=============================================================================
