--------------------------- MODULE MCUserSession ---------------------------
(* Small instances of UserSession for TLC. *)
EXTENDS UserSession, TLC

CONSTANTS s1, s2, none

NoSession   == {}
OneSession  == {s1}
TwoSessions == {s1, s2}

\* Sessions are interchangeable: no operator orders them.
SessionSymmetry == Permutations(Sessions)

=============================================================================
