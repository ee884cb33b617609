--------------------------- MODULE MCSocketTimers ---------------------------
(***************************************************************************)
(* A socket of each owner, two addresses of a node, and writes of which    *)
(* two wait while one is outstanding.                                      *)
(***************************************************************************)
EXTENDS SocketTimers

=============================================================================
