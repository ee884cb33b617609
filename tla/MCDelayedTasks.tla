--------------------------- MODULE MCDelayedTasks ---------------------------
(***************************************************************************)
(* Two names and two tasks, so that one is replaced, and two removals.     *)
(***************************************************************************)
EXTENDS DelayedTasks

=============================================================================
