---------------------------- MODULE MCAppThreads ----------------------------
(***************************************************************************)
(* Two battle processors instead of four, one io thread, and from no       *)
(* worker thread to one more than there are battle processors.             *)
(***************************************************************************)
EXTENDS AppThreads

=============================================================================
