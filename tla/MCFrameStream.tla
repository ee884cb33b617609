---------------------------- MODULE MCFrameStream ----------------------------
(* Small instances of FrameStream for TLC: lengths on both sides of every
   boundary, which are closer together than those of the code. *)
EXTENDS FrameStream

Boundaries == {0, ShortMax, ShortMax + 1, MediumMax, MediumMax + 1}
EachHeader == {0, ShortMax + 1, MediumMax + 1}

SomeLost == {0, 1}

=============================================================================
