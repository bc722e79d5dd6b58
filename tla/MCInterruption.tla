---------------------------- MODULE MCInterruption ----------------------------
(***************************************************************************)
(* Two intervals: the user can lengthen and shorten them.                  *)
(***************************************************************************)
EXTENDS Interruption

Intervals == {1, 2}
=============================================================================
