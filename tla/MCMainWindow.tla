----------------------------- MODULE MCMainWindow -----------------------------
(***************************************************************************)
(* Three tests, one stored before the window opened.  One of the others is *)
(* named by an earlier time: the clock may be set back.  Where reads fail  *)
(* as well, the table may lag behind in more ways: there one test is left. *)
(***************************************************************************)
EXTENDS MainWindow

Tests  == 1 .. 3
First  == {2}
Every  == {[faults |-> {"raise", "commit"}, gone |-> {}],
           [faults |-> {"raise", "commit", "read"}, gone |-> {3}]}
=============================================================================
