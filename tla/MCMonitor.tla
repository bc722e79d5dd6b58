------------------------------- MODULE MCMonitor -------------------------------
(***************************************************************************)
(* Two interfaces, one of them to move to.                                 *)
(***************************************************************************)
EXTENDS Monitor, TLC

CONSTANTS eth, wlan

Two  == {eth, wlan}
Swap == Permutations(Two)
=============================================================================
