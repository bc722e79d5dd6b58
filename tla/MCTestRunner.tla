----------------------------- MODULE MCTestRunner -----------------------------
(***************************************************************************)
(* Instances of TestRunner for TLC.  k1 and k2 are presses of Test Now, s1 *)
(* a run of the systemd unit, c1 a run from a terminal.                    *)
(***************************************************************************)
EXTENDS TestRunner

CONSTANTS k1, k2, s1, c1, main

OneOfEach       == {k1, s1, c1}
ClickAndService == {k1, s1}
TwoClicks       == {k1, k2}
OneClick        == {k1}
OneService      == {s1}
MainLoop        == {main}
AllFaults       == {"crash", "unreadable", "undecodable"}
OnlyUndecodable == {"undecodable"}
None            == {}
=============================================================================
