------------------------------- MODULE MCHistory -------------------------------
(***************************************************************************)
(* The second day of four slots, and instants on both sides of its ends.   *)
(* The first test may get any of the answers, the others the usual one.    *)
(* The clock is changed at midday, at midnight, or so that a day ends      *)
(* twice.                                                                  *)
(***************************************************************************)
EXTENDS History

LOCAL Given(how, hints, document, down, up, ping, loss) ==
  [how |-> how, hints |-> hints, document |-> document,
   figures |-> [f \in Field |->
     CASE f = "download_bps" -> down
       [] f = "upload_bps" -> up
       [] f = "idle_latency_ms" -> ping
       [] f = "packet_loss_percent" -> loss]]

LOCAL Printed(document, down, up, ping, loss) == Given("printed", {}, document, down, up, ping, loss)

LOCAL Ended(how, hints) == Given(how, hints, "result", "plenty", "plenty", "plenty", "zero")

Usual == Printed("result", "plenty", "plenty", "plenty", "zero")

Unusual ==
  {Printed("result", "zero", "trickle", "absent", "null"),
   Printed("result", "word", "plenty", "infinite", "zero"),
   Printed("result", "boolean", "absent", "plenty", "zero"),
   Printed("result", "plenty", "nan", "plenty", "zero"),
   Printed("lines", "numeral", "null", "nan", "blank"),
   Printed("log", "plenty", "plenty", "plenty", "zero"),
   Ended("exited", {"timeout", "dns_failure"}),
   Ended("timed_out", {})}

Any == [n \in 1 .. 3 |-> IF n = 1 THEN Unusual \cup {Usual} ELSE {Usual}]

Times == {3, 4, 7}

OneDay == {1}

Places ==
  {[turn |-> 6, before |-> 0, after |-> 1],  \* spring, at midday
   [turn |-> 4, before |-> 0, after |-> 1],  \* midnight is skipped
   [turn |-> 4, before |-> 1, after |-> 0],  \* midnight is repeated
   [turn |-> 3, before |-> 1, after |-> 0]}  \* a day ends twice
=============================================================================
