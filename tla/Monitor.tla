-------------------------------- MODULE Monitor --------------------------------
(***************************************************************************)
(* core/monitor.py and system/throughput.py: the service that reads the    *)
(* byte counter of the interface with the default route, adds up the       *)
(* differences, and stores a row when a summary's worth of time has been   *)
(* measured.  One counter stands for the received and the sent bytes.      *)
(***************************************************************************)
EXTENDS Integers

CONSTANTS Interface,
          Summary,   \* summary_seconds
          Plausible, \* IMPLAUSIBLE_BYTES_PER_SECOND
          Width,     \* a counter wraps at this
          MaxBytes,  \* bound: what an interface carries
          Horizon,   \* bound: the clock
          None

ASSUME MonitorAssumption ==
  /\ None \notin Interface
  /\ None \notin [on : Interface, bytes : Nat, seconds : Nat] \* a summary
  /\ None \notin [on : Interface, bytes : Nat, at : Nat]      \* a reading
  /\ Summary \in Nat \ {0} /\ Plausible \in Nat /\ Width \in Nat \ {0}
  /\ MaxBytes \in Nat /\ Horizon \in Nat

VARIABLES
  clock,    \* the monotonic clock
  route,    \* the interface of the default route, or None
  present,  \* the interfaces that are there
  counter,  \* the kernel's counter of each interface
  pc,       \* "off", "waiting", or "asked" for the route
  asked,    \* the answer
  previous, \* the previous reading, or None
  open,     \* the accumulator, or None
  stored,   \* the bytes in the rows of each interface
  \* What the properties have to know of the past:
  carried,  \* what each interface really carried
  mark      \* where the unbroken series of readings began, or None

world   == <<clock, route, present, counter, carried>>
process == <<pc, asked, previous, open>>
vars    == <<world, process, stored, mark>>

Init ==
  /\ clock = 0
  /\ route \in Interface \cup {None}
  /\ present = [i \in Interface |-> TRUE]
  /\ counter = [i \in Interface |-> 0] /\ carried = counter
  /\ pc = "off" /\ asked = None
  /\ previous = None /\ open = None
  /\ stored = [i \in Interface |-> 0]
  /\ mark = None

-----------------------------------------------------------------------------
(* Summaries.                                                              *)

Fresh(i) == [on |-> i, bytes |-> 0, seconds |-> 0]

Bytes(summary, i) == IF summary # None /\ summary.on = i THEN summary.bytes ELSE 0

\* What is stored once these summaries have been written.
With(one, other) == [i \in Interface |-> stored[i] + Bytes(one, i) + Bytes(other, i)]

\* An insert may fail: the summary has been cleared by then and is lost.
Written(summary) == {summary, None}

\* What has been recorded of an interface, in rows or in the open summary.
Recorded(i) == stored[i] + Bytes(open, i)

-----------------------------------------------------------------------------
(* The process.                                                            *)

StartUp ==
  /\ pc = "off"
  /\ pc' = "waiting"
  /\ previous' = None /\ mark' = None
  /\ UNCHANGED <<world, asked, open, stored>>

\* tick, up to the answer of current_interface.
Ask ==
  /\ pc = "waiting"
  /\ pc' = "asked"
  /\ asked' = route
  /\ UNCHANGED <<world, previous, open, stored, mark>>

Reading == [on |-> asked, bytes |-> counter[asked], at |-> clock]

Visible == asked # None /\ present[asked]

\* There is no route, or its interface has gone since: the open summary waits.
Blind ==
  /\ pc = "asked"
  /\ ~Visible
  /\ pc' = "waiting"
  /\ previous' = None /\ mark' = None
  /\ UNCHANGED <<world, asked, open, stored>>

Sees == pc = "asked" /\ Visible

\* A reading with nothing to compare it to.
Baseline ==
  /\ Sees
  /\ previous = None
  /\ pc' = "waiting"
  /\ previous' = Reading
  /\ open' = IF open = None THEN Fresh(asked) ELSE open
  /\ mark' = [bytes |-> counter[asked], recorded |-> Recorded(asked)]
  /\ UNCHANGED <<world, asked, stored>>

\* Mutant: the interface of the two readings is not compared.
TrustedBlindly ==
  /\ clock > previous.at
  /\ counter[asked] >= previous.bytes
  /\ counter[asked] - previous.bytes <= Plausible * (clock - previous.at)

\* difference: when the two readings can be compared.
Trusted ==
  /\ previous.on = asked
  /\ clock > previous.at
  /\ counter[asked] >= previous.bytes
  /\ counter[asked] - previous.bytes <= Plausible * (clock - previous.at)

Discard ==
  /\ Sees
  /\ previous # None /\ ~Trusted
  /\ pc' = "waiting"
  /\ previous' = Reading
  /\ mark' = [bytes |-> counter[asked], recorded |-> Recorded(asked)]
  /\ UNCHANGED <<world, asked, open, stored>>

Delta == counter[asked] - previous.bytes

Moved == open = None \/ open.on # asked

\* Mutant: the sample that opens a summary is not added to it.
AddedNext ==
  LET summary == IF Moved THEN Fresh(asked) ELSE open
  IN  [on |-> asked, bytes |-> IF Moved THEN 0 ELSE summary.bytes + Delta,
       seconds |-> summary.seconds + (clock - previous.at)]

\* The open summary with the sample added; a new one when the route has moved.
Added ==
  LET summary == IF Moved THEN Fresh(asked) ELSE open
  IN  [on |-> asked, bytes |-> summary.bytes + Delta,
       seconds |-> summary.seconds + (clock - previous.at)]

\* Mutant: a summary is closed one sample late.
FullLate == Added.seconds > Summary

Full == Added.seconds >= Summary

Sample ==
  /\ Sees
  /\ previous # None /\ Trusted
  /\ pc' = "waiting"
  /\ previous' = Reading
  /\ open' = IF Full THEN None ELSE Added
  /\ LET old == IF Moved THEN open ELSE None
         new == IF Full THEN Added ELSE None
     IN  \E one \in Written(old), other \in Written(new) :
           /\ stored' = With(one, other)
           /\ mark' = IF <<one, other>> = <<old, new>> THEN mark ELSE None
  /\ UNCHANGED <<world, asked>>

\* SIGTERM: the pass under way is finished, the partial summary written.
Stop ==
  /\ pc = "waiting"
  /\ pc' = "off"
  /\ open' = None
  /\ \E one \in Written(open) :
       /\ stored' = With(one, None)
       /\ mark' = IF one = open THEN mark ELSE None
  /\ UNCHANGED <<world, asked, previous>>

\* The process is killed, or cannot read how long to wait.
Die ==
  /\ pc # "off"
  /\ pc' = "off"
  /\ open' = None /\ mark' = None
  /\ UNCHANGED <<world, asked, previous, stored>>

-----------------------------------------------------------------------------
(* The world.                                                              *)

Tick ==
  /\ clock < Horizon
  /\ clock' = clock + 1
  /\ UNCHANGED <<route, present, counter, carried, process, stored, mark>>

Carry(i, n) ==
  /\ present[i]
  /\ carried[i] + n <= MaxBytes
  /\ carried' = [carried EXCEPT ![i] = @ + n]
  /\ counter' = [counter EXCEPT ![i] = (@ + n) % Width]
  /\ UNCHANGED <<clock, route, present, process, stored, mark>>

Route ==
  /\ route' \in Interface \cup {None}
  /\ UNCHANGED <<clock, present, counter, carried, process, stored, mark>>

Remove(i) ==
  /\ present[i]
  /\ present' = [present EXCEPT ![i] = FALSE]
  /\ UNCHANGED <<clock, route, counter, carried, process, stored, mark>>

\* It is back, and counts from zero; so does one that went down and up.
Reset(i) ==
  /\ present' = [present EXCEPT ![i] = TRUE]
  /\ counter' = [counter EXCEPT ![i] = 0]
  /\ UNCHANGED <<clock, route, carried, process, stored, mark>>

-----------------------------------------------------------------------------

Pass  == Ask \/ Blind \/ Baseline \/ Discard \/ Sample
Life  == StartUp \/ Stop \/ Die
World ==
  \/ Tick \/ Route
  \/ \E i \in Interface : Remove(i) \/ Reset(i) \/ \E n \in 1 .. MaxBytes : Carry(i, n)

Next == Pass \/ Life \/ World

Spec == Init /\ [][Next]_vars

-----------------------------------------------------------------------------

TypeOK ==
  /\ clock \in 0 .. Horizon
  /\ route \in Interface \cup {None} /\ asked \in Interface \cup {None}
  /\ present \in [Interface -> BOOLEAN]
  /\ counter \in [Interface -> 0 .. Width - 1]
  /\ pc \in {"off", "waiting", "asked"}
  /\ previous \in [on : Interface, bytes : 0 .. Width - 1, at : 0 .. Horizon] \cup {None}
  /\ open \in [on : Interface, bytes : 0 .. MaxBytes, seconds : 0 .. Summary - 1] \cup {None}
  /\ {stored, carried} \subseteq [Interface -> 0 .. MaxBytes]
  /\ mark \in [bytes : 0 .. Width - 1, recorded : 0 .. MaxBytes] \cup {None}

\* Whatever resets, wraps, vanishes or moves between two readings, no interface
\* is credited with a byte it did not carry, or with one byte twice.
OnlyCarried == \A i \in Interface : Recorded(i) <= carried[i]

\* Of a series of readings that were all comparable nothing is lost, across the
\* rows it was cut into and a clean stop, unless an insert failed.
NothingLost ==
  mark # None => Recorded(previous.on) - mark.recorded = previous.bytes - mark.bytes
=============================================================================
