-------------------------- MODULE InterruptionProofs --------------------------
(***************************************************************************)
(* For any intervals, slack, timeout and length of the history: no stretch *)
(* of time is reported twice unless two calls of record_missed_window      *)
(* overlap, none is reported while tests keep their pace, and a scheduled  *)
(* test explains a hole before its record hides it.                        *)
(***************************************************************************)
EXTENDS Interruption, TLAPS

-----------------------------------------------------------------------------
(* Types.                                                                  *)

\* A newly started timer counts down from a natural number.
LEMMA CountdownType ==
  ASSUME NEW i \in Interval, since \in Nat \cup {None} PROVE Countdown(i) \in Nat
BY InterruptionAssumption DEF Countdown, Least

\* A record that is inserted and has the shape of one leaves one as the newest.
LEMMA InsertType ==
  ASSUME NEW row \in [at : Times, kind : {"attempt", "recovery"}], Insert(row),
         newest \in Record
  PROVE  newest' \in Record
BY DEF Insert, Record

\* Every record has a date.
LEMMA RecordDate == ASSUME TypeOK PROVE newest.at \in Times
BY InterruptionAssumption DEF TypeOK, Record, Nothing, Times

\* Every variable keeps to its values.
THEOREM TypeCorrect == Spec => []TypeOK
<1>1. Init => TypeOK
  <2> SUFFICES ASSUME Init PROVE TypeOK
    OBVIOUS
  <2>1. auto \in BOOLEAN /\ together \in BOOLEAN
    BY Zenon DEF Init
  <2>2. interval \in Interval /\ timer \in Nat /\ since \in Nat
    BY InterruptionAssumption DEF Init
  <2>3. 0 \in Times /\ 0 \in 0 .. Longest /\ now = 0 /\ {changed, broken} \subseteq Times \cup {-1}
    BY InterruptionAssumption DEF Init, Times
  <2> QED
    BY <2>1, <2>2, <2>3 DEF Init, TypeOK, Idle, Closed, Start, Nothing, Record
<1>2. TypeOK /\ [Next]_vars => TypeOK'
  <2> SUFFICES ASSUME TypeOK, [Next]_vars PROVE TypeOK'
    OBVIOUS
  <2> USE InterruptionAssumption DEF schedule, history
  <2>1. CASE Fire
    <3>1. unit' = [pc |-> "check", at |-> 0, left |-> 0, failed |-> FALSE]
      BY <2>1 DEF Fire, Idle
    <3>2. unit' \in [pc : {"idle", "check", "record", "start", "testing"}, at : Times,
                     left : 0 .. Longest, failed : BOOLEAN]
      BY <3>1 DEF Times
    <3> QED
      BY <2>1, <3>2 DEF Fire, TypeOK
  <2>2. CASE UnitChecks \/ WindowChecks
    <3>1. together' \in BOOLEAN
      BY <2>2, Zenon DEF UnitChecks, WindowChecks, TypeOK
    <3>2. unit' \in [pc : {"idle", "check", "record", "start", "testing"}, at : Times,
                     left : 0 .. Longest, failed : BOOLEAN]
      BY <2>2, RecordDate DEF UnitChecks, WindowChecks, TypeOK
    <3>3. window' \in [pc : {"closed", "check", "record", "open"}, at : Times, lost : 0 .. 2]
      BY <2>2, RecordDate DEF UnitChecks, WindowChecks, Open, Closed, TypeOK, Times
    <3> QED
      BY <2>2, <3>1, <3>2, <3>3 DEF UnitChecks, WindowChecks, TypeOK
  <2>3. CASE UnitRecords
    <3>1. newest' \in Record
      BY <2>3, InsertType DEF UnitRecords, Write, TypeOK
    <3>2. unit' \in [pc : {"idle", "check", "record", "start", "testing"}, at : Times,
                     left : 0 .. Longest, failed : BOOLEAN]
      BY <2>3 DEF UnitRecords, TypeOK
    <3>3. gaps' \subseteq [from : Times, to : Times, by : {"unit", "window"}, lost : 0 .. 2]
      BY <2>3 DEF UnitRecords, Write, TypeOK
    <3> QED
      BY <2>3, <3>1, <3>2, <3>3 DEF UnitRecords, TypeOK
  <2>4. CASE WindowRecords
    BY <2>4, InsertType DEF WindowRecords, Write, Open, TypeOK, Closed, Times
  <2>5. CASE UnitStarts
    <3>1. unit' \in [pc : {"idle", "check", "record", "start", "testing"}, at : Times,
                     left : 0 .. Longest, failed : BOOLEAN]
      <4>1. now \in Times /\ Longest \in 0 .. Longest
        BY DEF TypeOK, Times
      <4> QED
        BY <2>5, <4>1 DEF UnitStarts, TypeOK
    <3> QED
      BY <2>5, <3>1 DEF UnitStarts, TypeOK
  <2>6. CASE UnitFinishes
    BY <2>6, InsertType DEF UnitFinishes, TypeOK, Idle, Times
  <2>17. CASE UnitFails
    BY <2>17 DEF UnitFails, TypeOK, Idle, Times
  <2>7. CASE ManualTest
    BY <2>7, InsertType DEF ManualTest, TypeOK
  <2>8. CASE OpenWindow
    BY <2>8, CountdownType DEF OpenWindow, TypeOK
  <2>9. ASSUME NEW on \in BOOLEAN, NEW i \in Interval, SetSchedule(on, i) PROVE TypeOK'
    BY <2>9, CountdownType DEF SetSchedule, TypeOK
  <2>10. CASE CloseWindow
    BY <2>10 DEF CloseWindow, TypeOK, Closed, Times
  <2>16. ASSUME NEW left \in SUBSET gaps, NEW latest \in Record, Delete(left, latest)
         PROVE  TypeOK'
    BY <2>16 DEF Delete, TypeOK
  <2>11. CASE Tick
    <3>1. now' \in Times /\ now' = now + 1
      BY <2>11 DEF Tick, TypeOK, Times
    <3>2. timer' \in Nat \cup {None} /\ since' \in Nat \cup {None}
      BY <2>11 DEF Tick, TypeOK, Down, Up
    <3>3. unit' \in [pc : {"idle", "check", "record", "start", "testing"}, at : Times,
                     left : 0 .. Longest, failed : BOOLEAN]
      BY <2>11 DEF Tick, TypeOK, Down
    <3> QED
      BY <2>11, <3>1, <3>2, <3>3 DEF Tick, TypeOK
  <2>12. CASE Sleep \/ Wake
    BY <2>12 DEF Sleep, Wake, TypeOK
  <2>13. CASE SwitchOff
    BY <2>13 DEF SwitchOff, TypeOK, Idle, Closed, Times
  <2>14. CASE Login
    BY <2>14 DEF Login, TypeOK
  <2>15. CASE UNCHANGED vars
    BY <2>15 DEF vars, TypeOK
  <2> QED
    BY <2>1, <2>2, <2>3, <2>4, <2>5, <2>6, <2>7, <2>8, <2>9, <2>10, <2>11, <2>12, <2>13, <2>14,
       <2>15, <2>16, <2>17 DEF Next, UnitStep, WindowStep, World
<1> QED
  BY <1>1, <1>2, PTL DEF Spec

-----------------------------------------------------------------------------
(* Once per gap.                                                           *)

\* Nothing is dated in the future.
PastInv == newest.at <= now /\ unit.at <= now /\ window.at <= now

\* The gaps recorded end before whatever a call that has found one counts from.
EndedBy(t) == \A g \in gaps : g.to <= t

\* One call of the pair wrote while the other had found the same interruption.
Shared(g, who) == together /\ g.by # who /\ g.to = now

ApartInv ==
  /\ EndedBy(newest.at)
  /\ unit.pc = "record" /\ window.pc = "record" => together
  /\ unit.pc = "record" => \A g \in gaps : g.to <= unit.at \/ Shared(g, "unit")
  /\ window.pc = "record" => \A g \in gaps : g.to <= window.at \/ Shared(g, "window")

GapInv == PastInv /\ ApartInv /\ OncePerGap

\* An inserted record from the past moves the newest one forward, and not
\* into the future.
LEMMA InsertForward ==
  ASSUME TypeOK, PastInv, NEW t \in Times, NEW k, t <= now, Insert([at |-> t, kind |-> k])
  PROVE  newest.at <= newest'.at /\ t <= newest'.at /\ newest'.at <= now
BY DEF TypeOK, Record, Nothing, Times, PastInv, Insert

\* What is left by a deletion is no newer, and the gaps on record end by it.
LEMMA DeleteBack ==
  ASSUME TypeOK, NEW left \in SUBSET gaps, NEW latest \in Record, Delete(left, latest)
  PROVE  /\ newest' = latest /\ latest.at \in Int /\ latest.at <= newest.at
         /\ gaps' \subseteq gaps /\ EndedBy(newest.at)'
         /\ UNCHANGED <<now, power, auto, interval, timer, since, unit, window, lost, together>>
         /\ \/ newest' = newest /\ changed' = changed /\ broken' = broken
            \/ changed' = now /\ broken' = now
BY DEF Delete, EndedBy, Record, Nothing, Times

\* Writing a gap that starts where all others have ended, but for the one the other
\* call has written now, keeps them apart.
LEMMA WriteApart ==
  ASSUME TypeOK, PastInv, OncePerGap, EndedBy(newest.at),
         NEW from \in Times, NEW who, NEW n, Write(from, who, n), from <= now,
         \A g \in gaps : g.to <= from \/ Shared(g, who), UNCHANGED <<now, together>>
  PROVE  /\ OncePerGap' /\ EndedBy(newest.at)' /\ newest'.at = now
         /\ \A g \in gaps' : g \in gaps \/ (g.by = who /\ g.to = now)
<1>1. now \in Times /\ \A g \in gaps : g.from \in Int /\ g.to \in Int
  BY DEF TypeOK, Times
<1>2. newest'.at = now
  BY <1>1 DEF Write, Insert, PastInv, TypeOK, Record, Nothing, Times
<1> DEFINE new == [from |-> from, to |-> now, by |-> who, lost |-> n]
<1>3. gaps' = gaps \cup {new} /\ new.from = from /\ new.to = now /\ new.by = who
  BY DEF Write
<1>4. \A g \in gaps : g.to <= now
  BY <1>1 DEF EndedBy, PastInv, TypeOK, Record, Nothing, Times
<1>5. ASSUME NEW g \in gaps', NEW h \in gaps'
      PROVE  g = h \/ g.to <= h.from \/ h.to <= g.from
               \/ (together /\ g.by # h.by /\ g.to = h.to)
  <2>1. CASE g \in gaps /\ h \in gaps
    BY <2>1 DEF OncePerGap
  <2>2. CASE g \in gaps /\ h = new
    BY <1>3, <2>2 DEF Shared
  <2>3. CASE g = new /\ h \in gaps
    BY <1>3, <2>3 DEF Shared
  <2> QED
    BY <1>3, <2>1, <2>2, <2>3
<1>6. OncePerGap'
  BY <1>5 DEF OncePerGap
<1>7. EndedBy(newest.at)'
  BY <1>1, <1>2, <1>3, <1>4 DEF EndedBy, Times
<1> QED
  BY <1>2, <1>3, <1>6, <1>7

\* No stretch of time is reported twice, unless the scheduled command and the
\* window were inside record_missed_window together and report what ended then.
THEOREM OnceEach == Spec => []OncePerGap
<1>1. Init => GapInv
  BY DEF Init, GapInv, PastInv, ApartInv, EndedBy, OncePerGap, Start, Nothing, Idle, Closed
<1>2. TypeOK /\ TypeOK' /\ GapInv /\ [Next]_vars => GapInv'
  <2> SUFFICES ASSUME TypeOK, TypeOK', GapInv, [Next]_vars PROVE GapInv'
    OBVIOUS
  <2> USE DEF GapInv, schedule, history
  <2>1. CASE UnitChecks
    <3>1. UNCHANGED <<now, window, newest, gaps>> /\ unit.pc = "check"
          /\ together' = (together \/ window.pc = "record")
      BY <2>1 DEF UnitChecks
    <3>2. (unit'.pc = "record" /\ unit'.at = newest.at) \/ (unit'.pc = "start" /\ unit'.at = unit.at)
      BY <2>1 DEF UnitChecks, TypeOK
    <3>3. together => together'
      BY <3>1
    <3>4. PastInv'
      BY <3>1, <3>2 DEF PastInv
    <3>5. OncePerGap'
      BY <3>1, <3>3 DEF OncePerGap
    <3>6. ApartInv'
      BY <3>1, <3>2, <3>3 DEF ApartInv, EndedBy, Shared
    <3> QED
      BY <3>4, <3>5, <3>6
  <2>2. CASE WindowChecks
    <3>1. UNCHANGED <<now, unit, newest, gaps>> /\ window.pc = "check"
      BY <2>2 DEF WindowChecks
    <3>2. \/ /\ window'.pc = "record" /\ window'.at = newest.at
             /\ together' = (together \/ unit.pc = "record")
          \/ window'.pc = "open" /\ window'.at = 0
      BY <2>2 DEF WindowChecks, Open, Closed
    <3>7. together => together'
      BY <2>2 DEF WindowChecks
    <3>3. 0 <= now /\ (together => together')
      BY <3>7 DEF TypeOK, Times
    <3>4. PastInv'
      BY <3>1, <3>2, <3>3 DEF PastInv
    <3>5. OncePerGap'
      BY <3>1, <3>3 DEF OncePerGap
    <3>6. ApartInv'
      BY <3>1, <3>2, <3>3 DEF ApartInv, EndedBy, Shared
    <3> QED
      BY <3>4, <3>5, <3>6
  <2>3. CASE UnitRecords
    <3>1. unit.pc = "record" /\ UNCHANGED <<now, together, window>>
          /\ unit'.pc = "start" /\ unit'.at = unit.at
      BY <2>3 DEF UnitRecords, TypeOK
    <3>2. unit.at \in Times /\ unit.at <= now /\ now \in Times
      BY DEF TypeOK, PastInv
    <3>3. CASE UNCHANGED <<newest, gaps>>
      BY <3>1, <3>3 DEF PastInv, ApartInv, EndedBy, Shared, OncePerGap
    <3>4. CASE Write(unit.at, "unit", lost)
      <4>1. /\ OncePerGap' /\ EndedBy(newest.at)' /\ newest'.at = now
            /\ \A g \in gaps' : g \in gaps \/ (g.by = "unit" /\ g.to = now)
        BY <3>1, <3>2, <3>4, WriteApart DEF ApartInv
      <4>2. PastInv'
        BY <3>1, <3>2, <4>1 DEF PastInv, Times
      <4>3. ApartInv'
        BY <3>1, <4>1 DEF ApartInv, Shared
      <4> QED
        BY <4>1, <4>2, <4>3
    <3> QED
      BY <2>3, <3>3, <3>4 DEF UnitRecords
  <2>4. CASE WindowRecords
    <3>1. window.pc = "record" /\ UNCHANGED <<now, together, unit>>
          /\ window'.pc = "open" /\ window'.at = 0
      BY <2>4 DEF WindowRecords, Open, Closed
    <3>2. window.at \in Times /\ window.at <= now /\ now \in Times
      BY DEF TypeOK, PastInv
    <3>3. CASE UNCHANGED <<newest, gaps>>
      BY <3>1, <3>2, <3>3 DEF PastInv, ApartInv, EndedBy, Shared, OncePerGap, Times
    <3>4. CASE Write(window.at, "window", window.lost)
      <4>1. /\ OncePerGap' /\ EndedBy(newest.at)' /\ newest'.at = now
            /\ \A g \in gaps' : g \in gaps \/ (g.by = "window" /\ g.to = now)
        BY <3>1, <3>2, <3>4, WriteApart DEF ApartInv
      <4>2. PastInv'
        BY <3>1, <3>2, <4>1 DEF PastInv, Times
      <4>3. ApartInv'
        BY <3>1, <4>1 DEF ApartInv, Shared
      <4> QED
        BY <4>1, <4>2, <4>3
    <3> QED
      BY <2>4, <3>3, <3>4 DEF WindowRecords
  <2>5. CASE UnitFinishes \/ ManualTest
    <3>1. PICK t \in Times : t <= now /\ Insert([at |-> t, kind |-> "attempt"])
      BY <2>5 DEF UnitFinishes, ManualTest, TypeOK, PastInv, Times
    <3>2. newest.at <= newest'.at /\ newest'.at <= now
      BY <3>1, InsertForward
    <3>3. UNCHANGED <<now, gaps, together, window>> /\ unit' \in {unit, Idle}
      BY <2>5 DEF UnitFinishes, ManualTest
    <3>4. now \in Int /\ 0 <= now /\ newest.at \in Int /\ newest'.at \in Int
          /\ \A g \in gaps : g.to \in Int
      BY DEF TypeOK, Record, Nothing, Times
    <3>5. PastInv'
      BY <3>2, <3>3, <3>4 DEF PastInv, Idle
    <3>6. EndedBy(newest.at) => EndedBy(newest.at)'
      BY <3>2, <3>3, <3>4 DEF EndedBy
    <3>7. ApartInv'
      BY <3>3, <3>6 DEF ApartInv, EndedBy, Shared, Idle
    <3> QED
      BY <3>3, <3>5, <3>7 DEF OncePerGap
  <2>6. CASE Tick
    <3>1. /\ now' = now + 1 /\ UNCHANGED <<window, newest, gaps, together>>
          /\ unit'.pc = unit.pc /\ unit'.at = unit.at
          /\ unit.pc # "record" /\ window.pc # "record"
      BY <2>6 DEF Tick, Quiet, TypeOK
    <3> QED
      BY <3>1, RecordDate DEF PastInv, ApartInv, EndedBy, OncePerGap, TypeOK, Times
  <2>7. CASE Fire \/ UnitStarts \/ UnitFails
    <3>1. UNCHANGED <<now, window, newest, gaps, together>>
      BY <2>7 DEF Fire, UnitStarts, UnitFails
    <3>2. unit'.pc # "record" /\ unit'.at \in {0, now} /\ now \in Nat
      <4>1. CASE Fire \/ UnitFails
        BY <4>1 DEF Fire, UnitFails, Idle, TypeOK, Times
      <4>2. CASE UnitStarts
        BY <4>2 DEF UnitStarts, TypeOK, Times
      <4> QED
        BY <2>7, <4>1, <4>2
    <3>3. PastInv'
      BY <3>1, <3>2 DEF PastInv
    <3> QED
      BY <3>1, <3>2, <3>3 DEF ApartInv, EndedBy, Shared, OncePerGap
  <2>8. CASE OpenWindow \/ CloseWindow \/ SwitchOff
    <3>1. UNCHANGED <<now, newest, gaps, together>> /\ unit' \in {unit, Idle}
          /\ window'.pc # "record" /\ window'.at \in {0, window.at} /\ 0 <= now
      BY <2>8 DEF OpenWindow, CloseWindow, SwitchOff, Closed, TypeOK, Times
    <3> QED
      BY <3>1 DEF Idle, PastInv, ApartInv, EndedBy, Shared, OncePerGap
  <2>9. CASE Sleep \/ Wake \/ Login \/ UNCHANGED vars
           \/ \E on \in BOOLEAN, i \in Interval : SetSchedule(on, i)
    BY <2>9 DEF Sleep, Wake, Login, SetSchedule, vars, PastInv, ApartInv, EndedBy, Shared, OncePerGap
  <2>10. ASSUME NEW left \in SUBSET gaps, NEW latest \in Record, Delete(left, latest)
         PROVE  GapInv'
    <3>1. PastInv'
      BY <2>10, DeleteBack DEF PastInv, TypeOK, Record, Nothing, Times
    <3>2. ApartInv'
      BY <2>10, DeleteBack DEF ApartInv, EndedBy, Shared
    <3>3. OncePerGap'
      BY <2>10, DeleteBack DEF OncePerGap
    <3> QED
      BY <3>1, <3>2, <3>3
  <2> QED
    BY <2>1, <2>2, <2>3, <2>4, <2>5, <2>6, <2>7, <2>8, <2>9, <2>10
    DEF Next, UnitStep, WindowStep, World
<1>3. GapInv => OncePerGap
  BY DEF GapInv
<1> QED
  BY <1>1, <1>2, <1>3, TypeCorrect, PTL DEF Spec
-----------------------------------------------------------------------------
(* No false alarm.                                                         *)

\* Since before t the timer has been counting, and nobody has set it anew.
Steady(t) == broken < t

\* How long it may take from the start of a scheduled command to the next start, and
\* from a record: a command that leaves none takes the record's place.
Reach == IF interval < Longest THEN Longest ELSE interval
Bound == IF lost = 0 THEN Reach ELSE 2 * Reach

\* When the timer is not counting that is remembered.
PauseInv ==
  /\ broken <= now /\ changed <= broken
  /\ power = "off" => broken = now
  /\ timer = None => broken = now
  /\ timer # None => auto /\ timer <= interval

\* While it counts the next start is never further away from the last record, or
\* from the start of the test under way.
PaceInv ==
  /\ unit.pc = "idle" /\ lost < 2 =>
       \A t \in newest.at .. now : Steady(t) => now - t + timer <= Bound
  /\ unit.pc \in {"check", "record", "start"} /\ lost < 2 =>
       \A t \in newest.at .. now : Steady(t) => now - t <= Bound
  /\ unit.pc = "testing" =>
       \A t \in unit.at .. now : Steady(t) =>
         now - t + unit.left <= Longest /\ now - t + timer <= Reach
  /\ unit.pc = "testing" /\ lost < 2 =>
       \A t \in newest.at .. unit.at : Steady(t) => unit.at - t <= Bound

\* Two tests fit into the gap allowed.
Roomy == \A i \in Interval : 2 * Longest <= ExpectedGap(i)

\* The scheduled commands without a record it takes for a false alarm.
Excuse(who) == IF who = "unit" THEN 2 ELSE 1

\* What is recorded, or about to be, is a time in which the pace was broken, or
\* excused.
AlarmInv ==
  Roomy => /\ \A g \in gaps : g.from <= now /\ (~Steady(g.from) \/ g.lost >= Excuse(g.by))
           /\ unit.pc = "record" => ~Steady(unit.at) \/ lost >= Excuse("unit")
           /\ window.pc = "record" => ~Steady(window.at) \/ window.lost >= Excuse("window")

LEMMA PastHolds == Spec => []PastInv
<1>1. Init => PastInv
  BY DEF Init, PastInv, Start, Nothing, Idle, Closed
<1>2. TypeOK /\ TypeOK' /\ PastInv /\ [Next]_vars => PastInv'
  <2> SUFFICES ASSUME TypeOK, TypeOK', PastInv, [Next]_vars PROVE PastInv'
    OBVIOUS
  <2> USE DEF PastInv, schedule, history
  <2>1. CASE UnitChecks \/ WindowChecks
    <3>1. unit'.at \in {unit.at, newest.at}
      BY <2>1 DEF UnitChecks, WindowChecks, TypeOK
    <3>2. window'.at \in {window.at, newest.at, 0} /\ 0 <= now
      BY <2>1 DEF UnitChecks, WindowChecks, Open, Closed, TypeOK, Times
    <3> QED
      BY <2>1, <3>1, <3>2 DEF UnitChecks, WindowChecks
  <2>2. CASE UnitRecords \/ WindowRecords
    <3>1. newest' = newest \/ newest'.at = now
      BY <2>2 DEF UnitRecords, WindowRecords, Write, Insert
    <3>2. window'.at \in {window.at, 0} /\ now' = now /\ 0 <= now
      BY <2>2 DEF UnitRecords, WindowRecords, Open, Closed, TypeOK, Times
    <3>3. unit'.at = unit.at
      BY <2>2 DEF UnitRecords, WindowRecords, TypeOK
    <3> QED
      BY <3>1, <3>2, <3>3 DEF TypeOK, Times
  <2>3. CASE UnitFinishes \/ ManualTest
    <3>1. PICK t \in Times : t <= now /\ Insert([at |-> t, kind |-> "attempt"])
      BY <2>3 DEF UnitFinishes, ManualTest, TypeOK, Times
    <3>2. newest'.at <= now
      BY <3>1, InsertForward
    <3> QED
      BY <2>3, <3>2 DEF UnitFinishes, ManualTest, Idle, TypeOK, Times
  <2>4. CASE Tick
    BY <2>4, RecordDate DEF Tick, Down, TypeOK, Times
  <2>5. CASE Fire \/ UnitFails
    BY <2>5 DEF Fire, UnitFails, Idle, TypeOK, Times
  <2>9. CASE UnitStarts
    BY <2>9 DEF UnitStarts, TypeOK, Times
  <2>6. CASE OpenWindow \/ CloseWindow \/ SwitchOff
    BY <2>6 DEF OpenWindow, CloseWindow, SwitchOff, Idle, Closed, TypeOK, Times
  <2>7. CASE Sleep \/ Wake \/ Login \/ UNCHANGED vars
           \/ \E on \in BOOLEAN, i \in Interval : SetSchedule(on, i)
    BY <2>7 DEF Sleep, Wake, Login, SetSchedule, vars
  <2>8. ASSUME NEW left \in SUBSET gaps, NEW latest \in Record, Delete(left, latest)
        PROVE  PastInv'
    BY <2>8, DeleteBack DEF TypeOK, Record, Nothing, Times
  <2> QED
    BY <2>1, <2>2, <2>3, <2>4, <2>5, <2>6, <2>7, <2>8, <2>9 DEF Next, UnitStep, WindowStep, World
<1> QED
  BY <1>1, <1>2, TypeCorrect, PTL DEF Spec

\* A newly started timer has no longer to go than an interval.
LEMMA CountdownBound ==
  ASSUME NEW i \in Interval, since \in Nat \cup {None} PROVE Countdown(i) <= i
BY InterruptionAssumption DEF Countdown, Least

LEMMA PauseHolds == Spec => []PauseInv
<1>1. Init => PauseInv
  BY InterruptionAssumption DEF Init, PauseInv
<1>2. TypeOK /\ TypeOK' /\ PauseInv /\ [Next]_vars => PauseInv'
  <2> SUFFICES ASSUME TypeOK, TypeOK', PauseInv, [Next]_vars PROVE PauseInv'
    OBVIOUS
  <2> USE InterruptionAssumption DEF PauseInv, schedule, history
  <2>1. CASE Fire
    BY <2>1 DEF Fire, Due, TypeOK
  <2>2. CASE UnitChecks \/ WindowChecks \/ UnitRecords \/ WindowRecords \/ UnitStarts
           \/ UnitFinishes \/ UnitFails \/ ManualTest \/ CloseWindow
    BY <2>2 DEF UnitChecks, WindowChecks, UnitRecords, WindowRecords, UnitStarts, UnitFinishes,
       UnitFails, ManualTest, CloseWindow
  <2>3. CASE OpenWindow
    BY <2>3, CountdownType, CountdownBound DEF OpenWindow, TypeOK, Times
  <2>4. ASSUME NEW on \in BOOLEAN, NEW i \in Interval, SetSchedule(on, i) PROVE PauseInv'
    BY <2>4, CountdownType, CountdownBound DEF SetSchedule, TypeOK, Times
  <2>5. CASE Tick
    BY <2>5 DEF Tick, Down, TypeOK, Times
  <2>6. CASE Sleep \/ Wake \/ SwitchOff \/ Login
    BY <2>6 DEF Sleep, Wake, SwitchOff, Login, TypeOK, Times
  <2>7. CASE UNCHANGED vars
    BY <2>7 DEF vars
  <2>8. ASSUME NEW left \in SUBSET gaps, NEW latest \in Record, Delete(left, latest)
        PROVE  PauseInv'
    BY <2>8, DeleteBack DEF TypeOK, Times
  <2> QED
    BY <2>1, <2>2, <2>3, <2>4, <2>5, <2>6, <2>7, <2>8 DEF Next, UnitStep, WindowStep, World
<1> QED
  BY <1>1, <1>2, TypeCorrect, PTL DEF Spec

\* What was remembered stays remembered.
LEMMA UnsteadyStays ==
  ASSUME TypeOK, TypeOK', PauseInv, [Next]_vars, NEW t \in Int, t <= now, Steady(t)'
  PROVE  Steady(t)
<1> USE DEF schedule, history, Steady, PauseInv
<1>1. CASE Fire \/ UnitChecks \/ WindowChecks \/ UnitRecords \/ WindowRecords \/ UnitStarts
           \/ UnitFinishes \/ UnitFails \/ ManualTest \/ CloseWindow \/ Sleep \/ Wake \/ Login
  BY <1>1 DEF Fire, UnitChecks, WindowChecks, UnitRecords, WindowRecords, UnitStarts,
     UnitFinishes, UnitFails, ManualTest, CloseWindow, Sleep, Wake, Login
<1>2. CASE OpenWindow \/ SwitchOff \/ \E on \in BOOLEAN, i \in Interval : SetSchedule(on, i)
  BY <1>2 DEF OpenWindow, SwitchOff, SetSchedule, TypeOK, Times
<1>3. CASE Tick
  BY <1>3 DEF Tick, TypeOK, Times
<1>4. CASE UNCHANGED vars
  BY <1>4 DEF vars
<1>5. CASE \E left \in SUBSET gaps, latest \in Record : Delete(left, latest)
  BY <1>5, DeleteBack DEF TypeOK, Times
<1> QED
  BY <1>1, <1>2, <1>3, <1>4, <1>5 DEF Next, UnitStep, WindowStep, World

\* In a step that leaves the clock, the timer and the unit alone and dates the
\* newest record no earlier, the pace stays.
LEMMA PaceKept ==
  ASSUME TypeOK, TypeOK', PaceInv, UNCHANGED <<now, timer, interval, unit, lost, broken>>,
         newest.at <= newest'.at
  PROVE  PaceInv'
BY InterruptionAssumption DEF PaceInv, Steady, Bound, Reach, TypeOK, Record, Nothing, Times

\* When the timer has only just begun to count there is no pace to keep.
LEMMA PaceAnew ==
  ASSUME TypeOK', PastInv', broken' = now'
  PROVE  PaceInv'
<1>1. newest'.at \in Int /\ unit'.at \in Int /\ now' \in Int /\ broken' \in Int
  BY DEF TypeOK, Record, Nothing, Times
<1>2. \A t \in Int : t <= now' => ~Steady(t)'
  BY <1>1 DEF Steady
<1>3. (\A t \in newest.at .. now : ~Steady(t))'
  BY <1>1, <1>2
<1>4. (\A t \in unit.at .. now : ~Steady(t))'
  BY <1>1, <1>2
<1>5. (\A t \in newest.at .. unit.at : ~Steady(t))'
  BY <1>1, <1>2 DEF PastInv
<1> QED
  BY <1>3, <1>4, <1>5 DEF PaceInv

\* What a shorter time keeps to.
LEMMA Shorter ==
  ASSUME NEW x \in Int, NEW m \in Int, NEW n \in Int, NEW r \in Int, m <= n, x + n <= r
  PROVE  x + m <= r
OBVIOUS

LEMMA DownValue ==
  ASSUME NEW n \in Nat
  PROVE  Down(n) \in Nat /\ (n = 0 => Down(n) = 0) /\ (n > 0 => Down(n) = n - 1)
BY DEF Down

LEMMA PaceHolds == Spec => []PaceInv
<1>1. Init => PaceInv
  BY InterruptionAssumption DEF Init, PaceInv, Bound, Reach, Start, Nothing, Idle
<1>2. TypeOK /\ TypeOK' /\ PastInv /\ PastInv' /\ PauseInv /\ PauseInv' /\ PaceInv /\ [Next]_vars
        => PaceInv'
  <2> SUFFICES ASSUME TypeOK, TypeOK', PastInv, PastInv', PauseInv, PauseInv', PaceInv, [Next]_vars
               PROVE  PaceInv'
    OBVIOUS
  <2>0. /\ now \in Int /\ now' \in Int /\ newest.at \in Int /\ newest'.at \in Int
        /\ unit.at \in Int /\ unit.left \in Int /\ interval \in Nat /\ Longest \in Nat
        /\ lost \in 0 .. 2 /\ broken \in Int /\ newest.at <= now /\ unit.at <= now
    BY InterruptionAssumption DEF TypeOK, Record, Nothing, Times, PastInv
  <2>00. Reach \in Nat /\ interval <= Reach /\ Longest <= Reach /\ Reach <= Bound /\ Bound \in Nat
         /\ (lost = 0 => Bound = Reach) /\ (lost # 0 => Bound = 2 * Reach)
    BY <2>0 DEF Reach, Bound
  <2> USE <2>0 DEF schedule, history
  <2>1. CASE Fire
    BY <2>1 DEF Fire, Due, Idle, PaceInv, Steady, Bound, Reach
  <2>2. CASE UnitChecks
    BY <2>2 DEF UnitChecks, PaceInv, Steady, Bound, Reach, TypeOK
  <2>3. CASE UnitRecords
    <3>3. unit'.pc = "start"
      BY <2>3 DEF UnitRecords, TypeOK
    <3>1. UNCHANGED <<now, timer, interval, lost, broken>> /\ unit.pc = "record"
          /\ unit'.pc = "start" /\ (newest' = newest \/ newest'.at = now)
      BY <2>3, <3>3 DEF UnitRecords, Write, Insert
    <3>2. newest.at <= newest'.at
      BY <3>1
    <3> QED
      BY <3>1, <3>2 DEF PaceInv, Steady, Bound, Reach
  <2>4. CASE UnitStarts
    <3>1. /\ unit'.pc = "testing" /\ unit'.at = now /\ unit'.left = Longest
          /\ UNCHANGED <<now, timer, interval, newest, lost, broken>> /\ unit.pc = "start"
      BY <2>4 DEF UnitStarts, TypeOK
    <3>2. \A t \in now .. now : Steady(t) =>
            now - t + Longest <= Longest /\ now - t + timer <= Reach
      BY DEF Steady, PauseInv, Reach, TypeOK
    <3>3. lost < 2 => \A t \in newest.at .. now : Steady(t) => now - t <= Bound
      BY <3>1 DEF PaceInv
    <3> QED
      BY <3>1, <3>2, <3>3 DEF PaceInv, Steady, Bound, Reach
  <2>5. CASE UnitFinishes
    <3>1. newest'.at >= unit.at
      BY <2>5 DEF UnitFinishes, Insert
    <3>2. \A t \in unit.at .. now : Steady(t) => now - t + timer <= Reach
      BY <2>5 DEF UnitFinishes, PaceInv
    <3> QED
      BY <2>5, <3>1, <3>2 DEF UnitFinishes, Idle, PaceInv, Steady, Bound, Reach
  <2>11. CASE UnitFails
    <3>1. UNCHANGED <<now, timer, interval, newest, broken>> /\ unit'.pc = "idle" /\ unit.pc # "idle"
          /\ lost' = IF lost = 0 THEN 1 ELSE 2
      BY <2>11 DEF UnitFails, Idle
    <3>2. CASE lost # 0
      BY <3>1, <3>2 DEF PaceInv, Idle
    <3>3. CASE lost = 0
      <4>1. Bound' = 2 * Reach
        BY <3>1, <3>3 DEF Bound, Reach
      <4>2. ASSUME NEW t \in newest.at .. now, Steady(t) PROVE now - t + timer <= 2 * Reach
        <5>1. timer \in Nat /\ timer <= Reach
          BY <2>00, <4>2 DEF PauseInv, Steady, TypeOK
        <5>2. CASE unit.pc \in {"check", "record", "start"}
          <6>1. now - t <= Reach
            BY <2>00, <3>3, <4>2, <5>2 DEF PaceInv
          <6> QED
            BY <2>00, <5>1, <6>1
        <5>3. CASE unit.pc = "testing" /\ unit.at <= t
          <6>1. now - t + timer <= Reach
            BY <4>2, <5>3 DEF PaceInv
          <6> QED
            BY <2>00, <5>1, <6>1
        <5>4. CASE unit.pc = "testing" /\ t < unit.at
          <6>1. unit.at - t <= Reach
            BY <2>00, <3>3, <4>2, <5>4 DEF PaceInv
          <6>2. Steady(unit.at)
            BY <4>2, <5>4 DEF Steady
          <6>3. now - unit.at + timer <= Reach
            BY <5>4, <6>2 DEF PaceInv
          <6> QED
            BY <2>00, <5>1, <6>1, <6>3
        <5> QED
          BY <3>1, <5>2, <5>3, <5>4 DEF TypeOK
      <4> QED
        BY <3>1, <4>1, <4>2 DEF PaceInv, Steady, Idle
    <3> QED
      BY <3>2, <3>3
  <2>6. CASE ManualTest \/ WindowChecks \/ WindowRecords \/ CloseWindow \/ Sleep \/ Wake
           \/ UNCHANGED vars
    <3>1. newest.at <= newest'.at
      BY <2>6 DEF ManualTest, WindowChecks, WindowRecords, Write, CloseWindow, Sleep, Wake,
         vars, Insert
    <3> QED
      BY <2>6, <3>1, PaceKept DEF ManualTest, WindowChecks, WindowRecords, CloseWindow, Sleep,
         Wake, vars
  <2>7. CASE SwitchOff \/ Login \/ \E on \in BOOLEAN, i \in Interval : SetSchedule(on, i)
    <3>1. broken' = now'
      BY <2>7 DEF SwitchOff, Login, SetSchedule, PauseInv
    <3> QED
      BY <3>1, PaceAnew
  <2>8. CASE OpenWindow
    <3>1. UNCHANGED <<now, interval, unit, newest, lost>>
      BY <2>8 DEF OpenWindow
    <3>2. CASE timer' # None /\ timer # None /\ timer' <= timer
      <4>1. broken' = broken
        BY <2>8, <3>2 DEF OpenWindow, TypeOK
      <4>2. timer \in Nat /\ timer' \in Nat
        BY <3>2 DEF TypeOK
      <4>3. Reach' = Reach /\ Bound' = Bound
        BY <3>1 DEF Reach, Bound
      <4>4. ASSUME NEW t \in Int, NEW b \in Int, now - t + timer <= b PROVE now - t + timer' <= b
        <5>1. now - t \in Int /\ timer \in Int /\ timer' \in Int /\ timer' <= timer
          BY <3>2, <4>2
        <5> QED
          BY <4>4, <5>1, Shorter
      <4>5. Reach \in Int /\ Bound \in Int
        BY <2>00
      <4> HIDE DEF Reach, Bound
      <4> QED
        BY <3>1, <4>1, <4>3, <4>4, <4>5 DEF PaceInv, Steady
    <3>3. CASE ~(timer' # None /\ timer # None /\ timer' <= timer)
      <4>1. broken' = now'
        BY <2>8, <3>3 DEF OpenWindow, PauseInv, TypeOK
      <4> QED
        BY <4>1, PaceAnew
    <3> QED
      BY <3>2, <3>3
  <2>9. CASE Tick
    <3>1. CASE power = "on" /\ timer # None
      <4>1. /\ now' = now + 1 /\ timer \in Nat /\ timer' = Down(timer)
            /\ unit' = [unit EXCEPT !.left = Down(@)]
            /\ UNCHANGED <<interval, newest, lost, broken>>
            /\ unit.pc \in {"idle", "testing"} /\ ~Due /\ (unit.pc = "testing" => unit.left > 0)
        BY <2>9, <3>1 DEF Tick, Quiet, TypeOK
      <4>2. timer <= interval /\ unit.left \in 0 .. Longest
        BY <3>1 DEF PauseInv, TypeOK
      <4>6. Reach' = Reach /\ Bound' = Bound
        BY <4>1 DEF Reach, Bound
      <4>3. CASE unit.pc = "idle"
        <5>1. timer > 0
          BY <3>1, <4>1, <4>3 DEF Due
        <5>2. timer' = timer - 1 /\ unit'.pc = "idle"
          BY <4>1, <4>3, <5>1 DEF Down, TypeOK
        <5>3. ASSUME NEW t \in newest.at .. now', Steady(t), lost < 2
              PROVE  now' - t + timer' <= Bound
          <6>1. CASE t = now'
            BY <2>00, <4>1, <4>2, <5>2, <6>1
          <6>2. CASE t <= now
            <7>1. now - t + timer <= Bound
              BY <4>3, <5>3, <6>2 DEF PaceInv
            <7> QED
              BY <2>00, <4>1, <5>2, <7>1
          <6> QED
            BY <4>1, <6>1, <6>2
        <5> QED
          BY <4>1, <4>3, <4>6, <5>2, <5>3 DEF PaceInv, Steady
      <4>4. CASE unit.pc = "testing"
        <5>1. unit'.pc = "testing" /\ unit'.at = unit.at /\ unit'.left = unit.left - 1
          BY <4>1, <4>2, <4>4 DEF Down, TypeOK
        <5>2. timer' \in Nat /\ (timer = 0 => timer' = 0) /\ (timer > 0 => timer' = timer - 1)
          BY <4>1, DownValue
        <5>3. ASSUME NEW t \in unit.at .. now', Steady(t)
              PROVE  now' - t + unit'.left <= Longest /\ now' - t + timer' <= Reach
          <6>1. CASE t = now'
            BY <2>00, <4>1, <4>2, <5>1, <5>2, <6>1
          <6>2. CASE t <= now
            <7>1. now - t + unit.left <= Longest /\ now - t + timer <= Reach
              BY <4>4, <5>3, <6>2 DEF PaceInv
            <7> QED
              BY <2>00, <4>1, <4>2, <4>4, <5>1, <5>2, <7>1
          <6> QED
            BY <4>1, <6>1, <6>2
        <5> QED
          BY <4>1, <4>4, <4>6, <5>1, <5>3 DEF PaceInv, Steady
      <4> QED
        BY <4>1, <4>3, <4>4
    <3>2. CASE ~(power = "on" /\ timer # None)
      <4>1. broken' = now'
        BY <2>9, <3>2 DEF Tick
      <4> QED
        BY <4>1, PaceAnew
    <3> QED
      BY <3>1, <3>2
  <2>10. ASSUME NEW left \in SUBSET gaps, NEW latest \in Record, Delete(left, latest)
         PROVE  PaceInv'
    <3>1. CASE newest' = newest /\ broken' = broken
      BY <2>10, <3>1, DeleteBack, PaceKept
    <3>2. CASE broken' = now
      BY <2>10, <3>2, DeleteBack, PaceAnew
    <3> QED
      BY <2>10, <3>1, <3>2, DeleteBack
  <2> QED
    BY <2>1, <2>2, <2>3, <2>4, <2>5, <2>6, <2>7, <2>8, <2>9, <2>10, <2>11
    DEF Next, UnitStep, WindowStep, World
<1> QED
  BY <1>1, <1>2, TypeCorrect, PastHolds, PauseHolds, PTL DEF Spec

\* While the pace is kept, and every scheduled command left its record, the newest
\* record is no older than the gap allowed; and so does the scheduled command find it
\* when one command left none.
LEMMA PaceEnough ==
  ASSUME TypeOK, PastInv, PauseInv, PaceInv, Roomy, Steady(newest.at),
         lost = 0 \/ (unit.pc = "check" /\ lost < 2)
  PROVE  ~Missed
<1>1. /\ now \in Int /\ newest.at \in Int /\ unit.at \in Int /\ interval \in Nat
      /\ Longest \in Nat /\ Slack \in Nat /\ newest.at <= now /\ unit.at <= now
      /\ unit.left \in Nat /\ lost \in 0 .. 2
  BY InterruptionAssumption DEF TypeOK, Record, Nothing, Times, PastInv
<1>2. 2 * Longest <= 2 * interval + Slack
  BY DEF Roomy, ExpectedGap, TypeOK
<1>3. Reach \in Nat /\ Longest <= Reach /\ Reach + Longest <= 2 * interval + Slack
      /\ 2 * Reach <= 2 * interval + Slack
  BY <1>1, <1>2 DEF Reach
<1>4. timer \in Nat
  BY <1>1 DEF PauseInv, Steady, TypeOK
<1>5. now - newest.at <= Reach + Longest \/ now - newest.at <= 2 * Reach
  <2>1. CASE unit.pc = "idle"
    <3>1. now - newest.at + timer <= Reach
      BY <1>1, <2>1 DEF PaceInv, Bound
    <3> QED
      BY <1>1, <1>3, <1>4, <3>1
  <2>2. CASE unit.pc \in {"check", "record", "start"}
    <3>1. now - newest.at <= Bound
      BY <1>1, <2>2 DEF PaceInv
    <3>2. Bound \in {Reach, 2 * Reach}
      BY DEF Bound
    <3> QED
      BY <1>1, <1>3, <3>1, <3>2
  <2>3. CASE unit.pc = "testing" /\ unit.at <= newest.at
    <3>1. now - newest.at + unit.left <= Longest
      BY <1>1, <2>3 DEF PaceInv
    <3> QED
      BY <1>1, <1>3, <3>1
  <2>4. CASE unit.pc = "testing" /\ newest.at <= unit.at
    <3>1. unit.at - newest.at <= Reach
      BY <1>1, <2>4 DEF PaceInv, Bound
    <3>2. Steady(unit.at)
      BY <1>1, <2>4 DEF Steady, TypeOK, Times
    <3>3. now - unit.at + unit.left <= Longest
      BY <1>1, <2>4, <3>2 DEF PaceInv
    <3> QED
      BY <1>1, <1>3, <3>1, <3>3
  <2> QED
    BY <1>1, <2>1, <2>2, <2>3, <2>4 DEF TypeOK
<1> QED
  BY <1>1, <1>3, <1>5 DEF Missed, ExpectedGap

LEMMA AlarmHolds == Spec => []AlarmInv
<1>1. Init => AlarmInv
  BY DEF Init, AlarmInv, Idle, Closed
<1>2. TypeOK /\ TypeOK' /\ PastInv /\ PauseInv /\ PaceInv /\ AlarmInv /\ [Next]_vars => AlarmInv'
  <2> SUFFICES ASSUME TypeOK, TypeOK', PastInv, PauseInv, PaceInv, AlarmInv, [Next]_vars, Roomy
               PROVE  AlarmInv'
    BY DEF AlarmInv, Roomy
  <2>0. /\ now \in Int /\ unit.at \in Int /\ window.at \in Int /\ newest.at \in Int
        /\ lost \in 0 .. 2 /\ unit.at <= now /\ window.at <= now /\ newest.at <= now
    BY DEF TypeOK, Record, Nothing, Times, PastInv
  <2> DEFINE Fair(t, n, who) == ~(broken' < t) \/ n >= Excuse(who)
  <2>1. \A t \in Int : t <= now /\ ~Steady(t) => ~(broken' < t)
    BY UnsteadyStays DEF Steady
  <2>2. now' \in Int /\ now <= now'
    BY <2>0 DEF schedule, history, Next, vars, UnitStep, WindowStep, World, Fire, UnitChecks,
       UnitRecords, UnitStarts, UnitFinishes, UnitFails, OpenWindow, WindowChecks, WindowRecords,
       CloseWindow, SetSchedule, Delete, Tick, Sleep, Wake, SwitchOff, Login, ManualTest
  <2>3. \A g \in gaps : g.from <= now' /\ Fair(g.from, g.lost, g.by)
    <3>1. \A g \in gaps : g.from \in Int /\ g.from <= now
                            /\ (~Steady(g.from) \/ g.lost >= Excuse(g.by))
      BY DEF AlarmInv, TypeOK, Times
    <3> QED
      BY <2>0, <2>1, <2>2, <3>1
  <2>4. unit.pc = "record" => Fair(unit.at, lost, "unit")
    BY <2>0, <2>1 DEF AlarmInv
  <2>5. window.pc = "record" => Fair(window.at, window.lost, "window")
    BY <2>0, <2>1 DEF AlarmInv
  <2>6. Missed => Fair(newest.at, lost, "window")
    BY <2>0, <2>1, PaceEnough DEF Excuse
  <2>66. Missed /\ unit.pc = "check" => Fair(newest.at, lost, "unit")
    BY <2>0, <2>1, PaceEnough DEF Excuse
  <2> HIDE DEF Fair
  <2>7. SUFFICES /\ \A g \in gaps' : g.from <= now' /\ Fair(g.from, g.lost, g.by)
                 /\ unit'.pc = "record" => Fair(unit'.at, lost', "unit")
                 /\ window'.pc = "record" => Fair(window'.at, window'.lost, "window")
    BY DEF AlarmInv, Steady, Fair
  <2> USE DEF schedule, history
  <2>8. CASE UnitChecks
    <3>1. UNCHANGED <<gaps, window, lost>> /\ unit.pc = "check"
      BY <2>8 DEF UnitChecks
    <3>2. unit'.pc = "record" => Missed /\ unit'.at = newest.at
      BY <2>8 DEF UnitChecks, TypeOK
    <3> QED
      BY <2>2, <2>3, <2>5, <2>66, <3>1, <3>2
  <2>9. CASE WindowChecks
    <3>1. UNCHANGED <<gaps, unit, lost>>
      BY <2>9 DEF WindowChecks
    <3>2. window'.pc = "record" => Missed /\ window'.at = newest.at /\ window'.lost = lost
      BY <2>9 DEF WindowChecks, Open, Closed
    <3> QED
      BY <2>3, <2>4, <2>6, <3>1, <3>2
  <2>10. CASE UnitRecords
    <3>1. unit.pc = "record" /\ window' = window /\ unit'.pc = "start"
      BY <2>10 DEF UnitRecords, TypeOK
    <3>2. gaps' \subseteq gaps \cup {[from |-> unit.at, to |-> now, by |-> "unit", lost |-> lost]}
      BY <2>10 DEF UnitRecords, Write
    <3>3. unit.at <= now' /\ Fair(unit.at, lost, "unit")
      BY <2>0, <2>2, <2>4, <3>1
    <3> QED
      BY <2>3, <2>5, <3>1, <3>2, <3>3
  <2>11. CASE WindowRecords
    <3>1. window.pc = "record" /\ UNCHANGED <<unit, lost>> /\ window'.pc = "open"
      BY <2>11 DEF WindowRecords, Open, Closed
    <3>2. gaps' \subseteq gaps \cup
            {[from |-> window.at, to |-> now, by |-> "window", lost |-> window.lost]}
      BY <2>11 DEF WindowRecords, Write
    <3>3. window.at <= now' /\ Fair(window.at, window.lost, "window")
      BY <2>0, <2>2, <2>5, <3>1
    <3> QED
      BY <2>3, <2>4, <3>1, <3>2, <3>3
  <2>12. CASE Fire \/ UnitStarts \/ UnitFinishes \/ UnitFails \/ Tick \/ SwitchOff
    <3>1. gaps' = gaps
      BY <2>12 DEF Fire, UnitStarts, UnitFinishes, UnitFails, Tick, SwitchOff
    <3>2. unit'.pc # "record"
      <4>1. CASE Fire \/ UnitFinishes \/ UnitFails \/ SwitchOff
        BY <4>1 DEF Fire, UnitFinishes, UnitFails, SwitchOff, Idle
      <4>2. CASE UnitStarts
        BY <4>2 DEF UnitStarts, TypeOK
      <4>3. CASE Tick
        BY <4>3 DEF Tick, Quiet, TypeOK
      <4> QED
        BY <2>12, <4>1, <4>2, <4>3
    <3>3. window'.pc # "record" \/ window' = window
      BY <2>12 DEF Fire, UnitStarts, UnitFinishes, UnitFails, Tick, SwitchOff, Closed
    <3> QED
      BY <2>3, <2>5, <3>1, <3>2, <3>3
  <2>13. CASE Sleep \/ Wake \/ Login \/ ManualTest \/ UNCHANGED vars \/ OpenWindow \/ CloseWindow
           \/ \E on \in BOOLEAN, i \in Interval : SetSchedule(on, i)
    <3>1. UNCHANGED <<gaps, unit, lost>>
      BY <2>13 DEF Sleep, Wake, Login, ManualTest, vars, SetSchedule, OpenWindow, CloseWindow
    <3>2. window'.pc # "record" \/ window' = window
      BY <2>13 DEF Sleep, Wake, Login, ManualTest, vars, SetSchedule, OpenWindow, CloseWindow,
         Closed, TypeOK
    <3> QED
      BY <2>3, <2>4, <2>5, <3>1, <3>2
  <2>14. CASE \E left \in SUBSET gaps, latest \in Record : Delete(left, latest)
    <3>1. gaps' \subseteq gaps /\ UNCHANGED <<unit, window, lost>>
      BY <2>14 DEF Delete
    <3> QED
      BY <2>3, <2>4, <2>5, <3>1
  <2> QED
    BY <2>8, <2>9, <2>10, <2>11, <2>12, <2>13, <2>14 DEF Next, UnitStep, WindowStep, World
<1> QED
  BY <1>1, <1>2, TypeCorrect, PastHolds, PauseHolds, PaceHolds, PTL DEF Spec

\* An interruption is recorded only for a time in which the timer was not counting or
\* was set anew, or after scheduled commands that left no record (one for the window,
\* two in a row for the command), if two of the longest tests fit into the gap.
THEOREM NoneInvented == Spec => []NoFalseAlarm
<1>1. TypeOK /\ AlarmInv => NoFalseAlarm
  <2> SUFFICES ASSUME TypeOK, AlarmInv, Roomy, NEW g \in gaps
               PROVE  broken >= g.from \/ g.lost >= IF g.by = "unit" THEN 2 ELSE 1
    BY DEF NoFalseAlarm, Roomy
  <2>1. g.from \in Int /\ broken \in Int
    BY DEF TypeOK, Times
  <2> QED
    BY <2>1 DEF AlarmInv, Steady, Excuse
<1> QED
  BY <1>1, TypeCorrect, AlarmHolds, PTL

-----------------------------------------------------------------------------
(* Explained before it is hidden.                                          *)

\* What the newest record is at the time a test starts.
Explained(t) ==
  newest.kind # "attempt" \/ t - newest.at <= ExpectedGap(interval) \/ changed >= t

\* The check leaves nothing unexplained unless its insert fails, and what comes
\* between it and the test's own record does not either.
HoleInv ==
  /\ unit.pc = "check" => auto \/ changed = now
  /\ unit.pc = "start" => Explained(now) \/ unit.failed
  /\ unit.pc = "testing" /\ newest.at <= unit.at => Explained(unit.at) \/ unit.failed

LEMMA HoleHolds == Spec => []HoleInv
<1>1. Init => HoleInv
  BY DEF Init, HoleInv, Idle
<1>2. TypeOK /\ TypeOK' /\ PastInv /\ PauseInv /\ HoleInv /\ [Next]_vars => HoleInv'
  <2> SUFFICES ASSUME TypeOK, TypeOK', PastInv, PauseInv, HoleInv, [Next]_vars PROVE HoleInv'
    OBVIOUS
  <2>0. /\ now \in Int /\ unit.at \in Int /\ newest.at \in Int /\ changed \in Int
        /\ changed' \in Int /\ unit.at <= now /\ newest.at <= now /\ changed <= now
        /\ interval \in Nat /\ interval' \in Nat /\ Slack \in Nat
    BY InterruptionAssumption DEF TypeOK, Record, Nothing, Times, PastInv, PauseInv
  <2> USE <2>0 DEF schedule, history
  <2>1. CASE Fire
    BY <2>1, InterruptionAssumption DEF Fire, Due, HoleInv, PauseInv, Idle, TypeOK
  <2>2. CASE UnitChecks
    <3>1. unit.pc = "check" /\ UNCHANGED <<now, interval, newest, changed>>
      BY <2>2 DEF UnitChecks
    <3>2. unit'.pc \in {"record", "start"} /\ (unit'.pc = "start" => ~Missed)
      BY <2>2 DEF UnitChecks, TypeOK
    <3>3. ~Missed => Explained(now)
      BY <3>1 DEF HoleInv, Missed, Explained, ExpectedGap
    <3> QED
      BY <3>1, <3>2, <3>3 DEF HoleInv, Explained
  <2>3. CASE UnitStarts
    BY <2>3 DEF UnitStarts, HoleInv, Explained, TypeOK
  <2>12. CASE (UnitRecords \/ WindowRecords) /\ newest' = newest
    <3>1. UNCHANGED <<now, auto, interval, changed>>
      BY <2>12 DEF UnitRecords, WindowRecords
    <3>2. unit' = unit \/ (unit.pc = "record" /\ unit'.pc = "start"
                           /\ (unit'.failed \/ newest'.kind = "recovery"))
      <4>1. CASE WindowRecords
        BY <4>1 DEF WindowRecords
      <4>2. CASE UnitRecords /\ Write(unit.at, "unit", lost)
        <5>1. newest'.kind = "recovery"
          BY <4>2 DEF Write, Insert
        <5> QED
          BY <4>2, <5>1 DEF UnitRecords, TypeOK
      <4>3. CASE UnitRecords /\ unit' = [unit EXCEPT !.pc = "start", !.failed = TRUE]
        BY <4>3 DEF UnitRecords, TypeOK
      <4> QED
        BY <2>12, <4>1, <4>2, <4>3 DEF UnitRecords
    <3> QED
      BY <2>12, <3>1, <3>2 DEF HoleInv, Explained
  <2>4. CASE (UnitRecords \/ WindowRecords \/ ManualTest) /\ newest'.at = now
    <3>1. newest'.at = now /\ UNCHANGED <<now, interval, changed>>
      BY <2>4 DEF UnitRecords, WindowRecords, ManualTest
    <3>2. \A t \in Int : newest'.at <= t /\ t <= now => Explained(t)'
      BY <3>1 DEF Explained, ExpectedGap
    <3>3. unit'.at = unit.at /\ unit'.pc \in {unit.pc, "start"}
      BY <2>4 DEF UnitRecords, WindowRecords, ManualTest, TypeOK
    <3>4. unit'.pc = "check" => unit.pc = "check" /\ auto' = auto
      BY <2>4, <3>3 DEF UnitRecords, WindowRecords, ManualTest
    <3>5. Explained(now)' /\ (newest'.at <= unit.at => Explained(unit.at)')
      BY <3>1, <3>2, <3>3 DEF Explained
    <3> QED
      BY <3>1, <3>3, <3>4, <3>5 DEF HoleInv, Explained
  <2>13. CASE UnitRecords \/ WindowRecords \/ ManualTest
    <3>1. (newest' = newest /\ ~ManualTest) \/ newest'.at = now
      BY <2>13 DEF UnitRecords, WindowRecords, ManualTest, Write, Insert
    <3> QED
      BY <2>4, <2>12, <2>13, <3>1
  <2>5. CASE UnitFinishes \/ UnitFails \/ SwitchOff
    BY <2>5 DEF UnitFinishes, UnitFails, SwitchOff, Idle, HoleInv
  <2>6. CASE WindowChecks \/ CloseWindow \/ Sleep \/ Wake \/ Login
    BY <2>6 DEF WindowChecks, CloseWindow, Sleep, Wake, Login, HoleInv, Explained
  <2>7. CASE OpenWindow
    <3>1. UNCHANGED <<now, auto, interval, unit, newest>> /\ changed' \in {changed, now}
      BY <2>7 DEF OpenWindow
    <3> QED
      BY <3>1 DEF HoleInv, Explained
  <2>8. ASSUME NEW on \in BOOLEAN, NEW i \in Interval, SetSchedule(on, i) PROVE HoleInv'
    BY <2>8 DEF SetSchedule, HoleInv, Explained
  <2>9. CASE Tick
    <3>1. /\ unit.pc \in {"idle", "testing"} /\ unit'.pc = unit.pc /\ unit'.at = unit.at
          /\ unit'.failed = unit.failed
          /\ UNCHANGED <<interval, newest, changed>>
      BY <2>9 DEF Tick, Quiet, TypeOK
    <3> QED
      BY <3>1 DEF HoleInv, Explained
  <2>10. CASE UNCHANGED vars
    BY <2>10 DEF vars, HoleInv, Explained
  <2>11. ASSUME NEW left \in SUBSET gaps, NEW latest \in Record, Delete(left, latest)
         PROVE  HoleInv'
    BY <2>11, DeleteBack DEF HoleInv, Explained
  <2> QED
    BY <2>1, <2>2, <2>3, <2>5, <2>6, <2>7, <2>8, <2>9, <2>10, <2>11, <2>13
    DEF Next, UnitStep, WindowStep, World
<1> QED
  BY <1>1, <1>2, TypeCorrect, PastHolds, PauseHolds, PTL DEF Spec

\* A scheduled test finds the record before its own recent or an explanation, unless
\* the explanation could not be inserted.
THEOREM HolesAreExplained == Spec => HoleExplained
<1> DEFINE Step ==
      unit.pc = "testing" /\ unit'.pc = "idle" /\ newest' # newest /\ changed < unit.at
        /\ ~unit.failed => newest.kind # "attempt" \/ newest'.at - newest.at <= ExpectedGap(interval)
<1>1. TypeOK /\ HoleInv /\ [Next]_vars => [Step]_vars
  <2> SUFFICES ASSUME TypeOK, HoleInv, Next, unit.pc = "testing", unit'.pc = "idle",
                      newest' # newest, changed < unit.at, ~unit.failed
               PROVE  newest.kind # "attempt" \/ newest'.at - newest.at <= ExpectedGap(interval)
    OBVIOUS
  <2>1. UnitFinishes
    BY DEF Next, UnitStep, WindowStep, World, Fire, UnitChecks, UnitRecords, UnitStarts,
       UnitFails, OpenWindow, WindowChecks, WindowRecords, CloseWindow, SetSchedule, Delete, Tick, Sleep, Wake,
       SwitchOff, Login, ManualTest, history, TypeOK
  <2>2. newest'.at = unit.at /\ newest.at <= unit.at
    BY <2>1 DEF UnitFinishes, Insert
  <2>3. Explained(unit.at) /\ unit.at \in Int /\ changed \in Int
    BY <2>2 DEF HoleInv, TypeOK, Times
  <2> QED
    BY <2>2, <2>3 DEF Explained
<1> QED
  BY <1>1, TypeCorrect, HoleHolds, PTL DEF Spec, HoleExplained
=============================================================================
