----------------------------- MODULE Interruption -----------------------------
(***************************************************************************)
(* record_missed_window of core/scheduler.py: the scheduled command and    *)
(* the window compare the newest record with the clock and note that       *)
(* testing was interrupted.  Around it the timer, the sleep and the        *)
(* restarts of the computer, the tests and the schedule the user sets.     *)
(* A tick of the clock is a few minutes: what takes seconds takes no time. *)
(***************************************************************************)
EXTENDS Integers

CONSTANTS Interval, \* the intervals that can be set, in ticks
          Slack,    \* MISSED_RUN_SLACK
          Longest,  \* the longest test: the engine's timeout
          Horizon,  \* bound on the clock
          None      \* no timer, no activation

ASSUME InterruptionAssumption ==
  /\ Interval # {} /\ Interval \subseteq Nat \ {0}
  /\ Slack \in Nat /\ Longest \in Nat /\ Horizon \in Nat
  /\ None \notin Int

VARIABLES
  now,      \* the wall clock
  power,    \* of the computer; who is logged out is "off"
  auto, interval, \* the settings
  timer,    \* the ticks until the timer elapses, None while inactive
  since,    \* the ticks since the unit was last started, None if not since login
  unit,     \* the scheduled command
  window,   \* the window: where it is in its first checks
  newest,   \* latest_run(): the record with the greatest started_at
  gaps,     \* the interruptions on record
  \* What the properties have to know of the past:
  lost,     \* how many scheduled commands in a row have left no record since login,
            \* up to two
  changed,  \* when the user last set the schedule or deleted the newest record,
            \* or a window put the next test back
  broken,   \* when the pace was last broken: that, or the timer was not counting
  together  \* two calls of record_missed_window have overlapped

schedule == <<auto, interval, timer, since, changed>>
history  == <<newest, gaps, lost>>
vars     == <<now, power, schedule, unit, window, history, broken, together>>

Least(a, b) == IF a < b THEN a ELSE b

\* expected_gap
ExpectedGap(i) == 2 * i + Slack

Nothing == [at |-> 0, kind |-> "none"]  \* latest_run() of an empty history
Start   == [at |-> 0, kind |-> "attempt"]
\* unit.failed: the record of an interruption could not be inserted.
Idle    == [pc |-> "idle", at |-> 0, left |-> 0, failed |-> FALSE]
\* window.lost: what lost was when the interruption was found.
Closed  == [pc |-> "closed", at |-> 0, lost |-> 0]
Open    == [Closed EXCEPT !.pc = "open"]

Init ==
  /\ now = 0
  /\ power = "on"
  /\ auto = TRUE /\ interval \in Interval
  /\ timer = interval /\ since = 0
  /\ unit = Idle /\ window = Closed
  /\ newest \in {Start, Nothing} /\ gaps = {} /\ lost = 0
  /\ changed = -1 /\ broken = -1 /\ together = FALSE

-----------------------------------------------------------------------------
(* Records.                                                                *)

Times  == 0 .. Horizon
Record == [at : Times, kind : {"attempt", "recovery"}] \cup {Nothing}

\* Mutant: the newest record is the one with the greatest id.
InsertById(row) == newest' = row

\* A record becomes the newest unless one that started later is there.
Insert(row) == newest' = IF row.at >= newest.at THEN row ELSE newest

\* Mutant: one interval is gap enough.
MissedEarly == auto /\ now - newest.at > interval /\ newest.kind = "attempt"

\* What record_missed_window returns early for, and what it goes on with.
Missed ==
  /\ auto
  /\ now - newest.at > ExpectedGap(interval)
  /\ newest.kind = "attempt"

\* The interruption that is written, at the time it was found.
Write(from, who, unrecorded) ==
  /\ Insert([at |-> now, kind |-> "recovery"])
  /\ gaps' = gaps \cup {[from |-> from, to |-> now, by |-> who, lost |-> unrecorded]}

-----------------------------------------------------------------------------
(* The scheduled command.                                                  *)

Due == power = "on" /\ timer = 0 /\ unit.pc = "idle"

\* The timer counts anew from the start of the unit.
Fire ==
  /\ Due
  /\ unit' = [Idle EXCEPT !.pc = "check"]
  /\ timer' = interval /\ since' = 0
  /\ UNCHANGED <<now, power, auto, interval, changed, window, history, broken, together>>

\* Mutant: the scheduled command goes straight to its test.
UnitSkipsCheck ==
  /\ unit.pc = "check"
  /\ unit' = [unit EXCEPT !.pc = "start"]
  /\ UNCHANGED <<now, power, schedule, window, history, broken, together>>

UnitChecks ==
  /\ unit.pc = "check"
  /\ unit' = IF Missed THEN [unit EXCEPT !.pc = "record", !.at = newest.at]
                       ELSE [unit EXCEPT !.pc = "start"]
  /\ together' = (together \/ window.pc = "record")
  /\ UNCHANGED <<now, power, schedule, window, history, broken>>

\* An insert that fails is logged, and the command goes on to its test.
UnitRecords ==
  /\ unit.pc = "record"
  /\ \/ Write(unit.at, "unit", lost) /\ unit' = [unit EXCEPT !.pc = "start"]
     \/ UNCHANGED <<newest, gaps>> /\ unit' = [unit EXCEPT !.pc = "start", !.failed = TRUE]
  /\ UNCHANGED <<now, power, schedule, window, lost, broken, together>>

UnitStarts ==
  /\ unit.pc = "start"
  /\ unit' = [unit EXCEPT !.pc = "testing", !.at = now, !.left = Longest]
  /\ UNCHANGED <<now, power, schedule, window, history, broken, together>>

\* The record of a test is written when it ends and dated when it started.
UnitFinishes ==
  /\ power = "on"
  /\ unit.pc = "testing"
  /\ Insert([at |-> unit.at, kind |-> "attempt"])
  /\ unit' = Idle
  /\ lost' = 0
  /\ UNCHANGED <<now, power, schedule, window, gaps, broken, together>>

\* The command ends without a record: the database cannot be opened or read, the
\* test's row not inserted (_store logs it), an exception leaves run_test, or the
\* process is killed.
UnitFails ==
  /\ power = "on"
  /\ unit.pc # "idle"
  /\ unit' = Idle
  /\ lost' = IF lost = 0 THEN 1 ELSE 2
  /\ UNCHANGED <<now, power, schedule, window, newest, gaps, broken, together>>

\* A test of the user's own; here it takes no time.
ManualTest ==
  /\ power = "on"
  /\ Insert([at |-> now, kind |-> "attempt"])
  /\ UNCHANGED <<now, power, schedule, unit, window, gaps, lost, broken, together>>

-----------------------------------------------------------------------------
(* The window.                                                             *)

\* A timer that is started elapses an interval from then, or from the unit's
\* last start, whichever comes first.
Countdown(i) ==
  IF since = None THEN i ELSE Least(i, IF since < i THEN i - since ELSE 0)

\* do_activate asserts the schedule again; the checks come when the window is up.
\* Before the unit's first start since login this puts the next test back.
OpenWindow ==
  /\ power = "on"
  /\ window.pc = "closed"
  /\ window' = [window EXCEPT !.pc = "check"]
  /\ timer' = IF auto THEN Countdown(interval) ELSE None
  /\ IF timer # None /\ timer' # None /\ timer' > timer
       THEN changed' = now /\ broken' = now
       ELSE UNCHANGED <<changed, broken>>
  /\ UNCHANGED <<now, power, auto, interval, since, unit, history, together>>

\* A read that fails leaves the checks, and the window as it is.
WindowChecks ==
  /\ window.pc = "check"
  /\ \/ /\ window' = IF Missed THEN [pc |-> "record", at |-> newest.at, lost |-> lost] ELSE Open
        /\ together' = (together \/ unit.pc = "record")
     \/ window' = Open /\ together' = together
  /\ UNCHANGED <<now, power, schedule, unit, history, broken>>

\* An insert that fails is logged.
WindowRecords ==
  /\ window.pc = "record"
  /\ Write(window.at, "window", window.lost) \/ UNCHANGED <<newest, gaps>>
  /\ window' = Open
  /\ UNCHANGED <<now, power, schedule, unit, lost, broken, together>>

\* apply, with the switch and the interval as the user wants them.
SetSchedule(on, i) ==
  /\ power = "on"
  /\ window.pc = "open"
  /\ auto' = on /\ interval' = i
  /\ timer' = IF on THEN Countdown(i) ELSE None
  /\ changed' = now /\ broken' = now
  /\ UNCHANGED <<now, power, since, unit, window, history, together>>

\* Records are deleted.  The newest that is left is an interruption still on
\* record or a test; of those that went before any may be left, and their dates
\* are not kept.
Delete(left, latest) ==
  /\ power = "on"
  /\ window.pc = "open"
  /\ latest.at <= newest.at /\ \A g \in left : g.to <= latest.at
  /\ latest.kind = "recovery" => \E g \in left : g.to = latest.at
  /\ gaps' = left /\ newest' = latest
  /\ IF latest = newest THEN UNCHANGED <<changed, broken>> ELSE changed' = now /\ broken' = now
  /\ UNCHANGED <<now, power, auto, interval, timer, since, unit, window, lost, together>>

CloseWindow ==
  /\ power = "on"
  /\ window.pc = "open"
  /\ window' = Closed
  /\ UNCHANGED <<now, power, schedule, unit, history, broken, together>>

-----------------------------------------------------------------------------
(* Time, sleep, and the session.                                           *)

\* Nobody is in the middle of a step that takes no time.
Quiet == unit.pc \in {"idle", "testing"} /\ window.pc \in {"closed", "open"}

Down(n) == IF n = 0 THEN 0 ELSE n - 1

\* What is more than every interval does not count.
Up(n) == IF \E i \in Interval : n < i THEN n + 1 ELSE n

Tick ==
  /\ now < Horizon
  /\ Quiet /\ ~Due
  /\ power = "on" /\ unit.pc = "testing" => unit.left > 0
  /\ now' = now + 1
  /\ IF power = "on"
       THEN /\ timer' = IF timer = None THEN None ELSE Down(timer)
            /\ since' = IF since = None THEN None ELSE Up(since)
            /\ unit' = [unit EXCEPT !.left = Down(@)]
       ELSE UNCHANGED <<timer, since, unit>>
  /\ broken' = IF power = "on" /\ timer # None THEN broken ELSE now'
  /\ UNCHANGED <<power, auto, interval, changed, window, history, together>>

\* The clocks of the timer and of a test stand still.
Sleep ==
  /\ power = "on" /\ Quiet
  /\ power' = "asleep"
  /\ UNCHANGED <<now, schedule, unit, window, history, broken, together>>

Wake ==
  /\ power = "asleep"
  /\ power' = "on"
  /\ UNCHANGED <<now, schedule, unit, window, history, broken, together>>

\* A test under way leaves no record.
SwitchOff ==
  /\ power # "off"
  /\ power' = "off"
  /\ unit' = Idle /\ window' = Closed
  /\ timer' = None /\ since' = None
  /\ broken' = now /\ lost' = 0
  /\ UNCHANGED <<now, auto, interval, changed, newest, gaps, together>>

\* The timer starts at login if it is to ("run after login").
Login ==
  /\ power = "off"
  /\ power' = "on"
  /\ timer' \in {IF auto THEN interval ELSE None, None}
  /\ UNCHANGED <<now, auto, interval, since, changed, unit, window, history, broken, together>>

-----------------------------------------------------------------------------

UnitStep   == Fire \/ UnitChecks \/ UnitRecords \/ UnitStarts \/ UnitFinishes \/ UnitFails
WindowStep ==
  \/ OpenWindow \/ WindowChecks \/ WindowRecords \/ CloseWindow
  \/ \E on \in BOOLEAN, i \in Interval : SetSchedule(on, i)
  \/ \E left \in SUBSET gaps, latest \in Record : Delete(left, latest)
World      == Tick \/ Sleep \/ Wake \/ SwitchOff \/ Login \/ ManualTest

Next == UnitStep \/ WindowStep \/ World

Spec == Init /\ [][Next]_vars

-----------------------------------------------------------------------------

TypeOK ==
  /\ now \in Times
  /\ power \in {"on", "asleep", "off"}
  /\ auto \in BOOLEAN /\ interval \in Interval
  /\ timer \in Nat \cup {None} /\ since \in Nat \cup {None}
  /\ unit \in [pc : {"idle", "check", "record", "start", "testing"}, at : Times, left : 0 .. Longest,
              failed : BOOLEAN]
  /\ window \in [pc : {"closed", "check", "record", "open"}, at : Times, lost : 0 .. 2]
  /\ newest \in Record /\ lost \in 0 .. 2
  /\ gaps \subseteq [from : Times, to : Times, by : {"unit", "window"}, lost : 0 .. 2]
  /\ {changed, broken} \subseteq Times \cup {-1}
  /\ together \in BOOLEAN

\* No two interruptions on record share a stretch of time, whatever has been deleted
\* and measured again since, and whichever inserts failed; except that the command
\* and the window, when they looked at the same moment, may each report what ended then.
OncePerGap ==
  \A g, h \in gaps :
    \/ g = h \/ g.to <= h.from \/ h.to <= g.from
    \/ together /\ g.by # h.by /\ g.to = h.to

\* As long as two tests of the longest kind fit into the gap allowed (the next
\* one starts late, and has no record while it runs), an interruption is
\* recorded only for a time in which the timer was not counting (the computer
\* off or asleep, the timer not started) or the countdown was set anew, across
\* records the user deleted, or after scheduled commands that left no record: one,
\* for a window that opens while the next test runs, and two in a row, for the
\* command itself.  Never because a test was slow, skipped, or made by hand.
NoFalseAlarm ==
  (\A i \in Interval : 2 * Longest <= ExpectedGap(i))
    => \A g \in gaps :
         \/ broken >= g.from
         \/ g.lost >= IF g.by = "unit" THEN 2 ELSE 1

\* What a scheduled test finds missing it has explained before its own record:
\* the newest record was no older than expected, or is the explanation, or there
\* was none; unless the user set the schedule or deleted records meanwhile, or the
\* insert of the explanation failed.
HoleExplained ==
  [][unit.pc = "testing" /\ unit'.pc = "idle" /\ newest' # newest /\ changed < unit.at
       /\ ~unit.failed
       => newest.kind # "attempt" \/ newest'.at - newest.at <= ExpectedGap(interval)]_vars

\* README.md:13, "A gap in the history always has a stated reason."
GapHasReason ==
  [][newest' # newest /\ newest.kind # "none" /\ newest'.kind = "attempt" /\ auto
       /\ changed <= newest.at
       => newest'.at - newest.at <= ExpectedGap(interval)]_vars
=============================================================================
