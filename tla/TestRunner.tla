------------------------------ MODULE TestRunner ------------------------------
(***************************************************************************)
(* core/test_runner.py: one speed test, from the call of run_test to the   *)
(* stored record.  An element of Attempt is one call of run_test, made by  *)
(* the worker thread of the window (Click), by the command that the        *)
(* systemd timer starts (Service), or by the same command typed by the     *)
(* user (the rest).  The calls share the advisory file lock; each has its  *)
(* own engine process, which may start a helper.                           *)
(*                                                                         *)
(* The engine, the helper, the user and the death of a process are the     *)
(* environment: they may act at any time and need not act at all.          *)
(***************************************************************************)
EXTENDS Naturals, FiniteSets

CONSTANTS Attempt,  \* the calls of run_test
          Click,    \* those made by the window's worker thread
          Service,  \* those made by the unit the timer starts
          Prober,   \* the callers of is_test_running
          NoOne,    \* the lock is free
          Faults    \* which of "crash", "unreadable" and "undecodable" may happen

ASSUME CallersAssumption ==
  /\ Click \subseteq Attempt /\ Service \subseteq Attempt
  /\ Click \cap Service = {}
  /\ Attempt \cap Prober = {}
  /\ NoOne \notin Attempt \cup Prober
  /\ Faults \subseteq {"crash", "unreadable", "undecodable"}

VARIABLES
  pc,        \* where each call of run_test is
  lock,      \* who holds test-runner.lock
  leader,    \* the engine process: what the kernel knows of it
  code,      \* how the engine exited
  helper,    \* TRUE while a process the engine started is alive
  tracked,   \* TRUE while runner._process is this call's engine
  cpc,       \* where a concurrent cancel() of this call is
  cancelled, \* runner._cancelled
  timedOut,  \* the local timed_out of _spawn
  verdict,   \* the status of the record being built
  rows,      \* the table test_runs
  reply      \* RunOutcome.stored, as the caller sees it

callVars   == <<pc, timedOut, verdict>>
engineVars == <<leader, code, helper>>
cancelVars == <<tracked, cpc, cancelled>>
dbVars     == <<rows, reply>>
vars       == <<callVars, lock, engineVars, cancelVars, dbVars>>

-----------------------------------------------------------------------------

Status == {"success", "failed", "timeout", "cancelled", "skipped"}
Row    == [of : Attempt, status : Status]

Over   == {"returned", "raised", "dead"}
InTest == {"preparing", "spawned", "waiting", "stopping", "draining",
           "clearing", "classifying"}
PC     == {"idle", "entering", "storing", "leaving"} \cup InTest \cup Over

RowsOf(a) == {r \in rows : r.of = a}

\* communicate() returns when every writer of the pipes has closed them and
\* the engine has exited.
Eof(a) == leader[a] # "alive" /\ ~helper[a]

Running(a) == pc[a] \notin {"idle"} \cup Over

\* The window starts a worker only when the previous thread has ended; systemd
\* runs one instance of a oneshot unit, and only once its processes are gone.
MayCall(a) ==
  /\ a \in Click => \A b \in Click : ~Running(b)
  /\ a \in Service =>
       \A b \in Service : ~Running(b) /\ leader[b] # "alive" /\ ~helper[b]

Goto(a, place) == pc' = [pc EXCEPT ![a] = place]

\* Both processes of the group are gone, and unreaped unless already reaped.
KillGroup(a) ==
  /\ leader' = [leader EXCEPT ![a] = IF @ = "alive" THEN "zombie" ELSE @]
  /\ code'   = [code EXCEPT ![a] = IF leader[a] = "alive" THEN "nonzero" ELSE @]
  /\ helper' = [helper EXCEPT ![a] = FALSE]

Reap(a) ==
  /\ leader' = [leader EXCEPT ![a] = "reaped"]
  /\ UNCHANGED <<code, helper>>

Init ==
  /\ pc        = [a \in Attempt |-> "idle"]
  /\ lock      = NoOne
  /\ leader    = [a \in Attempt |-> "none"]
  /\ code      = [a \in Attempt |-> "unknown"]
  /\ helper    = [a \in Attempt |-> FALSE]
  /\ tracked   = [a \in Attempt |-> FALSE]
  /\ cpc       = [a \in Attempt |-> "idle"]
  /\ cancelled = [a \in Attempt |-> FALSE]
  /\ timedOut  = [a \in Attempt |-> FALSE]
  /\ verdict   = [a \in Attempt |-> "none"]
  /\ rows      = {}
  /\ reply     = [a \in Attempt |-> "none"]

-----------------------------------------------------------------------------
(* run_test: entry and the lock.                                           *)

Enter(a) ==
  /\ pc[a] = "idle"
  /\ MayCall(a)
  /\ Goto(a, "entering")
  /\ cancelled' = [cancelled EXCEPT ![a] = FALSE]
  /\ UNCHANGED <<timedOut, verdict, lock, engineVars, tracked, cpc, dbVars>>

\* Mutant: a shared lock (LOCK_SH).
TakeLockShared(a) ==
  /\ pc[a] = "entering"
  /\ lock' = a
  /\ Goto(a, "preparing")
  /\ UNCHANGED <<timedOut, verdict, engineVars, cancelVars, dbVars>>

TakeLock(a) ==
  /\ pc[a] = "entering"
  /\ lock = NoOne
  /\ lock' = a
  /\ Goto(a, "preparing")
  /\ UNCHANGED <<timedOut, verdict, engineVars, cancelVars, dbVars>>

\* Mutant: the skipped call is not recorded.
FindBusySilently(a) ==
  /\ pc[a] = "entering"
  /\ lock # NoOne
  /\ Goto(a, "leaving")
  /\ UNCHANGED <<timedOut, verdict, lock, engineVars, cancelVars, dbVars>>

\* Mutant: the skipped call is recorded as a failed measurement.
FindBusyFails(a) ==
  /\ pc[a] = "entering"
  /\ lock # NoOne
  /\ verdict' = [verdict EXCEPT ![a] = "failed"]
  /\ Goto(a, "storing")
  /\ UNCHANGED <<timedOut, lock, engineVars, cancelVars, dbVars>>

\* flock would block: a skipped record, whoever holds the lock.
FindBusy(a) ==
  /\ pc[a] = "entering"
  /\ lock # NoOne
  /\ verdict' = [verdict EXCEPT ![a] = "skipped"]
  /\ Goto(a, "storing")
  /\ UNCHANGED <<timedOut, lock, engineVars, cancelVars, dbVars>>

\* The lock file cannot be opened or locked: no one catches OSError.
LockRaises(a) ==
  /\ "unreadable" \in Faults
  /\ pc[a] = "entering"
  /\ verdict' = [verdict EXCEPT ![a] = "raise"]
  /\ Goto(a, "raised")
  /\ UNCHANGED <<timedOut, lock, engineVars, cancelVars, dbVars>>

-----------------------------------------------------------------------------
(* _execute and _spawn: the engine.                                        *)

\* No engine is installed, its command cannot be built, or Popen fails.
NoEngine(a) ==
  /\ pc[a] = "preparing"
  /\ verdict' = [verdict EXCEPT ![a] = "failed"]
  /\ Goto(a, "storing")
  /\ UNCHANGED <<timedOut, lock, engineVars, cancelVars, dbVars>>

\* A setting cannot be read: sqlite3.Error is not a DatabaseError and no one
\* catches it.
ReadRaises(a) ==
  /\ "unreadable" \in Faults
  /\ pc[a] = "preparing"
  /\ verdict' = [verdict EXCEPT ![a] = "raise"]
  /\ Goto(a, "leaving")
  /\ UNCHANGED <<timedOut, lock, engineVars, cancelVars, dbVars>>

Spawn(a) ==
  /\ pc[a] = "preparing"
  /\ leader' = [leader EXCEPT ![a] = "alive"]
  /\ \E h \in BOOLEAN : helper' = [helper EXCEPT ![a] = h]
  /\ Goto(a, "spawned")
  /\ UNCHANGED <<timedOut, verdict, lock, code, cancelVars, dbVars>>

Publish(a) ==
  /\ pc[a] = "spawned"
  /\ tracked' = [tracked EXCEPT ![a] = TRUE]
  /\ Goto(a, "waiting")
  /\ UNCHANGED <<timedOut, verdict, lock, engineVars, cpc, cancelled, dbVars>>

\* Either communicate() gets the whole output.
Answer(a) ==
  /\ pc[a] \in {"waiting", "draining"}
  /\ Eof(a)
  /\ Reap(a)
  /\ Goto(a, "clearing")
  /\ UNCHANGED <<timedOut, verdict, lock, cancelVars, dbVars>>

\* The same, but the output is not UTF-8: text=True makes communicate raise.
Undecodable(a) ==
  /\ "undecodable" \in Faults
  /\ pc[a] \in {"waiting", "draining"}
  /\ Eof(a)
  /\ Reap(a)
  /\ verdict' = [verdict EXCEPT ![a] = "raise"]
  /\ Goto(a, "clearing")
  /\ UNCHANGED <<timedOut, lock, cancelVars, dbVars>>

\* SIGTERM asks; what the engine and the helper make of it is their affair.
TimesOut(a) ==
  /\ pc[a] = "waiting"
  /\ timedOut' = [timedOut EXCEPT ![a] = TRUE]
  /\ Goto(a, "stopping")
  /\ UNCHANGED <<verdict, lock, engineVars, cancelVars, dbVars>>

\* poll() of _stop_process: only the engine itself is looked at.
SeesExit(a) ==
  /\ pc[a] = "stopping"
  /\ leader[a] # "alive"
  /\ Reap(a)
  /\ Goto(a, "draining")
  /\ UNCHANGED <<timedOut, verdict, lock, cancelVars, dbVars>>

\* Mutant: SIGTERM is not followed by SIGKILL.
GraceOverNoKill(a) ==
  /\ pc[a] = "stopping"
  /\ leader[a] # "reaped"
  /\ Goto(a, "draining")
  /\ UNCHANGED <<timedOut, verdict, lock, engineVars, cancelVars, dbVars>>

GraceOver(a) ==
  /\ pc[a] = "stopping"
  /\ leader[a] # "reaped"
  /\ KillGroup(a)
  /\ Goto(a, "draining")
  /\ UNCHANGED <<timedOut, verdict, lock, cancelVars, dbVars>>

\* Mutant: the second communicate() has no timeout.
DrainForever(a) == FALSE

DrainTimesOut(a) ==
  /\ pc[a] = "draining"
  /\ ~Eof(a)
  /\ Goto(a, "clearing")
  /\ UNCHANGED <<timedOut, verdict, lock, engineVars, cancelVars, dbVars>>

\* Mutant: the finally does not take _process_lock.
ClearUnlocked(a) ==
  /\ pc[a] = "clearing"
  /\ tracked' = [tracked EXCEPT ![a] = FALSE]
  /\ Goto(a, IF verdict[a] = "raise" THEN "leaving" ELSE "classifying")
  /\ UNCHANGED <<timedOut, verdict, lock, engineVars, cpc, cancelled, dbVars>>

\* The finally of _spawn, which waits for _process_lock.
Clear(a) ==
  /\ pc[a] = "clearing"
  /\ cpc[a] \in {"idle", "told"}
  /\ tracked' = [tracked EXCEPT ![a] = FALSE]
  /\ Goto(a, IF verdict[a] = "raise" THEN "leaving" ELSE "classifying")
  /\ UNCHANGED <<timedOut, verdict, lock, engineVars, cpc, cancelled, dbVars>>

\* Mutant: the exit status is looked at before the two flags.
FatesExitFirst(a) ==
  IF code[a] = "zero" THEN {"success", "failed"}
  ELSE IF cancelled[a] THEN {"cancelled"}
  ELSE IF timedOut[a] THEN {"timeout"} ELSE {"failed"}

Fates(a) ==
  IF cancelled[a] THEN {"cancelled"}
  ELSE IF timedOut[a] THEN {"timeout"}
  ELSE IF code[a] # "zero" THEN {"failed"}
  ELSE {"success", "failed"}  \* parse_output may reject the text

Classify(a) ==
  /\ pc[a] = "classifying"
  /\ \E s \in Fates(a) : verdict' = [verdict EXCEPT ![a] = s]
  /\ Goto(a, "storing")
  /\ UNCHANGED <<timedOut, lock, engineVars, cancelVars, dbVars>>

-----------------------------------------------------------------------------
(* _store, the end of the with block, and the return.                      *)

Store(a) ==
  /\ pc[a] = "storing"
  /\ Goto(a, "leaving")
  /\ \/ /\ rows'  = rows \cup {[of |-> a, status |-> verdict[a]]}
        /\ reply' = [reply EXCEPT ![a] = "stored"]
     \/ /\ reply' = [reply EXCEPT ![a] = "unsaved"]  \* DatabaseError
        /\ UNCHANGED rows
  /\ UNCHANGED <<timedOut, verdict, lock, engineVars, cancelVars>>

\* Mutant: the lock is not released in a finally.
LeaveHoldingOnRaise(a) ==
  /\ pc[a] = "leaving"
  /\ lock' = IF lock = a /\ verdict[a] # "raise" THEN NoOne ELSE lock
  /\ Goto(a, IF verdict[a] = "raise" THEN "raised" ELSE "returned")
  /\ UNCHANGED <<timedOut, verdict, engineVars, cancelVars, dbVars>>

Leave(a) ==
  /\ pc[a] = "leaving"
  /\ lock' = IF lock = a THEN NoOne ELSE lock
  /\ Goto(a, IF verdict[a] = "raise" THEN "raised" ELSE "returned")
  /\ UNCHANGED <<timedOut, verdict, engineVars, cancelVars, dbVars>>

-----------------------------------------------------------------------------
(* cancel() and is_running, in another thread of the same process.         *)

\* _process_lock is taken and poll() says that the engine still runs.
CancelChecks(a) ==
  /\ a \in Click
  /\ cpc[a] = "idle"
  /\ tracked[a] /\ leader[a] = "alive"
  /\ cpc' = [cpc EXCEPT ![a] = "checked"]
  /\ UNCHANGED <<callVars, lock, engineVars, tracked, cancelled, dbVars>>

\* poll() finds that the engine has exited, and reaps it: cancel returns False.
CancelTooLate(a) ==
  /\ a \in Click
  /\ cpc[a] = "idle"
  /\ tracked[a] /\ leader[a] = "zombie"
  /\ Reap(a)
  /\ UNCHANGED <<callVars, lock, cancelVars, dbVars>>

CancelMarks(a) ==
  /\ cpc[a] = "checked"
  /\ cancelled' = [cancelled EXCEPT ![a] = TRUE]
  /\ cpc' = [cpc EXCEPT ![a] = "stopping"]
  /\ UNCHANGED <<callVars, lock, engineVars, tracked, dbVars>>

\* _stop_process ends, _process_lock is released and cancel returns True.
CancelSeesExit(a) ==
  /\ cpc[a] = "stopping"
  /\ leader[a] # "alive"
  /\ Reap(a)
  /\ cpc' = [cpc EXCEPT ![a] = "told"]
  /\ UNCHANGED <<callVars, lock, tracked, cancelled, dbVars>>

CancelGraceOver(a) ==
  /\ cpc[a] = "stopping"
  /\ leader[a] # "reaped"
  /\ KillGroup(a)
  /\ cpc' = [cpc EXCEPT ![a] = "told"]
  /\ UNCHANGED <<callVars, lock, tracked, cancelled, dbVars>>

\* is_running, at each refresh of the window: poll() again, under the same
\* _process_lock, and it may be what reaps the engine.
IsRunning(a) ==
  /\ a \in Click
  /\ cpc[a] \in {"idle", "told"}
  /\ tracked[a] /\ leader[a] = "zombie"
  /\ Reap(a)
  /\ UNCHANGED <<callVars, lock, cancelVars, dbVars>>

-----------------------------------------------------------------------------
(* is_test_running: takes the very lock it asks about, and gives it back.   *)
(* When the lock is held it changes nothing.                               *)

ProbeTakes(p) ==
  /\ lock = NoOne
  /\ lock' = p
  /\ UNCHANGED <<callVars, engineVars, cancelVars, dbVars>>

ProbeReleases(p) ==
  /\ lock = p
  /\ lock' = NoOne
  /\ UNCHANGED <<callVars, engineVars, cancelVars, dbVars>>

-----------------------------------------------------------------------------
(* The environment.                                                        *)

EngineExits(a) ==
  /\ leader[a] = "alive"
  /\ leader' = [leader EXCEPT ![a] = "zombie"]
  /\ \E c \in {"zero", "nonzero"} : code' = [code EXCEPT ![a] = c]
  /\ UNCHANGED <<callVars, lock, helper, cancelVars, dbVars>>

HelperExits(a) ==
  /\ helper[a]
  /\ helper' = [helper EXCEPT ![a] = FALSE]
  /\ UNCHANGED <<callVars, lock, leader, code, cancelVars, dbVars>>

\* The calling process dies, or the window is closed while its daemon thread
\* is still in run_test.  The kernel drops the lock.  The engine lives in a
\* session of its own; only systemd, which owns the unit's processes, kills it.
Crash(a) ==
  /\ "crash" \in Faults
  /\ Running(a)
  /\ Goto(a, "dead")
  /\ lock' = IF lock = a THEN NoOne ELSE lock
  /\ tracked' = [tracked EXCEPT ![a] = FALSE]
  /\ cpc' = [cpc EXCEPT ![a] = "idle"]
  /\ IF a \in Service THEN KillGroup(a) ELSE UNCHANGED engineVars
  /\ UNCHANGED <<timedOut, verdict, cancelled, dbVars>>

\* KillMode=control-group: what a finished unit left behind is killed.
UnitStops(a) ==
  /\ a \in Service
  /\ pc[a] \in Over
  /\ helper[a]
  /\ KillGroup(a)
  /\ UNCHANGED <<callVars, lock, cancelVars, dbVars>>

-----------------------------------------------------------------------------

Runner(a) ==
  \/ TakeLock(a) \/ FindBusy(a) \/ LockRaises(a)
  \/ NoEngine(a) \/ ReadRaises(a) \/ Spawn(a) \/ Publish(a)
  \/ Answer(a) \/ Undecodable(a) \/ TimesOut(a)
  \/ SeesExit(a) \/ GraceOver(a) \/ DrainTimesOut(a)
  \/ Clear(a) \/ Classify(a) \/ Store(a) \/ Leave(a)

Canceller(a) ==
  \/ CancelChecks(a) \/ CancelTooLate(a) \/ CancelMarks(a)
  \/ CancelSeesExit(a) \/ CancelGraceOver(a) \/ IsRunning(a)

Environment(a) ==
  \/ Enter(a) \/ EngineExits(a) \/ HelperExits(a) \/ Crash(a) \/ UnitStops(a)

Next ==
  \/ \E a \in Attempt : Runner(a) \/ Canceller(a) \/ Environment(a)
  \/ \E p \in Prober : ProbeTakes(p) \/ ProbeReleases(p)

Spec == Init /\ [][Next]_vars

\* Threads that can run do run, and the clocks of communicate() and of the
\* grace period advance.  Nothing is assumed of the engine, of the helper or
\* of the user.
Fairness ==
  /\ \A a \in Attempt : WF_vars(Runner(a))
  /\ \A a \in Attempt :
       WF_vars(CancelMarks(a) \/ CancelSeesExit(a) \/ CancelGraceOver(a))
  /\ \A p \in Prober : WF_vars(ProbeReleases(p))

FairSpec == Spec /\ Fairness

-----------------------------------------------------------------------------
(* Properties.                                                             *)

\* Every variable keeps to the values the code gives it.
TypeOK ==
  /\ pc \in [Attempt -> PC]
  /\ lock \in Attempt \cup Prober \cup {NoOne}
  /\ leader \in [Attempt -> {"none", "alive", "zombie", "reaped"}]
  /\ code \in [Attempt -> {"unknown", "zero", "nonzero"}]
  /\ helper \in [Attempt -> BOOLEAN]
  /\ tracked \in [Attempt -> BOOLEAN]
  /\ cpc \in [Attempt -> {"idle", "checked", "stopping", "told"}]
  /\ cancelled \in [Attempt -> BOOLEAN]
  /\ timedOut \in [Attempt -> BOOLEAN]
  /\ verdict \in [Attempt -> Status \cup {"none", "raise"}]
  /\ rows \subseteq Row
  /\ reply \in [Attempt -> {"none", "stored", "unsaved"}]

\* Of all the calls, in whatever processes, at most one is inside a test, and
\* it keeps the lock until its own engine has been dealt with.
OneTestAtATime ==
  \A a, b \in Attempt : pc[a] \in InTest /\ pc[b] \in InTest => a = b

\* An engine runs only while its call holds the lock: every way out of _spawn,
\* the timeout, the cancellation and the exception included, leaves no engine
\* behind.  The one exception is an engine whose caller died under it.
EngineOnlyUnderLock ==
  \A a \in Attempt : leader[a] = "alive" => lock = a \/ pc[a] = "dead"

\* The status of a record is what happened to the engine: a success exited
\* with status 0 and nobody had asked it to stop; a failure was not a victim
\* of the timeout or of cancel(); a timeout did expire, cancel() or not.
StatusIsTrue ==
  \A r \in rows :
    LET a == r.of IN
    /\ r.status = "success" =>
         code[a] = "zero" /\ ~timedOut[a] /\ cpc[a] = "idle"
    /\ r.status = "failed" => ~timedOut[a] /\ cpc[a] = "idle"
    /\ r.status = "timeout" => timedOut[a] /\ cpc[a] = "idle"
    /\ r.status = "skipped" => leader[a] = "none"

\* cancel() returned True exactly when the record says cancelled.
CancelIsRecorded ==
  \A r \in rows :
    pc[r.of] # "dead" => (r.status = "cancelled" <=> cpc[r.of] = "told")

\* A call that returns has left exactly one record, or has told its caller that
\* the record could not be written and left none.
ReturnedIsAccounted ==
  \A a \in Attempt :
    pc[a] = "returned" =>
      IF reply[a] = "unsaved" THEN RowsOf(a) = {}
                              ELSE Cardinality(RowsOf(a)) = 1

\* Every call of run_test ends, whatever the engine does: it may never answer,
\* ignore SIGTERM, or leave a helper holding the pipes.
CallsEnd == \A a \in Attempt : (pc[a] = "entering") ~> (pc[a] \in Over)

\* Nobody keeps the lock for ever: a crashed test cannot wedge the scheduler.
LockComesFree == []<>(lock = NoOne)

-----------------------------------------------------------------------------
(* The lock, the engines and the threads implement the turns of TestLog.   *)

StageOf(a) ==
  CASE pc[a] = "idle"              -> "new"
    [] pc[a] = "returned"          -> "done"
    [] pc[a] = "entering"          -> "called"
    [] pc[a] \in {"raised", "dead"} -> "lost"
    [] OTHER                       -> IF lock = a THEN "testing" ELSE "refused"

Log == INSTANCE TestLog
         WITH Outcome <- Status \ {"skipped"}, Skipped <- "skipped",
              stage <- [a \in Attempt |-> StageOf(a)],
              asking <- lock \in Prober,
              log <- rows,
              told <- {a \in Attempt : reply[a] = "unsaved"}

\* Tests take turns, a call is turned away only while another tests or someone
\* asks about the lock, and each call that is answered has left one record, of a
\* kind its turn allows, or the news that nothing was saved.
TestsTakeTurns == Log!Spec

-----------------------------------------------------------------------------
(* What the documents say and the code does not do.                        *)

\* test_runner.py:10, "Every attempt is recorded"; the only thing that can
\* prevent a row is the database being unwritable.
EveryAttemptRecorded ==
  \A a \in Attempt :
    pc[a] \in Over => RowsOf(a) # {} \/ reply[a] = "unsaved"
=============================================================================
