--------------------------- MODULE TestRunnerProofs ---------------------------
(***************************************************************************)
(* For any sets of calls, callers, probers and faults: TestRunner keeps    *)
(* its types, one test runs at a time, an engine runs only under the lock, *)
(* and every record tells the truth.                                       *)
(***************************************************************************)
EXTENDS TestRunner, FiniteSetTheorems, TLAPS

-----------------------------------------------------------------------------
(* The inductive invariant, in named parts.                                *)

\* Whoever is inside a test holds the lock, and keeps it until the record of
\* the test is stored; a skipped call never has it.
LockInv ==
  \A a \in Attempt :
    /\ pc[a] \in InTest => lock = a
    /\ pc[a] \in {"idle", "entering"} \cup Over => lock # a
    /\ pc[a] \in {"storing", "leaving"} => (lock = a <=> verdict[a] # "skipped")

\* Where a call may be while its engine is alive, or has not been started.
EngineInv ==
  \A a \in Attempt :
    /\ leader[a] = "alive" => pc[a] \in {"spawned", "waiting", "stopping", "dead"}
    /\ pc[a] \in {"idle", "entering", "preparing"} => leader[a] = "none"
    /\ pc[a] \in {"spawned", "waiting", "stopping", "draining", "clearing",
                  "classifying"} => leader[a] # "none"

\* While cancel() is at work the runner cannot get past the end of _spawn.
CancelInv ==
  \A a \in Attempt :
    /\ tracked[a] => pc[a] \in {"waiting", "stopping", "draining", "clearing"}
    /\ cpc[a] \in {"checked", "stopping"} => tracked[a]
    /\ cpc[a] = "told" => leader[a] # "none"
    /\ pc[a] # "dead" => (cancelled[a] <=> cpc[a] \in {"stopping", "told"})
    /\ pc[a] \in {"idle", "entering", "preparing", "spawned"} => cpc[a] = "idle"

\* timedOut is set on the way through the stop, and only there.
TimeoutInv ==
  \A a \in Attempt :
    /\ pc[a] \in {"idle", "entering", "preparing", "spawned", "waiting"} => ~timedOut[a]

\* What the status of a record says of its call.
Truth(a, s) ==
  /\ s = "success" =>
       code[a] = "zero" /\ ~timedOut[a] /\ cpc[a] = "idle" /\ leader[a] # "none"
  /\ s = "failed" => ~timedOut[a] /\ cpc[a] = "idle"
  /\ s = "timeout" => timedOut[a] /\ cpc[a] = "idle"
  /\ s = "skipped" => leader[a] = "none" /\ cpc[a] = "idle"
  /\ s = "cancelled" => leader[a] # "none" /\ (pc[a] # "dead" => cpc[a] = "told")

VerdictInv ==
  \A a \in Attempt :
    /\ pc[a] \in {"storing", "leaving", "returned"} => Truth(a, verdict[a])
    /\ pc[a] = "storing" => verdict[a] \in Status
    /\ pc[a] \in {"idle", "entering", "preparing", "spawned"} => verdict[a] = "none"

\* A record exists only for a call that has stored it.
RowInv ==
  /\ \A r \in rows : /\ Truth(r.of, r.status)
                     /\ pc[r.of] \in {"leaving", "returned", "dead"}
                     /\ leader[r.of] # "alive"
                     /\ verdict[r.of] = r.status
                     /\ reply[r.of] = "stored"
  /\ \A a \in Attempt :
       reply[a] # "none" =>
         pc[a] \in {"leaving", "returned", "dead"} /\ verdict[a] # "raise"

\* A call that leaves, unless an exception makes it leave, has its answer.
AnswerInv ==
  \A a \in Attempt :
    /\ pc[a] = "returned" => reply[a] # "none"
    /\ pc[a] = "leaving" => (reply[a] = "none" <=> verdict[a] = "raise")
    /\ reply[a] = "stored" => [of |-> a, status |-> verdict[a]] \in rows

IInv ==
  /\ TypeOK /\ LockInv /\ EngineInv /\ CancelInv /\ TimeoutInv
  /\ VerdictInv /\ RowInv /\ AnswerInv

-----------------------------------------------------------------------------

LEMMA InitIInv == Init => IInv
  BY CallersAssumption DEF Init, IInv, TypeOK, LockInv, EngineInv, CancelInv, TimeoutInv,
     VerdictInv, RowInv, AnswerInv, Truth, PC, InTest, Over, Status, Row

LEMMA GroupTypes ==
  ASSUME TypeOK, NEW a \in Attempt, KillGroup(a) \/ UNCHANGED engineVars
  PROVE  /\ leader' \in [Attempt -> {"none", "alive", "zombie", "reaped"}]
         /\ code' \in [Attempt -> {"unknown", "zero", "nonzero"}]
         /\ helper' \in [Attempt -> BOOLEAN]
<1>1. CASE KillGroup(a)
  BY <1>1 DEF TypeOK, KillGroup
<1>2. CASE UNCHANGED engineVars
  BY <1>2 DEF TypeOK, engineVars
<1> QED
  BY <1>1, <1>2

LEMMA NextIInv == IInv /\ [Next]_vars => IInv'
<1> SUFFICES ASSUME IInv, [Next]_vars PROVE IInv'
  OBVIOUS
<1> USE CallersAssumption DEF IInv, TypeOK, LockInv, EngineInv, CancelInv, TimeoutInv,
     VerdictInv, RowInv, AnswerInv, Truth, PC, InTest, Over, Status, Row, Goto, Reap, KillGroup,
     callVars, engineVars, cancelVars, dbVars
<1>1. ASSUME NEW a \in Attempt, Enter(a) PROVE IInv'
  BY <1>1 DEF Enter
<1>2. ASSUME NEW a \in Attempt, TakeLock(a) PROVE IInv'
  BY <1>2 DEF TakeLock
<1>3. ASSUME NEW a \in Attempt, FindBusy(a) PROVE IInv'
  BY <1>3 DEF FindBusy
<1>31. ASSUME NEW a \in Attempt, LockRaises(a) PROVE IInv'
  BY <1>31 DEF LockRaises
<1>4. ASSUME NEW a \in Attempt, NoEngine(a) PROVE IInv'
  BY <1>4 DEF NoEngine
<1>5. ASSUME NEW a \in Attempt, ReadRaises(a) PROVE IInv'
  BY <1>5 DEF ReadRaises
<1>6. ASSUME NEW a \in Attempt, Spawn(a) PROVE IInv'
  BY <1>6 DEF Spawn
<1>7. ASSUME NEW a \in Attempt, Publish(a) PROVE IInv'
  BY <1>7 DEF Publish
<1>8. ASSUME NEW a \in Attempt, Answer(a) PROVE IInv'
  BY <1>8 DEF Answer
<1>9. ASSUME NEW a \in Attempt, Undecodable(a) PROVE IInv'
  BY <1>9 DEF Undecodable
<1>10. ASSUME NEW a \in Attempt, TimesOut(a) PROVE IInv'
  BY <1>10 DEF TimesOut
<1>11. ASSUME NEW a \in Attempt, SeesExit(a) PROVE IInv'
  BY <1>11 DEF SeesExit
<1>12. ASSUME NEW a \in Attempt, GraceOver(a) PROVE IInv'
  BY <1>12 DEF GraceOver
<1>13. ASSUME NEW a \in Attempt, DrainTimesOut(a) PROVE IInv'
  BY <1>13 DEF DrainTimesOut
<1>14. ASSUME NEW a \in Attempt, Clear(a) PROVE IInv'
  BY <1>14 DEF Clear
<1>15. ASSUME NEW a \in Attempt, Classify(a) PROVE IInv'
  BY <1>15 DEF Classify, Fates
<1>16. ASSUME NEW a \in Attempt, Store(a) PROVE IInv'
  <2>1. TypeOK'
    BY <1>16 DEF Store
  <2>2. LockInv'
    BY <1>16 DEF Store
  <2>3. EngineInv' /\ CancelInv' /\ TimeoutInv'
    BY <1>16 DEF Store
  <2>4. VerdictInv'
    BY <1>16 DEF Store
  <2>5. RowInv'
    BY <1>16 DEF Store
  <2>6. AnswerInv'
    BY <1>16 DEF Store
  <2> HIDE DEF TypeOK, LockInv, EngineInv, CancelInv, TimeoutInv, VerdictInv, RowInv,
         AnswerInv
  <2> QED
    BY <2>1, <2>2, <2>3, <2>4, <2>5, <2>6 DEF IInv
<1>17. ASSUME NEW a \in Attempt, Leave(a) PROVE IInv'
  <2>1. TypeOK'
    BY <1>17 DEF Leave
  <2>2. LockInv'
    BY <1>17 DEF Leave
  <2>3. EngineInv' /\ CancelInv' /\ TimeoutInv'
    BY <1>17 DEF Leave
  <2>4. VerdictInv'
    BY <1>17 DEF Leave
  <2>5. RowInv'
    BY <1>17 DEF Leave
  <2>6. AnswerInv'
    BY <1>17 DEF Leave
  <2> HIDE DEF TypeOK, LockInv, EngineInv, CancelInv, TimeoutInv, VerdictInv, RowInv,
         AnswerInv
  <2> QED
    BY <2>1, <2>2, <2>3, <2>4, <2>5, <2>6 DEF IInv
<1>18. ASSUME NEW a \in Attempt, CancelChecks(a) PROVE IInv'
  BY <1>18 DEF CancelChecks
<1>19. ASSUME NEW a \in Attempt, CancelTooLate(a) PROVE IInv'
  BY <1>19 DEF CancelTooLate
<1>30. ASSUME NEW a \in Attempt, IsRunning(a) PROVE IInv'
  BY <1>30 DEF IsRunning
<1>20. ASSUME NEW a \in Attempt, CancelMarks(a) PROVE IInv'
  BY <1>20 DEF CancelMarks
<1>21. ASSUME NEW a \in Attempt, CancelSeesExit(a) PROVE IInv'
  BY <1>21 DEF CancelSeesExit
<1>22. ASSUME NEW a \in Attempt, CancelGraceOver(a) PROVE IInv'
  BY <1>22 DEF CancelGraceOver
<1>23. ASSUME NEW a \in Attempt, EngineExits(a) PROVE IInv'
  BY <1>23 DEF EngineExits
<1>24. ASSUME NEW a \in Attempt, HelperExits(a) PROVE IInv'
  BY <1>24 DEF HelperExits
<1>25. ASSUME NEW a \in Attempt, Crash(a) PROVE IInv'
  <2>1. TypeOK'
    <3>1. /\ leader' \in [Attempt -> {"none", "alive", "zombie", "reaped"}]
          /\ code' \in [Attempt -> {"unknown", "zero", "nonzero"}]
          /\ helper' \in [Attempt -> BOOLEAN]
      BY <1>25, GroupTypes DEF Crash
    <3>2. /\ pc' \in [Attempt -> PC]
          /\ lock' \in Attempt \cup Prober \cup {NoOne}
          /\ tracked' \in [Attempt -> BOOLEAN]
          /\ cpc' \in [Attempt -> {"idle", "checked", "stopping", "told"}]
      BY <1>25 DEF Crash
    <3> QED
      BY <1>25, <3>1, <3>2 DEF Crash
  <2>2. LockInv'
    BY <1>25 DEF Crash
  <2>3. EngineInv' /\ CancelInv' /\ TimeoutInv'
    BY <1>25 DEF Crash
  <2>4. VerdictInv'
    BY <1>25 DEF Crash
  <2>5. RowInv'
    BY <1>25 DEF Crash
  <2>6. AnswerInv'
    BY <1>25 DEF Crash
  <2> HIDE DEF TypeOK, LockInv, EngineInv, CancelInv, TimeoutInv, VerdictInv, RowInv,
         AnswerInv
  <2> QED
    BY <2>1, <2>2, <2>3, <2>4, <2>5, <2>6 DEF IInv
<1>26. ASSUME NEW a \in Attempt, UnitStops(a) PROVE IInv'
  BY <1>26 DEF UnitStops
<1>27. ASSUME NEW p \in Prober, ProbeTakes(p) PROVE IInv'
  BY <1>27 DEF ProbeTakes
<1>28. ASSUME NEW p \in Prober, ProbeReleases(p) PROVE IInv'
  BY <1>28 DEF ProbeReleases
<1>29. CASE UNCHANGED vars
  BY <1>29 DEF vars
<1> QED
  BY <1>1, <1>2, <1>3, <1>4, <1>5, <1>6, <1>7, <1>8, <1>9, <1>10, <1>11, <1>12, <1>13, <1>14, <1>15, <1>16, <1>17, <1>18, <1>19, <1>20, <1>21, <1>22, <1>23, <1>24, <1>25, <1>26, <1>27, <1>28, <1>29, <1>30, <1>31
  DEF Next, Runner, Canceller, Environment
\* The invariant holds in every state of every behaviour.
LEMMA Invariance == Spec => []IInv
BY InitIInv, NextIInv, PTL DEF Spec

\* Type correctness of the runner, for any sets of calls.
THEOREM TypeCorrect == Spec => []TypeOK
<1>1. IInv => TypeOK
  BY DEF IInv
<1> QED
  BY <1>1, Invariance, PTL

\* The file lock keeps the calls of all processes apart: at most one is in a
\* test, whoever crashes, probes, cancels or times out.
THEOREM MutualExclusion == Spec => []OneTestAtATime
<1>1. IInv => OneTestAtATime
  BY DEF IInv, LockInv, OneTestAtATime
<1> QED
  BY <1>1, Invariance, PTL

\* No way out of _spawn leaves an engine running without the lock, except the
\* death of the calling process.
THEOREM EngineUnderLock == Spec => []EngineOnlyUnderLock
<1>1. IInv => EngineOnlyUnderLock
  BY DEF IInv, LockInv, EngineInv, EngineOnlyUnderLock, InTest
<1> QED
  BY <1>1, Invariance, PTL

\* Every stored status is what happened to that call's engine.
THEOREM StatusTruth == Spec => []StatusIsTrue
<1>1. IInv => StatusIsTrue
  BY DEF IInv, RowInv, Truth, StatusIsTrue
<1> QED
  BY <1>1, Invariance, PTL

\* cancel() and the record agree, whatever the order of the two threads.
THEOREM CancelTruth == Spec => []CancelIsRecorded
<1>1. IInv => CancelIsRecorded
  BY DEF IInv, TypeOK, RowInv, Truth, CancelIsRecorded, Row, Status
<1> QED
  BY <1>1, Invariance, PTL

\* A call that returned left one record, or the news that nothing was saved.
THEOREM Accounted == Spec => []ReturnedIsAccounted
<1>1. ASSUME IInv PROVE ReturnedIsAccounted
  <2> SUFFICES ASSUME NEW a \in Attempt, pc[a] = "returned"
               PROVE  IF reply[a] = "unsaved" THEN RowsOf(a) = {}
                                              ELSE Cardinality(RowsOf(a)) = 1
    BY DEF ReturnedIsAccounted
  <2>1. CASE reply[a] = "unsaved"
    BY <1>1, <2>1 DEF IInv, RowInv, RowsOf
  <2>2. CASE reply[a] # "unsaved"
    <3>1. reply[a] = "stored"
      BY <1>1, <2>2 DEF IInv, TypeOK, AnswerInv
    <3>2. RowsOf(a) = {[of |-> a, status |-> verdict[a]]}
      <4>1. [of |-> a, status |-> verdict[a]] \in RowsOf(a)
        BY <1>1, <3>1 DEF IInv, AnswerInv, RowsOf
      <4>2. ASSUME NEW r \in RowsOf(a) PROVE r = [of |-> a, status |-> verdict[a]]
        BY <1>1 DEF IInv, TypeOK, RowInv, RowsOf, Row
      <4> QED
        BY <4>1, <4>2
    <3> QED
      BY <2>2, <3>2, FS_Singleton
  <2> QED
    BY <2>1, <2>2
<1> QED
  BY <1>1, Invariance, PTL

-----------------------------------------------------------------------------
(* The refinement.                                                         *)

Stages == [a \in Attempt |-> StageOf(a)]

\* a is past the lock, and stays there.
Busy(a) ==
  /\ pc[a] \notin {"idle", "entering"} \cup Over
  /\ pc'[a] \notin {"idle", "entering"} \cup Over

\* A step past the lock that touches neither the lock nor the database is
\* invisible to the callers.
LEMMA Invisible ==
  ASSUME lock' = lock, rows' = rows, reply' = reply,
         \A b \in Attempt : pc'[b] = pc[b] \/ Busy(b)
  PROVE  UNCHANGED Log!vars
<1>1. \A b \in Attempt : StageOf(b)' = StageOf(b)
  BY DEF StageOf, Busy, Over
<1> QED
  BY <1>1 DEF Log!vars, Stages

\* Somebody has the turn exactly when a call holds the lock.
LEMMA TestingIsLock ==
  ASSUME IInv
  PROVE  Log!Testing <=> lock \in Attempt
<1>1. \A a \in Attempt : StageOf(a) = "testing" <=> lock = a
  BY DEF IInv, LockInv, StageOf, Over
<1> QED
  BY <1>1 DEF Log!Testing

\* A call that gives the lock back was not somebody who asks about it.
LEMMA LockGone ==
  ASSUME NEW a \in Attempt, lock' = IF lock = a THEN NoOne ELSE lock
  PROVE  (lock' \in Prober) = (lock \in Prober)
<1>1. CASE lock = a
  BY <1>1, CallersAssumption
<1>2. CASE lock # a
  BY <1>2
<1> QED
  BY <1>1, <1>2

\* Every step of the runner is a step of TestLog, or is invisible there.
LEMMA StepRefines == IInv /\ [Next]_vars => [Log!Next]_(Log!vars)
<1> SUFFICES ASSUME IInv, [Next]_vars PROVE [Log!Next]_(Log!vars)
  OBVIOUS
<1> USE CallersAssumption
<1>1. ASSUME NEW a \in Attempt, Enter(a) PROVE Log!Call(a)
  BY <1>1 DEF Enter, IInv, TypeOK, StageOf, Over, Goto, dbVars, Log!Call, Log!Move
<1>2. ASSUME NEW a \in Attempt, TakeLock(a) PROVE Log!Begin(a)
  <2>1. ~Log!Testing /\ lock \notin Prober /\ lock' \notin Prober
    BY <1>2, TestingIsLock DEF TakeLock
  <2>2. (lock' \in Prober) = (lock \in Prober)
    BY <2>1
  <2>3. Stages' = [Stages EXCEPT ![a] = "testing"] /\ StageOf(a) = "called"
    BY <1>2 DEF TakeLock, IInv, TypeOK, LockInv, Stages, StageOf, Over, Goto
  <2> QED
    BY <1>2, <2>1, <2>2, <2>3 DEF TakeLock, dbVars, Stages, Log!Begin, Log!Move
<1>3. ASSUME NEW a \in Attempt, Store(a) PROVE Log!Record(a) \/ Log!CannotRecord(a)
  <2>1. Stages' = Stages /\ lock' = lock
    BY <1>3 DEF Store, IInv, TypeOK, StageOf, Over, Goto, Stages
  <2>2. /\ StageOf(a) \in {"refused", "testing"}
        /\ StageOf(a) = "refused" <=> verdict[a] = "skipped"
        /\ verdict[a] \in Status
    BY <1>3 DEF Store, IInv, LockInv, VerdictInv, StageOf, Over
  <2>3. ~Log!Recorded(a) /\ reply[a] = "none"
    BY <1>3 DEF Store, IInv, TypeOK, RowInv, Log!Recorded
  <2>4. CASE reply'[a] = "stored"
    <3>1. rows' = rows \cup {[of |-> a, status |-> verdict[a]]}
          /\ reply' = [reply EXCEPT ![a] = "stored"]
      BY <1>3, <2>4 DEF Store, IInv, TypeOK
    <3>2. {b \in Attempt : reply'[b] = "unsaved"} = {b \in Attempt : reply[b] = "unsaved"}
      BY <3>1, <2>3 DEF IInv, TypeOK
    <3> QED
      BY <2>1, <2>2, <2>3, <3>1, <3>2 DEF Log!Record, Stages, Status
  <2>5. CASE reply'[a] # "stored"
    <3>1. rows' = rows /\ reply' = [reply EXCEPT ![a] = "unsaved"]
      BY <1>3, <2>5 DEF Store, IInv, TypeOK
    <3>2. {b \in Attempt : reply'[b] = "unsaved"}
            = {b \in Attempt : reply[b] = "unsaved"} \cup {a}
      BY <3>1, <2>3 DEF IInv, TypeOK
    <3> QED
      BY <2>1, <2>2, <2>3, <3>1, <3>2 DEF Log!CannotRecord, Stages
  <2> QED
    BY <2>4, <2>5
<1>4. ASSUME NEW a \in Attempt, Leave(a) PROVE Log!Answer(a) \/ Log!Vanish(a)
  <2>1. \A b \in Attempt \ {a} : StageOf(b)' = StageOf(b)
    BY <1>4 DEF Leave, IInv, TypeOK, StageOf, Goto
  <2>2. StageOf(a) \in {"refused", "testing"}
    BY <1>4 DEF Leave, StageOf
  <2>3. StageOf(a)' = IF verdict[a] = "raise" THEN "lost" ELSE "done"
    BY <1>4 DEF Leave, IInv, TypeOK, StageOf, Goto
  <2>4. verdict[a] = "raise" \/ Log!Recorded(a) \/ reply[a] = "unsaved"
    BY <1>4 DEF Leave, IInv, TypeOK, AnswerInv, Log!Recorded
  <2>5. Stages' = [Stages EXCEPT ![a] = StageOf(a)']
    BY <2>1 DEF Stages
  <2>6. (lock' \in Prober) = (lock \in Prober)
    BY <1>4, LockGone DEF Leave
  <2> QED
    BY <1>4, <2>2, <2>3, <2>4, <2>5, <2>6 DEF Leave, dbVars, Stages, Log!Answer, Log!Vanish, Log!Move
<1>5. ASSUME NEW a \in Attempt, Crash(a) PROVE Log!Vanish(a)
  <2>1. \A b \in Attempt \ {a} : StageOf(b)' = StageOf(b)
    BY <1>5 DEF Crash, IInv, TypeOK, StageOf, Goto
  <2>2. StageOf(a) \in {"called", "refused", "testing"}
    BY <1>5 DEF Crash, StageOf, Running, Over
  <2>3. StageOf(a)' = "lost"
    BY <1>5 DEF Crash, IInv, TypeOK, StageOf, Goto
  <2>4. Stages' = [Stages EXCEPT ![a] = StageOf(a)']
    BY <2>1 DEF Stages
  <2>5. (lock' \in Prober) = (lock \in Prober)
    BY <1>5, LockGone DEF Crash
  <2> QED
    BY <1>5, <2>2, <2>3, <2>4, <2>5 DEF Crash, dbVars, Stages, Log!Vanish, Log!Move
<1>31. ASSUME NEW a \in Attempt, LockRaises(a) PROVE Log!Vanish(a)
  <2>1. \A b \in Attempt \ {a} : StageOf(b)' = StageOf(b)
    BY <1>31 DEF LockRaises, IInv, TypeOK, StageOf, Goto
  <2>2. StageOf(a) = "called" /\ StageOf(a)' = "lost"
    BY <1>31 DEF LockRaises, IInv, TypeOK, StageOf, Goto
  <2>3. Stages' = [Stages EXCEPT ![a] = StageOf(a)']
    BY <2>1 DEF Stages
  <2> QED
    BY <1>31, <2>2, <2>3 DEF LockRaises, dbVars, Stages, Log!Vanish, Log!Move
<1>6. ASSUME NEW a \in Attempt, FindBusy(a) PROVE Log!Refuse(a)
  <2>1. Log!Testing \/ lock \in Prober
    BY <1>6, TestingIsLock DEF FindBusy, IInv, TypeOK
  <2>2. Stages' = [Stages EXCEPT ![a] = "refused"] /\ StageOf(a) = "called"
    <3>1. \A b \in Attempt \ {a} : StageOf(b)' = StageOf(b)
      BY <1>6 DEF FindBusy, IInv, TypeOK, StageOf, Goto
    <3>2. StageOf(a) = "called" /\ lock # a
      BY <1>6 DEF FindBusy, IInv, LockInv, StageOf
    <3>3. StageOf(a)' = "refused"
      BY <1>6, <3>2 DEF FindBusy, IInv, TypeOK, StageOf, Goto
    <3> QED
      BY <3>1, <3>2, <3>3 DEF Stages
  <2>3. lock' = lock
    BY <1>6 DEF FindBusy
  <2> QED
    BY <1>6, <2>1, <2>2, <2>3 DEF FindBusy, dbVars, Stages, Log!Refuse, Log!Move
<1>7. ASSUME NEW a \in Attempt, NoEngine(a) PROVE UNCHANGED Log!vars
  BY <1>7, Invisible DEF NoEngine, IInv, TypeOK, Goto, Busy, Over, callVars, dbVars
<1>8. ASSUME NEW a \in Attempt, ReadRaises(a) PROVE UNCHANGED Log!vars
  BY <1>8, Invisible DEF ReadRaises, IInv, TypeOK, Goto, Busy, Over, callVars, dbVars
<1>9. ASSUME NEW a \in Attempt, Spawn(a) PROVE UNCHANGED Log!vars
  BY <1>9, Invisible DEF Spawn, IInv, TypeOK, Goto, Busy, Over, callVars, dbVars
<1>10. ASSUME NEW a \in Attempt, Publish(a) PROVE UNCHANGED Log!vars
  BY <1>10, Invisible DEF Publish, IInv, TypeOK, Goto, Busy, Over, callVars, dbVars
<1>11. ASSUME NEW a \in Attempt, Answer(a) PROVE UNCHANGED Log!vars
  BY <1>11, Invisible DEF Answer, IInv, TypeOK, Goto, Busy, Over, callVars, dbVars
<1>12. ASSUME NEW a \in Attempt, Undecodable(a) PROVE UNCHANGED Log!vars
  BY <1>12, Invisible DEF Undecodable, IInv, TypeOK, Goto, Busy, Over, callVars, dbVars
<1>13. ASSUME NEW a \in Attempt, TimesOut(a) PROVE UNCHANGED Log!vars
  BY <1>13, Invisible DEF TimesOut, IInv, TypeOK, Goto, Busy, Over, callVars, dbVars
<1>14. ASSUME NEW a \in Attempt, SeesExit(a) PROVE UNCHANGED Log!vars
  BY <1>14, Invisible DEF SeesExit, IInv, TypeOK, Goto, Busy, Over, callVars, dbVars
<1>15. ASSUME NEW a \in Attempt, GraceOver(a) PROVE UNCHANGED Log!vars
  BY <1>15, Invisible DEF GraceOver, IInv, TypeOK, Goto, Busy, Over, callVars, dbVars
<1>16. ASSUME NEW a \in Attempt, DrainTimesOut(a) PROVE UNCHANGED Log!vars
  BY <1>16, Invisible DEF DrainTimesOut, IInv, TypeOK, Goto, Busy, Over, callVars, dbVars
<1>17. ASSUME NEW a \in Attempt, Clear(a) PROVE UNCHANGED Log!vars
  BY <1>17, Invisible DEF Clear, IInv, TypeOK, Goto, Busy, Over, callVars, dbVars
<1>18. ASSUME NEW a \in Attempt, Classify(a) PROVE UNCHANGED Log!vars
  BY <1>18, Invisible DEF Classify, IInv, TypeOK, Goto, Busy, Over, callVars, dbVars
<1>19. ASSUME NEW a \in Attempt, CancelChecks(a) PROVE UNCHANGED Log!vars
  BY <1>19, Invisible DEF CancelChecks, IInv, TypeOK, Goto, Busy, Over, callVars, dbVars
<1>20. ASSUME NEW a \in Attempt, CancelTooLate(a) PROVE UNCHANGED Log!vars
  BY <1>20, Invisible DEF CancelTooLate, IInv, TypeOK, Goto, Busy, Over, callVars, dbVars
<1>30. ASSUME NEW a \in Attempt, IsRunning(a) PROVE UNCHANGED Log!vars
  BY <1>30, Invisible DEF IsRunning, IInv, TypeOK, Goto, Busy, Over, callVars, dbVars
<1>21. ASSUME NEW a \in Attempt, CancelMarks(a) PROVE UNCHANGED Log!vars
  BY <1>21, Invisible DEF CancelMarks, IInv, TypeOK, Goto, Busy, Over, callVars, dbVars
<1>22. ASSUME NEW a \in Attempt, CancelSeesExit(a) PROVE UNCHANGED Log!vars
  BY <1>22, Invisible DEF CancelSeesExit, IInv, TypeOK, Goto, Busy, Over, callVars, dbVars
<1>23. ASSUME NEW a \in Attempt, CancelGraceOver(a) PROVE UNCHANGED Log!vars
  BY <1>23, Invisible DEF CancelGraceOver, IInv, TypeOK, Goto, Busy, Over, callVars, dbVars
<1>24. ASSUME NEW a \in Attempt, EngineExits(a) PROVE UNCHANGED Log!vars
  BY <1>24, Invisible DEF EngineExits, IInv, TypeOK, Goto, Busy, Over, callVars, dbVars
<1>25. ASSUME NEW a \in Attempt, HelperExits(a) PROVE UNCHANGED Log!vars
  BY <1>25, Invisible DEF HelperExits, IInv, TypeOK, Goto, Busy, Over, callVars, dbVars
<1>26. ASSUME NEW a \in Attempt, UnitStops(a) PROVE UNCHANGED Log!vars
  BY <1>26, Invisible DEF UnitStops, IInv, TypeOK, Goto, Busy, Over, callVars, dbVars
<1>27. ASSUME NEW p \in Prober, ProbeTakes(p) PROVE Log!Ask
  <2>1. \A b \in Attempt : StageOf(b)' = StageOf(b)
    BY <1>27 DEF ProbeTakes, StageOf, callVars
  <2>2. ~Log!Testing /\ lock \notin Prober /\ lock' \in Prober
    BY <1>27, TestingIsLock DEF ProbeTakes
  <2> QED
    BY <1>27, <2>1, <2>2 DEF ProbeTakes, dbVars, Stages, Log!Ask
<1>28. ASSUME NEW p \in Prober, ProbeReleases(p) PROVE Log!StopAsking
  <2>1. \A b \in Attempt : StageOf(b)' = StageOf(b)
    BY <1>28 DEF ProbeReleases, StageOf, callVars
  <2> QED
    BY <1>28, <2>1 DEF ProbeReleases, dbVars, Stages, Log!StopAsking
<1>29. CASE UNCHANGED vars
  BY <1>29, Invisible DEF vars, callVars, dbVars
<1> QED
  BY <1>1, <1>2, <1>3, <1>4, <1>5, <1>6, <1>7, <1>8, <1>9, <1>10, <1>11, <1>12, <1>13, <1>14, <1>15, <1>16, <1>17, <1>18, <1>19, <1>20, <1>21, <1>22, <1>23, <1>24, <1>25, <1>26, <1>27, <1>28, <1>29, <1>30, <1>31
  DEF Next, Runner, Canceller, Environment, Log!Next

\* The runner implements TestLog: tests take turns, a call is skipped only while
\* somebody else tests or asks about the lock, and each answered call has left one record of a kind
\* its turn allows.
THEOREM Refinement == Spec => TestsTakeTurns
<1>1. Init => Log!Init
  BY CallersAssumption DEF Init, StageOf, Log!Init
<1> QED
  BY <1>1, StepRefines, Invariance, PTL DEF Spec, TestsTakeTurns, Log!Spec

\* TestLog is enough to rely on: from its steps alone calls test one at a time and
\* leave one record each, or the news that there is none.
THEOREM LogPromise == TestsTakeTurns => []Log!Promise
<1> DEFINE stage == [a \in Attempt |-> StageOf(a)]
           told  == {a \in Attempt : reply[a] = "unsaved"}
<1>1. Log!Init => Log!Promise
  BY DEF Log!Init, Log!Promise
<1>2. Log!Promise /\ [Log!Next]_(Log!vars) => Log!Promise'
  <2> SUFFICES ASSUME Log!Promise, [Log!Next]_(Log!vars) PROVE Log!Promise'
    OBVIOUS
  <2>1. CASE UNCHANGED Log!vars \/ Log!Ask \/ Log!StopAsking
    <3>1. stage' = stage /\ told' = told /\ rows' = rows
      BY <2>1 DEF Log!vars, Log!Ask, Log!StopAsking
    <3> QED
      BY <3>1 DEF Log!Promise, Log!Recorded
  <2>2. ASSUME NEW a \in Attempt, Log!Call(a) \/ Log!Begin(a) \/ Log!Refuse(a) \/ Log!Answer(a)
                                   \/ Log!Vanish(a)
        PROVE  Log!Promise'
    <3>1. PICK to : /\ stage' = [stage EXCEPT ![a] = to] /\ told' = told /\ rows' = rows
                    /\ to = "testing" => ~Log!Testing
                    /\ to = "done" => Log!Recorded(a) \/ a \in told
      BY <2>2 DEF Log!Call, Log!Begin, Log!Refuse, Log!Answer, Log!Vanish, Log!Move
    <3>2. \A b \in Attempt : stage'[b] = IF b = a THEN to ELSE stage[b]
      BY <3>1
    <3> QED
      BY <3>1, <3>2 DEF Log!Promise, Log!Recorded, Log!Testing
  <2>3. ASSUME NEW a \in Attempt, Log!Record(a) PROVE Log!Promise'
    <3>1. PICK s : rows' = rows \cup {[of |-> a, status |-> s]}
      BY <2>3 DEF Log!Record
    <3>2. ~Log!Recorded(a) /\ a \notin told /\ stage' = stage /\ told' = told
      BY <2>3 DEF Log!Record
    <3> QED
      BY <3>1, <3>2 DEF Log!Promise, Log!Recorded
  <2>4. ASSUME NEW a \in Attempt, Log!CannotRecord(a) PROVE Log!Promise'
    <3>1. ~Log!Recorded(a) /\ stage' = stage /\ told' = told \cup {a} /\ rows' = rows
      BY <2>4 DEF Log!CannotRecord
    <3> QED
      BY <3>1 DEF Log!Promise, Log!Recorded
  <2> QED
    BY <2>1, <2>2, <2>3, <2>4 DEF Log!Next
<1> QED
  BY <1>1, <1>2, PTL DEF TestsTakeTurns, Log!Spec

-----------------------------------------------------------------------------
(* What can be said of CallsEnd without fairness.                          *)

\* The moves of run_test that are left on the longest way, through the timeout.
Left(a) ==
  CASE pc[a] = "entering"    -> 10
    [] pc[a] = "preparing"   -> 9
    [] pc[a] = "spawned"     -> 8
    [] pc[a] = "waiting"     -> 7
    [] pc[a] = "stopping"    -> 6
    [] pc[a] = "draining"    -> 5
    [] pc[a] = "clearing"    -> 4
    [] pc[a] = "classifying" -> 3
    [] pc[a] = "storing"     -> 2
    [] pc[a] = "leaving"     -> 1
    [] OTHER                 -> 0

\* Each move of a call brings it nearer to its end, and nothing another thread,
\* another process, the engine or its helper does takes it back.
Onward(a) ==
  /\ Runner(a) => Left(a)' < Left(a)
  /\ ~Enter(a) => Left(a)' <= Left(a)

LEMMA MoveIsOnward ==
  ASSUME IInv, NEW a \in Attempt, Runner(a)
  PROVE  Left(a)' < Left(a)
<1> USE DEF IInv, TypeOK, Goto, Left
<1>1. CASE TakeLock(a) \/ FindBusy(a) \/ LockRaises(a)
  BY <1>1 DEF TakeLock, FindBusy, LockRaises
<1>2. CASE NoEngine(a) \/ ReadRaises(a) \/ Spawn(a) \/ Publish(a)
  BY <1>2 DEF NoEngine, ReadRaises, Spawn, Publish
<1>3. CASE Answer(a) \/ Undecodable(a) \/ TimesOut(a)
  BY <1>3 DEF Answer, Undecodable, TimesOut
<1>4. CASE SeesExit(a) \/ GraceOver(a) \/ DrainTimesOut(a)
  BY <1>4 DEF SeesExit, GraceOver, DrainTimesOut
<1>5. CASE Clear(a)
  BY <1>5 DEF Clear
<1>6. CASE Classify(a) \/ Store(a) \/ Leave(a)
  BY <1>6 DEF Classify, Store, Leave
<1> QED BY <1>1, <1>2, <1>3, <1>4, <1>5, <1>6 DEF Runner

LEMMA OthersLeaveIt ==
  ASSUME IInv, [Next]_vars, NEW a \in Attempt, ~Enter(a), ~Runner(a)
  PROVE  Left(a)' <= Left(a)
<1>1. SUFFICES pc'[a] = pc[a] \/ pc'[a] = "dead"
  BY <1>1 DEF Left
<1>2. ASSUME NEW b \in Attempt, Runner(b) PROVE pc'[a] = pc[a]
  BY <1>2 DEF Runner, TakeLock, FindBusy, LockRaises, NoEngine, ReadRaises, Spawn,
       Publish, Answer,
       Undecodable, TimesOut, SeesExit, GraceOver, DrainTimesOut, Clear, Classify, Store, Leave,
       Goto, IInv, TypeOK
<1>3. ASSUME NEW b \in Attempt, Canceller(b) PROVE pc'[a] = pc[a]
  BY <1>3 DEF Canceller, CancelChecks, CancelTooLate, CancelMarks, CancelSeesExit,
       CancelGraceOver, IsRunning, callVars
<1>4. ASSUME NEW b \in Attempt, Environment(b) PROVE pc'[a] = pc[a] \/ pc'[a] = "dead"
  BY <1>4 DEF Environment, Enter, EngineExits, HelperExits, Crash, UnitStops, Goto, callVars,
       IInv, TypeOK
<1>5. ASSUME NEW p \in Prober, ProbeTakes(p) \/ ProbeReleases(p) PROVE pc'[a] = pc[a]
  BY <1>5 DEF ProbeTakes, ProbeReleases, callVars
<1>6. CASE UNCHANGED vars
  BY <1>6 DEF vars, callVars
<1> QED BY <1>2, <1>3, <1>4, <1>5, <1>6 DEF Next

\* run_test has no loop: a call makes at most ten moves, whatever the engine, the
\* canceller and the other processes do, so that it can fail to end only by
\* waiting for ever; that it does not is CallsEnd.
THEOREM NoWayBack == Spec => [][\A a \in Attempt : Onward(a)]_vars
<1>1. IInv /\ [Next]_vars => \A a \in Attempt : Onward(a)
  <2> SUFFICES ASSUME IInv, [Next]_vars, NEW a \in Attempt PROVE Onward(a)
    OBVIOUS
  <2>1. Left(a) \in 0 .. 10 /\ Left(a)' \in 0 .. 10
    BY DEF Left
  <2>2. Runner(a) => Left(a)' < Left(a)
    BY MoveIsOnward
  <2>3. ~Enter(a) /\ ~Runner(a) => Left(a)' <= Left(a)
    BY OthersLeaveIt
  <2> HIDE DEF Left
  <2> QED BY <2>1, <2>2, <2>3 DEF Onward
<1> QED BY <1>1, Invariance, PTL DEF Spec
=============================================================================
