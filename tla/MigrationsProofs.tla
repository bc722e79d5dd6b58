--------------------------- MODULE MigrationsProofs ---------------------------
(***************************************************************************)
(* For any number of openers, versions and statements: the file never      *)
(* holds half a migration, versions are applied in order, and open()       *)
(* returns only on the latest.                                             *)
(***************************************************************************)
EXTENDS Migrations, TLAPS

-----------------------------------------------------------------------------
(* The inductive invariant, in named parts.                                *)

\* The write lock and the place in the loop agree.
WriterInv ==
  \A o \in Opener :
    /\ pc[o] \in {"applying", "committing"} => writer = o
    /\ writer = o => pc[o] \in {"applying", "committing", "failed"}

\* An open transaction sees the committed schema and its own first statements.
WorkInv ==
  \A o \in Opener :
    pc[o] \in {"applying", "committing"} =>
      /\ next[o] \in Version
      /\ work = schema \cup {<<next[o], i>> : i \in 1..step[o] - 1}
      /\ pc[o] = "committing" => step[o] = Steps + 1

\* What is applied is an unbroken run of versions, and the lock keeps it so:
\* what an opener is about to commit nobody else has committed.
VersionInv ==
  /\ \E v \in 0..Latest : applied = 1..v
  /\ \A o \in Opener : pc[o] = "committing" => next[o] \notin applied

\* The loop has left behind only versions that are applied.
LoopInv ==
  \A o \in Opener :
    /\ already[o] \subseteq applied
    /\ pc[o] \in {"deciding", "applying", "committing"} => 1..next[o] - 1 \subseteq applied

IInv ==
  /\ TypeOK /\ WriterInv /\ WorkInv /\ LoopInv /\ VersionInv
  /\ NoHalfMigration /\ OpenIsCurrent /\ InOrder

-----------------------------------------------------------------------------

LEMMA InitIInv == Init => IInv
<1> SUFFICES ASSUME Init PROVE IInv
  OBVIOUS
<1> USE MigrationsAssumption
<1>1. PICK v \in 0..Latest : applied = 1..v
  BY DEF Init
<1>2. applied \subseteq Version /\ InOrder
  BY <1>1 DEF Version, InOrder
<1>3. VersionInv
  BY <1>1 DEF Init, VersionInv
<1> QED
  BY <1>2, <1>3 DEF Init, IInv, TypeOK, WriterInv, WorkInv, LoopInv,
     NoHalfMigration, OpenIsCurrent, PartsOf, Part

\* What changes neither the disk nor the open transaction keeps what is said
\* of the disk.
LEMMA DiskKept ==
  ASSUME IInv, UNCHANGED diskVars,
         \A o \in Opener : pc'[o] = "committing" => next'[o] \notin applied
  PROVE  NoHalfMigration' /\ InOrder' /\ VersionInv'
BY DEF IInv, diskVars, NoHalfMigration, InOrder, VersionInv, PartsOf

LEMMA OpenKeeps == ASSUME IInv, NEW o \in Opener, Open(o) PROVE IInv'
<1> USE MigrationsAssumption DEF IInv, TypeOK, Open, Goto, diskVars
<1>1. TypeOK' /\ WriterInv' /\ WorkInv'
  BY DEF WriterInv, WorkInv
<1>2. LoopInv' /\ OpenIsCurrent'
  BY DEF LoopInv, OpenIsCurrent
<1>3. \A p \in Opener : pc'[p] = "committing" => next'[p] \notin applied
  BY DEF VersionInv
<1> QED
  BY <1>1, <1>2, <1>3, DiskKept

LEMMA SkipKeeps == ASSUME IInv, NEW o \in Opener, Skip(o) PROVE IInv'
<1> USE MigrationsAssumption DEF IInv, TypeOK, Skip, Version, diskVars
<1>1. next[o] \in 1..Latest /\ next[o] \in applied
  BY DEF LoopInv
<1>2. TypeOK' /\ WriterInv' /\ WorkInv'
  BY <1>1 DEF WriterInv, WorkInv
<1>3. LoopInv' /\ OpenIsCurrent'
  BY <1>1 DEF LoopInv, OpenIsCurrent
<1>4. \A p \in Opener : pc'[p] = "committing" => next'[p] \notin applied
  BY DEF VersionInv
<1> QED
  BY <1>2, <1>3, <1>4, DiskKept

LEMMA BeginKeeps == ASSUME IInv, NEW o \in Opener, Begin(o) PROVE IInv'
<1> USE MigrationsAssumption DEF IInv, TypeOK, Begin, Todo, Goto, diskVars
<1>1. TypeOK' /\ WriterInv'
  BY DEF WriterInv
<1>2. WorkInv'
  BY DEF WorkInv, WriterInv
<1>3. LoopInv' /\ OpenIsCurrent'
  BY DEF LoopInv, OpenIsCurrent
<1>4. \A p \in Opener : pc'[p] = "committing" => next'[p] \notin applied
  BY DEF VersionInv
<1> QED
  BY <1>1, <1>2, <1>3, <1>4, DiskKept

\* A rollback, a COMMIT that fails, a close and a lock not to be had.
LEMMA LeavingKeeps ==
  ASSUME IInv, NEW o \in Opener,
         \/ Rollback(o) /\ pc[o] = "applying"
         \/ CommitFails(o) \/ Close(o) \/ OpenFails(o)
  PROVE  IInv'
<1> USE MigrationsAssumption DEF IInv, TypeOK, Goto, diskVars
<1>1. UNCHANGED <<already, next, step, work, schema, applied>>
  BY DEF Rollback, CommitFails, Close, OpenFails
<1>2. PICK place \in {"failed", "closed"} : pc' = [pc EXCEPT ![o] = place]
  BY DEF Rollback, CommitFails, Close, OpenFails
<1>3. writer' \in {writer, NoOne}
  BY DEF Rollback, CommitFails, Close, OpenFails
<1>4. WriterInv'
  BY DEF WriterInv, Rollback, CommitFails, Close, OpenFails, Todo
<1>5. TypeOK' /\ WorkInv' /\ LoopInv' /\ OpenIsCurrent'
  BY <1>1, <1>2, <1>3 DEF WorkInv, LoopInv, OpenIsCurrent
<1>6. \A p \in Opener : pc'[p] = "committing" => next'[p] \notin applied
  BY <1>1, <1>2 DEF VersionInv
<1> QED
  BY <1>1, <1>4, <1>5, <1>6, DiskKept

LEMMA StatementKeeps == ASSUME IInv, NEW o \in Opener, Statement(o) PROVE IInv'
<1> USE MigrationsAssumption DEF IInv, TypeOK, Statement, diskVars
<1>1. next[o] \in Version /\ step[o] \in 1..Steps /\ Part_(o) \in Part
  BY DEF WorkInv, Part_, Part
<1>2. TypeOK' /\ WriterInv'
  BY <1>1 DEF WriterInv
<1>3. WorkInv'
  <2>1. 1..step[o]' - 1 = (1..step[o] - 1) \cup {step[o]}
    BY <1>1
  <2>2. work' = schema \cup {<<next[o], i>> : i \in 1..step[o]' - 1}
    BY <2>1 DEF WorkInv, Part_
  <2> QED
    BY <1>1, <2>2 DEF WorkInv, WriterInv
<1>4. LoopInv' /\ OpenIsCurrent'
  BY DEF LoopInv, OpenIsCurrent
<1>5. \A p \in Opener : pc'[p] = "committing" => next'[p] \notin applied
  BY DEF VersionInv
<1> QED
  BY <1>2, <1>3, <1>4, <1>5, DiskKept

LEMMA InsertKeeps == ASSUME IInv, NEW o \in Opener, InsertVersion(o) PROVE IInv'
<1> USE MigrationsAssumption DEF IInv, TypeOK, InsertVersion, Goto, diskVars
<1>1. TypeOK' /\ WriterInv'
  BY DEF WriterInv
<1>2. WorkInv' /\ LoopInv' /\ OpenIsCurrent'
  BY DEF WorkInv, LoopInv, OpenIsCurrent
<1>3. \A p \in Opener : pc'[p] = "committing" => next'[p] \notin applied
  BY DEF VersionInv
<1> QED
  BY <1>1, <1>2, <1>3, DiskKept

\* The one step that changes the disk: a whole migration and its row.
LEMMA CommitAdvances ==
  ASSUME IInv, NEW o \in Opener, Commit(o)
  PROVE  \E v \in 0..Latest - 1 :
           applied = 1..v /\ next[o] = v + 1 /\ applied' = 1..v + 1
<1>1. PICK v \in 0..Latest : applied = 1..v
  BY DEF IInv, VersionInv
<1>2. /\ next[o] \in 1..Latest /\ next[o] \notin 1..v
      /\ 1..next[o] - 1 \subseteq 1..v
  BY <1>1 DEF IInv, Commit, VersionInv, WorkInv, LoopInv, Version
<1>3. next[o] = v + 1
  <2>1. next[o] > v
    BY <1>2
  <2>2. CASE next[o] > v + 1
    BY <1>2, <2>2, v + 1 \in 1..next[o] - 1
  <2> QED
    BY <1>2, <2>1, <2>2
<1>4. 1..v \cup {v + 1} = 1..v + 1
  OBVIOUS
<1>5. v \in 0..Latest - 1
  BY <1>2, <1>3, MigrationsAssumption
<1> QED
  BY <1>1, <1>3, <1>4, <1>5 DEF Commit

LEMMA CommitKeeps == ASSUME IInv, NEW o \in Opener, Commit(o) PROVE IInv'
<1> USE MigrationsAssumption DEF IInv, TypeOK, Commit, Goto
<1>1. /\ next[o] \in Version
      /\ work = schema \cup {<<next[o], i>> : i \in 1..Steps}
      /\ 1..next[o] - 1 \subseteq applied
  BY DEF WorkInv, LoopInv
<1>2. next' \in [Opener -> 1..Latest + 1]
  <2>1. next[o] + 1 \in 1..Latest + 1
    BY <1>1 DEF MigrationsAssumption, Version
  <2> QED
    BY <2>1
<1>3. applied' \subseteq Version
  BY <1>1
<1>4. TypeOK' /\ WriterInv'
  BY <1>1, <1>2, <1>3 DEF WriterInv
<1>5. WorkInv'
  BY <1>1 DEF WriterInv, WorkInv
<1>6. NoHalfMigration'
  BY <1>1 DEF NoHalfMigration, PartsOf, Part
<1>7. LoopInv'
  BY <1>1 DEF LoopInv, Version
<1>8. OpenIsCurrent'
  BY <1>1 DEF OpenIsCurrent
<1>9. InOrder'
  BY <1>1 DEF InOrder, Version
<1>10. VersionInv'
  <2>1. \E v \in 0..Latest : applied' = 1..v
    <3>1. PICK v \in 0..Latest - 1 : applied' = 1..v + 1
      BY CommitAdvances
    <3>2. v + 1 \in 0..Latest
      BY <3>1
    <3> QED
      BY <3>1, <3>2
  <2>2. \A p \in Opener : pc'[p] # "committing"
    BY DEF WriterInv
  <2> QED
    BY <2>1, <2>2 DEF VersionInv
<1> QED
  BY <1>4, <1>5, <1>6, <1>7, <1>8, <1>9, <1>10

LEMMA FinishKeeps == ASSUME IInv, NEW o \in Opener, Finish(o) PROVE IInv'
<1> USE MigrationsAssumption DEF IInv, TypeOK, Finish, Goto, diskVars
<1>1. applied = Version
  <2>1. 1..next[o] - 1 \subseteq applied /\ next[o] = Latest + 1
    BY DEF LoopInv
  <2>2. (Latest + 1) - 1 = Latest
    OBVIOUS
  <2>3. Version \subseteq applied
    BY <2>1, <2>2 DEF Version
  <2> QED
    BY <2>3
<1>2. TypeOK' /\ WriterInv' /\ WorkInv'
  BY DEF WriterInv, WorkInv
<1>3. LoopInv' /\ OpenIsCurrent'
  BY <1>1 DEF LoopInv, OpenIsCurrent
<1>4. \A p \in Opener : pc'[p] = "committing" => next'[p] \notin applied
  BY DEF VersionInv
<1> QED
  BY <1>2, <1>3, <1>4, DiskKept

-----------------------------------------------------------------------------

LEMMA Invariance == Spec => []IInv
<1>1. IInv /\ [Next]_vars => IInv'
  <2> SUFFICES ASSUME IInv, [Next]_vars PROVE IInv'
    OBVIOUS
  <2>1. CASE UNCHANGED vars
    BY <2>1 DEF vars, localVars, diskVars, IInv, TypeOK, WriterInv, WorkInv, LoopInv,
       VersionInv, NoHalfMigration, PartsOf, OpenIsCurrent, InOrder
  <2>2. ASSUME NEW o \in Opener, Open(o) \/ Migrate(o) \/ Close(o) PROVE IInv'
    <3>1. CASE Duplicate(o) \/ VersionTaken(o) \/ StorageFails(o)
      BY <3>1, LeavingKeeps DEF Duplicate, VersionTaken, StorageFails
    <3> QED
      BY <2>2, <3>1, OpenKeeps, SkipKeeps, BeginKeeps, LeavingKeeps, StatementKeeps,
         InsertKeeps, CommitKeeps, FinishKeeps DEF Migrate
  <2> QED
    BY <2>1, <2>2 DEF Next
<1> QED
  BY <1>1, InitIInv, PTL DEF Spec

\* Every variable keeps to its values.
THEOREM TypeCorrect == Spec => []TypeOK
BY Invariance, PTL DEF IInv

\* However many processes open the file at once, and wherever they fail or
\* are killed, it holds each migration whole and recorded, or not at all.
THEOREM Atomicity == Spec => []NoHalfMigration
BY Invariance, PTL DEF IInv

\* open() returns only on a database at the latest version.
THEOREM Current == Spec => []OpenIsCurrent
BY Invariance, PTL DEF IInv

\* A version is applied only on top of all the earlier ones.
THEOREM Ordered == Spec => []InOrder
BY Invariance, PTL DEF IInv

-----------------------------------------------------------------------------
(* The refinement.                                                         *)

Stages == [o \in Opener |-> StageOf(o)]

\* The highest of an unbroken run is its last.
LEMMA CurrentIsLast ==
  ASSUME NEW v \in Nat, applied = 1..v
  PROVE  CurrentVersion = v
<1>1. CASE v = 0
  BY <1>1 DEF CurrentVersion
<1>2. CASE v # 0
  <2>1. v \in applied /\ \A w \in applied : w <= v
    BY <1>2
  <2>2. \A x \in applied : (\A w \in applied : w <= x) => x = v
    BY <2>1
  <2> QED
    BY <2>1, <2>2 DEF CurrentVersion
<1> QED
  BY <1>1, <1>2

\* A step that leaves the file alone moves at most one opener.
LEMMA OnlyStage ==
  ASSUME UNCHANGED diskVars, NEW o \in Opener, NEW place,
         TypeOK, pc' = [pc EXCEPT ![o] = place]
  PROVE  /\ CurrentVersion' = CurrentVersion /\ schema' = schema
         /\ Stages' = [Stages EXCEPT ![o] = StageOf(o)']
<1>1. \A p \in Opener \ {o} : StageOf(p)' = StageOf(p)
  BY DEF TypeOK, StageOf
<1>2. Stages' = [Stages EXCEPT ![o] = StageOf(o)']
  BY <1>1 DEF Stages
<1>3. CurrentVersion' = CurrentVersion /\ schema' = schema
  BY DEF diskVars, CurrentVersion
<1> QED
  BY <1>2, <1>3

\* A step inside a loop that commits nothing is invisible.
LEMMA Invisible ==
  ASSUME UNCHANGED diskVars,
         \A p \in Opener : \/ pc'[p] = pc[p]
                          \/ {pc[p], pc'[p]} \subseteq {"deciding", "applying", "committing"}
  PROVE  UNCHANGED Log!vars
<1>1. \A p \in Opener : StageOf(p)' = StageOf(p)
  BY DEF StageOf
<1> QED
  BY <1>1 DEF diskVars, CurrentVersion, Log!vars

\* The commit of a migration is the one step that moves the version.
LEMMA CommitRefines ==
  ASSUME IInv, NEW o \in Opener, Commit(o)
  PROVE  Log!Upgrade(o)
<1>1. PICK v \in 0..Latest - 1 : applied = 1..v /\ next[o] = v + 1 /\ applied' = 1..v + 1
  BY CommitAdvances
<1>2. CurrentVersion = v
  BY <1>1, CurrentIsLast
<1>3. CurrentVersion' = v + 1
  BY <1>1, CurrentIsLast DEF CurrentVersion
<1>4. v < Latest
  BY <1>1, MigrationsAssumption
<1>5. schema' = schema \cup Log!Made({v + 1})
  BY <1>1, MigrationsAssumption DEF Commit, IInv, TypeOK, WorkInv, Log!Made
<1>6. Stages' = Stages /\ StageOf(o) = "opening"
  BY DEF Commit, Goto, IInv, TypeOK, Stages, StageOf
<1> QED
  BY <1>2, <1>3, <1>4, <1>5, <1>6 DEF Log!Upgrade, Stages

\* A failure, wherever it is, is a failure of the open() under way.
LEMMA FailRefines ==
  ASSUME IInv, NEW o \in Opener, UNCHANGED diskVars,
         pc[o] \in {"deciding", "applying", "committing"}, Goto(o, "failed")
  PROVE  Log!Fail(o)
<1>1. StageOf(o) = "opening" /\ StageOf(o)' = "failed"
  BY DEF Goto, IInv, TypeOK, StageOf
<1> QED
  BY <1>1, OnlyStage DEF IInv, Goto, Stages, Log!Fail, Log!Move

\* Every step of an opener is a step of SchemaLog, or is invisible there.
LEMMA StepRefines == IInv /\ [Next]_vars => [Log!Next]_(Log!vars)
<1> SUFFICES ASSUME IInv, [Next]_vars PROVE [Log!Next]_(Log!vars)
  OBVIOUS
<1>1. ASSUME NEW o \in Opener, Open(o) PROVE Log!Call(o)
  <2>1. StageOf(o) = "closed" /\ StageOf(o)' = "opening"
    BY <1>1 DEF Open, Goto, IInv, TypeOK, StageOf
  <2> QED
    BY <1>1, <2>1, OnlyStage DEF Open, Goto, IInv, Stages, Log!Call, Log!Move
<1>2. ASSUME NEW o \in Opener, Close(o) PROVE Log!Close(o)
  <2>1. StageOf(o) \in {"opening", "open", "failed"} /\ StageOf(o)' = "closed"
    BY <1>2 DEF Close, Goto, IInv, TypeOK, StageOf
  <2> QED
    BY <1>2, <2>1, OnlyStage DEF Close, Goto, IInv, Stages, Log!Close, Log!Move
<1>3. ASSUME NEW o \in Opener, Finish(o) PROVE Log!Return(o)
  <2>1. StageOf(o) = "opening" /\ StageOf(o)' = "open"
    BY <1>3 DEF Finish, Goto, IInv, TypeOK, StageOf
  <2>2. CurrentVersion = Latest
    <3>1. applied' = Version /\ applied' = applied
      BY <1>3, FinishKeeps DEF Finish, Goto, diskVars, IInv, TypeOK, OpenIsCurrent
    <3> QED
      BY <3>1, CurrentIsLast, MigrationsAssumption DEF Version
  <2> QED
    BY <1>3, <2>1, <2>2, OnlyStage DEF Finish, Goto, IInv, Stages, Log!Return, Log!Move
<1>4. ASSUME NEW o \in Opener, Commit(o) PROVE Log!Upgrade(o)
  BY <1>4, CommitRefines
<1>5. ASSUME NEW o \in Opener,
             OpenFails(o) \/ Duplicate(o) \/ VersionTaken(o) \/ StorageFails(o) \/ CommitFails(o)
      PROVE  Log!Fail(o)
  BY <1>5, FailRefines
     DEF OpenFails, Todo, Duplicate, VersionTaken, StorageFails, CommitFails, Rollback, diskVars
<1>6. ASSUME NEW o \in Opener, Skip(o) \/ Begin(o) \/ Statement(o) \/ InsertVersion(o)
      PROVE  UNCHANGED Log!vars
  BY <1>6, Invisible DEF Skip, Begin, Todo, Statement, InsertVersion, Goto, IInv, TypeOK, diskVars
<1>7. CASE UNCHANGED vars
  BY <1>7, Invisible DEF vars, localVars
<1> QED
  BY <1>1, <1>2, <1>3, <1>4, <1>5, <1>6, <1>7 DEF Next, Migrate, Log!Next

\* Any number of processes that open one file at once, and fail or are killed
\* anywhere in it, implement SchemaLog.
THEOREM Refinement == Spec => UpgradedByWholes
<1>1. Init => Log!Init
  <2> SUFFICES ASSUME Init PROVE Log!Init
    OBVIOUS
  <2>1. PICK v \in 0..Latest : applied = 1..v
    BY DEF Init
  <2>2. CurrentVersion = v
    BY <2>1, CurrentIsLast
  <2>3. schema = Log!Made(1..v)
    BY <2>1, MigrationsAssumption DEF Init, PartsOf, Part, Version, Log!Made
  <2> QED
    BY <2>2, <2>3 DEF Init, StageOf, Log!Init
<1> QED
  BY <1>1, StepRefines, Invariance, PTL DEF Spec, UpgradedByWholes, Log!Spec

\* SchemaLog is enough to rely on: from its steps alone the file is whole at every
\* version, and complete for whoever has it open.
THEOREM SchemaPromise == UpgradedByWholes => []Log!Promise
<1> DEFINE Inv == CurrentVersion \in 0..Latest /\ Log!Promise
<1>1. Log!Init => Inv
  BY DEF Log!Init, Log!Promise
<1>2. Inv /\ [Log!Next]_(Log!vars) => Inv'
  <2> SUFFICES ASSUME Inv, [Log!Next]_(Log!vars) PROVE Inv'
    OBVIOUS
  <2> DEFINE stage == [o \in Opener |-> StageOf(o)]
  <2>1. CASE UNCHANGED Log!vars
    BY <2>1 DEF Log!vars, Log!Promise
  <2>2. ASSUME NEW o \in Opener, Log!Upgrade(o) PROVE Inv'
    <3>1. /\ CurrentVersion < Latest /\ CurrentVersion' = CurrentVersion + 1
          /\ schema' = schema \cup Log!Made({CurrentVersion + 1}) /\ stage' = stage
      BY <2>2 DEF Log!Upgrade
    <3>2. CurrentVersion' \in 0..Latest
      BY <3>1, MigrationsAssumption
    <3>3. 1..CurrentVersion' = 1..CurrentVersion \cup {CurrentVersion + 1}
      BY <3>1
    <3>4. schema' = Log!Made(1..CurrentVersion')
      BY <3>1, <3>3 DEF Log!Promise, Log!Made
    <3>5. \A p \in Opener : stage[p] # "open"
      BY <3>1 DEF Log!Promise
    <3> QED
      BY <3>1, <3>2, <3>4, <3>5 DEF Log!Promise
  <2>3. ASSUME NEW o \in Opener, Log!Call(o) \/ Log!Return(o) \/ Log!Fail(o) \/ Log!Close(o)
        PROVE  Inv'
    <3>1. /\ CurrentVersion' = CurrentVersion /\ schema' = schema
          /\ \E to : stage' = [stage EXCEPT ![o] = to] /\ (to = "open" => CurrentVersion = Latest)
      BY <2>3 DEF Log!Call, Log!Return, Log!Fail, Log!Close, Log!Move
    <3>2. \A p \in Opener : stage'[p] = "open" => CurrentVersion = Latest
      BY <3>1 DEF Log!Promise
    <3> QED
      BY <3>1, <3>2 DEF Log!Promise
  <2> QED
    BY <2>1, <2>2, <2>3 DEF Log!Next
<1>3. Inv => Log!Promise
  OBVIOUS
<1> QED
  BY <1>1, <1>2, <1>3, PTL DEF UpgradedByWholes, Log!Spec
=============================================================================
