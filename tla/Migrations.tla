------------------------------ MODULE Migrations ------------------------------
(***************************************************************************)
(* storage/migrations.py and Database.open: the window, the scheduled      *)
(* command and the monitor each open the one database file, and each       *)
(* brings its schema up to date on the way.  After an upgrade they may do  *)
(* so at once.                                                             *)
(*                                                                         *)
(* A migration is a transaction of Steps statements and one row in         *)
(* schema_migrations.  A strict statement (ALTER TABLE ADD COLUMN) fails   *)
(* when what it adds is there; the others say IF NOT EXISTS.               *)
(***************************************************************************)
EXTENDS Naturals

CONSTANTS Opener,  \* the processes that open the database
          Latest,  \* LATEST_VERSION
          Steps,   \* the statements of each migration
          Strict,  \* the statements that cannot be repeated
          NoOne    \* no one holds SQLite's write lock

Version == 1..Latest
Part    == Version \X (1..Steps)

ASSUME MigrationsAssumption ==
  /\ Latest \in Nat \ {0} /\ Steps \in Nat \ {0}
  /\ Strict \subseteq Part
  /\ NoOne \notin Opener

VARIABLES
  pc,      \* where each opener is
  already, \* its local of that name: the versions it saw applied
  next,    \* the version its loop has come to
  step,    \* the statement of that version it has come to
  writer,  \* who holds the write lock (BEGIN IMMEDIATE)
  work,    \* the schema as the open transaction sees it
  schema,  \* the committed schema: the parts that exist
  applied  \* the committed rows of schema_migrations

localVars == <<pc, already, next, step>>
diskVars  == <<schema, applied>>
vars      == <<localVars, writer, work, diskVars>>

PartsOf(V) == {p \in Part : p[1] \in V}

\* A new file, or one that an earlier release brought to some version.
Init ==
  /\ pc      = [o \in Opener |-> "closed"]
  /\ already = [o \in Opener |-> {}]
  /\ next    = [o \in Opener |-> 1]
  /\ step    = [o \in Opener |-> 1]
  /\ writer  = NoOne
  /\ \E v \in 0..Latest : applied = 1..v
  /\ schema  = PartsOf(applied)
  /\ work    = schema

-----------------------------------------------------------------------------

Goto(o, place) == pc' = [pc EXCEPT ![o] = place]

\* The list of applied versions is read once, outside any transaction.
Open(o) ==
  /\ pc[o] = "closed"
  /\ Goto(o, "deciding")
  /\ already' = [already EXCEPT ![o] = applied]
  /\ next' = [next EXCEPT ![o] = 1]
  /\ UNCHANGED <<step, writer, work, diskVars>>

Skip(o) ==
  /\ pc[o] = "deciding"
  /\ next[o] \in already[o]
  /\ next' = [next EXCEPT ![o] = @ + 1]
  /\ UNCHANGED <<pc, already, step, writer, work, diskVars>>

Todo(o) == pc[o] = "deciding" /\ next[o] \in Version \ already[o]

Begin(o) ==
  /\ Todo(o)
  /\ writer = NoOne
  /\ writer' = o
  /\ work' = schema
  /\ step' = [step EXCEPT ![o] = 1]
  /\ Goto(o, "applying")
  /\ UNCHANGED <<already, next, diskVars>>

\* Outside the transactions: the table of versions cannot be made or read, BEGIN
\* IMMEDIATE waits for the lock in vain ("database is locked"), or the disk fails
\* it or _seed_defaults.
OpenFails(o) ==
  /\ pc[o] = "deciding"
  /\ Goto(o, "failed")
  /\ UNCHANGED <<already, next, step, writer, work, diskVars>>

\* Mutant: the failure is logged and the loop goes on.
RollbackGoesOn(o) ==
  /\ writer' = NoOne
  /\ next' = [next EXCEPT ![o] = @ + 1]
  /\ Goto(o, "deciding")
  /\ UNCHANGED <<already, step, work, diskVars>>

\* sqlite3.Error inside the transaction: ROLLBACK, and open() raises.
Rollback(o) ==
  /\ writer' = NoOne
  /\ Goto(o, "failed")
  /\ UNCHANGED <<already, next, step, work, diskVars>>

Part_(o) == <<next[o], step[o]>>

\* Mutant: executescript, which commits what went before.
StatementCommits(o) ==
  /\ pc[o] = "applying" /\ step[o] <= Steps
  /\ ~(Part_(o) \in work /\ Part_(o) \in Strict)
  /\ work' = work \cup {Part_(o)}
  /\ schema' = work'
  /\ step' = [step EXCEPT ![o] = @ + 1]
  /\ UNCHANGED <<pc, already, next, writer, applied>>

Statement(o) ==
  /\ pc[o] = "applying" /\ step[o] <= Steps
  /\ ~(Part_(o) \in work /\ Part_(o) \in Strict)
  /\ work' = work \cup {Part_(o)}
  /\ step' = [step EXCEPT ![o] = @ + 1]
  /\ UNCHANGED <<pc, already, next, writer, diskVars>>

\* What the statement adds is already there.
Duplicate(o) ==
  /\ pc[o] = "applying" /\ step[o] <= Steps
  /\ Part_(o) \in work /\ Part_(o) \in Strict
  /\ Rollback(o)

\* The disk is full, or cannot be read or written.
StorageFails(o) ==
  /\ pc[o] = "applying"
  /\ Rollback(o)

\* COMMIT is outside the try: SQLite may roll back by itself, or keep the
\* transaction and its lock until the process ends.
CommitFails(o) ==
  /\ pc[o] = "committing"
  /\ Goto(o, "failed")
  /\ writer' \in {writer, NoOne}
  /\ UNCHANGED <<already, next, step, work, diskVars>>

InsertVersion(o) ==
  /\ pc[o] = "applying" /\ step[o] = Steps + 1
  /\ next[o] \notin applied
  /\ Goto(o, "committing")
  /\ UNCHANGED <<already, next, step, writer, work, diskVars>>

\* version is the primary key: another process has inserted it.
VersionTaken(o) ==
  /\ pc[o] = "applying" /\ step[o] = Steps + 1
  /\ next[o] \in applied
  /\ Rollback(o)

\* Mutant: the row says that the file is at the latest version.
CommitAsLatest(o) ==
  /\ pc[o] = "committing"
  /\ schema'  = work
  /\ applied' = Version
  /\ writer'  = NoOne
  /\ next' = [next EXCEPT ![o] = @ + 1]
  /\ Goto(o, "deciding")
  /\ UNCHANGED <<already, step, work>>

Commit(o) ==
  /\ pc[o] = "committing"
  /\ schema'  = work
  /\ applied' = applied \cup {next[o]}
  /\ writer'  = NoOne
  /\ next' = [next EXCEPT ![o] = @ + 1]
  /\ Goto(o, "deciding")
  /\ UNCHANGED <<already, step, work>>

Finish(o) ==
  /\ pc[o] = "deciding"
  /\ next[o] > Latest
  /\ Goto(o, "open")
  /\ UNCHANGED <<already, next, step, writer, work, diskVars>>

\* The process ends or is killed; SQLite discards its transaction.
Close(o) ==
  /\ pc[o] # "closed"
  /\ Goto(o, "closed")
  /\ writer' = IF writer = o THEN NoOne ELSE writer
  /\ UNCHANGED <<already, next, step, work, diskVars>>

-----------------------------------------------------------------------------

Migrate(o) ==
  \/ Skip(o) \/ Begin(o) \/ OpenFails(o)
  \/ Statement(o) \/ Duplicate(o) \/ InsertVersion(o) \/ VersionTaken(o)
  \/ Commit(o) \/ Finish(o) \/ StorageFails(o) \/ CommitFails(o)

Next == \E o \in Opener : Open(o) \/ Migrate(o) \/ Close(o)

Spec == Init /\ [][Next]_vars

-----------------------------------------------------------------------------

\* Every variable keeps to its values.
TypeOK ==
  /\ pc \in [Opener -> {"closed", "deciding", "applying", "committing",
                        "open", "failed"}]
  /\ already \in [Opener -> SUBSET Version]
  /\ next \in [Opener -> 1..Latest + 1]
  /\ step \in [Opener -> 1..Steps + 1]
  /\ writer \in Opener \cup {NoOne}
  /\ work \subseteq Part /\ schema \subseteq Part
  /\ applied \subseteq Version

\* Whoever crashes or fails wherever, the file holds each migration whole and
\* recorded, or not at all and unrecorded.
NoHalfMigration == schema = PartsOf(applied)

\* open() returns only on a database at the latest version.
OpenIsCurrent == \A o \in Opener : pc[o] = "open" => applied = Version

\* A version is applied only on top of all the earlier ones.
InOrder == \A v \in applied : 1..v \subseteq applied

\* current_version: the highest migration applied, or 0.
CurrentVersion ==
  IF applied = {} THEN 0 ELSE CHOOSE v \in applied : \A w \in applied : w <= v

StageOf(o) ==
  IF pc[o] \in {"deciding", "applying", "committing"} THEN "opening" ELSE pc[o]

Log == INSTANCE SchemaLog
         WITH stage <- [o \in Opener |-> StageOf(o)],
              version <- CurrentVersion,
              content <- schema

\* The loops, the lock and the transactions of all the openers are, to whoever
\* looks at the file, one version number that goes up a whole migration at a
\* time, by the hand of an open() under way, and never back.
UpgradedByWholes == Log!Spec

\* migrations.py:177, "Bring *connection* up to LATEST_VERSION": open() fails
\* only if storage failed or the lock was not to be had, never because another
\* process has just done the work.
NotBeatenToIt ==
  [][\A o \in Opener : ~(Duplicate(o) \/ VersionTaken(o))]_vars
=============================================================================
