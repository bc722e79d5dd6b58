# Bandwidth Logger in TLA+

Bandwidth Logger measures an internet connection on a schedule and keeps every
attempt in a local database. This directory holds a formal model of its core:
TLA+ modules translated from `src/src/bandwidth_logger/`, TLC configurations
that check them on small instances, and theorems about them, checked by TLAPS,
for instances of any size. Paths below are relative to
`src/src/bandwidth_logger/` unless they start with `docs/`.

`PROJECT.json` lists the components, the runs, the findings, the hazards and,
under `map`, the source lines each definition stands for.

## The system

Up to four kinds of process share one SQLite file, one lock file and the user's
systemd manager:

* the **window** (`application.py`, `ui/`): one GTK main loop, plus one daemon
  thread while a test started with Test Now runs;
* the **unit** `bandwidth-logger-test.service`, a oneshot that a systemd timer
  starts and that runs `cli.py --scheduled`;
* a **command** typed in a terminal (`cli.py`);
* the **monitor** service (`monitor_cli.py`, `core/monitor.py`).

| Component | State it keeps | Operations | What makes it correct |
| --- | --- | --- | --- |
| Test runner, `core/test_runner.py` | the lock file; `_process`, `_cancelled`; the engine process and what it started | `run_test`, `cancel`, `is_test_running` | tests take turns; no engine outlives its call; each call leaves one record that tells what happened; the lock comes free |
| Scheduler, `core/scheduler.py` | settings; unit files; what systemd loaded and runs | `apply`, `reapply_from_settings`, `apply_monitor`, `status` | settings in force after every call; failures come to light; testing resumes at login |
| Missed-window record, `core/scheduler.py` | the latest row | `record_missed_window` | one record for each real interruption, none for a false one |
| Migrations, `storage/migrations.py` | schema; `schema_migrations` | `migrate` | whole migrations, in order, each once; `open` succeeds on a good file |
| Record database, `storage/database.py` | rows, settings; one connection shared by the threads of a process, and its lock | insert, range queries, two deletes, settings | no row is lost that nobody confirmed deleting; an id stands for one row |
| Monitor, `core/monitor.py`, `system/throughput.py` | previous reading, open summary, two timers | `tick`, `_flush`, `prune`, `run` | bytes counted once, under the right interface and minute |
| Window, `ui/main_window.py` | table, selection, switch, banner, state text, Test Now button; the worker thread; what `idle_add` was given | handlers and a ten-second refresh | shows what is stored and what runs; the button comes back; no state outlives its test |
| Export and delete dialogs, `ui/main_window.py` | the dates, the count | export, delete by range, delete selected | what was confirmed is what is done; a day is a day of the table |
| Settings dialog, `ui/settings_dialog.py` | the pin read at first, the ids behind the dropdown, the search thread | search, choose, save | what is in force is shown and, untouched, kept; tests can use what is saved |
| Parser, models, export, `core/result_parser.py`, `core/models.py`, `storage/export_csv.py` | none; the export holds a cursor | parse, convert, format, write | unknown and zero stay apart on every way; a file is complete |
| Engines, `engines/` | none | choice, command line, list of servers | no substitute for what was asked; a pin is a number |

They interact through the database (settings read by every process, rows
written by three), through `flock` on `test-runner.lock`, through `systemctl`,
and inside the window through callbacks on the main loop. The hard behaviours
are the interleavings of these processes, their deaths at any point, systemctl
calls that fail halfway through a sequence, and engines that do not stop.

## The modules

| Module | Models | Proved in | Instances |
| --- | --- | --- | --- |
| `TestRunner` | `core/test_runner.py` and the callers in the window, the unit and the terminal | `TestRunnerProofs` | `MCTestRunner` |
| `TestLog` | the abstract promise of the runner; `TestRunner` implements it | `TestRunnerProofs` (Refinement) | `MCTestRunner` |
| `Scheduler` | `core/scheduler.py` as `application.py`, `ui/main_window.py` and `ui/settings_dialog.py` drive it | `SchedulerProofs` | `MCScheduler` |
| `Migrations` | `storage/migrations.py`, `Database.open` | `MigrationsProofs` | `MCMigrations` |
| `SchemaLog` | the abstract promise of `Database.open`; `Migrations` implements it | `MigrationsProofs` (Refinement) | `MCMigrations` |
| `Interruption` | `record_missed_window` in `core/scheduler.py`, as `cli.py` and `ui/main_window.py` call it | `InterruptionProofs` | `MCInterruption` |
| `Monitor` | `core/monitor.py`, `system/throughput.py` | `MonitorProofs` | `MCMonitor` |
| `Measurement` | what becomes of an engine's answer: `core/result_parser.py`, `_execute`, the record, and the table, details, terminal and CSV that show it | `HistoryProofs` | `MCHistory` |
| `Calendar` | local days as ranges in UTC (`storage/export_csv.py`) and the date a record is shown under | `HistoryProofs` | `MCHistory` |
| `History` | the log kept, exported row by row and deleted by days; extends the two above | `HistoryProofs` | `MCHistory` |
| `MainWindow` | the table, the selection and the deletions of `ui/main_window.py`, Test Now, its thread and callbacks, the shared connection | `MainWindowProofs` | `MCMainWindow` |
| `ServerPicker` | `ui/settings_dialog.py` with its search thread, `parse_server_list`, `engines/registry.py`, and what `build_command` makes of the settings | `ServerPickerProofs` | `MCServerPicker` |

But for `History`, which is built of `Measurement` and `Calendar`, and for
`TestRunner` and `Migrations`, which implement `TestLog` and `SchemaLog`, no
module imports another component's. `TestRunner`, `Interruption`, `History` and `MainWindow` meet in the
rows (a test is a whole call in the first, one step or a few in the others),
`Scheduler`, `Interruption` and `ServerPicker` in the settings, and each states
the others' part as far as its properties need it.

### TestRunner and TestLog

An element of `Attempt` is one call of `run_test`; `pc` is where it is, and the
actions follow the function from `Enter` through the lock, `_execute`, `_spawn`,
`_stop_process`, the `finally` clauses and `_store` to `Leave`. `leader`, `code`
and `helper` are what the kernel knows of the engine's process group; `lock` is
the advisory lock; `tracked`, `cancelled` and `cpc` are what `cancel()` and the
runner share under `_process_lock`. The environment exits or hangs engines and
helpers, kills callers, and makes calls raise that the code does not catch: the
read of the settings, the decoding of the engine's output, and the making,
opening and locking of the lock file (`LockRaises`).
A runner's threads are not atomic: each step that another thread, process or
the kernel can see is an action.

`is_running`, which the window asks at each refresh, polls the tracked process
and so may reap it before the runner does (`IsRunning`).

`TestLog` has no lock, engine or thread: calls take turns, a call is turned away
only while another has the turn, and one that is answered has left one record of
the kind its turn allows, or the news that nothing was saved. `TestRunner`
implements it with `StageOf` as the refinement mapping: a call is *testing* there
while it holds the lock here. The probe of `is_test_running` takes the lock too,
and therefore the turn: `asking` says so, and a call that comes just then is
*refused*.

### Scheduler

`setting` is the settings table, `sd` the unit files together with what systemd
has loaded, runs and starts at login, `shown` what the status page holds, `call`
the arguments of the `apply` under way. Every settings write and every
`systemctl` command is a step. `Command` is `_systemctl`: the command works; or
fails because it cannot be done; or fails or times out for a reason of its own,
before or after it took effect. Where the code says `check=False` both ways
lead to the same place. `WriteTimer` is one step for two files: the text of the
service's file is always the same, so that nobody can tell when it was written; a
write that fails leaves the timer's file as it was or cut short.

`shown` is the switch, the banner and whether the ten-second timer is still there
(`ticking`). `Seen` follows `_update_banner`: with no engine installed the banner
says so and the function returns before it looks at the scheduler
(`ui/main_window.py:558-563`). A read that fails raises out of `refresh_status`,
before anything is shown or once the switch is corrected (`HalfSeen`); if it was
the periodic refresh that asked, its timer is gone with it. The branch of
`refresh_status` for a `SchedulerError` (lines 514-519) cannot be reached, since
`status()` checks none of its commands, and is left out.

What may go wrong in a behaviour is chosen once, at the
start: `faults`, a variable no step changes, is one of the sets in `Scenario`.
The properties differ in what they tolerate and say so, each with a condition on
`faults`. An interval rejected by
`validate_interval` changes no state and is left out; so is the time of the next
run, which is display.

### Migrations

Any number of `Opener`s call `Database.open` on one file. `already` is the list
read once before the loop; `work` is what the open transaction sees; `schema`
and `applied` are what is committed. A `Strict` statement is one that fails when
repeated (`ALTER TABLE ADD COLUMN`); the others say `IF NOT EXISTS`. `ROLLBACK`
and the failure of `COMMIT`, which is outside the `try`, are separate actions;
`OpenFails` is the failure of a statement that changes nothing: the table of
versions, `BEGIN IMMEDIATE` on a busy file, the default settings.

`SchemaLog` has no statement, transaction or lock: the file is at some version
with all that belongs to it, moves up one whole version at a time by the hand of
somebody who is opening it, and never back, and `open` returns only at the
latest. `Migrations` implements it: the version is that of the committed
`applied` (`CurrentVersion`), the content is the committed `schema`, and a commit
is the only step that shows.

### Interruption

The clock ticks in minutes, so that handlers, checks and a test made by hand take
no time and only the unit's test does (`left`). `timer` is what remains of
`OnUnitActiveSec` and `OnActiveSec`, `since` the age of the unit's last start;
both stand still while the computer sleeps. `newest` is `latest_run()`, ordered
by the start of the test and not by the insert. Reading it and inserting the
recovery record are two steps in the unit and two in the window. Either may
fail: the unit logs that and goes on to its test (`cli.py:126-129`; `unit.failed`
remembers it), the window logs it and opens (`ui/main_window.py:899-902`). A
scheduled command may also end without any record (`UnitFails`: its insert fails
in `_store`, or `run_test` raises); `lost` counts how many in a row have, and
`window.lost` what that was when the window looked. `lost`, `unit.failed`,
`window.lost`, `changed`, `broken` and `together` only remember what the
properties ask about.

`gaps` are the interruptions on record. `Delete` takes rows away while the window
is open: any of the recorded interruptions, and the newest row, after which
`latest_run()` is an interruption that is left, a test whose date the model chooses
(it does not keep the dates of older tests), or nothing (`Nothing`, an empty
history, which `record_missed_window` returns early for). `changed` remembers when
the newest row was last deleted, as it does a change of the schedule: the gap
measured from what is left is longer than the one there was. The clock is not
adjusted.

### Monitor

`counter` is the kernel's, which wraps at `Width`, goes back to zero when the
interface does, and goes on counting while nobody looks; `carried` is the truth
it stands for. One counter stands for received and sent bytes. A pass of the loop
is `Ask`, which takes the default route, and one of `Blind`, `Baseline`,
`Discard` and `Sample`, which read that interface: the route may move and the
interface vanish in between. `open` is the accumulator, whose seconds are also
`_elapsed_since_summary` (the two are reset and increased together). An insert may fail
(`Written`). `mark` remembers where an unbroken series of readings began.

### Measurement, Calendar and History

`Measurement` is a module of operators: an `Answer` says how an attempt ended,
what the engine's text hints at, and what its document holds where each figure
belongs, by kind (`Reported`: absent, null, a word, a numeral, zero, so little
that two decimals round it away, plenty, NaN, infinite). `Coerce`, `Refused`,
`StatusOf`, `CategoryOf` and `RunOf` make the record of it, `Cell`, `TableCell`,
`Detail`, `Described` and `Payload` what is shown. `Calendar` cuts a local day in
`Slots` and gives a zone one change of its offset; `StartOf` and `EndOf` are the
ends the dialogs and `--export` compute, `ShownOn` the reference: the date the
table shows. In `History` rows keep the answer they were made of, so that the
properties can compare; `WriteRow` is one row of the live cursor, which meets
every row there was when it was opened and may or may not meet a later one.

### MainWindow

A record is named by the time its test started; `stored` holds rows with ids.
`pending` is a row the worker thread has inserted and not committed: the main
loop uses the same connection, so that a query may see it (`Readings`), while a
transaction waits for the lock. `queue` is what the thread gave to `idle_add`;
one callback runs at a time, and `due` marks the handler that has yet to call
`refresh_all`. `Reread` is `refresh_table`, which may fail and leave the table as
it was (`unread`): with `DatabaseError` it returns, and `refresh_all` goes on to
the status; any other exception leaves `refresh_all`, as does one of the status
(`RefreshAll(raises)`). An exception that leaves `_on_periodic_refresh` removes
the ten-second timer (`ticking`); in a handler it only ends the handler. `dialog` is the confirmation that is open, with the ids or the
dates it settled. `picked`, `undone` and `reported` only remember what the
properties ask about. Other processes store rows and hold the run lock at will.
Every behaviour takes place in one of `Worlds`, which says what may fail in it
(`faults`) and which records never come (`gone`).
`TestNow` has the two guards of `_on_test_now`: the button, which the handler
disables and only a callback restores, and a thread that is no longer alive.

### ServerPicker

`ids` is the list behind the dropdown; its places are those of the engine's list,
0 is the automatic entry and one past the end the pin the list did not have.
`search` is the thread: an `EngineError` and a list come back as callbacks, a
`ParseError` ends it. Save writes engine, server and the rest one after the
other, each of which may fail; `Asks` is what a test that starts at that moment
would give its engine. Packages come and go (`Install`). What the thread of a
closed dialog brings goes to widgets nobody sees, and is lost here as well.

## The runs

| Run | Shows |
| --- | --- |
| `runner_safety` | `OneTestAtATime`, `EngineOnlyUnderLock`, `StatusIsTrue`, `CancelIsRecorded`, `ReturnedIsAccounted`, with a click, a unit run, a terminal run, the window's probe, a concurrent `cancel` and all three faults, `crash`, `unreadable` and `undecodable` (about 3.7 million states) |
| `runner_progress` | `CallsEnd` and `LockComesFree` under fairness, and `TestsTakeTurns`: `TestRunner` implements `TestLog`, so that a call is turned away only while another tests or somebody asks |
| `scheduler` | in one state space (about 980,000 states) of six scenarios: `InForce`, a handler that ran to its end put the settings in force, whatever crash, logout or lost unit file came before and however the monitor's commands fail; `AppliedAsAsked` with every command, write and process failing; `ResumesAtLogin` with no more than the monitor's commands failing, and `MonitorInForce` with nothing failing; `ErrorComesToLight` under fairness: a timer that does not run comes to show, behind the banner of a missing engine if there is one, whatever fails, as long as no refresh has raised out of the ten-second timer |
| `migrations_safety` | `NoHalfMigration`, `OpenIsCurrent`, `InOrder`, and `UpgradedByWholes`: `Migrations` implements `SchemaLog`, for three openers |
| `interruption` | `OncePerGap`, of the interruptions on record no two report the same time, whatever was deleted in between, and whichever inserts failed, except that unit and window, having looked at the same moment, may each report what ended then; `NoFalseAlarm`, what is reported is a time in which the timer did not count or was set anew, lies across deleted records, or follows on scheduled tests that left no record; `HoleExplained`, a scheduled test explains a hole before its own record hides it, unless that very insert failed (about 3.1 million states) |
| `monitor` | `OnlyCarried`, no interface is credited with a byte it did not carry or with one twice; `NothingLost`, an unbroken series of readings is recorded to the byte (about 2.1 million states) |
| `history` | `FigureHonest`, a cell is blank exactly when no finite figure was supplied; `SuccessMeasured`, a record is a success exactly when a speed was printed; `ViewsAgree` between table, details, terminal and file; `FileComplete`, an export that runs while tests are stored has every record of its days once and in order; `DeletesByDay`, a deletion takes the records the table shows under the dates (about 570,000 states) |
| `window` | `DeletesPicked` and `DeletesCounted`, what a confirmation removes was picked or counted, however often the table was read again meanwhile; `NoLateState` for the callbacks of Test Now, and `ResultShown`, a reported result is in the table from the first refresh that could read the records; `StartsAfresh`, no test is started from the window before the thread of the last is over, with nothing left in the queue or uncommitted; under fairness `ButtonComesBack`, and `TableCatchesUp`, unless a refresh could not read or has raised out of its timer (about 430,000 states) |
| `settings` | `PinShown` and `SavingAloneChangesNothing`, whatever lists come and whichever write of Save fails; `NoPinRefused`, no list makes every later test fail; under fairness `FindComesBack` (about 460,000 states) |

Three runs are expected to find a violation: they state what a document or a
comment says and show the code doing otherwise.

| Run | Says | Happens |
| --- | --- | --- |
| `runner_undecodable` | every attempt is recorded | output that is not text raises out of `run_test` |
| `migrations_race` | open brings the file up to date | it fails because another process just did |
| `interruption_unexplained` | every gap in the history has a reason | a test made by hand, or a second interruption, hides the hole |

Other disagreements met on the way have no run of their own. Most are steps of
the models.

* In `TestRunner`: closing the window during a test leaves that attempt without
  a record (`ui/main_window.py:696`, a daemon thread nothing waits for; `Crash`),
  and its engine goes on without the lock, beside the next test
  (`core/test_runner.py:369` against the docstring, line 15). A scheduled test
  that meets the probe of `is_test_running` is recorded as skipped because of a
  test that does not exist (`core/test_runner.py:119` and 434). An engine that
  obeys SIGTERM while its helper ignores it is not followed by SIGKILL
  (`core/test_runner.py:413`).
* In `Scheduler`: a failed `systemctl stop` leaves tests running while all looks
  off (`core/scheduler.py:376` against 128-130). A failing timer command keeps
  the settings handler from reaching the monitor's commands
  (`ui/main_window.py:886`; that is why `MonitorInForce` is stated for behaviours
  without faults). One unanswered `is-system-running` makes `apply` return with
  the old timer in place while the window announces the new interval
  (`core/scheduler.py:355`; that is why `AppliedAsAsked` excludes it). With no
engine installed the banner never shows the scheduler's error
(`ui/main_window.py:558-563` against `core/scheduler.py:128-130`); that is why
`ErrorComesToLight` accepts that banner too. A read that raises out of
`refresh_all` removes the ten-second timer, and the page is not brought up to
date again until somebody presses a button (`ui/main_window.py:483-485`).
* In `Interruption`: a test may take longer than the gap allowed, up to an hour
  against the eleven minutes of a five-minute interval, and is then reported as
  an interruption (`core/scheduler.py:630`; `NoFalseAlarm` asks that two tests
  fit). Deleting the newest rows lengthens the gap that the next check measures,
  and an interruption is recorded over tests that took place
  (`storage/database.py:306`; `NoFalseAlarm` excepts it). A scheduled test that
leaves no record (`core/test_runner.py:457`, or an exception out of `run_test`)
looks like an interruption to the next check: with the real constants (a slack of
one minute, intervals of at least five) one is enough for a window opened while
the next test runs, and two in a row for the command itself. When the insert of
an interruption fails the command goes straight on to its test, whose record
then hides the hole (`cli.py:126`).
* In `Monitor` (whose model leaves the dates of a row out): a full summary is
  followed by one that the next sample opens, dated at the end of that sample
  while `duration_ms` counts it (`core/monitor.py:193-229`): the duration is longer
  than the time between the two dates.
* In `Measurement`: a speed of NaN or Infinity, which `json.loads` accepts, raises
  out of `run_test` and leaves no record (`core/models.py:175`; `Raises`). An
  infinite latency is blank in the file and `inf` in the table (`ViewsAgree` names
  it).
* In `Calendar`: where the end of a day is skipped or repeated, some records fall
  into no day of an export or into two (`storage/export_csv.py:227-232` leaves
  fold at 0; a few zones change their clocks at midnight). `Ordinary` excludes it
  from `FileComplete` and `DeletesByDay`, and `docs/ACCEPTANCE.md:241` does not.
* In `MainWindow`: a deletion by range takes the tests stored between the count
  and the confirmation as well (`ui/main_window.py:1352`; the second half of
  `DeletesCounted`). A row may be seen before its commit, and its id given to
  another when the commit fails (the exception in `DeletesPicked`). The message
  `_on_test_finished` puts in the banner is replaced by its own refresh
  (`ui/main_window.py:707-735`; the banner's text is not modelled), and so is the
one that says the records cannot be read (line 496), by the refresh of the status
that follows at once. `run_test`
  leaving as an exception ends the thread, and the button never comes back.
* In `ServerPicker`: a choice made while the search runs is put back to the saved
  pin when the list arrives, and Save then stores that
  (`ui/settings_dialog.py:264-278`). After a Save that failed past the server,
  the dialog still holds the pin it read at first. A `ParseError` of the list
  ends the thread, and the button never comes back
  (`ui/settings_dialog.py:242-249`). A preference for the engine that version 1.1
  removed is taken for automatic (`engines/registry.py:62-70`).

Each property of a passing run has a mutant: a plausible bug in one mapped
definition under which TLC finds the property violated (`PROJECT.json`,
`mutants`; the mutated forms stand before the definitions they change).

### Bounds

* TestRunner: three calls, one of each kind, are enough for one to hold the
  lock, one to be skipped and one to come next; a call runs once. There are no
  counters. A call is not repeated, so the systems may stop and the
  specification stutters (every instance keeps a probe that can act, so no
  deadlock is reported).
* Scheduler: two intervals, since a property tells apart only "the requested
  one" and "another". The six scenarios are no fault; the monitor's
  commands failing; these, crashes and a lost file;
  every command, write and file operation failing, with crashes, a unit file that
  may go at any moment and a timer that may die; systemctl not answering on
  top of failing commands, writes and timers; and a timer that may die where engines
  come and go and the reads of the status page fail. The state space is finite
  without further bounds.
* Migrations: the two migrations of the source, with two statements each, one of
  them the `ALTER TABLE`; three openers, since the window, the unit and the
  monitor may start together. Openers are interchangeable (symmetry).
* Interruption: `Horizon` 6 with intervals 1 and 2 and no slack, so that an
  interruption takes three or five ticks and two of three fit, with a test of one
  tick (`Longest`) beside them: just what `NoFalseAlarm` asks, and its exceptions
  are tight (were either to ask for one more test without a record, TLC would
  find a false alarm). Where the run looks for a violation, 9 with a slack of 1. The clock stops
  at `Horizon`: the runs do not check for deadlock.
* Monitor: two interchangeable interfaces (symmetry), three bytes each
  (`MaxBytes`) in a counter that wraps at three (`Width`), a clock of three
  (`Horizon`), summaries of two seconds (`Summary`) at one plausible byte a second
  (`Plausible`): a summary of one or of two samples, a moved route, a wrap and an
  implausible jump all happen in one history.

* History: three tests, one of which gets one of nine answers (every kind of
  figure and every end of an attempt) and the others the usual one; three
  instants on both sides of the ends of a day of four slots; one day, with the
  From or the To left open or not; four zones, with the clock changed at midday,
  at midnight in both directions, and so that a day ends twice.
* MainWindow: three tests, one stored before the window opens, one of which is
  named by an earlier time than it; two are enough for a test here and another
  elsewhere. Reads fail in a world of their own with two tests: a table that may
  lag behind in every way multiplies the states. No counters: a test starts once.
* ServerPicker: two servers, an id that is no number and an entry without one, in
  lists of up to two entries, so that the pinned server is missing, first, last
  or there twice.

### Fairness

* TestRunner: weak fairness of each call's own steps, of a `cancel` that has
  begun, and of the release of a probe: threads that can run do run, and the
  timeouts of `communicate` and of the grace period expire. Nothing is assumed
  of the engine, its helper or the user; entering a test and taking a free lock
  at a given moment are not promised either.
* Scheduler: weak fairness of the handler under way (each `systemctl` call has
  a timeout of 20 seconds) and strong fairness of the periodic refresh as long as
  its timer is there (`ticking`): a GLib timeout source that is due stays due while
  handlers run, and has the priority of input events, so that no clicking keeps it
  waiting for ever. A refresh that raised has removed the timer, and from then on
  nothing is assumed: nobody has to press a button.
* MainWindow: weak fairness of the thread (the engine is stopped after a
  timeout: `TestRunner`), of the refresh a handler ends with (`DueRefresh`), and of
  the ten-second refresh while its timer is there. Strong fairness of the queued
  callbacks: one waits while a handler runs, and handlers may follow one another
  for ever, but the loop comes to its idle callbacks between two of them.
* ServerPicker: weak fairness of the search (30 seconds) and of the handler of
  Save; strong fairness of its callback, which waits while a handler runs: the
  loop comes to its idle callbacks between two clicks.
* History, Migrations, Interruption and Monitor state no liveness.

## What is proved

All theorems hold for every value of the constants, from the `ASSUME`s of the
modules, which TLC evaluates in every run.

* **TestRunnerProofs**: `TypeCorrect`, `MutualExclusion`, `EngineUnderLock`,
  `StatusTruth`, `CancelTruth`, `Accounted`, `Refinement`, `LogPromise` and
  `NoWayBack`, for any number of callers and canceller and any faults. None of the
  safety properties is inductive by itself. `IInv` adds that a call inside a
  test holds the lock (`LockInv`), that an engine is alive only between `_spawn`
  and its `finally` (`EngineInv`), that the flag of `cancel` and the place of the
  canceller agree and the runner cannot pass its `finally` in between
  (`CancelInv`), that `timed_out` is set exactly by the timeout (`TimeoutInv`),
  that the verdict is the one the flags and the exit code give (`VerdictInv`),
  and that rows are what verdicts said (`RowInv`, `AnswerInv`). Each action
  preserves `IInv`, conjunct by conjunct; `StepRefines` maps every step to a
  step of `TestLog` or a stutter, with the lock of a probe as a turn of its own, and
  `LogPromise` says what that is worth: from the steps of `TestLog` alone, calls
  test one at a time and one that was answered has left one record or the news
  that there is none, never both. `NoWayBack` is the part of `CallsEnd` that needs
  no fairness: a call makes at most ten moves (`Left`), and no step of another
  thread, of the engine or of another process takes it back.
* **SchedulerProofs**: `TypeCorrect`; `AppliedTruth` (`AppliedAsAsked`, for any
  faults but an unanswered question); `SettingsInForce` (`InForce`, when the only faults are crashes,
  a unit file lost between calls and failing commands for the monitor);
  `ResumptionAtLogin` (`ResumesAtLogin`), when no more than those commands fail;
  `MonitorFollowsSetting` (`MonitorInForce`), when nothing does. The invariants
  say, place by place, which settings are already stored, what has been written,
  loaded and linked, and that from the return of `apply` on the settings are in
  force. `CleanInv` adds what survives the session: the unit file, and the links
  a login follows.
* **MigrationsProofs**: `TypeCorrect`, `Atomicity`, `Current`, `Ordered`, for any
  number of openers, versions and statements. The inductive invariant adds that
  the one who applies holds the write lock (`WriterInv`), that its transaction
  sees the committed schema and a prefix of its statements (`WorkInv`), and that
  a loop has left behind only applied versions (`LoopInv`), which is what makes
  `OpenIsCurrent` hold although the list was read too early. For `Refinement` it
  adds that the versions applied are those up to the latest of them
  (`VersionInv`), so that a commit is one step up. `SchemaPromise`: from the steps
  of `SchemaLog` alone the file is whole at every version, and complete for
  whoever has it open.
* **InterruptionProofs**: `TypeCorrect`, `OnceEach` (`OncePerGap`), `NoneInvented`
  (`NoFalseAlarm`) and `HolesAreExplained` (`HoleExplained`), with inserts that fail
  and scheduled tests without a record in all three. For the first the invariant
  adds that no record or pending report is dated in the future (`PastInv`), that
  every recorded gap has ended by the newest record, and that what a pending
  report counts from lies behind all of them, but for the gap the other caller
  reported at the same moment (`ApartInv`); a deletion leaves that true, as what is
  left on record lies before the newest that is left (`DeleteBack`). For the second,
  `PaceInv` bounds the time to the next start of the unit, counted from any moment
  since the newest record (or the start of the test under way) from which on the
  timer counted without interference: by one interval or the longest test
  (`Reach`), by twice that once a scheduled test has left no record (`Bound`); a
  break in the pace is never forgotten
  (`UnsteadyStays`). For the third, `HoleInv` carries the outcome of the check,
  and of the insert of what it found, over to the end of the test.
* **MonitorProofs**: `TypeCorrect`, `CreditOnlyCarried` (`OnlyCarried`) and
  `SeriesComplete` (`NothingLost`), for any number of interfaces, width of the
  counter, length of a summary and plausible rate. What is recorded stays below
  what was carried because of `Ahead`: what the next sample may add has been
  carried, which a reset, a wrap and a change of route leave true. The bound on
  the rows in `TypeOK` follows from it.
* **HistoryProofs**: `DayExact`, that the range computed for an ordinary day is
  exactly the instants shown under it, for any zone, day and number of slots;
  `FiguresAreHonest`, `SuccessesAreMeasured` and `ViewsAlwaysAgree`, which follow
  from one fact about every row, that its record is `RunOf` of its answer;
  `FilesAreComplete`, from the invariant that every row the cursor has left
  behind is in the file, in the order of time and id; `DeletionsAreByDay`, from
  the same lemmas on days.
* **MainWindowProofs**: `TypeCorrect`, `PickedOnly` (`DeletesPicked`),
  `CountedOnly` (`DeletesCounted`), `StatesInOrder` (`NoLateState`),
  `ResultsShown` (`ResultShown`) and `OneThread` (`StartsAfresh`), for any number of tests
  and any faults. Ids carry the
  argument: what was once seen of an id, in the table or in an open
  confirmation, still holds of the row that has it (`TableInv`, `DialogInv`),
  since the next id is above all that were seen, but for one that was rolled
  back (`NewRow`). `ReportInv` says that a reported row is in the table or owed to
  it: by the handler that has yet to refresh, or by a refresh that could not read. `ThreadInv` says that an outcome is the last of the queue.
* **ServerPickerProofs**: `TypeCorrect`, `PinIsShown`, `TestsAcceptThePin` and
  `SavingAloneIsHarmless`, for lists of any length. `ShowFits` is the loop over
  the servers; the invariant says that what nobody chose is what was saved
  (`FormInv`) and that all that is offered can be used (`OfferInv`).

Liveness (`CallsEnd`, `LockComesFree`, `ErrorComesToLight`, `ButtonComesBack`,
`TableCatchesUp`, `FindComesBack`) is model-checked only, as the prover has no
rules for fairness. Every safety property of the passing runs is proved.
`TypeOK` of `TestRunner`, `Scheduler`, `Migrations`, `Interruption`, `MainWindow`
and `ServerPicker` is proved only, and is no property of their runs; so are
`LogPromise`, `SchemaPromise` and `NoWayBack`.

## What is not modelled, and the plan

Still to come: `Monitor` with pruning and the dates of a row.

Five hazards have no property. All but the last are steps of the models, where
the code does what a document says it does not, so that no true property can
forbid it; the disagreements above tell what happens. They are the engine that
goes on when its caller dies (`core/test_runner.py:369`), the unanswered question
after which `apply` leaves the old timer (`core/scheduler.py:200`), the
commands that switch the timer off and are not checked (`core/scheduler.py:376`),
the monitor's commands that are never reached (`ui/main_window.py:886`), and the
dates of a summary when the route is lost (`core/monitor.py:193`), which the model
does not keep. Others have a property that holds on every way but the hazard's
own worst end; `PROJECT.json` says which (`note`).

Left out for good: widgets, wording and formatting, log set-up, paths, the
building of packages, the live throughput readout, the sorting of the table, and
the dialogs that explain or only show, which keep no state a property could be
about. `Scheduler.remove_units` has no caller.
