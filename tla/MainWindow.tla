------------------------------ MODULE MainWindow ------------------------------
(***************************************************************************)
(* ui/main_window.py while tests run: the table that is read again every   *)
(* ten seconds, the rows selected in it, the two ways of deleting records, *)
(* Test Now and the thread it starts, whose callbacks the main loop runs   *)
(* in the order they were added.  The thread and the main loop share one   *)
(* connection; tests elsewhere store rows as well (storage/database.py).   *)
(***************************************************************************)
EXTENDS Integers, Sequences, FiniteSets

CONSTANTS Record, \* the tests, each named by the time it started at
          Old,    \* the records there are when the window opens
          Worlds, \* what may fail, with the tests that are over and deleted;
                  \* "raise": run_test may raise; "commit": a commit may fail;
                  \* "read": what a refresh reads may not be readable
          None

ASSUME MainWindowAssumption ==
  /\ Record \subseteq Nat /\ Old \subseteq Record /\ IsFiniteSet(Old)
  /\ \A w \in Worlds : w.gone \subseteq Record
  /\ None \notin Nat /\ None \notin [id : Nat, rec : Nat]

VARIABLES
  stored,    \* the committed rows
  lastId,    \* AUTOINCREMENT; undone with the insert that raised it
  pending,   \* the row that the thread has inserted and not committed, or None
  begun,     \* the tests that have started
  table,     \* the rows shown; their order is a matter of display
  selected,  \* the rows selected
  due,       \* the handler that runs has a refresh yet to come
  ticking,   \* the periodic timer has not been removed
  dialog,    \* the confirmation that is open
  worker,    \* the thread of Test Now
  button,    \* Test Now can be pressed
  queue,     \* what idle_add has been given
  stateText, \* _state_text
  elsewhere, \* a test runs in another process, and holds the lock
  faults,    \* what may fail
  \* What the properties have to know of the past:
  picked,    \* the records selected by the user
  undone,    \* the ids of inserts that were rolled back
  reported,  \* the rows whose test was reported as stored
  unread     \* the last refresh left the table as it was

data   == <<stored, lastId, pending, begun, undone>>
timer  == <<ticking, unread>>
view   == <<table, selected, picked, due, timer>>
thread == <<worker, queue>>
vars   == <<data, view, dialog, thread, button, stateText, elsewhere, faults, reported>>

Row == [id : Nat, rec : Record]

Closed == [kind |-> "none"]
Over(pc, rec) == [pc |-> pc, rec |-> rec, holds |-> FALSE]

Init ==
  /\ \E id \in [Old -> 1 .. Cardinality(Old)] :
       /\ \A r, s \in Old : id[r] = id[s] => r = s
       /\ stored = {[id |-> id[r], rec |-> r] : r \in Old}
  /\ lastId = Cardinality(Old) /\ pending = None
  /\ \E w \in Worlds : faults = w.faults /\ begun = Old \cup w.gone
  /\ table = stored /\ selected = {} /\ due = FALSE
  /\ ticking = TRUE /\ unread = FALSE
  /\ dialog = Closed
  /\ worker = Over("ended", None) /\ button = TRUE /\ queue = <<>> /\ stateText = "Idle"
  /\ elsewhere = FALSE
  /\ picked = {} /\ undone = {} /\ reported = {}

-----------------------------------------------------------------------------
(* The table.                                                              *)

\* What a query of the main loop finds.  connect() waits for a transaction of
\* the thread, the query after it does not: it may see the uncommitted row.
Readings == {stored, stored \cup ({pending} \ {None})}

Ids(rows) == {r.id : r \in rows}

\* Mutant: the selection is restored by position.
RestoredByPosition(read) ==
  LET Position(r, rows) == Cardinality({s \in rows : s.rec > r.rec})
  IN  {r \in read : \E s \in selected : Position(r, read) = Position(s, table)}

\* _selected_run_ids, _restore_selection
Restored(read) == {r \in read : r.id \in Ids(selected)}

\* Mutant: the rows shown are not removed first.
RereadAppends ==
  /\ \E read \in Readings : table' = table \cup read /\ selected' = Restored(read)
  /\ unread' = FALSE

\* refresh_table.  With DatabaseError it returns, any other error it does not
\* catch: the table stays as it is.
Reread ==
  \/ /\ \E read \in Readings : table' = read /\ selected' = Restored(read)
     /\ unread' = FALSE
  \/ /\ "read" \in faults
     /\ unread' = TRUE /\ UNCHANGED <<table, selected>>

\* refresh_all.  An exception leaves it from list_runs or, with the table read,
\* from refresh_status: latest_run, is_test_running.
RefreshAll(raises) ==
  /\ raises => "read" \in faults
  /\ Reread
  /\ UNCHANGED <<data, picked, dialog, thread, button, stateText, elsewhere, faults, reported>>

\* _on_periodic_refresh.  GLib removes the timer whose callback raises.
PeriodicRefresh ==
  /\ ticking /\ ~due
  /\ \E raises \in BOOLEAN : RefreshAll(raises) /\ ticking' = ~raises
  /\ UNCHANGED due

\* The refresh at the end of a handler; an exception ends the handler.
DueRefresh ==
  /\ due
  /\ \E raises \in BOOLEAN : RefreshAll(raises)
  /\ due' = FALSE /\ UNCHANGED ticking

Clickable == ~due /\ dialog = Closed

\* The button, or another order.
PressRefresh ==
  /\ Clickable
  /\ \E raises \in BOOLEAN : RefreshAll(raises)
  /\ UNCHANGED <<due, ticking>>

\* The user selects rows.
Pick(rows) ==
  /\ Clickable
  /\ selected' = rows
  /\ picked' = {r.rec : r \in rows}
  /\ UNCHANGED <<data, table, due, timer, dialog, thread, button, stateText,
                 elsewhere, faults, reported>>

-----------------------------------------------------------------------------
(* Deletion.                                                               *)

Ask(confirmation) ==
  /\ Clickable
  /\ dialog' = confirmation
  /\ UNCHANGED <<data, view, thread, button, stateText, elsewhere, faults, reported>>

\* _on_delete_selected: the ids are settled here.
AskSelected ==
  /\ selected # {}
  /\ Ask([kind |-> "selected", ids |-> Ids(selected), recs |-> picked])

InRange(row, low, high) == low <= row.rec /\ row.rec <= high

\* _on_delete_clicked: what is in the range is counted, and the count shown.
AskRange(low, high) ==
  \E read \in Readings :
    LET counted == {r \in read : InRange(r, low, high)}
    IN  /\ counted # {}
        /\ Ask([kind |-> "range", low |-> low, high |-> high,
                counted |-> counted, last |-> lastId])

\* Mutant: the dates are not passed on.
DoomedAll == IF dialog.kind = "selected" THEN {r \in stored : r.id \in dialog.ids} ELSE stored

\* delete_runs_by_id, delete_runs
Doomed ==
  IF dialog.kind = "selected"
  THEN {r \in stored : r.id \in dialog.ids}
  ELSE {r \in stored : InRange(r, dialog.low, dialog.high)}

\* _on_delete_selected_confirmed, _on_confirmed, up to the refresh.  The lock
\* of the transaction waits for the thread's.
Confirm ==
  /\ dialog # Closed /\ pending = None /\ ~due
  /\ stored' = stored \ Doomed
  /\ IF dialog.kind = "selected"
     THEN selected' = {} /\ picked' = {}
     ELSE UNCHANGED <<selected, picked>>
  /\ dialog' = Closed /\ due' = TRUE
  /\ UNCHANGED <<lastId, pending, begun, undone, table, timer, thread, button, stateText,
                 elsewhere, faults, reported>>

\* Cancel; or a delete that failed, of which nothing is left.
Dismiss ==
  /\ dialog # Closed /\ ~due
  /\ dialog' = Closed
  /\ UNCHANGED <<data, view, thread, button, stateText, elsewhere, faults, reported>>

-----------------------------------------------------------------------------
(* Test Now and its thread.                                                *)

\* _on_test_now.  While the thread is alive nothing happens; while a test runs
\* elsewhere there is only a message.
TestNow(rec) ==
  /\ Clickable /\ button /\ ~elsewhere
  /\ worker.pc \in {"ended", "raised"}
  /\ rec \notin begun
  /\ begun' = begun \cup {rec}
  /\ button' = FALSE /\ stateText' = "Testing"
  /\ worker' = [pc |-> "calling", rec |-> rec, holds |-> FALSE]
  /\ UNCHANGED <<stored, lastId, pending, undone, view, dialog, queue, elsewhere, faults, reported>>

rest == <<view, dialog, button, stateText, elsewhere, faults, reported>>

\* The thread moves on; notify is idle_add(_set_state, ...).
Step(from, to, notified) ==
  /\ worker.pc = from
  /\ worker' = [worker EXCEPT !.pc = to]
  /\ queue' = queue \o notified

\* run_test with the lock; when a test has started elsewhere meanwhile, all
\* there is to do is to record that this one was skipped.
Start ==
  /\ worker.pc = "calling"
  /\ IF elsewhere
     THEN worker' = [worker EXCEPT !.pc = "storing"] /\ UNCHANGED queue
     ELSE /\ worker' = [worker EXCEPT !.pc = "testing", !.holds = TRUE]
          /\ queue' = Append(queue, "Testing")
  /\ UNCHANGED <<data, rest>>

\* _execute, whose result may be worth a notice.
Finish ==
  /\ \/ Step("testing", "storing", <<>>)
     \/ Step("testing", "storing", <<"Saving">>)
  /\ UNCHANGED <<data, rest>>

\* An exception ends the thread: _on_test_finished is never called.
Raise ==
  /\ "raise" \in faults
  /\ worker.pc \in {"testing", "storing"}
  /\ worker' = Over("raised", worker.rec)
  /\ UNCHANGED <<data, queue, rest>>

NextId == lastId + 1

\* insert_run, up to the commit.
Insert ==
  /\ Step("storing", "inserted", <<>>)
  /\ pending' = [id |-> NextId, rec |-> worker.rec]
  /\ UNCHANGED <<stored, lastId, begun, undone, rest>>

Commit ==
  /\ Step("inserted", "stored", <<"Idle">>)
  /\ stored' = stored \cup {pending} /\ lastId' = pending.id
  /\ pending' = None
  /\ UNCHANGED <<begun, undone, rest>>

Rollback ==
  /\ "commit" \in faults
  /\ Step("inserted", "unsaved", <<"Error">>)
  /\ pending' = None /\ undone' = undone \cup {pending.id}
  /\ UNCHANGED <<stored, lastId, begun, rest>>

\* Mutant: the end is reported ahead of the states that precede it.
ReturnFirst ==
  /\ worker.pc \in {"stored", "unsaved"}
  /\ queue' = <<worker.pc>> \o queue
  /\ worker' = Over("ended", worker.rec)
  /\ UNCHANGED <<data, rest>>

\* idle_add(_on_test_finished, outcome); the lock is free.
Return ==
  /\ worker.pc \in {"stored", "unsaved"}
  /\ queue' = Append(queue, worker.pc)
  /\ worker' = Over("ended", worker.rec)
  /\ UNCHANGED <<data, rest>>

-----------------------------------------------------------------------------
(* The main loop runs what idle_add was given: states to show, and one     *)
(* outcome.                                                                *)

States   == {"Testing", "Saving", "Idle", "Error"}
Outcomes == {"stored", "unsaved"}

\* Mutant: the button comes back with the state "Idle".
SetStateEnables ==
  /\ ~due /\ queue # <<>> /\ Head(queue) \in States
  /\ stateText' = Head(queue)
  /\ button' = (button \/ Head(queue) = "Idle")
  /\ queue' = Tail(queue)
  /\ UNCHANGED <<data, view, dialog, worker, elsewhere, faults, reported>>

SetState ==
  /\ ~due /\ queue # <<>> /\ Head(queue) \in States
  /\ stateText' = Head(queue)
  /\ queue' = Tail(queue)
  /\ UNCHANGED <<data, view, dialog, worker, button, elsewhere, faults, reported>>

Finished(refresh, pressable) ==
  /\ ~due /\ queue # <<>> /\ Head(queue) \in Outcomes
  /\ button' = pressable /\ stateText' = "Idle"
  /\ reported' = reported \cup {r \in stored : Head(queue) = "stored" /\ r.rec = worker.rec}
  /\ queue' = Tail(queue)
  /\ due' = refresh
  /\ UNCHANGED <<data, table, selected, picked, timer, dialog, worker, elsewhere, faults>>

\* Mutant: the handler returns without a refresh.
OnTestFinishedQuietly == Finished(FALSE, TRUE)

\* Mutant: the button is forgotten when the result could not be saved.
OnTestFinishedSaved == Finished(TRUE, Head(queue) = "stored")

\* _on_test_finished, up to the refresh.
OnTestFinished == Finished(TRUE, TRUE)

-----------------------------------------------------------------------------
(* Other processes.                                                        *)

\* A test begins or ends.
Elsewhere ==
  /\ ~worker.holds
  /\ elsewhere' = ~elsewhere
  /\ UNCHANGED <<data, view, dialog, thread, button, stateText, faults, reported>>

\* A record of another process: a test, a skipped one, a missed window.
StoreElsewhere(rec) ==
  /\ rec \notin begun /\ pending = None
  /\ begun' = begun \cup {rec}
  /\ lastId' = NextId
  /\ stored' = stored \cup {[id |-> NextId, rec |-> rec]}
  /\ UNCHANGED <<pending, undone, view, dialog, thread, button, stateText,
                 elsewhere, faults, reported>>

-----------------------------------------------------------------------------

Run ==
  Start \/ Finish \/ Raise \/ Insert \/ Commit \/ Rollback \/ Return

Callback == SetState \/ OnTestFinished

Next ==
  \/ PeriodicRefresh \/ DueRefresh \/ PressRefresh
  \/ AskSelected \/ Confirm \/ Dismiss
  \/ \E rows \in SUBSET table : Pick(rows)
  \/ \E low \in Record, high \in Record : AskRange(low, high)
  \/ \E rec \in Record : TestNow(rec) \/ StoreElsewhere(rec)
  \/ Run \/ Callback \/ Elsewhere

\* The ten-second timer keeps coming as long as it is there; a handler goes on to
\* its refresh; the main loop runs what is queued between any two handlers, however
\* many there are; the engine is stopped after a while (TestRunner).
Fairness ==
  WF_vars(PeriodicRefresh) /\ WF_vars(DueRefresh) /\ SF_vars(Callback) /\ WF_vars(Run)

Spec == Init /\ [][Next]_vars /\ Fairness

-----------------------------------------------------------------------------
(* Properties.                                                             *)

Stages == {"calling", "testing", "storing", "inserted", "stored", "unsaved", "ended", "raised"}

\* Type correctness; every row has an id of its own.
TypeOK ==
  /\ stored \subseteq Row /\ lastId \in Nat /\ pending \in Row \cup {None}
  /\ \A r \in stored : r.id <= lastId
  /\ \A r, s \in stored : r.id = s.id => r = s
  /\ begun \subseteq Record /\ undone \subseteq Nat /\ picked \subseteq Record
  /\ table \subseteq Row /\ selected \subseteq table /\ reported \subseteq Row
  /\ {due, ticking, unread} \subseteq BOOLEAN /\ button \in BOOLEAN /\ elsewhere \in BOOLEAN
  /\ worker \in [pc : Stages, rec : Record \cup {None}, holds : BOOLEAN]
  /\ queue \in Seq(States \cup Outcomes)
  /\ stateText \in States

\* However often the table is read again between the click and the confirmation,
\* and whatever is stored and deleted meanwhile, "Delete selected" removes only
\* records the user picked.  The one exception takes two faults: the id shown
\* was of an insert that was then rolled back, and has been given again.
DeletesPicked ==
  [][dialog.kind = "selected" =>
       \A r \in stored \ stored' : r.rec \in dialog.recs \/ r.id \in undone]_vars

\* "Delete records" removes what was counted, and else only what has been stored
\* since (_pending keeps the count and _on_confirmed does not look at it).
DeletesCounted ==
  [][dialog.kind = "range" =>
       \A r \in stored \ stored' : r \in dialog.counted \/ r.id > dialog.last]_vars

\* When the thread is over and its callbacks have run, the window says so: no
\* state of the test comes after its end.
NoLateState == worker.pc = "ended" /\ queue = <<>> => stateText = "Idle" /\ button

\* A test begins only when nothing of the one before is left: its callbacks have
\* run, and none can take the new test for its own and give the button back.
StartsAfresh ==
  [][\A rec \in Record :
       TestNow(rec) => worker.pc = "ended" /\ queue = <<>> /\ pending = None]_vars

\* A result that has been reported is in the table until it is deleted: from the
\* end of the handler that reports it, or else from the next refresh that can read
\* the records.
ResultShown == ~due /\ ~unread => reported \cap stored \subseteq table

\* Test Now can be pressed again, unless run_test has raised.
ButtonComesBack == ~button ~> (button \/ worker.pc = "raised")

\* The table comes to show what is stored, whichever process stored or deleted it,
\* unless a refresh could not read the records, or its exception has removed the
\* timer for good.
TableCatchesUp == (table # stored) ~> (table = stored \/ unread \/ ~ticking)
=============================================================================
