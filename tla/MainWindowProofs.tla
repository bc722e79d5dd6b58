--------------------------- MODULE MainWindowProofs ---------------------------
(***************************************************************************)
(* Proofs about MainWindow.  The argument for the deletions is about ids:  *)
(* an id that has been seen in the table belongs to the row it was seen    *)
(* with, unless its insert was undone.                                     *)
(***************************************************************************)
EXTENDS MainWindow, FiniteSetTheorems, TLAPS

Live == stored \cup ({pending} \ {None})

\* Every id that a query may find is its row's own.
RowsInv ==
  /\ stored \subseteq Row /\ lastId \in Nat /\ pending \in Row \cup {None}
  /\ \A r \in stored : r.id <= lastId
  /\ pending # None => pending.id = lastId + 1
  /\ \A r, s \in stored : r.id = s.id => r = s

\* What has been seen of an id still holds.
Seen(id) == id \in Nat /\ (id <= lastId \/ id \in undone \/ (pending # None /\ id = pending.id))

TableInv ==
  /\ table \subseteq Row /\ selected \subseteq table
  /\ begun \subseteq Record /\ undone \subseteq Nat /\ picked \subseteq Record
  /\ \A t \in table : Seen(t.id) /\ \A r \in Live : t.id = r.id => t = r \/ t.id \in undone
  /\ \A t \in selected : t.rec \in picked \/ t.id \in undone

DialogInv ==
  /\ dialog.kind \in {"none", "selected", "range"}
  /\ dialog.kind = "none" => dialog = Closed
  /\ dialog.kind = "selected" =>
       /\ \A id \in dialog.ids : Seen(id)
       /\ \A r \in Live : r.id \in dialog.ids => r.rec \in dialog.recs \/ r.id \in undone
  /\ dialog.kind = "range" =>
       /\ dialog.last \in Nat /\ dialog.last <= lastId
       /\ \A r \in stored : InRange(r, dialog.low, dialog.high) =>
            r \in dialog.counted \/ r.id > dialog.last

\* The outcome is the last thing the thread queues, and all that is left of it.
ThreadInv ==
  /\ worker \in [pc : Stages, rec : Record \cup {None}, holds : BOOLEAN]
  /\ queue \in Seq(States \cup Outcomes)
  /\ stateText \in States /\ button \in BOOLEAN /\ elsewhere \in BOOLEAN
  /\ worker.pc \notin {"ended", "raised"} => worker.rec \in Record
  /\ worker.pc = "inserted" <=> pending # None
  /\ worker.pc # "ended" => ~button
  /\ \A n \in 1 .. Len(queue) :
       queue[n] \in Outcomes => n = Len(queue) /\ worker.pc = "ended"
  /\ worker.pc = "ended" =>
       IF queue = <<>> THEN button /\ stateText = "Idle"
       ELSE ~button /\ queue[Len(queue)] \in Outcomes

ReportInv ==
  /\ due \in BOOLEAN
  /\ reported \subseteq Row /\ \A r \in reported : r.id <= lastId
  /\ ticking \in BOOLEAN /\ unread \in BOOLEAN
  /\ ~due /\ ~unread => reported \cap stored \subseteq table

IInv == RowsInv /\ TableInv /\ DialogInv /\ ThreadInv /\ ReportInv

LEMMA LiveUnique ==
  ASSUME RowsInv, NEW r \in Live, NEW s \in Live, r.id = s.id
  PROVE  r = s
BY DEF RowsInv, Live, Row

LEMMA LiveSeen ==
  ASSUME RowsInv, NEW r \in Live
  PROVE  r \in Row /\ Seen(r.id)
BY DEF RowsInv, Live, Row, Seen

LEMMA ReadingsAreLive ==
  ASSUME NEW read \in Readings
  PROVE  stored \subseteq read /\ read \subseteq Live
BY DEF Readings, Live

\* With nothing inserted, the next id is one that was not seen, or was undone.
LEMMA NextIdUnseen ==
  ASSUME RowsInv, pending = None, NEW id, Seen(id), id = NextId
  PROVE  id \in undone
BY DEF RowsInv, Seen, NextId

-----------------------------------------------------------------------------
(* Frames: what an action that leaves the data alone keeps.                *)

LEMMA DataFrame ==
  ASSUME IInv, UNCHANGED <<stored, lastId, pending, undone>>
  PROVE  /\ RowsInv' /\ Live' = Live
         /\ \A id : Seen(id)' <=> Seen(id)
BY DEF IInv, RowsInv, Live, Seen

LEMMA TableFrame ==
  ASSUME IInv, UNCHANGED <<stored, lastId, pending, undone, table, selected, picked>>, begun' \subseteq Record
  PROVE  TableInv'
BY DataFrame DEF IInv, TableInv, Live, Seen

LEMMA DialogFrame ==
  ASSUME IInv, UNCHANGED <<stored, lastId, pending, undone, dialog>>
  PROVE  DialogInv'
BY DataFrame DEF IInv, DialogInv, Live, Seen, InRange

LEMMA ReportFrame ==
  ASSUME IInv, UNCHANGED <<stored, lastId, table, due, timer, reported>>
  PROVE  ReportInv'
BY DEF IInv, ReportInv, timer

LEMMA ThreadFrame ==
  ASSUME IInv, UNCHANGED <<worker, queue, stateText, button>>, elsewhere' \in BOOLEAN, pending' = pending
  PROVE  ThreadInv'
BY DEF IInv, ThreadInv

-----------------------------------------------------------------------------

LEMMA InitInv == Init => IInv
<1> SUFFICES ASSUME Init PROVE IInv
  OBVIOUS
<1>1. PICK id \in [Old -> 1 .. Cardinality(Old)] :
        /\ \A r, s \in Old : id[r] = id[s] => r = s
        /\ stored = {[id |-> id[r], rec |-> r] : r \in Old}
  BY DEF Init
<1>2. Cardinality(Old) \in Nat /\ Old \subseteq Record
  BY MainWindowAssumption, FS_CardinalityType
<1>3. \A r \in stored : r \in Row /\ r.id <= lastId
  BY <1>1, <1>2 DEF Init, Row
<1>4. \A r, s \in stored : r.id = s.id => r = s
  BY <1>1
<1>5. RowsInv
  BY <1>2, <1>3, <1>4 DEF Init, RowsInv
<1>6. Live = stored
  BY DEF Live, Init
<1>11. begun \subseteq Record
  BY <1>2, MainWindowAssumption DEF Init
<1>7. TableInv
  BY <1>2, <1>3, <1>4, <1>6, <1>11 DEF Init, TableInv, Seen, Row
<1>8. DialogInv
  BY DEF Init, DialogInv, Closed
<1>9. ThreadInv
  <2>1. queue = <<>> /\ worker = [pc |-> "ended", rec |-> None, holds |-> FALSE] /\ pending = None
        /\ stateText = "Idle" /\ button = TRUE /\ elsewhere = FALSE
    BY DEF Init, Over
  <2>2. queue \in Seq(States \cup Outcomes) /\ Len(queue) = 0
    BY <2>1
  <2>3. worker \in [pc : Stages, rec : Record \cup {None}, holds : BOOLEAN] /\ worker.pc = "ended"
    BY <2>1 DEF Stages
  <2>4. stateText \in States /\ button \in BOOLEAN /\ elsewhere \in BOOLEAN
    BY <2>1 DEF States
  <2> QED BY <2>1, <2>2, <2>3, <2>4 DEF ThreadInv
<1>10. ReportInv
  BY DEF Init, ReportInv
<1> QED BY <1>5, <1>7, <1>8, <1>9, <1>10 DEF IInv

\* A refresh, whatever it can read and whether or not it raises.
LEMMA RefreshAllInv ==
  ASSUME IInv, NEW raises \in BOOLEAN, RefreshAll(raises),
         due' \in BOOLEAN, ticking' \in BOOLEAN
  PROVE  IInv'
<1>1. UNCHANGED <<data, picked, dialog, thread, button, stateText, elsewhere, reported>>
  BY DEF RefreshAll
<1>2. RowsInv' /\ DialogInv' /\ ThreadInv'
  BY <1>1, DataFrame, DialogFrame, ThreadFrame DEF data, thread, IInv, ThreadInv
<1>3. CASE unread' = TRUE /\ UNCHANGED <<table, selected>>
  <2>1. TableInv'
    BY <1>1, <1>3, TableFrame DEF data, IInv, TableInv
  <2>2. ReportInv'
    BY <1>1, <1>3 DEF IInv, ReportInv, data
  <2> QED BY <1>2, <2>1, <2>2 DEF IInv
<1>4. ASSUME NEW read \in Readings, table' = read, selected' = Restored(read), unread' = FALSE
      PROVE  IInv'
  <2>1. stored \subseteq read /\ read \subseteq Live
    BY ReadingsAreLive
  <2>2. \A t \in read : t \in Row /\ Seen(t.id) /\ \A r \in Live : t.id = r.id => t = r
    BY <2>1, LiveSeen, LiveUnique DEF IInv
  <2>3. ASSUME NEW t \in Restored(read) PROVE t \in read /\ (t.rec \in picked \/ t.id \in undone)
    <3>1. PICK s \in selected : s.id = t.id
      BY DEF Restored, Ids
    <3>2. t \in read /\ (s = t \/ s.id \in undone)
      BY <2>1, <3>1 DEF Restored, IInv, TableInv
    <3> QED BY <3>1, <3>2 DEF IInv, TableInv
  <2>4. TableInv'
    BY <1>1, <1>4, <2>2, <2>3 DEF IInv, TableInv, Live, Seen, data
  <2>5. ReportInv'
    BY <1>1, <1>4, <2>1 DEF IInv, ReportInv, data
  <2> QED BY <1>2, <2>4, <2>5 DEF IInv
<1> QED BY <1>3, <1>4 DEF RefreshAll, Reread

LEMMA RefreshInv ==
  ASSUME IInv, PeriodicRefresh \/ DueRefresh \/ PressRefresh
  PROVE  IInv'
<1>1. PICK raises \in BOOLEAN : RefreshAll(raises)
  BY DEF PeriodicRefresh, DueRefresh, PressRefresh
<1>2. due' \in BOOLEAN /\ ticking' \in BOOLEAN
  BY DEF PeriodicRefresh, DueRefresh, PressRefresh, IInv, ReportInv
<1> QED BY <1>1, <1>2, RefreshAllInv

LEMMA PickInv ==
  ASSUME IInv, NEW rows \in SUBSET table, Pick(rows)
  PROVE  IInv'
<1>1. /\ selected' = rows /\ picked' = {r.rec : r \in rows}
      /\ UNCHANGED <<data, table, due, timer, dialog, thread, button, stateText, elsewhere, reported>>
  BY DEF Pick
<1>2. TableInv'
  BY <1>1 DEF IInv, TableInv, Live, Seen, data, Row
<1>3. RowsInv' /\ DialogInv' /\ ThreadInv' /\ ReportInv'
  BY <1>1, DataFrame, DialogFrame, ThreadFrame, ReportFrame DEF data, timer, thread, IInv, ThreadInv
<1> QED BY <1>2, <1>3 DEF IInv

LEMMA AskInv ==
  ASSUME IInv, NEW confirmation, Ask(confirmation), DialogInv'
  PROVE  IInv'
BY DataFrame, TableFrame, ThreadFrame, ReportFrame DEF Ask, data, view, thread, IInv, TableInv, ThreadInv

LEMMA AskSelectedInv ==
  ASSUME IInv, AskSelected
  PROVE  IInv'
<1> DEFINE new == [kind |-> "selected", ids |-> Ids(selected), recs |-> picked]
<1>1. Ask(new) /\ dialog' = new /\ UNCHANGED data
  BY DEF AskSelected, Ask
<1>2. \A id \in Ids(selected) : Seen(id)
  BY DEF Ids, IInv, TableInv
<1>3. ASSUME NEW r \in Live, r.id \in Ids(selected) PROVE r.rec \in picked \/ r.id \in undone
  BY <1>3 DEF Ids, IInv, TableInv
<1>4. DialogInv'
  BY <1>1, <1>2, <1>3 DEF DialogInv, Live, Seen, data
<1> QED BY <1>1, <1>4, AskInv

LEMMA AskRangeInv ==
  ASSUME IInv, NEW low \in Record, NEW high \in Record, AskRange(low, high)
  PROVE  IInv'
<1>1. PICK read \in Readings :
        Ask([kind |-> "range", low |-> low, high |-> high,
             counted |-> {r \in read : InRange(r, low, high)}, last |-> lastId])
  BY DEF AskRange
<1> DEFINE new == [kind |-> "range", low |-> low, high |-> high,
                   counted |-> {r \in read : InRange(r, low, high)}, last |-> lastId]
<1>2. dialog' = new /\ UNCHANGED data
  BY <1>1 DEF Ask
<1>3. stored \subseteq read
  BY ReadingsAreLive
<1>4. DialogInv'
  BY <1>2, <1>3 DEF DialogInv, data, IInv, RowsInv, InRange
<1> QED BY <1>1, <1>4, AskInv

LEMMA DismissInv ==
  ASSUME IInv, Dismiss
  PROVE  IInv'
<1>1. dialog' = Closed /\ UNCHANGED <<data, view, thread, button, stateText, elsewhere, reported>>
  BY DEF Dismiss
<1>2. DialogInv'
  BY <1>1 DEF DialogInv, Closed
<1> QED BY <1>1, <1>2, DataFrame, TableFrame, ThreadFrame, ReportFrame
      DEF data, view, thread, IInv, TableInv, ThreadInv

LEMMA ConfirmInv ==
  ASSUME IInv, Confirm
  PROVE  IInv'
<1>1. /\ stored' \subseteq stored /\ due' = TRUE /\ dialog' = Closed /\ pending = None
      /\ UNCHANGED <<lastId, pending, begun, undone, table, timer, thread, button, stateText,
                     elsewhere, reported>>
      /\ \/ selected' = {} /\ picked' = {}
         \/ UNCHANGED <<selected, picked>>
  BY DEF Confirm
<1>2. RowsInv'
  BY <1>1 DEF IInv, RowsInv
<1>3. Live' \subseteq Live /\ \A id : Seen(id)' <=> Seen(id)
  BY <1>1 DEF Live, Seen
<1>4. TableInv'
  BY <1>1, <1>3 DEF IInv, TableInv
<1>5. DialogInv'
  BY <1>1 DEF DialogInv, Closed
<1>6. ThreadInv' /\ ReportInv'
  BY <1>1, ThreadFrame DEF IInv, ReportInv, timer, thread, ThreadInv
<1> QED BY <1>2, <1>4, <1>5, <1>6 DEF IInv

LEMMA TestNowInv ==
  ASSUME IInv, NEW rec \in Record, TestNow(rec)
  PROVE  IInv'
<1>1. /\ button /\ button' = FALSE /\ stateText' = "Testing" /\ begun' = begun \cup {rec}
      /\ worker' = [pc |-> "calling", rec |-> rec, holds |-> FALSE]
      /\ UNCHANGED <<stored, lastId, pending, undone, view, dialog, queue, elsewhere, reported>>
  BY DEF TestNow
<1>2. worker.pc = "ended" /\ queue = <<>> /\ pending = None
  BY <1>1 DEF IInv, ThreadInv
<1>3. ThreadInv'
  <2>1. worker' \in [pc : Stages, rec : Record \cup {None}, holds : BOOLEAN]
        /\ worker'.pc = "calling" /\ worker'.rec \in Record
    BY <1>1 DEF Stages
  <2>2. stateText' \in States /\ button' \in BOOLEAN /\ elsewhere' \in BOOLEAN /\ ~button'
    BY <1>1 DEF States, IInv, ThreadInv
  <2>3. queue' = <<>> /\ queue' \in Seq(States \cup Outcomes) /\ Len(queue') = 0
    BY <1>1, <1>2
  <2>4. pending' = None
    BY <1>1, <1>2
  <2> QED BY <2>1, <2>2, <2>3, <2>4 DEF ThreadInv
<1> QED BY <1>1, <1>3, DataFrame, TableFrame, DialogFrame, ReportFrame DEF view, IInv, TableInv

-----------------------------------------------------------------------------
(* The thread.                                                             *)

\* A step of a thread that is not over queues a state or nothing.
LEMMA ThreadGoesOn ==
  ASSUME IInv, worker.pc \notin {"ended", "raised"},
         worker'.pc # "ended", worker'.rec = worker.rec,
         worker' \in [pc : Stages, rec : Record \cup {None}, holds : BOOLEAN],
         queue' = queue \/ \E s \in States : queue' = Append(queue, s),
         worker'.pc = "inserted" <=> pending' # None,
         UNCHANGED <<button, stateText, elsewhere>>
  PROVE  ThreadInv'
<1>1. /\ queue \in Seq(States \cup Outcomes) /\ ~button /\ worker.rec \in Record
      /\ \A n \in 1 .. Len(queue) : queue[n] \notin Outcomes
  BY DEF IInv, ThreadInv
<1>2. States \cap Outcomes = {}
  BY DEF States, Outcomes
<1>3. queue' \in Seq(States \cup Outcomes) /\ \A n \in 1 .. Len(queue') : queue'[n] \notin Outcomes
  <2>1. CASE queue' = queue
    BY <1>1, <2>1
  <2>2. ASSUME NEW s \in States, queue' = Append(queue, s)
        PROVE  queue' \in Seq(States \cup Outcomes) /\ \A n \in 1 .. Len(queue') : queue'[n] \notin Outcomes
    BY <1>1, <1>2, <2>2
  <2> QED BY <2>1, <2>2
<1>4. stateText' \in States /\ button' \in BOOLEAN /\ elsewhere' \in BOOLEAN /\ ~button'
  BY <1>1 DEF IInv, ThreadInv
<1> QED BY <1>1, <1>3, <1>4 DEF ThreadInv

LEMMA StartInv ==
  ASSUME IInv, Start
  PROVE  IInv'
<1>1. /\ worker.pc = "calling" /\ UNCHANGED <<data, rest>>
      /\ worker' = [worker EXCEPT !.pc = "storing"] \/ worker' = [worker EXCEPT !.pc = "testing", !.holds = TRUE]
      /\ queue' = queue \/ queue' = Append(queue, "Testing")
  BY DEF Start
<1>2. /\ worker' \in [pc : Stages, rec : Record \cup {None}, holds : BOOLEAN]
      /\ worker'.pc \in {"storing", "testing"} /\ worker'.rec = worker.rec
  BY <1>1 DEF IInv, ThreadInv, Stages
<1>3. pending' = None
  BY <1>1 DEF IInv, ThreadInv, data
<1>4. ThreadInv'
  BY <1>1, <1>2, <1>3, ThreadGoesOn DEF rest, States
<1> QED BY <1>1, <1>4, DataFrame, TableFrame, DialogFrame, ReportFrame DEF data, view, rest, IInv, TableInv

LEMMA FinishInv ==
  ASSUME IInv, Finish
  PROVE  IInv'
<1>1. /\ worker.pc = "testing" /\ UNCHANGED <<data, rest>>
      /\ worker' = [worker EXCEPT !.pc = "storing"]
      /\ queue' = queue \o <<>> \/ queue' = queue \o <<"Saving">>
  BY DEF Finish, Step
<1>2. /\ worker' \in [pc : Stages, rec : Record \cup {None}, holds : BOOLEAN]
      /\ worker'.pc = "storing" /\ worker'.rec = worker.rec
  BY <1>1 DEF IInv, ThreadInv, Stages
<1>3. pending' = None
  BY <1>1 DEF IInv, ThreadInv, data
<1>4. queue' = queue \/ queue' = Append(queue, "Saving")
  <2>1. queue \in Seq(States \cup Outcomes)
    BY DEF IInv, ThreadInv
  <2>2. queue \o <<>> = queue
    BY <2>1
  <2>3. "Saving" \in States \cup Outcomes
    BY DEF States
  <2>4. queue \o <<"Saving">> = Append(queue, "Saving")
    BY <2>1, <2>3
  <2> QED BY <1>1, <2>2, <2>4
<1>5. ThreadInv'
  BY <1>1, <1>2, <1>3, <1>4, ThreadGoesOn DEF rest, States
<1> QED BY <1>1, <1>5, DataFrame, TableFrame, DialogFrame, ReportFrame DEF data, view, rest, IInv, TableInv

LEMMA RaiseInv ==
  ASSUME IInv, Raise
  PROVE  IInv'
<1>1. /\ worker.pc \in {"testing", "storing"} /\ UNCHANGED <<data, queue, rest>>
      /\ worker' = [pc |-> "raised", rec |-> worker.rec, holds |-> FALSE]
  BY DEF Raise, Over
<1>2. /\ worker' \in [pc : Stages, rec : Record \cup {None}, holds : BOOLEAN]
      /\ worker'.pc = "raised" /\ worker'.rec = worker.rec
  BY <1>1 DEF IInv, ThreadInv, Stages
<1>3. pending' = None
  BY <1>1 DEF IInv, ThreadInv, data
<1>4. ThreadInv'
  BY <1>1, <1>2, <1>3, ThreadGoesOn DEF rest
<1> QED BY <1>1, <1>4, DataFrame, TableFrame, DialogFrame, ReportFrame DEF data, view, rest, IInv, TableInv

\* A row that takes the next id is not mistaken for one that was seen.
LEMMA NewRow ==
  ASSUME IInv, pending = None, NEW new \in Row, new.id = NextId
  PROVE  /\ \A t \in table : t.id = new.id => t.id \in undone
         /\ \A r \in stored : r.id # new.id
         /\ dialog.kind = "selected" /\ new.id \in dialog.ids => new.id \in undone
         /\ dialog.kind = "range" => new.id > dialog.last
<1>1. RowsInv
  BY DEF IInv
<1>2. \A t \in table : t.id = new.id => t.id \in undone
  BY <1>1, NextIdUnseen DEF IInv, TableInv
<1>3. \A r \in stored : r.id # new.id
  BY <1>1 DEF RowsInv, NextId, Row
<1>4. dialog.kind = "selected" /\ new.id \in dialog.ids => new.id \in undone
  BY <1>1, NextIdUnseen DEF IInv, DialogInv
<1>5. dialog.kind = "range" => new.id > dialog.last
  BY <1>1 DEF IInv, DialogInv, RowsInv, NextId
<1> QED BY <1>2, <1>3, <1>4, <1>5

LEMMA InsertInv ==
  ASSUME IInv, Insert
  PROVE  IInv'
<1> DEFINE new == [id |-> NextId, rec |-> worker.rec]
<1>1. /\ worker.pc = "storing" /\ worker' = [worker EXCEPT !.pc = "inserted"]
      /\ queue' = queue \o <<>> /\ pending' = new
      /\ UNCHANGED <<stored, lastId, begun, undone, rest>>
  BY DEF Insert, Step
<1>2. pending = None /\ worker.rec \in Record
  BY <1>1 DEF IInv, ThreadInv
<1>3. new \in Row /\ new # None /\ new.id = lastId + 1
  <2>1. NextId \in Nat /\ NextId = lastId + 1
    BY DEF NextId, IInv, RowsInv
  <2>2. new \in Row
    BY <1>2, <2>1 DEF Row
  <2>3. new \in [id : Nat, rec : Nat]
    BY <1>2, <2>1, MainWindowAssumption
  <2> QED BY <2>1, <2>2, <2>3, MainWindowAssumption
<1> HIDE DEF new
<1>4. Live' = Live \cup {new} /\ Live = stored
  BY <1>1, <1>2, <1>3 DEF Live, rest
<1>5. \A id : Seen(id) => Seen(id)'
  BY <1>1, <1>2 DEF Seen, rest
<1>6. /\ \A t \in table : t.id = new.id => t.id \in undone
      /\ dialog.kind = "selected" /\ new.id \in dialog.ids => new.id \in undone
  BY <1>2, <1>3, NewRow DEF NextId
<1>7. RowsInv'
  BY <1>1, <1>3 DEF IInv, RowsInv, rest
<1>8. TableInv'
  BY <1>1, <1>4, <1>5, <1>6 DEF IInv, TableInv, rest, view
<1>9. DialogInv'
  BY <1>1, <1>4, <1>5, <1>6 DEF IInv, DialogInv, rest, InRange
<1>10. /\ worker' \in [pc : Stages, rec : Record \cup {None}, holds : BOOLEAN]
       /\ worker'.pc = "inserted" /\ worker'.rec = worker.rec /\ queue' = queue
  BY <1>1 DEF IInv, ThreadInv, Stages
<1>11. ThreadInv'
  BY <1>1, <1>3, <1>10, ThreadGoesOn DEF rest
<1>12. ReportInv'
  BY <1>1, ReportFrame DEF rest, view
<1> QED BY <1>7, <1>8, <1>9, <1>11, <1>12 DEF IInv

LEMMA CommitInv ==
  ASSUME IInv, Commit
  PROVE  IInv'
<1>1. /\ worker.pc = "inserted" /\ worker' = [worker EXCEPT !.pc = "stored"]
      /\ queue' = queue \o <<"Idle">>
      /\ stored' = stored \cup {pending} /\ lastId' = pending.id /\ pending' = None
      /\ UNCHANGED <<begun, undone, rest>>
  BY DEF Commit, Step
<1>2. pending # None /\ pending \in Row /\ pending.id = lastId + 1 /\ lastId \in Nat
  BY <1>1 DEF IInv, ThreadInv, RowsInv
<1>3. Live' = Live /\ \A id : Seen(id) => Seen(id)'
  BY <1>1, <1>2 DEF Live, Seen, Row
<1>4. RowsInv'
  BY <1>1, <1>2 DEF IInv, RowsInv, Row
<1>5. TableInv'
  BY <1>1, <1>3 DEF IInv, TableInv, rest, view
<1>6. DialogInv'
  BY <1>1, <1>2, <1>3 DEF IInv, DialogInv, rest, InRange, Row
<1>7. /\ worker' \in [pc : Stages, rec : Record \cup {None}, holds : BOOLEAN]
      /\ worker'.pc = "stored" /\ worker'.rec = worker.rec /\ queue' = Append(queue, "Idle")
  BY <1>1 DEF IInv, ThreadInv, Stages
<1>8. ThreadInv'
  BY <1>1, <1>7, ThreadGoesOn DEF rest, States
<1>9. ReportInv'
  <2>1. pending \notin reported
    BY <1>2 DEF IInv, ReportInv
  <2> QED BY <1>1, <1>2, <2>1 DEF IInv, ReportInv, rest, view, timer, Row
<1> QED BY <1>4, <1>5, <1>6, <1>8, <1>9 DEF IInv

LEMMA RollbackInv ==
  ASSUME IInv, Rollback
  PROVE  IInv'
<1>1. /\ worker.pc = "inserted" /\ worker' = [worker EXCEPT !.pc = "unsaved"]
      /\ queue' = queue \o <<"Error">>
      /\ pending' = None /\ undone' = undone \cup {pending.id}
      /\ UNCHANGED <<stored, lastId, begun, rest>>
  BY DEF Rollback, Step
<1>2. pending # None /\ pending \in Row
  BY <1>1 DEF IInv, ThreadInv, RowsInv
<1>3. Live' \subseteq Live /\ \A id : Seen(id) => Seen(id)'
  BY <1>1 DEF Live, Seen
<1>4. RowsInv'
  BY <1>1 DEF IInv, RowsInv
<1>5. TableInv'
  BY <1>1, <1>2, <1>3 DEF IInv, TableInv, rest, view, Row
<1>6. DialogInv'
  BY <1>1, <1>3 DEF IInv, DialogInv, rest, InRange
<1>7. /\ worker' \in [pc : Stages, rec : Record \cup {None}, holds : BOOLEAN]
      /\ worker'.pc = "unsaved" /\ worker'.rec = worker.rec /\ queue' = Append(queue, "Error")
  BY <1>1 DEF IInv, ThreadInv, Stages
<1>8. ThreadInv'
  BY <1>1, <1>7, ThreadGoesOn DEF rest, States
<1>9. ReportInv'
  BY <1>1, ReportFrame DEF rest, view
<1> QED BY <1>4, <1>5, <1>6, <1>8, <1>9 DEF IInv

LEMMA ReturnInv ==
  ASSUME IInv, Return
  PROVE  IInv'
<1>1. /\ worker.pc \in {"stored", "unsaved"} /\ queue' = Append(queue, worker.pc)
      /\ worker' = [pc |-> "ended", rec |-> worker.rec, holds |-> FALSE]
      /\ UNCHANGED <<data, rest>>
  BY DEF Return, Over
<1>2. /\ queue \in Seq(States \cup Outcomes) /\ ~button /\ worker.rec \in Record /\ pending = None
      /\ \A n \in 1 .. Len(queue) : queue[n] \notin Outcomes
  BY <1>1 DEF IInv, ThreadInv
<1>3. worker.pc \in Outcomes
  BY <1>1 DEF Outcomes
<1>4. /\ queue' \in Seq(States \cup Outcomes) /\ queue' # <<>> /\ queue'[Len(queue')] \in Outcomes
      /\ \A n \in 1 .. Len(queue') : queue'[n] \in Outcomes => n = Len(queue')
  BY <1>1, <1>2, <1>3
<1>5. worker' \in [pc : Stages, rec : Record \cup {None}, holds : BOOLEAN] /\ worker'.pc = "ended"
  BY <1>1, <1>2 DEF Stages
<1>6. stateText' \in States /\ button' \in BOOLEAN /\ elsewhere' \in BOOLEAN /\ ~button' /\ pending' = None
  BY <1>1, <1>2 DEF IInv, ThreadInv, rest, data
<1>7. ThreadInv'
  BY <1>4, <1>5, <1>6 DEF ThreadInv
<1> QED BY <1>1, <1>7, DataFrame, TableFrame, DialogFrame, ReportFrame DEF data, view, rest, IInv, TableInv

-----------------------------------------------------------------------------
(* The main loop and the other processes.                                  *)

LEMMA SetStateInv ==
  ASSUME IInv, SetState
  PROVE  IInv'
<1>1. /\ queue # <<>> /\ Head(queue) \in States
      /\ stateText' = Head(queue) /\ queue' = Tail(queue)
      /\ UNCHANGED <<data, view, dialog, worker, button, elsewhere, reported>>
  BY DEF SetState
<1>2. /\ queue \in Seq(States \cup Outcomes)
      /\ \A n \in 1 .. Len(queue) : queue[n] \in Outcomes => n = Len(queue) /\ worker.pc = "ended"
      /\ worker.pc = "ended" => ~button /\ queue[Len(queue)] \in Outcomes
  BY <1>1 DEF IInv, ThreadInv
<1>3. States \cap Outcomes = {}
  BY DEF States, Outcomes
<1>4. /\ queue' \in Seq(States \cup Outcomes) /\ Len(queue') = Len(queue) - 1
      /\ \A n \in 1 .. Len(queue') : queue'[n] = queue[n + 1]
      /\ Len(queue) \in Nat \ {0} /\ queue[1] \in States
  BY <1>1, <1>2
<1>5. ASSUME NEW n \in 1 .. Len(queue'), queue'[n] \in Outcomes
      PROVE  n = Len(queue') /\ worker.pc = "ended"
  <2>1. n + 1 \in 1 .. Len(queue) /\ queue[n + 1] \in Outcomes
    BY <1>4, <1>5
  <2> QED BY <1>2, <1>4, <2>1
<1>6. worker.pc = "ended" => queue' # <<>> /\ queue'[Len(queue')] \in Outcomes
  BY <1>2, <1>3, <1>4
<1>7. /\ worker' = worker /\ button' = button /\ elsewhere' = elsewhere /\ pending' = pending
      /\ stateText' \in States
  BY <1>1 DEF data
<1>8. ThreadInv'
  BY <1>2, <1>4, <1>5, <1>6, <1>7 DEF IInv, ThreadInv
<1> QED BY <1>1, <1>8, DataFrame, TableFrame, DialogFrame, ReportFrame DEF data, view, IInv, TableInv

LEMMA OnTestFinishedInv ==
  ASSUME IInv, OnTestFinished
  PROVE  IInv'
<1>1. /\ queue # <<>> /\ Head(queue) \in Outcomes
      /\ button' = TRUE /\ stateText' = "Idle" /\ queue' = Tail(queue) /\ due' = TRUE
      /\ reported' \subseteq reported \cup stored
      /\ UNCHANGED <<data, table, selected, picked, timer, dialog, worker, elsewhere>>
  BY DEF OnTestFinished, Finished
<1>2. /\ queue \in Seq(States \cup Outcomes)
      /\ \A n \in 1 .. Len(queue) : queue[n] \in Outcomes => n = Len(queue) /\ worker.pc = "ended"
  BY DEF IInv, ThreadInv
<1>3. 1 = Len(queue) /\ worker.pc = "ended"
  <2>1. Len(queue) \in Nat \ {0} /\ queue[1] = Head(queue)
    BY <1>1, <1>2
  <2>2. 1 \in 1 .. Len(queue) /\ queue[1] \in Outcomes
    BY <1>1, <2>1
  <2> QED BY <1>2, <2>2
<1>4. queue' = <<>> /\ queue' \in Seq(States \cup Outcomes) /\ Len(queue') = 0
  BY <1>1, <1>2, <1>3
<1>5. stateText' \in States /\ button' \in BOOLEAN /\ button'
  BY <1>1 DEF States
<1>6. worker' = worker /\ elsewhere' = elsewhere /\ pending' = pending
  BY <1>1 DEF data
<1>7. ThreadInv'
  BY <1>1, <1>3, <1>4, <1>5, <1>6 DEF IInv, ThreadInv
<1>8. ReportInv'
  BY <1>1 DEF IInv, ReportInv, RowsInv, data, timer
<1> QED BY <1>1, <1>7, <1>8, DataFrame, TableFrame, DialogFrame DEF data, IInv, TableInv

LEMMA ElsewhereInv ==
  ASSUME IInv, Elsewhere
  PROVE  IInv'
<1>1. elsewhere' \in BOOLEAN /\ UNCHANGED <<data, view, dialog, thread, button, stateText, reported>>
  BY DEF Elsewhere, IInv, ThreadInv
<1> QED BY <1>1, DataFrame, TableFrame, DialogFrame, ReportFrame, ThreadFrame
      DEF data, view, thread, IInv, TableInv

LEMMA StoreElsewhereInv ==
  ASSUME IInv, NEW rec \in Record, StoreElsewhere(rec)
  PROVE  IInv'
<1> DEFINE new == [id |-> NextId, rec |-> rec]
<1>1. /\ pending = None /\ begun' = begun \cup {rec}
      /\ lastId' = NextId /\ stored' = stored \cup {new}
      /\ UNCHANGED <<pending, undone, view, dialog, thread, button, stateText, elsewhere, reported>>
  BY DEF StoreElsewhere
<1>2. new \in Row /\ new.id = NextId /\ NextId = lastId + 1 /\ lastId \in Nat
  BY DEF Row, NextId, IInv, RowsInv
<1> HIDE DEF new
<1>3. /\ \A t \in table : t.id = new.id => t.id \in undone
      /\ \A r \in stored : r.id # new.id
      /\ dialog.kind = "selected" /\ new.id \in dialog.ids => new.id \in undone
      /\ dialog.kind = "range" => new.id > dialog.last
  BY <1>1, <1>2, NewRow
<1>4. Live' = Live \cup {new} /\ Live = stored /\ \A id : Seen(id) => Seen(id)'
  BY <1>1, <1>2 DEF Live, Seen
<1>5. RowsInv'
  BY <1>1, <1>2, <1>3 DEF IInv, RowsInv, Row
<1>6. TableInv'
  BY <1>1, <1>3, <1>4 DEF IInv, TableInv, view
<1>7. DialogInv'
  BY <1>1, <1>2, <1>3, <1>4 DEF IInv, DialogInv, InRange
<1>8. ThreadInv'
  BY <1>1, ThreadFrame DEF IInv, ThreadInv, thread
<1>9. ReportInv'
  BY <1>1, <1>2, <1>3 DEF IInv, ReportInv, view, timer, Row
<1> QED BY <1>5, <1>6, <1>7, <1>8, <1>9 DEF IInv

-----------------------------------------------------------------------------

LEMMA StepInv == IInv /\ [Next]_vars => IInv'
<1> SUFFICES ASSUME IInv, [Next]_vars PROVE IInv'
  OBVIOUS
<1>1. CASE UNCHANGED vars
  BY <1>1, DataFrame, TableFrame, DialogFrame, ReportFrame, ThreadFrame
  DEF vars, data, view, thread, IInv, TableInv, ThreadInv
<1>2. CASE PeriodicRefresh \/ DueRefresh \/ PressRefresh \/ AskSelected \/ Confirm \/ Dismiss
  BY <1>2, RefreshInv, AskSelectedInv, ConfirmInv, DismissInv
<1>3. CASE \/ \E rows \in SUBSET table : Pick(rows)
           \/ \E low \in Record, high \in Record : AskRange(low, high)
           \/ \E rec \in Record : TestNow(rec) \/ StoreElsewhere(rec)
  BY <1>3, PickInv, AskRangeInv, TestNowInv, StoreElsewhereInv
<1>4. CASE Run
  BY <1>4, StartInv, FinishInv, RaiseInv, InsertInv, CommitInv, RollbackInv, ReturnInv DEF Run
<1>5. CASE Callback \/ Elsewhere
  BY <1>5, SetStateInv, OnTestFinishedInv, ElsewhereInv DEF Callback
<1> QED BY <1>1, <1>2, <1>3, <1>4, <1>5 DEF Next

\* The invariant: every id that was seen is its row's own.
THEOREM Invariant == Spec => []IInv
BY InitInv, StepInv, PTL DEF Spec

\* No step of the window, of its thread or of another process leaves the types;
\* every row of the database keeps an id of its own (insert_run).
THEOREM TypeCorrect == Spec => []TypeOK
<1>1. IInv => TypeOK
  <2> SUFFICES ASSUME IInv PROVE TypeOK
    OBVIOUS
  <2>1. /\ stored \subseteq Row /\ lastId \in Nat /\ pending \in Row \cup {None}
        /\ \A r \in stored : r.id <= lastId
        /\ \A r, s \in stored : r.id = s.id => r = s
    BY DEF IInv, RowsInv
  <2>2. /\ begun \subseteq Record /\ undone \subseteq Nat /\ picked \subseteq Record
        /\ table \subseteq Row /\ selected \subseteq table
    BY DEF IInv, TableInv
  <2>3. reported \subseteq Row /\ {due, ticking, unread} \subseteq BOOLEAN
    BY DEF IInv, ReportInv
  <2>4. /\ button \in BOOLEAN /\ elsewhere \in BOOLEAN
        /\ worker \in [pc : Stages, rec : Record \cup {None}, holds : BOOLEAN]
        /\ queue \in Seq(States \cup Outcomes) /\ stateText \in States
    BY DEF IInv, ThreadInv
  <2> QED BY <2>1, <2>2, <2>3, <2>4 DEF TypeOK
<1> QED BY <1>1, Invariant, PTL

\* Once the thread has ended and its callbacks have run, _set_state has left
\* nothing behind: the window is idle and Test Now can be pressed.
THEOREM StatesInOrder == Spec => []NoLateState
<1>1. IInv => NoLateState
  BY DEF IInv, ThreadInv, NoLateState
<1> QED BY <1>1, Invariant, PTL

\* _on_test_now never starts a second thread beside a live one, nor before the
\* callbacks of the last have run.
THEOREM OneThread == Spec => StartsAfresh
<1>1. IInv => [\A rec \in Record :
                 TestNow(rec) => worker.pc = "ended" /\ queue = <<>> /\ pending = None]_vars
  <2> SUFFICES ASSUME IInv, NEW rec \in Record, TestNow(rec)
               PROVE  worker.pc = "ended" /\ queue = <<>> /\ pending = None
    OBVIOUS
  <2>1. worker.pc = "ended" /\ queue = <<>>
    BY DEF TestNow, IInv, ThreadInv
  <2> QED BY <2>1 DEF IInv, ThreadInv
<1> QED BY <1>1, Invariant, PTL DEF Spec, StartsAfresh

\* What _on_test_finished has reported is in the table until it is deleted, unless the
\* last refresh could not read the records: the next one that can restores it.
THEOREM ResultsShown == Spec => []ResultShown
<1>1. IInv => ResultShown
  BY DEF IInv, ReportInv, ResultShown
<1> QED BY <1>1, Invariant, PTL

\* Nothing but a confirmation removes a row.
LEMMA OnlyConfirm ==
  ASSUME [Next]_vars, ~Confirm
  PROVE  stored \subseteq stored'
<1>1. CASE UNCHANGED vars
  BY <1>1 DEF vars, data
<1>2. CASE PeriodicRefresh \/ DueRefresh \/ PressRefresh \/ AskSelected \/ Dismiss \/ Callback \/ Elsewhere
  BY <1>2 DEF PeriodicRefresh, DueRefresh, PressRefresh, RefreshAll, AskSelected, Ask,
       Dismiss, Callback, SetState, OnTestFinished, Finished, Elsewhere, data
<1>3. CASE \/ \E rows \in SUBSET table : Pick(rows)
           \/ \E low \in Record, high \in Record : AskRange(low, high)
           \/ \E rec \in Record : TestNow(rec) \/ StoreElsewhere(rec)
  BY <1>3 DEF Pick, AskRange, Ask, TestNow, StoreElsewhere, data
<1>4. CASE Run
  BY <1>4 DEF Run, Start, Finish, Step, Raise, Insert, Commit, Rollback, Return, data
<1> QED BY <1>1, <1>2, <1>3, <1>4 DEF Next

\* _on_delete_selected_confirmed removes only what was picked.
THEOREM PickedOnly == Spec => DeletesPicked
<1>1. IInv /\ [Next]_vars =>
        [dialog.kind = "selected" =>
           \A r \in stored \ stored' : r.rec \in dialog.recs \/ r.id \in undone]_vars
  <2> SUFFICES ASSUME IInv, [Next]_vars, dialog.kind = "selected", NEW r \in stored \ stored'
               PROVE  r.rec \in dialog.recs \/ r.id \in undone
    OBVIOUS
  <2>1. Confirm
    BY OnlyConfirm
  <2>2. r.id \in dialog.ids
    BY <2>1 DEF Confirm, Doomed
  <2> QED BY <2>2 DEF IInv, DialogInv, Live
<1> QED BY <1>1, Invariant, PTL DEF Spec, DeletesPicked

\* _on_confirmed removes what was counted, and what was stored since.
THEOREM CountedOnly == Spec => DeletesCounted
<1>1. IInv /\ [Next]_vars =>
        [dialog.kind = "range" =>
           \A r \in stored \ stored' : r \in dialog.counted \/ r.id > dialog.last]_vars
  <2> SUFFICES ASSUME IInv, [Next]_vars, dialog.kind = "range", NEW r \in stored \ stored'
               PROVE  r \in dialog.counted \/ r.id > dialog.last
    OBVIOUS
  <2>1. Confirm
    BY OnlyConfirm
  <2>2. InRange(r, dialog.low, dialog.high)
    BY <2>1 DEF Confirm, Doomed
  <2> QED BY <2>2 DEF IInv, DialogInv
<1> QED BY <1>1, Invariant, PTL DEF Spec, DeletesCounted
=============================================================================
