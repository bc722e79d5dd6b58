-------------------------------- MODULE History --------------------------------
(***************************************************************************)
(* The log as it is kept, exported and thinned out: test_runs              *)
(* (storage/database.py), the export of a range of days, row by row while  *)
(* tests go on (storage/export_csv.py, the export dialog, cli.py), and the *)
(* deletion of a range of days.  Measurement says what a record holds and  *)
(* Calendar what a range of days is.                                       *)
(***************************************************************************)
EXTENDS Calendar, Measurement, FiniteSets

CONSTANTS Answers,  \* bound: the answers the n-th test may get
          Instants, \* when a test may start: the clock may be set back
          Days,     \* the dates one may ask for
          NoDate,   \* an empty entry
          Zones,    \* where the computer may be
          MaxRows   \* bound

ASSUME HistoryAssumption ==
  /\ MaxRows \in Nat
  /\ \A n \in 1 .. MaxRows : Answers[n] \subseteq Answer
  /\ Instants \subseteq Int /\ Days \subseteq Int /\ NoDate \notin Int
  /\ Zones \subseteq Zone

VARIABLES
  rows,   \* test_runs, each row with the answer it was made of
  lastId, \* AUTOINCREMENT
  zone,   \* where the computer is
  export  \* the export that is under way, or the last one

vars == <<rows, lastId, zone, export>>

Row == [id : Nat, at : Int, answer : Answer, run : Run]

Dates == Days \cup {NoDate}

\* The dates asked for, the window in UTC, the rows there were when the export
\* began, and the file.
Blank ==
  [state |-> "none", from |-> NoDate, to |-> NoDate, low |-> NoDate, high |-> NoDate,
   seen |-> {}, file |-> <<>>]

Init ==
  /\ rows = {} /\ lastId = 0
  /\ zone \in Zones
  /\ export = Blank

-----------------------------------------------------------------------------
(* Tests.                                                                  *)

\* Mutant: an id is given again once its row has been deleted.
ReusedId == Cardinality(rows) + 1

NextId == lastId + 1

\* insert_run.  An answer that raises leaves no record: see Measurement.
Store(at, answer) ==
  /\ ~Raises(answer)
  /\ lastId' = NextId
  /\ rows' = rows \cup {[id |-> NextId, at |-> at, answer |-> answer, run |-> RunOf(answer)]}
  /\ UNCHANGED <<zone, export>>

-----------------------------------------------------------------------------
(* Ranges of days.                                                         *)

\* Both dialogs refuse a From later than the To.
Understood(from, to) == from # NoDate /\ to # NoDate => from <= to

Low(from) == IF from = NoDate THEN NoDate ELSE StartOf(zone, from)
High(to)  == IF to = NoDate THEN NoDate ELSE EndOf(zone, to)

\* Mutant: the window is open at its end.
WithinHalfOpen(row, low, high) ==
  /\ low # NoDate => low <= row.at
  /\ high # NoDate => row.at < high

\* _range_clauses
Within(row, low, high) ==
  /\ low # NoDate => low <= row.at
  /\ high # NoDate => row.at <= high

\* delete_runs with the window of the dialog.
Delete(from, to) ==
  /\ Understood(from, to)
  /\ rows' = {r \in rows : ~Within(r, Low(from), High(to))}
  /\ UNCHANGED <<lastId, zone, export>>

-----------------------------------------------------------------------------
(* Export, from the window or from the command line.  In the window it     *)
(* shares its connection with a test that stores a row, and nothing is     *)
(* deleted meanwhile; the command line reads a snapshot, whatever happens. *)

Writing == export.state = "writing"

\* export_database: the window is settled before the first row is read.
Begin(from, to) ==
  /\ ~Writing
  /\ Understood(from, to)
  /\ export' = [state |-> "writing", from |-> from, to |-> to,
                low |-> Low(from), high |-> High(to), seen |-> rows, file |-> <<>>]
  /\ UNCHANGED <<rows, lastId, zone>>

\* Mutant: the rows are told apart by the time alone.
BeforeByTime(one, other) == one.at < other.at

\* ORDER BY started_at_utc, id
Before(one, other) == one.at < other.at \/ (one.at = other.at /\ one.id < other.id)

\* The rows the cursor of iter_runs has not come to.
Ahead(row) ==
  /\ Within(row, export.low, export.high)
  /\ export.file # <<>> => Before(export.file[Len(export.file)], row)

\* The cursor steps over no row that was there when it was opened, and may or
\* may not come upon one that was stored since.
WriteRow ==
  /\ Writing
  /\ \E row \in rows \cup export.seen :
       /\ Ahead(row)
       /\ \A other \in export.seen : Ahead(other) => ~Before(other, row)
       /\ export' = [export EXCEPT !.file = Append(@, row)]
  /\ UNCHANGED <<rows, lastId, zone>>

Complete ==
  /\ Writing
  /\ \A row \in export.seen : ~Ahead(row)
  /\ export' = [export EXCEPT !.state = "complete"]
  /\ UNCHANGED <<rows, lastId, zone>>

\* OSError: what has been written stays in the file, and the user is told.
Fail ==
  /\ Writing
  /\ export' = [export EXCEPT !.state = "failed"]
  /\ UNCHANGED <<rows, lastId, zone>>

\* The computer is taken elsewhere; a finished file is then out of mind.
Travel ==
  /\ ~Writing
  /\ zone' \in Zones
  /\ export' = Blank
  /\ UNCHANGED <<rows, lastId>>

Next ==
  \/ lastId < MaxRows /\ \E at \in Instants, answer \in Answers[lastId + 1] : Store(at, answer)
  \/ \E from \in Dates, to \in Dates : Delete(from, to) \/ Begin(from, to)
  \/ WriteRow \/ Complete \/ Fail \/ Travel

Spec == Init /\ [][Next]_vars

-----------------------------------------------------------------------------
(* Properties.                                                             *)

File == {export.file[n] : n \in 1 .. Len(export.file)}

\* Type correctness; every record has an id of its own.
TypeOK ==
  /\ rows \subseteq Row /\ lastId \in Nat /\ zone \in Zones
  /\ \A r \in rows : r.id <= lastId
  /\ \A r, s \in rows : r.id = s.id => r = s
  /\ export.state \in {"none", "writing", "complete", "failed"}
  /\ export.from \in Dates /\ export.to \in Dates
  /\ export.low \in Int \cup {NoDate} /\ export.high \in Int \cup {NoDate}
  /\ export.seen \subseteq Row /\ export.file \in Seq(Row)

\* A finite figure.
Supplied == Finite \cup {"numeral"}

\* A cell of the CSV file is blank exactly when the engine supplied no finite
\* figure for it, or the test did not succeed; a figure of zero is written as a
\* zero (the rule result_parser.py opens with; _cell).
FigureHonest ==
  \A r \in rows, f \in Field :
    /\ "" \in CsvCells(r.run, f) <=>
         ~(r.run.status = "success" /\ r.answer.figures[f] \in Supplied)
    /\ r.run.status = "success" /\ r.answer.figures[f] = "zero"
         => CsvCells(r.run, f) = {"zero"}

\* A record counts as a success exactly when the engine printed a result with
\* at least one speed; any other has no figure, and says why (_execute).
SuccessMeasured ==
  \A r \in rows :
    /\ r.run.status = "success" <=>
         /\ r.answer.how = "printed" /\ r.answer.document \in {"result", "lines"}
         /\ \E f \in Speed : r.answer.figures[f] \in Supplied
    /\ r.run.status # "success" =>
         r.run.category \in Category /\ \A f \in Field : r.run.figures[f] = None

\* The table, the details, the terminal and the file agree on what was
\* measured; only an infinite figure is blank in the file and nowhere else.
ViewsAgree ==
  \A r \in rows, f \in Field :
    LET blank == TableCell(r.run, f) = ""
    IN  /\ blank <=> Detail(r.run, f) = "Not measured"
        /\ blank <=> None \in Payload(r.run, f)
        /\ f # "packet_loss_percent" => (blank <=> Described(r.run, f) = "")
        /\ r.run.figures[f] # "infinite" => (blank <=> "" \in CsvCells(r.run, f))

\* The table shows the record under one of the dates.
Asked(row, from, to) ==
  /\ from # NoDate => FirstSlot(from) <= Local(zone, row.at)
  /\ to # NoDate => Local(zone, row.at) <= LastSlot(to)

OrdinaryDates(from, to) ==
  \A day \in {from, to} \ {NoDate} : Ordinary(zone, day)

\* However many tests are stored while it is written, a complete file holds
\* every record the table showed under the dates when the export began, each
\* once and in order, and no record the table shows under another date.
FileComplete ==
  /\ \A m, n \in 1 .. Len(export.file) : m < n => Before(export.file[m], export.file[n])
  /\ OrdinaryDates(export.from, export.to) =>
       /\ \A r \in File : Asked(r, export.from, export.to)
       /\ export.state = "complete" =>
            \A r \in export.seen : Asked(r, export.from, export.to) => r \in File

\* Deleting a range of days removes the records the table shows under them,
\* and no other (DeleteDialog, local_day_start_utc, local_day_end_utc).
DeletesByDay ==
  [][\A from \in Dates, to \in Dates :
       Delete(from, to) /\ OrdinaryDates(from, to)
         => rows' = {r \in rows : ~Asked(r, from, to)}]_vars
=============================================================================
