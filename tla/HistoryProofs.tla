----------------------------- MODULE HistoryProofs -----------------------------
(***************************************************************************)
(* Proofs about History: what a record holds is what the engine said, a    *)
(* range of days is what the table shows under them, and an export is      *)
(* complete whatever is stored meanwhile.                                  *)
(***************************************************************************)
EXTENDS History, TLAPS

-----------------------------------------------------------------------------
(* Days.                                                                   *)

\* From the first instant of a day on, its local times are not before it.
LEMMA StartExact ==
  ASSUME NEW z \in Zone, NEW t \in Int, NEW i \in Int, Once(z, t - 1)
  PROVE  /\ ToInstant(z, t) \in Int
         /\ ToInstant(z, t) <= i <=> t <= Local(z, i)
<1>1. z.turn \in Int /\ z.before \in Int /\ z.after \in Int
  BY DEF Zone
<1> QED BY <1>1 DEF Once, ToInstant, Local, Offset

\* Up to its last instant they are not past its end.
LEMMA EndExact ==
  ASSUME NEW z \in Zone, NEW t \in Int, NEW i \in Int, Once(z, t)
  PROVE  /\ ToInstant(z, t) \in Int
         /\ i <= ToInstant(z, t) <=> Local(z, i) <= t
<1>1. z.turn \in Int /\ z.before \in Int /\ z.after \in Int
  BY DEF Zone
<1> QED BY <1>1 DEF Once, ToInstant, Local, Offset

LEMMA SlotsAreInts ==
  ASSUME NEW day \in Int
  PROVE  FirstSlot(day) \in Int /\ LastSlot(day) \in Int
BY SlotsAssumption DEF FirstSlot, LastSlot

\* Where a day ends as other days do, the window that local_day_start_utc and
\* local_day_end_utc make of it holds exactly the instants shown under it.
THEOREM DayExact ==
  ASSUME NEW z \in Zone, NEW day \in Int, NEW i \in Int, Ordinary(z, day)
  PROVE  StartOf(z, day) <= i /\ i <= EndOf(z, day) <=> ShownOn(z, i, day)
<1>1. FirstSlot(day) \in Int /\ LastSlot(day) \in Int
  BY SlotsAreInts
<1>2. StartOf(z, day) <= i <=> FirstSlot(day) <= Local(z, i)
  BY <1>1, StartExact DEF StartOf, Ordinary
<1>3. i <= EndOf(z, day) <=> Local(z, i) <= LastSlot(day)
  BY <1>1, EndExact DEF EndOf, Ordinary
<1> QED BY <1>2, <1>3 DEF ShownOn

-----------------------------------------------------------------------------
(* Records.                                                                *)

LEMMA CoerceType ==
  ASSUME NEW v \in Reported
  PROVE  /\ Coerce(v) \in Number \cup {None}
         /\ Coerce(v) \in Finite <=> v \in Supplied
         /\ v = "zero" => Coerce(v) = "zero"
BY DEF Reported, Missing, Number, Finite, Supplied, Coerce, None

\* A record that was made has figures the file and the window can show.
LEMMA FigureType ==
  ASSUME NEW a \in Answer, ~Raises(a), NEW f \in Field
  PROVE  /\ Figure(a, f) \in Finite \cup {"infinite", None}
         /\ f \in Speed => Figure(a, f) \in Finite \cup {None}
         /\ ~Succeeds(a) => Figure(a, f) = None
         /\ Succeeds(a) => (Figure(a, f) \in Finite <=> a.figures[f] \in Supplied)
         /\ Succeeds(a) /\ a.figures[f] = "zero" => Figure(a, f) = "zero"
<1>1. a.figures[f] \in Reported
  BY DEF Answer
<1>2. Coerce(a.figures[f]) \in Number \cup {None}
  BY <1>1, CoerceType
<1>3. /\ a.figures[f] = "zero" => Coerce(a.figures[f]) = "zero"
      /\ Coerce(a.figures[f]) \in Finite <=> a.figures[f] \in Supplied
  BY <1>1, CoerceType
<1>4. Succeeds(a) /\ f \in Speed => Coerce(a.figures[f]) \notin Number \ Finite
  BY DEF Succeeds, Refused, Raises
<1> QED BY <1>2, <1>3, <1>4 DEF Figure, Column, Number, Finite, None

LEMMA RunOfAnswer ==
  ASSUME NEW a \in Answer
  PROVE  /\ RunOf(a).status = "success" <=> Succeeds(a)
         /\ \A f \in Field : RunOf(a).figures[f] = Figure(a, f)
<1>1. RunOf(a).status = StatusOf(a)
  BY DEF RunOf
<1>2. StatusOf(a) = "success" <=> Succeeds(a)
  BY DEF StatusOf, Succeeds
<1> QED BY <1>1, <1>2 DEF RunOf

\* The text of an engine that failed is always given a category.
LEMMA ClassifiedType ==
  ASSUME NEW hints
  PROVE  Classified(hints) \in Category
<1> DEFINE found == {n \in 1 .. 7 : ErrorPatterns[n] \in hints}
           first == CHOOSE n \in found : \A m \in found : n <= m
<1>1. CASE found = {}
  BY <1>1 DEF Classified, Category
<1>2. CASE found # {}
  <2>1. \E n \in found : \A m \in found : n <= m
    BY <1>2
  <2>2. first \in 1 .. 7
    BY <2>1
  <2>3. \A n \in 1 .. 7 : ErrorPatterns[n] \in Category
    BY DEF ErrorPatterns, Category
  <2>4. Classified(hints) = ErrorPatterns[first]
    BY <1>2 DEF Classified
  <2> QED BY <2>2, <2>3, <2>4
<1> QED BY <1>1, <1>2

LEMMA RunType ==
  ASSUME NEW a \in Answer, ~Raises(a)
  PROVE  RunOf(a) \in Run
<1>1. StatusOf(a) \in {"success", "failed", "timeout", "cancelled", "skipped"}
  BY DEF StatusOf
<1>2. CategoryOf(a) \in Category \cup {None}
  BY ClassifiedType DEF CategoryOf, Category, None
<1>3. \A f \in Field : Figure(a, f) \in Finite \cup {"infinite", None}
  BY FigureType
<1> QED BY <1>1, <1>2, <1>3 DEF RunOf, Run

LEMMA CategoryType ==
  ASSUME NEW a \in Answer
  PROVE  /\ Succeeds(a) => CategoryOf(a) = None
         /\ ~Succeeds(a) => CategoryOf(a) \in Category
BY ClassifiedType DEF CategoryOf, Succeeds, Category, Answer

-----------------------------------------------------------------------------
(* The machine.                                                            *)

Made(r) == /\ r.answer \in Answer /\ ~Raises(r.answer)
           /\ r.run = RunOf(r.answer)
           /\ r.id \in Nat /\ r.at \in Int

\* Every row the system knows of has been stored under an id of its own.
Known == rows \cup export.seen

RowsInv ==
  /\ lastId \in Nat /\ zone \in Zones
  /\ rows \subseteq Row /\ export.seen \subseteq Row
  /\ \A r \in Known : Made(r) /\ r.id <= lastId
  /\ \A r, s \in Known : r.id = s.id => r = s

\* The file is a stretch of the window, in order, that leaves out no row there
\* was when the export began.
ExportInv ==
  /\ export \in [state : {"none", "writing", "complete", "failed"}, from : Dates, to : Dates,
                 low : Int \cup {NoDate}, high : Int \cup {NoDate},
                 seen : SUBSET Row, file : Seq(Row)]
  /\ export.low = Low(export.from) /\ export.high = High(export.to)
  /\ \A m, n \in 1 .. Len(export.file) : m < n => Before(export.file[m], export.file[n])
  /\ \A n \in 1 .. Len(export.file) : Within(export.file[n], export.low, export.high)
  /\ \A r \in export.seen : Within(r, export.low, export.high) => r \in File \/ Ahead(r)
  /\ export.state = "complete" => \A r \in export.seen : ~Ahead(r)

IInv == RowsInv /\ ExportInv

LEMMA WindowType ==
  ASSUME NEW from \in Dates, NEW to \in Dates, zone \in Zones
  PROVE  Low(from) \in Int \cup {NoDate} /\ High(to) \in Int \cup {NoDate}
<1>1. zone \in Zone
  BY HistoryAssumption
<1>2. ASSUME NEW t \in Int PROVE ToInstant(zone, t) \in Int
  BY <1>1 DEF Zone, ToInstant
<1>3. ASSUME NEW day \in Days PROVE StartOf(zone, day) \in Int /\ EndOf(zone, day) \in Int
  BY <1>2, SlotsAreInts, HistoryAssumption DEF StartOf, EndOf
<1> QED BY <1>3 DEF Dates, Low, High

LEMMA InitInv == Init => IInv
<1> SUFFICES ASSUME Init PROVE IInv
  OBVIOUS
<1>1. RowsInv
  BY DEF Init, RowsInv, Known, Blank
<1>2. export = Blank
  BY DEF Init
<1>3. ExportInv
  BY <1>2 DEF ExportInv, Blank, Dates, Low, High, File
<1> QED BY <1>1, <1>3 DEF IInv

LEMMA StoreInv ==
  ASSUME IInv, lastId < MaxRows, NEW at \in Instants, NEW answer \in Answers[lastId + 1],
         Store(at, answer)
  PROVE  IInv'
<1> USE DEF IInv
<1> DEFINE new == [id |-> NextId, at |-> at, answer |-> answer, run |-> RunOf(answer)]
<1>1. lastId \in Nat /\ lastId + 1 \in 1 .. MaxRows
  BY HistoryAssumption DEF RowsInv
<1>2. answer \in Answer /\ at \in Int
  BY <1>1, HistoryAssumption
<1>3. RunOf(answer) \in Run
  BY <1>2, RunType DEF Store
<1>4. new \in Row /\ Made(new) /\ new.id = lastId + 1
  BY <1>1, <1>2, <1>3 DEF Row, Made, NextId, Store
<1>5. rows' = rows \cup {new} /\ lastId' = lastId + 1 /\ UNCHANGED <<zone, export>>
  BY DEF Store, NextId
<1> HIDE DEF new
<1>6. RowsInv'
  <2>1. Known' = Known \cup {new}
    BY <1>5 DEF Known
  <2>2. \A r \in Known : r.id \in Nat /\ r.id <= lastId /\ Made(r)
    BY DEF RowsInv, Made
  <2>3. \A r \in Known' : Made(r) /\ r.id <= lastId'
    BY <1>1, <1>4, <1>5, <2>1, <2>2
  <2>4. \A r, s \in Known' : r.id = s.id => r = s
    BY <1>1, <1>4, <2>1, <2>2 DEF RowsInv
  <2> QED BY <1>1, <1>4, <1>5, <2>3, <2>4 DEF RowsInv, Made
<1>7. ExportInv'
  BY <1>5 DEF ExportInv, Low, High, File, Ahead, Within, Before
<1> QED BY <1>6, <1>7

LEMMA DeleteInv ==
  ASSUME IInv, NEW from \in Dates, NEW to \in Dates, Delete(from, to)
  PROVE  IInv'
<1> USE DEF IInv
<1>1. rows' \subseteq rows /\ UNCHANGED <<lastId, zone, export>>
  BY DEF Delete
<1>2. RowsInv'
  BY <1>1 DEF RowsInv, Known, Made
<1>3. ExportInv'
  BY <1>1 DEF ExportInv, Low, High, File, Ahead, Within, Before
<1> QED BY <1>2, <1>3

LEMMA BeginInv ==
  ASSUME IInv, NEW from \in Dates, NEW to \in Dates, Begin(from, to)
  PROVE  IInv'
<1> USE DEF IInv
<1>1. /\ export' = [state |-> "writing", from |-> from, to |-> to,
                    low |-> Low(from), high |-> High(to), seen |-> rows, file |-> <<>>]
      /\ UNCHANGED <<rows, lastId, zone>>
  BY DEF Begin
<1>2. RowsInv'
  BY <1>1 DEF RowsInv, Known, Made
<1>3. Low(from) \in Int \cup {NoDate} /\ High(to) \in Int \cup {NoDate}
  BY WindowType DEF RowsInv
<1>4. export'.file = <<>> /\ export'.seen = rows /\ export'.low = Low(from) /\ export'.high = High(to)
      /\ export'.from = from /\ export'.to = to /\ export'.state = "writing"
  BY <1>1
<1>5. Low(from)' = Low(from) /\ High(to)' = High(to)
  BY <1>1 DEF Low, High
<1>6. \A r \in export'.seen : Within(r, export'.low, export'.high) => Ahead(r)'
  BY <1>4 DEF Ahead
<1>7. export' \in [state : {"none", "writing", "complete", "failed"}, from : Dates, to : Dates,
                  low : Int \cup {NoDate}, high : Int \cup {NoDate},
                  seen : SUBSET Row, file : Seq(Row)]
  BY <1>1, <1>3 DEF RowsInv
<1>8. ExportInv'
  BY <1>1, <1>4, <1>5, <1>6, <1>7 DEF ExportInv, Low, High, Within
<1> QED BY <1>2, <1>8

LEMMA WriteRowInv ==
  ASSUME IInv, WriteRow
  PROVE  IInv'
<1> USE DEF IInv
<1>1. PICK row \in Known :
        /\ Ahead(row)
        /\ \A other \in export.seen : Ahead(other) => ~Before(other, row)
        /\ export' = [export EXCEPT !.file = Append(@, row)]
  BY DEF WriteRow, Known
<1>2. UNCHANGED <<rows, lastId, zone>>
  BY DEF WriteRow
<1> DEFINE file == export.file
<1>3. file \in Seq(Row) /\ row \in Row /\ export.seen \subseteq Row
  BY DEF RowsInv, ExportInv, Known
<1>4. /\ export'.file = Append(file, row)
      /\ export'.state = export.state /\ export'.seen = export.seen
      /\ export'.low = export.low /\ export'.high = export.high
      /\ export'.from = export.from /\ export'.to = export.to
  BY <1>1 DEF ExportInv
<1>5. RowsInv'
  BY <1>2, <1>4 DEF RowsInv, Known, Made
<1>6. Append(file, row) \in Seq(Row) /\ Len(Append(file, row)) = Len(file) + 1
      /\ Append(file, row)[Len(file) + 1] = row
      /\ \A n \in 1 .. Len(file) : Append(file, row)[n] = file[n]
  BY <1>3
<1>7. \A n \in 1 .. Len(file) : Before(file[n], row)
  <2> SUFFICES ASSUME NEW n \in 1 .. Len(file) PROVE Before(file[n], row)
    OBVIOUS
  <2>1. Before(file[Len(file)], row)
    BY <1>1, <1>3 DEF Ahead
  <2>2. n = Len(file) \/ Before(file[n], file[Len(file)])
    BY <1>3 DEF ExportInv
  <2>3. file[n] \in Row /\ file[Len(file)] \in Row
    BY <1>3
  <2> QED BY <1>3, <2>1, <2>2, <2>3 DEF Before, Row
<1>8. ASSUME NEW m \in 1 .. Len(file) + 1, NEW n \in 1 .. Len(file) + 1, m < n
      PROVE  Before(Append(file, row)[m], Append(file, row)[n])
  <2>1. Len(file) \in Nat
    BY <1>3
  <2>2. m \in 1 .. Len(file) /\ (n \in 1 .. Len(file) \/ n = Len(file) + 1)
    BY <1>8, <2>1
  <2>3. CASE n \in 1 .. Len(file)
    <3>1. Before(file[m], file[n])
      BY <1>8, <2>2, <2>3 DEF ExportInv
    <3> QED BY <1>6, <2>2, <2>3, <3>1
  <2>4. CASE n = Len(file) + 1
    BY <1>6, <1>7, <2>2, <2>4
  <2> QED BY <2>2, <2>3, <2>4
<1>9. ASSUME NEW n \in 1 .. Len(file) + 1
      PROVE  Within(Append(file, row)[n], export.low, export.high)
  <2>1. Len(file) \in Nat
    BY <1>3
  <2>2. n \in 1 .. Len(file) \/ n = Len(file) + 1
    BY <2>1
  <2>3. CASE n \in 1 .. Len(file)
    BY <1>6, <2>3 DEF ExportInv
  <2>4. CASE n = Len(file) + 1
    BY <1>1, <1>6, <2>4 DEF Ahead
  <2> QED BY <2>2, <2>3, <2>4
<1>10. File' = File \cup {row}
  BY <1>3, <1>4, <1>6 DEF File
<1>11. ASSUME NEW r \in export.seen, Within(r, export.low, export.high)
       PROVE  r \in File' \/ Ahead(r)'
  <2>1. CASE r \in File \/ r = row
    BY <1>10, <2>1
  <2>2. CASE r \notin File /\ r # row
    <3>1. ~Before(r, row) /\ r \in Known
      BY <1>1, <1>11, <2>2 DEF ExportInv, Known
    <3>2. r.id # row.id
      BY <2>2, <3>1 DEF RowsInv
    <3>3. Before(row, r)
      BY <1>3, <3>1, <3>2 DEF Before, Row
    <3>4. Append(file, row) # <<>> /\ Append(file, row)[Len(Append(file, row))] = row
      BY <1>3, <1>6
    <3> QED BY <1>4, <1>11, <3>3, <3>4 DEF Ahead, Within, Before
  <2> QED BY <2>1, <2>2
<1>12. ExportInv'
  <2>1. export' \in [state : {"none", "writing", "complete", "failed"}, from : Dates, to : Dates,
                    low : Int \cup {NoDate}, high : Int \cup {NoDate},
                    seen : SUBSET Row, file : Seq(Row)]
    BY <1>1, <1>6 DEF ExportInv
  <2>2. export'.low = Low(export.from)' /\ export'.high = High(export.to)'
    BY <1>2, <1>4 DEF ExportInv, Low, High
  <2>3. export'.state # "complete"
    BY <1>4 DEF WriteRow, Writing
  <2> QED BY <1>4, <1>6, <1>8, <1>9, <1>11, <2>1, <2>2, <2>3 DEF ExportInv, Within
<1> QED BY <1>5, <1>12

LEMMA EndInv ==
  ASSUME IInv, Complete \/ Fail
  PROVE  IInv'
<1> USE DEF IInv
<1>1. PICK s \in {"complete", "failed"} : export' = [export EXCEPT !.state = s]
  BY DEF Complete, Fail
<1>2. /\ export'.file = export.file /\ export'.seen = export.seen
      /\ export'.low = export.low /\ export'.high = export.high
      /\ export'.from = export.from /\ export'.to = export.to
      /\ UNCHANGED <<rows, lastId, zone>>
  BY <1>1 DEF ExportInv, Complete, Fail
<1>3. RowsInv'
  BY <1>2 DEF RowsInv, Known, Made
<1>4. export'.state = "complete" => \A r \in export.seen : ~Ahead(r)
  BY DEF Complete, Fail, ExportInv
<1>5. \A r \in export.seen : Ahead(r)' <=> Ahead(r)
  BY <1>2 DEF Ahead, Within, Before
<1>6. File' = File
  BY <1>2 DEF File
<1>7. export' \in [state : {"none", "writing", "complete", "failed"}, from : Dates, to : Dates,
                  low : Int \cup {NoDate}, high : Int \cup {NoDate},
                  seen : SUBSET Row, file : Seq(Row)]
  BY <1>1 DEF ExportInv
<1>8. ExportInv'
  BY <1>2, <1>4, <1>5, <1>6, <1>7 DEF ExportInv, Low, High, Within, Before
<1> QED BY <1>3, <1>8

LEMMA TravelInv ==
  ASSUME IInv, Travel
  PROVE  IInv'
<1> USE DEF IInv
<1>1. export' = Blank /\ zone' \in Zones /\ UNCHANGED <<rows, lastId>>
  BY DEF Travel
<1>2. RowsInv'
  BY <1>1 DEF RowsInv, Known, Made, Blank
<1>3. ExportInv'
  BY <1>1 DEF ExportInv, Blank, Dates, Low, High, File
<1> QED BY <1>2, <1>3

LEMMA StepInv == IInv /\ [Next]_vars => IInv'
<1> SUFFICES ASSUME IInv, [Next]_vars PROVE IInv'
  OBVIOUS
<1>1. CASE UNCHANGED vars
  BY <1>1 DEF IInv, RowsInv, ExportInv, Known, Made, Low, High, File, Ahead, Within, Before, vars
<1>2. CASE Next
  BY <1>2, StoreInv, DeleteInv, BeginInv, WriteRowInv, EndInv, TravelInv DEF Next
<1> QED BY <1>1, <1>2

THEOREM Invariant == Spec => []IInv
BY InitInv, StepInv, PTL DEF Spec

\* TypeOK: see History.
THEOREM TypeCorrect == Spec => []TypeOK
<1>1. IInv => TypeOK
  BY DEF IInv, RowsInv, ExportInv, Known, Made, TypeOK
<1> QED BY <1>1, Invariant, PTL

\* FigureHonest: whatever engines answer, a blank cell is a figure that was not
\* supplied, and a zero is written as a zero.
THEOREM FiguresAreHonest == Spec => []FigureHonest
<1>1. IInv => FigureHonest
  <2> SUFFICES ASSUME IInv, NEW r \in rows, NEW f \in Field
               PROVE  /\ "" \in CsvCells(r.run, f) <=>
                           ~(r.run.status = "success" /\ r.answer.figures[f] \in Supplied)
                      /\ r.run.status = "success" /\ r.answer.figures[f] = "zero"
                           => CsvCells(r.run, f) = {"zero"}
    BY DEF FigureHonest
  <2> DEFINE a == r.answer
             g == r.run.figures[f]
  <2>1. a \in Answer /\ ~Raises(a) /\ r.run = RunOf(a)
    BY DEF IInv, RowsInv, Known, Made
  <2>2. (r.run.status = "success" <=> Succeeds(a)) /\ g = Figure(a, f)
    BY <2>1, RunOfAnswer
  <2>3. /\ g \in Finite \cup {"infinite", None}
        /\ ~Succeeds(a) => g = None
        /\ Succeeds(a) => (g \in Finite <=> a.figures[f] \in Supplied)
        /\ Succeeds(a) /\ a.figures[f] = "zero" => g = "zero"
    BY <2>1, <2>2, FigureType
  <2> HIDE DEF a, g
  <2>4. /\ "" \in CsvCells(r.run, f) <=> g \notin Finite
        /\ g = "zero" => CsvCells(r.run, f) = {"zero"}
    BY <2>3 DEF g, CsvCells, Cell, ToMbps, Finite, None
  <2> QED BY <2>2, <2>3, <2>4 DEF a, g, Finite, None
<1> QED BY <1>1, Invariant, PTL

\* SuccessMeasured: a success has measured something, and any other record says
\* why it has not.
THEOREM SuccessesAreMeasured == Spec => []SuccessMeasured
<1>1. IInv => SuccessMeasured
  <2> SUFFICES ASSUME IInv, NEW r \in rows
               PROVE  /\ r.run.status = "success" <=>
                           /\ r.answer.how = "printed" /\ r.answer.document \in {"result", "lines"}
                           /\ \E f \in Speed : r.answer.figures[f] \in Supplied
                      /\ r.run.status # "success" =>
                           r.run.category \in Category /\ \A f \in Field : r.run.figures[f] = None
    BY DEF SuccessMeasured
  <2> DEFINE a == r.answer
  <2>1. a \in Answer /\ ~Raises(a) /\ r.run = RunOf(a)
    BY DEF IInv, RowsInv, Known, Made
  <2> HIDE DEF a
  <2>2. /\ r.run.status = "success" <=> Succeeds(a)
        /\ \A f \in Field : r.run.figures[f] = Figure(a, f)
        /\ r.run.category = CategoryOf(a)
    BY <2>1, RunOfAnswer DEF RunOf
  <2>3. \A f \in Speed : /\ Coerce(a.figures[f]) \in Number \cup {None}
                         /\ Coerce(a.figures[f]) \in Finite <=> a.figures[f] \in Supplied
    BY <2>1, CoerceType DEF Answer, Field
  <2>4. Succeeds(a) <=> /\ a.how = "printed" /\ a.document \in {"result", "lines"}
                        /\ \E f \in Speed : a.figures[f] \in Supplied
    <3>1. ASSUME Succeeds(a) PROVE \E f \in Speed : a.figures[f] \in Supplied
      BY <2>1, <2>3, <3>1 DEF Succeeds, Refused, Unmeasured, Raises
    <3>2. Succeeds(a) => a.how = "printed" /\ a.document \in {"result", "lines"}
      BY DEF Succeeds, Refused, Loaded
    <3>3. ASSUME NEW f \in Speed, a.figures[f] \in Supplied PROVE ~Unmeasured(a.figures)
      BY <2>3, <3>3 DEF Unmeasured, Finite, None
    <3>4. a.document \in {"result", "lines"} => Loaded(a.document) /\ a.document # "log"
      BY DEF Loaded
    <3> QED BY <3>1, <3>2, <3>3, <3>4 DEF Succeeds, Refused
  <2>5. r.run.status # "success" =>
          r.run.category \in Category /\ \A f \in Field : r.run.figures[f] = None
    BY <2>1, <2>2, CategoryType DEF Figure
  <2> QED BY <2>2, <2>4, <2>5 DEF a
<1> QED BY <1>1, Invariant, PTL

\* ViewsAgree: see History.
THEOREM ViewsAlwaysAgree == Spec => []ViewsAgree
<1>1. IInv => ViewsAgree
  <2> SUFFICES ASSUME IInv, NEW r \in rows, NEW f \in Field
               PROVE  /\ TableCell(r.run, f) = "" <=> Detail(r.run, f) = "Not measured"
                      /\ TableCell(r.run, f) = "" <=> None \in Payload(r.run, f)
                      /\ TableCell(r.run, f) = "" <=> Described(r.run, f) = ""
                      /\ r.run.figures[f] # "infinite" =>
                           (TableCell(r.run, f) = "" <=> "" \in CsvCells(r.run, f))
    BY DEF ViewsAgree
  <2>1. /\ r.run.figures[f] \in Finite \cup {"infinite", None}
        /\ r.run.status # "success" => r.run.figures[f] = None
    BY RunOfAnswer, FigureType DEF IInv, RowsInv, Known, Made
  <2> QED BY <2>1 DEF TableCell, Detail, Payload, Described, CsvCells, Cell, ToMbps, Finite, None
<1> QED BY <1>1, Invariant, PTL

-----------------------------------------------------------------------------
(* Exports and deletions.                                                  *)

\* The window in UTC holds what the table shows under the dates.
LEMMA WithinAsked ==
  ASSUME zone \in Zones, NEW from \in Dates, NEW to \in Dates, OrdinaryDates(from, to),
         NEW r, r.at \in Int
  PROVE  Within(r, Low(from), High(to)) <=> Asked(r, from, to)
<1>1. zone \in Zone
  BY HistoryAssumption
<1>2. ASSUME from # NoDate
      PROVE  /\ StartOf(zone, from) \in Int
             /\ StartOf(zone, from) <= r.at <=> FirstSlot(from) <= Local(zone, r.at)
  BY <1>1, <1>2, HistoryAssumption, SlotsAreInts, StartExact
     DEF Dates, OrdinaryDates, Ordinary, StartOf
<1>3. ASSUME to # NoDate
      PROVE  /\ EndOf(zone, to) \in Int
             /\ r.at <= EndOf(zone, to) <=> Local(zone, r.at) <= LastSlot(to)
  BY <1>1, <1>3, HistoryAssumption, SlotsAreInts, EndExact
     DEF Dates, OrdinaryDates, Ordinary, EndOf
<1> QED BY <1>2, <1>3, HistoryAssumption DEF Within, Low, High, Asked

\* FileComplete: for any number of rows, tests stored during the export and
\* zones.
THEOREM FilesAreComplete == Spec => []FileComplete
<1>1. IInv => FileComplete
  <2> SUFFICES ASSUME IInv PROVE FileComplete
    OBVIOUS
  <2> USE DEF IInv
  <2>1. \A m, n \in 1 .. Len(export.file) : m < n => Before(export.file[m], export.file[n])
    BY DEF ExportInv
  <2>2. /\ export.from \in Dates /\ export.to \in Dates /\ zone \in Zones
        /\ export.file \in Seq(Row) /\ export.seen \subseteq Row
        /\ export.low = Low(export.from) /\ export.high = High(export.to)
    BY DEF ExportInv, RowsInv
  <2>3. ASSUME OrdinaryDates(export.from, export.to), NEW r \in File
        PROVE  Asked(r, export.from, export.to)
    <3>1. r.at \in Int /\ Within(r, export.low, export.high)
      <4>1. PICK n \in 1 .. Len(export.file) : r = export.file[n]
        BY DEF File
      <4>2. r \in Row
        BY <2>2, <4>1
      <4> QED BY <4>1, <4>2 DEF Row, ExportInv
    <3> QED BY <2>2, <2>3, <3>1, WithinAsked
  <2>4. ASSUME OrdinaryDates(export.from, export.to), export.state = "complete",
               NEW r \in export.seen, Asked(r, export.from, export.to)
        PROVE  r \in File
    <3>1. r.at \in Int
      BY <2>2 DEF Row
    <3>2. Within(r, export.low, export.high)
      BY <2>2, <2>4, <3>1, WithinAsked
    <3> QED BY <2>4, <3>2 DEF ExportInv
  <2> QED BY <2>1, <2>3, <2>4 DEF FileComplete
<1> QED BY <1>1, Invariant, PTL

\* DeletesByDay: see History.
THEOREM DeletionsAreByDay == Spec => DeletesByDay
<1>1. IInv /\ [Next]_vars =>
        [\A from \in Dates, to \in Dates :
           Delete(from, to) /\ OrdinaryDates(from, to)
             => rows' = {r \in rows : ~Asked(r, from, to)}]_vars
  <2> SUFFICES ASSUME IInv, NEW from \in Dates, NEW to \in Dates,
                      Delete(from, to), OrdinaryDates(from, to)
               PROVE  rows' = {r \in rows : ~Asked(r, from, to)}
    OBVIOUS
  <2>1. rows' = {r \in rows : ~Within(r, Low(from), High(to))}
    BY DEF Delete
  <2>2. \A r \in rows : Within(r, Low(from), High(to)) <=> Asked(r, from, to)
    BY WithinAsked DEF IInv, RowsInv, Row
  <2> QED BY <2>1, <2>2
<1> QED BY <1>1, Invariant, PTL DEF Spec, DeletesByDay
=============================================================================
