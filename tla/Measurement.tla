----------------------------- MODULE Measurement ------------------------------
(***************************************************************************)
(* What becomes of the engine's answer: core/result_parser.py reads it,    *)
(* core/test_runner.py makes a record of it, core/models.py, the log table,*)
(* the details dialog and the CSV export show it.  The rule they share: a  *)
(* figure the engine did not supply stays missing, a zero stays a zero.    *)
(***************************************************************************)
EXTENDS Integers, Sequences

Speed == {"download_bps", "upload_bps"}
Plain == {"idle_latency_ms", "packet_loss_percent"} \* the others are alike
Field == Speed \cup Plain

\* What the document may hold where a figure belongs; "numeral" is a string.
Missing == {"absent", "null", "boolean", "blank", "word"}
Number  == {"zero", "trickle", "plenty", "nan", "infinite"}
Finite  == {"zero", "trickle", "plenty"}
Reported == Missing \cup Number \cup {"numeral"}

None == "None"

Category ==
  {"engine_missing", "no_network", "dns_failure", "server_unavailable",
   "timeout", "permission_error", "malformed_output", "process_error",
   "skipped_overlap", "cancelled"}

\* How an attempt ends, what the engine's text hints at, what it prints, and
\* the figures it reports.
Answer ==
  [how : {"skipped", "no_engine", "bad_server", "unstartable", "cancelled",
          "timed_out", "exited", "printed"},
   hints : SUBSET Category,
   document : {"nothing", "garbage", "list", "log", "result", "lines"},
   figures : [Field -> Reported]]

-----------------------------------------------------------------------------
(* Reading the answer.                                                     *)

\* Mutant: what is no number is a zero.
CoerceZero(value) == IF value \in Missing THEN "zero" ELSE IF value = "numeral" THEN "plenty" ELSE value

\* dig, coerce_float.
Coerce(value) ==
  CASE value \in Missing  -> None
    [] value = "numeral"  -> "plenty"
    [] value \in Number   -> value

\* load_json, _last_json_object: progress lines may precede the result.
Loaded(document) == document \in {"log", "result", "lines"}

\* bytes_per_second_to_bps cannot round these: ValueError, OverflowError.
Raises(answer) ==
  /\ answer.how = "printed"
  /\ Loaded(answer.document) /\ answer.document # "log"
  /\ \E f \in Speed : Coerce(answer.figures[f]) \in Number \ Finite

Unmeasured(figures) == \A f \in Speed : Coerce(figures[f]) = None

\* Mutant: half a result is refused.
RefusedHalf(answer) ==
  \/ ~Loaded(answer.document)
  \/ answer.document = "log"
  \/ \E f \in Speed : Coerce(answer.figures[f]) = None

\* parse_ookla_json: ParseError, which parse_output turns into EngineError.
Refused(answer) ==
  \/ ~Loaded(answer.document)
  \/ answer.document = "log"
  \/ Unmeasured(answer.figures)

\* _ERROR_PATTERNS: the order in which the text is searched.
ErrorPatterns ==
  <<"dns_failure", "no_network", "server_unavailable", "permission_error",
    "timeout", "malformed_output", "engine_missing">>

\* classify_error_text
Classified(hints) ==
  LET found == {n \in 1 .. 7 : ErrorPatterns[n] \in hints}
  IN  IF found = {} THEN "process_error"
      ELSE ErrorPatterns[CHOOSE n \in found : \A m \in found : n <= m]

-----------------------------------------------------------------------------
(* The record.                                                             *)

Succeeds(answer) == answer.how = "printed" /\ ~Refused(answer)

StatusOf(answer) ==
  CASE answer.how = "skipped"   -> "skipped"
    [] answer.how = "cancelled" -> "cancelled"
    [] answer.how = "timed_out" -> "timeout"
    [] Succeeds(answer)         -> "success"
    [] OTHER                    -> "failed"

CategoryOf(answer) ==
  CASE answer.how = "skipped"     -> "skipped_overlap"
    [] answer.how = "cancelled"   -> "cancelled"
    [] answer.how = "timed_out"   -> "timeout"
    [] answer.how = "no_engine"   -> "engine_missing"
    [] answer.how = "bad_server"  -> "process_error"
    [] answer.how = "unstartable" -> "process_error" \* ENOENT: "no_engine"
    [] answer.how = "exited"      -> Classified(answer.hints)
    [] Succeeds(answer)           -> None
    [] OTHER                      -> "malformed_output"

\* to_row, and what SQLite does with it: it has no NaN but NULL.
Column(value) == IF value = "nan" THEN None ELSE value

Figure(answer, f) == IF Succeeds(answer) THEN Column(Coerce(answer.figures[f])) ELSE None

\* TestRun, without the columns that are copied only.
Run ==
  [status : {"success", "failed", "timeout", "cancelled", "skipped"},
   category : Category \cup {None},
   figures : [Field -> Finite \cup {"infinite", None}]]

RunOf(answer) ==
  [status |-> StatusOf(answer), category |-> CategoryOf(answer),
   figures |-> [f \in Field |-> Figure(answer, f)]]

-----------------------------------------------------------------------------
(* Showing it: "" is a blank cell.                                         *)

\* bps_to_mbps: two decimals.
ToMbps(value) == IF value = "trickle" THEN "zero" ELSE value

\* Mutant: a zero is false and leaves a blank.
CellFalsy(value) == IF value \in {None, "zero", "infinite"} THEN "" ELSE value

\* _cell
Cell(value) == IF value \in {None, "infinite"} THEN "" ELSE value

\* The columns of row_for that come of a field.
CsvCells(run, f) ==
  {Cell(run.figures[f])}
    \cup (IF f \in Speed THEN {Cell(ToMbps(run.figures[f]))} ELSE {})

\* format_mbps, format_ms: the table.
TableCell(run, f) ==
  IF run.figures[f] = None THEN ""
  ELSE IF f \in Speed THEN ToMbps(run.figures[f]) ELSE run.figures[f]

\* _mbps_row, _ms_row and the line of the packet loss: the details.
Detail(run, f) == IF run.figures[f] = None THEN "Not measured" ELSE run.figures[f]

\* _describe_run and _record_payload: --status and --status --json, of a row
\* read back.  A payload has null where a figure is missing.
Described(run, f) == IF run.status = "success" THEN TableCell(run, f) ELSE ""

Payload(run, f) ==
  {run.figures[f]} \cup (IF f \in Speed THEN {ToMbps(run.figures[f])} ELSE {})
=============================================================================
