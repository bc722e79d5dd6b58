----------------------------- MODULE ServerPicker -----------------------------
(***************************************************************************)
(* The settings dialog's choice of engine and server                       *)
(* (ui/settings_dialog.py), the thread that asks the engine for servers    *)
(* (engines/ookla.py, core/result_parser.py), and what the settings saved  *)
(* mean to the next test (engines/registry.py, core/test_runner.py).  The  *)
(* dialog is modal; tests start in other processes at any time, also       *)
(* between two writes of Save.                                             *)
(***************************************************************************)
EXTENDS Integers, Sequences

CONSTANTS Number,  \* server ids that are numbers
          Word,    \* ids that are not
          Answers, \* the lists the engine may print: ids, None where there is none
          None     \* no id; "" in the settings

ASSUME ServerPickerAssumption ==
  /\ Number \cap Word = {} /\ None \notin Number \cup Word /\ "refused" \notin Number
  /\ Answers \subseteq Seq(Number \cup Word \cup {None})

VARIABLES
  preference, \* the engine saved; 1.0 saved one that is gone
  pin,        \* the server saved
  executable, \* what `speedtest` is on PATH
  open,       \* the dialog is shown
  saved,      \* _saved_server_id
  ids,        \* _server_ids: 0 is automatic, the others keep the list's places
  at,         \* the place selected in the dropdown of servers
  engineAt,   \* the engine selected
  findable,   \* Find nearby servers can be pressed
  search,     \* its thread
  saving,     \* what _on_save writes next
  touched     \* what the user has chosen since the dialog opened

setting == <<preference, pin>>
form    == <<open, saved, ids, at, engineAt, touched>>
finding == <<findable, search>>
vars    == <<setting, executable, form, finding, saving>>

-----------------------------------------------------------------------------
(* What the settings mean.                                                 *)

\* known_engines, available_engines
Known == {"ookla"}
Available(exe) == {engine \in Known : exe = engine}

\* select_engine.  A name that no engine answers to is taken for automatic.
Selects(pref, exe) ==
  IF pref \in Known
  THEN IF pref \in Available(exe) THEN pref ELSE None
  ELSE IF Available(exe) = {} THEN None ELSE CHOOSE engine \in Available(exe) : TRUE

\* resolve_engine and build_command: the server asked for, "any", or none.
Asks(pref, server, exe) ==
  IF Selects(pref, exe) = None THEN "no engine"
  ELSE IF server = None THEN "any"
  ELSE IF server \in Number THEN server
  ELSE "refused"

-----------------------------------------------------------------------------
(* The dialog.                                                             *)

EngineIds == {"auto"} \cup Known

Init ==
  /\ preference \in {"auto", "ookla", "retired"} /\ pin \in Number \cup {None}
  /\ executable \in {"ookla", "other", "none"}
  /\ open = FALSE /\ saved = None /\ ids = [n \in {0} |-> None]
  /\ at = 0 /\ engineAt = "auto" /\ touched = {}
  /\ findable = TRUE /\ search = [pc |-> "idle"] /\ saving = "no"

MainLoop == saving = "no"

Offering(places, list) == [n \in {0} \cup places |-> IF n = 0 THEN None ELSE list[n]]

\* Mutant: the saved pin is not offered before the list is there.
OpenAutomatic ==
  /\ ~open /\ MainLoop
  /\ open' = TRUE /\ saved' = pin /\ touched' = {}
  /\ ids' = Offering({}, <<>>) /\ at' = 0
  /\ engineAt' = IF preference \in EngineIds THEN preference ELSE "auto"
  /\ findable' = TRUE /\ search' = [pc |-> "idle"]
  /\ UNCHANGED <<setting, executable, saving>>

\* __init__.  The preference that no entry stands for leaves the first selected.
Open ==
  /\ ~open /\ MainLoop
  /\ open' = TRUE /\ saved' = pin /\ touched' = {}
  /\ IF pin = None
     THEN ids' = Offering({}, <<>>) /\ at' = 0
     ELSE ids' = Offering({1}, <<pin>>) /\ at' = 1
  /\ engineAt' = IF preference \in EngineIds THEN preference ELSE "auto"
  /\ findable' = TRUE /\ search' = [pc |-> "idle"]
  /\ UNCHANGED <<setting, executable, saving>>

\* Cancel.  What the thread of a closed dialog brings, nobody sees.
Close ==
  /\ open /\ MainLoop
  /\ open' = FALSE
  /\ UNCHANGED <<setting, executable, saved, ids, at, engineAt, touched, finding, saving>>

ChooseServer(n) ==
  /\ open /\ MainLoop
  /\ at' = n /\ touched' = touched \cup {"server"}
  /\ UNCHANGED <<setting, executable, open, saved, ids, engineAt, finding, saving>>

ChooseEngine(engine) ==
  /\ open /\ MainLoop
  /\ engineAt' = engine /\ touched' = touched \cup {"engine"}
  /\ UNCHANGED <<setting, executable, open, saved, ids, at, finding, saving>>

-----------------------------------------------------------------------------
(* Finding servers.                                                        *)

\* _on_find_servers; with no engine there is only a message.
Find ==
  /\ open /\ MainLoop /\ findable
  /\ Selects(preference, executable) # None
  /\ findable' = FALSE /\ search' = [pc |-> "asking"]
  /\ UNCHANGED <<setting, executable, form, saving>>

\* Mutant: an id need not be a number.
HasId(list) == {n \in DOMAIN list : list[n] # None}

\* The entries of which parse_server_list makes servers.
Usable(list) == {n \in DOMAIN list : list[n] \in Number}

\* list_servers.  An exit status is an EngineError, and so are a timeout and a
\* program that is gone; output that is no list is a ParseError, which is none
\* and ends the thread.
Answer ==
  /\ search.pc = "asking"
  /\ \/ search' = [pc |-> "error"]
     \/ executable # "none" /\ search' = [pc |-> "died"]
     \/ /\ executable = "ookla"
        /\ \E list \in Answers : search' = [pc |-> "found", list |-> list]
  /\ UNCHANGED <<setting, executable, form, findable, saving>>

\* The place that holds the id (either, if the list has it twice), or 0.
Place(id, list) ==
  LET places == {n \in Usable(list) : list[n] = id}
  IN  IF places = {} THEN 0 ELSE CHOOSE n \in places : TRUE

\* Mutant: a pin that the list does not have is dropped.
ShowOnlyFound(list) ==
  /\ ids' = Offering(Usable(list), list)
  /\ at' = Place(saved, list)

\* The list replaces what was offered; a pin that it does not have is kept.
Show(list) ==
  IF saved = None \/ Place(saved, list) # 0
  THEN /\ ids' = Offering(Usable(list), list)
       /\ at' = Place(saved, list)
  ELSE /\ ids' = Offering(Usable(list) \cup {Len(list) + 1}, Append(list, saved))
       /\ at' = Len(list) + 1

\* Mutant: an error returns before the button is given back.
FoundKeepsButton ==
  /\ MainLoop /\ search.pc \in {"error", "found"}
  /\ search' = [pc |-> "idle"]
  /\ IF search.pc = "error" \/ Usable(search.list) = {}
     THEN UNCHANGED <<ids, at, findable>>
     ELSE Show(search.list) /\ findable' = TRUE
  /\ UNCHANGED <<setting, executable, open, saved, engineAt, touched, saving>>

\* _on_servers_found.
Found ==
  /\ MainLoop /\ search.pc \in {"error", "found"}
  /\ search' = [pc |-> "idle"] /\ findable' = TRUE
  /\ IF search.pc = "error" \/ Usable(search.list) = {}
     THEN UNCHANGED <<ids, at>>
     ELSE Show(search.list)
  /\ UNCHANGED <<setting, executable, open, saved, engineAt, touched, saving>>

-----------------------------------------------------------------------------
(* _on_save: a transaction for each setting, and none for all.             *)

Press ==
  /\ open /\ MainLoop
  /\ saving' = "engine"
  /\ UNCHANGED <<setting, executable, form, finding>>

SaveEngine ==
  /\ saving = "engine"
  /\ preference' = engineAt /\ saving' = "server"
  /\ UNCHANGED <<pin, executable, form, finding>>

SaveServer ==
  /\ saving = "server"
  /\ pin' = ids[at] /\ saving' = "others"
  /\ UNCHANGED <<preference, executable, form, finding>>

\* The settings of the monitor and the schedule (Scheduler), and close().
SaveOthers ==
  /\ saving = "others"
  /\ saving' = "no" /\ open' = FALSE
  /\ UNCHANGED <<setting, executable, saved, ids, at, engineAt, touched, finding>>

\* A write fails: the exception leaves the handler, and the dialog stays.
SaveFails ==
  /\ saving # "no"
  /\ saving' = "no"
  /\ UNCHANGED <<setting, executable, form, finding>>

Save == SaveEngine \/ SaveServer \/ SaveOthers \/ SaveFails

\* Packages are installed and removed.
Install(exe) ==
  /\ executable' = exe
  /\ UNCHANGED <<setting, form, finding, saving>>

-----------------------------------------------------------------------------

Next ==
  \/ Open \/ Close \/ Press \/ Find \/ Answer \/ Found \/ Save
  \/ \E n \in DOMAIN ids : ChooseServer(n)
  \/ \E engine \in EngineIds : ChooseEngine(engine)
  \/ \E exe \in {"ookla", "other", "none"} : Install(exe)

\* list_servers has a timeout; a handler returns; and the loop comes to its idle
\* callbacks between two clicks, however many they are.
Fairness == WF_vars(Answer) /\ WF_vars(Save) /\ SF_vars(Found)

Spec == Init /\ [][Next]_vars /\ Fairness

-----------------------------------------------------------------------------
(* Properties.                                                             *)

\* Type correctness; what is selected is in the dropdown.
TypeOK ==
  /\ preference \in EngineIds \cup {"retired"} /\ pin \in Number \cup Word \cup {None}
  /\ executable \in {"ookla", "other", "none"}
  /\ open \in BOOLEAN /\ findable \in BOOLEAN /\ touched \subseteq {"server", "engine"}
  /\ saved \in Number \cup Word \cup {None} /\ engineAt \in EngineIds
  /\ at \in DOMAIN ids /\ DOMAIN ids \subseteq Nat
  /\ \A n \in DOMAIN ids : ids[n] \in Number \cup Word \cup {None}
  /\ search.pc \in {"idle", "asking", "error", "found", "died"}
  /\ search.pc = "found" => search.list \in Answers
  /\ saving \in {"no", "engine", "server", "others"}

\* Whatever lists have come, wherever in them the pinned server stands, and if
\* they do not have it at all, the dialog shows the pin in force as the choice,
\* so long as the user has not chosen another ("never misrepresented as
\* automatic", "kept rather than silently dropped").
PinShown == open /\ "server" \notin touched => ids[at] = pin

\* The picker never gives a test a server that build_command refuses, whatever
\* the engine has printed, and from whichever write of Save the test starts.
NoPinRefused == Asks(preference, pin, executable) # "refused"

\* To open the dialog, to look at lists and to press Save, or to have it fail at
\* any write, changes nothing of what the next test measures with, even where
\* the engine saved is one that is gone and Save replaces it.
SavingAloneChangesNothing ==
  [][touched = {} =>
       \A exe \in {"ookla", "other", "none"} :
         Asks(preference', pin', exe) = Asks(preference, pin, exe)]_vars

\* The button to find servers comes back, while the dialog is there, unless the
\* engine's answer was no list of servers.
FindComesBack == open /\ ~findable ~> (findable \/ ~open \/ search.pc = "died")
=============================================================================
