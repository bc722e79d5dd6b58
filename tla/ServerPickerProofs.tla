-------------------------- MODULE ServerPickerProofs --------------------------
(***************************************************************************)
(* Proofs about ServerPicker.  What the dropdown offers are always servers *)
(* a test accepts, and while the user has chosen nothing, the dialog, the  *)
(* pin it read and the pin in the settings are the same.                   *)
(***************************************************************************)
EXTENDS ServerPicker, TLAPS

Fine == Number \cup {None}

\* What is offered can be used.
OfferInv ==
  /\ pin \in Fine /\ saved \in Fine
  /\ DOMAIN ids \subseteq Nat /\ at \in DOMAIN ids
  /\ \A n \in DOMAIN ids : ids[n] \in Fine

\* What nobody chose is what was saved.
FormInv ==
  /\ open \in BOOLEAN /\ touched \subseteq {"server", "engine"}
  /\ preference \in EngineIds \cup {"retired"} /\ engineAt \in EngineIds
  /\ open /\ "server" \notin touched => ids[at] = saved /\ saved = pin
  /\ open /\ "engine" \notin touched =>
       engineAt = IF preference \in EngineIds THEN preference ELSE "auto"
  /\ saving # "no" => open

RestInv ==
  /\ executable \in {"ookla", "other", "none"} /\ findable \in BOOLEAN
  /\ search.pc \in {"idle", "asking", "error", "found", "died"}
  /\ search.pc = "found" => search.list \in Answers
  /\ saving \in {"no", "engine", "server", "others"}

IInv == OfferInv /\ FormInv /\ RestInv

\* parse_server_list and the loop over the servers, for a list of any length.
LEMMA ShowFits ==
  ASSUME NEW list \in Answers, saved \in Fine, Show(list)
  PROVE  /\ DOMAIN ids' \subseteq Nat /\ at' \in DOMAIN ids'
         /\ \A n \in DOMAIN ids' : ids'[n] \in Fine
         /\ ids'[at'] = saved
<1>1. list \in Seq(Number \cup Word \cup {None}) /\ None \notin Number
  BY ServerPickerAssumption
<1>2. /\ Usable(list) \subseteq DOMAIN list /\ DOMAIN list = 1 .. Len(list) /\ Len(list) \in Nat
      /\ \A n \in Usable(list) : list[n] \in Number
  BY <1>1 DEF Usable
<1>3. \/ Place(saved, list) = 0 /\ \A n \in Usable(list) : list[n] # saved
      \/ Place(saved, list) \in Usable(list) /\ list[Place(saved, list)] = saved
  <2> DEFINE places == {n \in Usable(list) : list[n] = saved}
  <2>1. CASE places = {}
    BY <2>1 DEF Place
  <2>2. CASE places # {}
    <3>1. Place(saved, list) \in places
      BY <2>2 DEF Place
    <3> QED BY <3>1
  <2> QED BY <2>1, <2>2
<1>4. CASE saved = None \/ Place(saved, list) # 0
  <2>1. ids' = Offering(Usable(list), list) /\ at' = Place(saved, list)
    BY <1>4 DEF Show
  <2>2. /\ DOMAIN ids' = {0} \cup Usable(list)
        /\ \A n \in DOMAIN ids' : ids'[n] = IF n = 0 THEN None ELSE list[n]
    BY <2>1 DEF Offering
  <2>3. CASE Place(saved, list) = 0
    BY <1>2, <1>4, <2>1, <2>2, <2>3 DEF Fine
  <2>4. CASE Place(saved, list) # 0
    <3>1. at' \in Usable(list) /\ at' # 0 /\ list[at'] = saved
      BY <1>2, <1>3, <2>1, <2>4
    <3> QED BY <1>2, <2>2, <3>1 DEF Fine
  <2> QED BY <2>3, <2>4
<1>5. CASE ~(saved = None \/ Place(saved, list) # 0)
  <2> DEFINE last == Len(list) + 1
             kept == Append(list, saved)
  <2>1. ids' = Offering(Usable(list) \cup {last}, kept) /\ at' = last
    BY <1>5 DEF Show
  <2>2. last # 0 /\ last \in Nat /\ kept[last] = saved /\ \A n \in Usable(list) : kept[n] = list[n]
    BY <1>1, <1>2
  <2> HIDE DEF last, kept
  <2>3. /\ DOMAIN ids' = {0} \cup Usable(list) \cup {last}
        /\ \A n \in DOMAIN ids' : ids'[n] = IF n = 0 THEN None ELSE kept[n]
    BY <2>1 DEF Offering
  <2>4. DOMAIN ids' \subseteq Nat /\ at' \in DOMAIN ids'
    BY <1>2, <2>1, <2>2, <2>3
  <2>5. ids'[at'] = saved
    BY <2>1, <2>2, <2>3
  <2>6. ASSUME NEW n \in DOMAIN ids' PROVE ids'[n] \in Fine
    <3>1. CASE n = 0
      BY <2>3, <3>1 DEF Fine
    <3>2. CASE n = last
      BY <2>2, <2>3, <3>2
    <3>3. CASE n \in Usable(list) /\ n # 0
      BY <1>2, <2>2, <2>3, <3>3 DEF Fine
    <3> QED BY <2>3, <3>1, <3>2, <3>3
  <2> QED BY <2>4, <2>5, <2>6
<1> QED BY <1>4, <1>5

LEMMA InitInv == Init => IInv
<1> SUFFICES ASSUME Init PROVE IInv
  OBVIOUS
<1>1. /\ pin \in Fine /\ saved \in Fine /\ preference \in {"auto", "ookla", "retired"}
      /\ open = FALSE /\ at = 0 /\ engineAt = "auto" /\ touched = {} /\ saving = "no"
      /\ executable \in {"ookla", "other", "none"} /\ findable = TRUE /\ search = [pc |-> "idle"]
  BY DEF Init, Fine
<1>2. ids = [n \in {0} |-> None]
  BY DEF Init
<1>3. OfferInv
  BY <1>1, <1>2 DEF OfferInv, Fine
<1>4. FormInv
  BY <1>1 DEF FormInv, EngineIds, Known
<1>5. RestInv
  BY <1>1 DEF RestInv
<1> QED BY <1>3, <1>4, <1>5 DEF IInv

LEMMA OpenInv ==
  ASSUME IInv, Open
  PROVE  IInv'
<1>1. /\ open' = TRUE /\ saved' = pin /\ touched' = {}
      /\ engineAt' = IF preference \in EngineIds THEN preference ELSE "auto"
      /\ findable' = TRUE /\ search' = [pc |-> "idle"]
      /\ preference' = preference /\ pin' = pin /\ executable' = executable /\ saving' = saving
  BY DEF Open, setting
<1>2. /\ DOMAIN ids' \subseteq Nat /\ at' \in DOMAIN ids' /\ ids'[at'] = pin
      /\ \A n \in DOMAIN ids' : ids'[n] \in Fine
  <2>1. CASE pin = None
    BY <2>1 DEF Open, Offering, Fine
  <2>2. CASE pin # None
    <3>1. ids' = [n \in {0} \cup {1} |-> IF n = 0 THEN None ELSE <<pin>>[n]] /\ at' = 1
      BY <2>2 DEF Open, Offering
    <3> QED BY <3>1 DEF Fine, IInv, OfferInv
  <2> QED BY <2>1, <2>2
<1>3. OfferInv'
  BY <1>1, <1>2 DEF IInv, OfferInv
<1>4. FormInv'
  BY <1>1, <1>2 DEF IInv, FormInv, EngineIds
<1>5. RestInv'
  BY <1>1 DEF IInv, RestInv
<1> QED BY <1>3, <1>4, <1>5 DEF IInv

LEMMA FoundInv ==
  ASSUME IInv, Found
  PROVE  IInv'
<1>1. /\ search.pc \in {"error", "found"} /\ search' = [pc |-> "idle"] /\ findable' = TRUE
      /\ UNCHANGED <<setting, executable, open, saved, engineAt, touched, saving>>
  BY DEF Found
<1>2. RestInv'
  BY <1>1 DEF IInv, RestInv
<1>3. CASE UNCHANGED <<ids, at>>
  BY <1>1, <1>2, <1>3 DEF IInv, OfferInv, FormInv, setting
<1>4. CASE search.pc = "found" /\ Show(search.list)
  <2>1. /\ DOMAIN ids' \subseteq Nat /\ at' \in DOMAIN ids' /\ ids'[at'] = saved
        /\ \A n \in DOMAIN ids' : ids'[n] \in Fine
    BY <1>4, ShowFits DEF IInv, OfferInv, RestInv
  <2> QED BY <1>1, <1>2, <2>1 DEF IInv, OfferInv, FormInv, setting
<1> QED BY <1>1, <1>3, <1>4 DEF Found

LEMMA ChooseInv ==
  ASSUME IInv, \/ \E n \in DOMAIN ids : ChooseServer(n)
               \/ \E engine \in EngineIds : ChooseEngine(engine)
  PROVE  IInv'
<1>1. ASSUME NEW n \in DOMAIN ids, ChooseServer(n) PROVE IInv'
  BY <1>1 DEF ChooseServer, IInv, OfferInv, FormInv, RestInv, setting, finding
<1>2. ASSUME NEW engine \in EngineIds, ChooseEngine(engine) PROVE IInv'
  BY <1>2 DEF ChooseEngine, IInv, OfferInv, FormInv, RestInv, setting, finding
<1> QED BY <1>1, <1>2

LEMMA AnswerInv ==
  ASSUME IInv, Answer
  PROVE  IInv'
<1>1. /\ search'.pc \in {"error", "died", "found"}
      /\ search'.pc = "found" => search'.list \in Answers
      /\ UNCHANGED <<setting, executable, form, findable, saving>>
  BY DEF Answer
<1> QED BY <1>1 DEF IInv, OfferInv, FormInv, RestInv, setting, form

LEMMA SaveInv ==
  ASSUME IInv, Save
  PROVE  IInv'
<1>1. CASE SaveEngine
  BY <1>1 DEF SaveEngine, IInv, OfferInv, FormInv, RestInv, form, finding, EngineIds
<1>2. CASE SaveServer
  BY <1>2 DEF SaveServer, IInv, OfferInv, FormInv, RestInv, form, finding
<1>3. CASE SaveOthers
  BY <1>3 DEF SaveOthers, IInv, OfferInv, FormInv, RestInv, setting, finding
<1>4. CASE SaveFails
  BY <1>4 DEF SaveFails, IInv, OfferInv, FormInv, RestInv, setting, form, finding
<1> QED BY <1>1, <1>2, <1>3, <1>4 DEF Save

LEMMA StepInv == IInv /\ [Next]_vars => IInv'
<1> SUFFICES ASSUME IInv, [Next]_vars PROVE IInv'
  OBVIOUS
<1>1. CASE Open \/ Answer \/ Found \/ Save
  BY <1>1, OpenInv, AnswerInv, FoundInv, SaveInv
<1>2. CASE Close
  BY <1>2 DEF Close, MainLoop, IInv, OfferInv, FormInv, RestInv, setting, finding
<1>3. CASE Press
  BY <1>3 DEF Press, IInv, OfferInv, FormInv, RestInv, setting, form, finding
<1>4. CASE Find
  BY <1>4 DEF Find, IInv, OfferInv, FormInv, RestInv, setting, form
<1>5. CASE \/ \E n \in DOMAIN ids : ChooseServer(n)
           \/ \E engine \in EngineIds : ChooseEngine(engine)
  BY <1>5, ChooseInv
<1>6. CASE \E exe \in {"ookla", "other", "none"} : Install(exe)
  BY <1>6 DEF Install, IInv, OfferInv, FormInv, RestInv, setting, form, finding
<1>7. CASE UNCHANGED vars
  BY <1>7 DEF vars, IInv, OfferInv, FormInv, RestInv, setting, form, finding
<1> QED BY <1>1, <1>2, <1>3, <1>4, <1>5, <1>6, <1>7 DEF Next

\* The invariant: what nobody chose is what was saved, and all that is offered
\* can be used (__init__, _on_servers_found, _on_save).
THEOREM Invariant == Spec => []IInv
BY InitInv, StepInv, PTL DEF Spec

\* Whatever lists _on_servers_found is given, the dropdown has the place that it
\* selects.
THEOREM TypeCorrect == Spec => []TypeOK
<1>1. IInv => TypeOK
  BY DEF IInv, OfferInv, FormInv, RestInv, Fine, TypeOK
<1> QED BY <1>1, Invariant, PTL

\* The dialog shows the pin in force until the user chooses another.
THEOREM PinIsShown == Spec => []PinShown
<1>1. IInv => PinShown
  BY DEF IInv, FormInv, PinShown
<1> QED BY <1>1, Invariant, PTL

\* build_command refuses no server that the dialog saved.
THEOREM TestsAcceptThePin == Spec => []NoPinRefused
<1>1. IInv => NoPinRefused
  <2> SUFFICES ASSUME IInv, Asks(preference, pin, executable) = "refused"
               PROVE  FALSE
    BY DEF NoPinRefused
  <2> QED BY ServerPickerAssumption DEF Asks, IInv, OfferInv, Fine
<1> QED BY <1>1, Invariant, PTL

\* Each write of _on_save leaves the next test as it was, if nothing was chosen.
THEOREM SavingAloneIsHarmless == Spec => SavingAloneChangesNothing
<1>1. IInv /\ [Next]_vars =>
        [touched = {} =>
           \A exe \in {"ookla", "other", "none"} :
             Asks(preference', pin', exe) = Asks(preference, pin, exe)]_vars
  <2> SUFFICES ASSUME IInv, [Next]_vars, touched = {}, NEW exe \in {"ookla", "other", "none"}
               PROVE  Asks(preference', pin', exe) = Asks(preference, pin, exe)
    OBVIOUS
  <2>1. CASE UNCHANGED setting
    BY <2>1 DEF setting
  <2>2. CASE SaveEngine
    <3>1. /\ pin' = pin
          /\ preference' = IF preference \in EngineIds THEN preference ELSE "auto"
      BY <2>2 DEF SaveEngine, IInv, FormInv
    <3>2. Selects(preference', exe) = Selects(preference, exe)
      BY <3>1 DEF Selects, EngineIds, Known, IInv, FormInv
    <3> QED BY <3>1, <3>2 DEF Asks
  <2>3. CASE SaveServer
    <3>1. pin' = pin /\ preference' = preference
      BY <2>3 DEF SaveServer, IInv, FormInv
    <3> QED BY <3>1
  <2>4. SaveEngine \/ SaveServer \/ UNCHANGED setting
    BY DEF Next, Open, Close, Press, Find, Answer, Found, Save, SaveOthers, SaveFails,
       ChooseServer, ChooseEngine, Install, vars
  <2> QED BY <2>1, <2>2, <2>3, <2>4
<1> QED BY <1>1, Invariant, PTL DEF Spec, SavingAloneChangesNothing
=============================================================================
