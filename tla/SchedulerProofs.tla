---------------------------- MODULE SchedulerProofs ----------------------------
(***************************************************************************)
(* For any set of intervals: what holds of the scheduler whatever fails,   *)
(* and what holds when calls may be interrupted but systemd obeys.         *)
(***************************************************************************)
EXTENDS Scheduler, TLAPS

-----------------------------------------------------------------------------
(* Types.                                                                  *)

LEMMA SeenTypes ==
  TypeOK => \A ticking \in BOOLEAN : Seen(ticking) \cup HalfSeen(ticking) \subseteq Shown
<1> SUFFICES ASSUME TypeOK, NEW ticking \in BOOLEAN PROVE Seen(ticking) \cup HalfSeen(ticking) \subseteq Shown
  OBVIOUS
<1>0. setting.auto \in BOOLEAN /\ shown \in Shown
  BY DEF TypeOK, Setting
<1>1. ASSUME NEW s \in Seen(ticking) PROVE s \in Shown
  <2>1. PICK banner \in {IF setting.auto /\ inactive THEN "error" ELSE "none" : inactive \in Inactive}
                        \cup (IF "engine" \in faults THEN {"engine"} ELSE {}) :
          s = [switch |-> setting.auto, banner |-> banner, ticking |-> ticking]
    BY <1>1 DEF Seen
  <2>2. banner \in {"none", "engine", "error"}
    BY <2>1
  <2> QED
    BY <1>0, <2>1, <2>2 DEF Shown
<1>2. ASSUME NEW s \in HalfSeen(ticking) PROVE s \in Shown
  BY <1>0, <1>2 DEF HalfSeen, Shown
<1> QED
  BY <1>1, <1>2

LEMMA NoWindowTypes == NoWindow \in Shown
BY DEF NoWindow, Shown

\* Every variable keeps to its values.
THEOREM TypeCorrect == Spec => []TypeOK
<1>1. Init => TypeOK
  BY SchedulerAssumption DEF Init, NoWindow, TypeOK, Place, Call, Caller, Setting, Systemd, Shown, Maybe
<1>2. TypeOK /\ [Next]_vars => TypeOK'
  <2> SUFFICES ASSUME TypeOK, [Next]_vars PROVE TypeOK'
    OBVIOUS
  <2>1. CASE Refresh \/ PressRefresh \/ Settle
    <3>1. shown.ticking \in BOOLEAN /\ (shown.ticking \/ call.caller = "startup") \in BOOLEAN
      BY DEF TypeOK, Shown
    <3>2. shown' \in Shown
      BY <2>1, <3>1, SeenTypes DEF Refresh, PressRefresh, Settle, Uncaught, TypeOK
    <3> QED
      BY <2>1, <3>2 DEF Refresh, PressRefresh, Settle, Uncaught, TypeOK, Place
  <2>2. CASE SaveAuto \/ SaveInterval \/ SaveLogin \/ SaveMonitor
    BY <2>2 DEF SaveAuto, SaveInterval, SaveLogin, SaveMonitor, Save, TypeOK, Place, Setting, Call
  <2>3. CASE AskTimer \/ AskMonitor \/ Return
    BY <2>3 DEF AskTimer, AskMonitor, Supported, Return, Uncaught, TypeOK, Place
  <2>4. CASE StopTimer \/ DisableTimer \/ ReloadTimer
    BY <2>4 DEF StopTimer, DisableTimer, ReloadTimer, Reloaded, Command, TypeOK, Place,
       Systemd, Maybe
  <2>5. CASE EnableTimer \/ UnlinkTimer \/ RestartTimer
    BY <2>5 DEF EnableTimer, UnlinkTimer, RestartTimer, Command, TypeOK, Place,
       Systemd, Maybe
  <2>6. CASE StopMonitor \/ DisableMonitor \/ ReloadMonitor
    BY <2>6 DEF StopMonitor, DisableMonitor, ReloadMonitor, Reloaded, Command, TypeOK,
       Place, Systemd
  <2>7. CASE EnableMonitor \/ RestartMonitor
    BY <2>7 DEF EnableMonitor, RestartMonitor, Command, TypeOK, Place, Systemd
  <2>8. CASE WriteTimer \/ WriteMonitor
    BY <2>8 DEF WriteTimer, WriteMonitor, Uncaught, TypeOK, Place, Systemd, Call, Maybe
  <2>9. CASE Handlers
    <3>1. CASE Activate
      BY <3>1 DEF Activate, Stored, TypeOK, Place, Call, Caller, Setting
    <3>2. ASSUME NEW on \in BOOLEAN, NEW i \in Interval, Controls(on, i) PROVE TypeOK'
      BY <3>2 DEF Controls, TypeOK, Place, Call, Caller, Setting, Shown
    <3>3. ASSUME NEW login \in BOOLEAN, NEW monitor \in BOOLEAN, SaveSettings(login, monitor)
          PROVE  TypeOK'
      BY <3>3 DEF SaveSettings, Stored, TypeOK, Place, Call, Caller, Setting
    <3>4. ASSUME NEW monitor \in BOOLEAN, SaveSettingsFails(monitor) PROVE TypeOK'
      BY <3>4 DEF SaveSettingsFails, TypeOK, Setting
    <3> QED
      BY <2>1, <2>9, <3>1, <3>2, <3>3, <3>4 DEF Handlers
  <2>10. CASE Quit \/ Crash
    BY <2>10, NoWindowTypes DEF Quit, Crash, TypeOK, Place
  <2>11. CASE Logout
    BY <2>11, NoWindowTypes DEF Logout, TypeOK, Place, Systemd, Maybe
  <2>12. CASE Login
    BY <2>12 DEF Login, TypeOK, Systemd, Maybe
  <2>13. CASE LoseUnit \/ TimerDies
    BY <2>13 DEF LoseUnit, TimerDies, TypeOK, Systemd, Maybe
  <2>14. CASE UNCHANGED vars
    BY <2>14 DEF vars, TypeOK
  <2> QED
    BY <2>1, <2>2, <2>3, <2>4, <2>5, <2>6, <2>7, <2>8, <2>9, <2>10, <2>11, <2>12, <2>13,
       <2>14 DEF Next, Apply, ApplyMonitor, Environment
<1> QED
  BY <1>1, <1>2, PTL DEF Spec

-----------------------------------------------------------------------------
(* An apply that returns left the timer asked for or none.                 *)

\* Without a session there is no window.
SessionInv == ~sd.session => pc = "closed"

\* Each branch of apply is taken for its own value of enabled.
BranchInv == pc \in {"stop", "disable"} => ~call.enabled

\* What was written is what is loaded, and what is loaded is what is started,
\* unless the unit file has gone.
WrittenInv ==
  /\ pc = "reload" => sd.unit \in {call.interval, None}
  /\ pc \in {"enable", "unlink", "restart"} => sd.loaded \in {call.interval, None}

AskedInv == SessionInv /\ BranchInv /\ WrittenInv /\ AppliedAsAsked

LEMMA FaultsStay == [Next]_vars => faults' = faults
BY DEF vars, Next, Apply, ApplyMonitor, Handlers, Environment, Refresh, PressRefresh, Settle, SaveAuto,
   SaveInterval, SaveLogin, SaveMonitor, Save, AskTimer, AskMonitor, Supported, Return, Uncaught,
   StopTimer, DisableTimer, ReloadTimer, EnableTimer, UnlinkTimer, RestartTimer,
   StopMonitor, DisableMonitor, ReloadMonitor, EnableMonitor, RestartMonitor, Command,
   WriteTimer, WriteMonitor, Uncaught, Activate, Controls, SaveSettings,
   SaveSettingsFails, Quit, Crash, Logout, Login, LoseUnit, TimerDies

\* Whatever else fails (commands, writes, the window, the timer, the unit
\* file), as long as systemd answers whether it is there: "on, every i" is so.
THEOREM AppliedTruth == Spec => []AppliedAsAsked
<1>1. Init => AskedInv
  BY DEF Init, AskedInv, SessionInv, BranchInv, WrittenInv, AppliedAsAsked
<1>2. TypeOK /\ AskedInv /\ [Next]_vars => AskedInv'
  <2> SUFFICES ASSUME TypeOK, AskedInv, [Next]_vars PROVE AskedInv'
    OBVIOUS
  <2>0. faults' = faults
    BY FaultsStay
  <2> USE DEF AskedInv, SessionInv, BranchInv, WrittenInv, AppliedAsAsked
  <2>1. CASE Refresh \/ PressRefresh \/ Settle
    BY <2>0, <2>1 DEF Refresh, PressRefresh, Settle, Uncaught
  <2>2. CASE SaveAuto \/ SaveInterval \/ SaveLogin \/ SaveMonitor
    BY <2>0, <2>2 DEF SaveAuto, SaveInterval, SaveLogin, SaveMonitor, Save
  <2>3. CASE AskTimer \/ AskMonitor \/ Return
    BY <2>0, <2>3 DEF AskTimer, AskMonitor, Supported, Return, Uncaught
  <2>4. CASE StopTimer \/ DisableTimer \/ ReloadTimer
    BY <2>0, <2>4 DEF StopTimer, DisableTimer, ReloadTimer, Reloaded, Command, TypeOK, Systemd
  <2>5. CASE EnableTimer \/ UnlinkTimer \/ RestartTimer
    BY <2>0, <2>5 DEF EnableTimer, UnlinkTimer, RestartTimer, Command, TypeOK, Systemd
  <2>6. CASE StopMonitor \/ DisableMonitor \/ ReloadMonitor
    BY <2>0, <2>6 DEF StopMonitor, DisableMonitor, ReloadMonitor, Reloaded, Command, TypeOK, Systemd
  <2>7. CASE EnableMonitor \/ RestartMonitor
    BY <2>0, <2>7 DEF EnableMonitor, RestartMonitor, Command, TypeOK, Systemd
  <2>8. CASE WriteTimer \/ WriteMonitor
    BY <2>0, <2>8 DEF WriteTimer, WriteMonitor, Uncaught, TypeOK, Systemd
  <2>9. CASE Handlers
    BY <2>0, <2>9 DEF Handlers, Activate, PressRefresh, Controls, SaveSettings, SaveSettingsFails, TypeOK, Systemd
  <2>10. CASE Quit \/ Crash \/ Logout
    BY <2>0, <2>10 DEF Quit, Crash, Logout, NoWindow
  <2>11. CASE Login
    BY <2>0, <2>11 DEF Login, TypeOK, Systemd
  <2>12. CASE LoseUnit \/ TimerDies
    BY <2>0, <2>12 DEF LoseUnit, TimerDies, TypeOK, Systemd
  <2>13. CASE UNCHANGED vars
    BY <2>0, <2>13 DEF vars
  <2> QED
    BY <2>1, <2>2, <2>3, <2>4, <2>5, <2>6, <2>7, <2>8, <2>9, <2>10, <2>11, <2>12, <2>13
    DEF Next, Apply, ApplyMonitor, Environment
<1>3. AskedInv => AppliedAsAsked
  BY DEF AskedInv
<1> QED
  BY <1>1, <1>2, <1>3, TypeCorrect, PTL DEF Spec

-----------------------------------------------------------------------------
(* A handler that ran to its end has put the settings in force.            *)

AfterApply ==
  {"return", "settle", "idle", "save monitor", "ask monitor", "stop monitor",
   "disable monitor", "write monitor", "reload monitor", "enable monitor", "restart monitor"}

AfterLogin == {"ask", "stop", "disable", "write", "reload", "enable", "unlink", "restart"}

AfterInterval == AfterLogin \cup {"login"}

\* The settings agree with the call as far as it has come.
SavedInv ==
  /\ pc \in AfterInterval \cup {"interval"} => setting.auto = call.enabled
  /\ pc \in AfterInterval => setting.interval = call.interval
  /\ pc \in AfterLogin => setting.login = call.login

\* The branches of apply, and what each of their steps finds done.
StepInv ==
  /\ pc \in {"stop", "disable"} => ~call.enabled
  /\ pc = "disable" => sd.timer = None
  /\ pc \in {"write", "reload", "enable", "unlink", "restart"} => call.enabled
  /\ pc \in {"reload", "enable", "unlink", "restart"} => sd.unit = call.interval
  /\ pc \in {"enable", "unlink", "restart"} => sd.loaded = call.interval
  /\ pc = "enable" => call.login
  /\ pc = "unlink" => ~call.login
  /\ pc = "restart" => sd.linked = call.login

DoneInv ==
  pc \in AfterApply =>
    /\ sd.timer = IF setting.auto THEN setting.interval ELSE None
    /\ sd.linked = (setting.auto /\ setting.login)

Obeyed == faults \subseteq {"crash", "lost", "monitor"}

ForceInv == SessionInv /\ (Obeyed => SavedInv /\ StepInv /\ DoneInv)

LEMMA ForceHolds == Spec => []ForceInv
<1>1. Init => ForceInv
  BY DEF Init, ForceInv, Obeyed, SessionInv, SavedInv, StepInv, DoneInv, AfterApply, AfterLogin,
     AfterInterval
<1>2. TypeOK /\ ForceInv /\ [Next]_vars => ForceInv'
  <2> SUFFICES ASSUME TypeOK, ForceInv, [Next]_vars PROVE ForceInv'
    OBVIOUS
  <2>0. faults' = faults
    BY FaultsStay
  <2> USE DEF ForceInv, Obeyed, SessionInv, SavedInv, StepInv, DoneInv, AfterApply, AfterLogin,
              AfterInterval
  <2>1. CASE Refresh \/ PressRefresh \/ Settle
    BY <2>0, <2>1 DEF Refresh, PressRefresh, Settle, Uncaught
  <2>2. CASE SaveAuto \/ SaveInterval \/ SaveLogin \/ SaveMonitor
    BY <2>0, <2>2 DEF SaveAuto, SaveInterval, SaveLogin, SaveMonitor, Save, TypeOK, Setting
  <2>3. CASE AskTimer \/ AskMonitor \/ Return
    BY <2>0, <2>3 DEF AskTimer, AskMonitor, Supported, Return, Uncaught
  <2>4. CASE StopTimer \/ DisableTimer \/ ReloadTimer
    BY <2>0, <2>4 DEF StopTimer, DisableTimer, ReloadTimer, Reloaded, Command, TypeOK, Systemd
  <2>5. CASE EnableTimer \/ UnlinkTimer \/ RestartTimer
    BY <2>0, <2>5, SchedulerAssumption DEF EnableTimer, UnlinkTimer, RestartTimer, Command,
       TypeOK, Systemd, Call
  <2>6. CASE StopMonitor \/ DisableMonitor \/ ReloadMonitor
    BY <2>0, <2>6 DEF StopMonitor, DisableMonitor, ReloadMonitor, Reloaded, Command, TypeOK, Systemd
  <2>7. CASE EnableMonitor \/ RestartMonitor
    BY <2>0, <2>7 DEF EnableMonitor, RestartMonitor, Command, TypeOK, Systemd
  <2>8. CASE WriteTimer \/ WriteMonitor
    BY <2>0, <2>8 DEF WriteTimer, WriteMonitor, Uncaught, TypeOK, Systemd
  <2>9. CASE Handlers
    BY <2>0, <2>9 DEF Handlers, Activate, PressRefresh, Controls, SaveSettings, SaveSettingsFails, TypeOK, Systemd
  <2>10. CASE Quit \/ Crash \/ Logout
    BY <2>0, <2>10 DEF Quit, Crash, Logout, NoWindow
  <2>11. CASE Login
    BY <2>0, <2>11 DEF Login, TypeOK, Systemd
  <2>12. CASE LoseUnit \/ TimerDies
    BY <2>0, <2>12 DEF LoseUnit, TimerDies, Between, TypeOK, Systemd
  <2>13. CASE UNCHANGED vars
    BY <2>0, <2>13 DEF vars
  <2> QED
    BY <2>1, <2>2, <2>3, <2>4, <2>5, <2>6, <2>7, <2>8, <2>9, <2>10, <2>11, <2>12, <2>13
    DEF Next, Apply, ApplyMonitor, Environment
<1> QED
  BY <1>1, <1>2, TypeCorrect, PTL DEF Spec

\* When systemd and the disk obey, a call that a crash, a logout or the loss of
\* the unit file spoilt is made good by the next one that ends.
THEOREM SettingsInForce == Spec => []InForce
<1>1. ForceInv => InForce
  BY DEF ForceInv, Obeyed, DoneInv, AfterApply, InForce
<1> QED
  BY <1>1, ForceHolds, PTL

-----------------------------------------------------------------------------
(* When nothing of the timer's fails, logging in restores what was in      *)
(* force.                                                                  *)

Quiet == faults \subseteq {"monitor"}

\* Between calls, and in the part of one that follows apply, the unit file and
\* its link say what a login is to start.
RestInv ==
  pc \in AfterApply \cup {"closed"} =>
    /\ setting.auto => sd.unit = setting.interval
    /\ sd.linked = (setting.auto /\ setting.login)
    /\ sd.session /\ setting.auto /\ setting.login => sd.timer = setting.interval

QuietInv == Quiet => RestInv

LEMMA RestHolds == Spec => []QuietInv
<1>1. Init => QuietInv
  <2> SUFFICES ASSUME Init PROVE QuietInv
    OBVIOUS
  <2>1. pc = "closed" /\ ~setting.auto /\ sd.linked = FALSE
    BY DEF Init
  <2> QED
    BY <2>1 DEF QuietInv, RestInv
<1>2. TypeOK /\ ForceInv /\ QuietInv /\ [Next]_vars => QuietInv'
  <2> SUFFICES ASSUME TypeOK, ForceInv, QuietInv, [Next]_vars, Quiet PROVE QuietInv'
    BY FaultsStay DEF QuietInv, Quiet
  <2>0. faults \subseteq {"monitor"} /\ faults' = faults /\ SessionInv /\ SavedInv /\ StepInv /\ DoneInv
    BY FaultsStay DEF Quiet, ForceInv, Obeyed
  <2> USE <2>0 DEF QuietInv, Quiet, RestInv, AfterApply
  <2>1. CASE Refresh \/ PressRefresh \/ Settle
    BY <2>1 DEF Refresh, PressRefresh, Settle, Uncaught
  <2>2. CASE SaveAuto \/ SaveInterval \/ SaveLogin \/ SaveMonitor
    BY <2>2 DEF SaveAuto, SaveInterval, SaveLogin, SaveMonitor, Save, TypeOK, Setting
  <2>3. CASE AskTimer \/ AskMonitor \/ Return
    BY <2>3 DEF AskTimer, AskMonitor, Supported, Return, Uncaught, DoneInv, StepInv
  <2>4. CASE StopTimer \/ DisableTimer \/ ReloadTimer
    BY <2>4 DEF StopTimer, DisableTimer, ReloadTimer, Reloaded, Command, TypeOK, Systemd,
       StepInv, SavedInv, AfterInterval, AfterLogin
  <2>5. CASE EnableTimer \/ UnlinkTimer \/ RestartTimer
    BY <2>5, SchedulerAssumption DEF EnableTimer, UnlinkTimer, RestartTimer, Command,
       TypeOK, Systemd, Call, StepInv, SavedInv, AfterInterval, AfterLogin
  <2>6. CASE StopMonitor \/ DisableMonitor \/ ReloadMonitor
    BY <2>6 DEF StopMonitor, DisableMonitor, ReloadMonitor, Reloaded, Command, TypeOK, Systemd,
       Setting
  <2>7. CASE EnableMonitor \/ RestartMonitor
    BY <2>7 DEF EnableMonitor, RestartMonitor, Command, TypeOK, Systemd, Setting
  <2>8. CASE WriteTimer \/ WriteMonitor
    BY <2>8 DEF WriteTimer, WriteMonitor, Uncaught, TypeOK, Systemd
  <2>9. CASE Handlers
    BY <2>9 DEF Handlers, Activate, PressRefresh, Stored, Controls, SaveSettings, SaveSettingsFails,
       TypeOK, Systemd
  <2>10. CASE Quit \/ Crash \/ Logout
    BY <2>10 DEF Quit, Crash, Logout, Between, TypeOK, Systemd
  <2>11. CASE Login
    BY <2>11 DEF Login, SessionInv, TypeOK, Systemd
  <2>12. CASE LoseUnit \/ TimerDies
    BY <2>12 DEF LoseUnit, TimerDies
  <2>13. CASE UNCHANGED vars
    BY <2>13 DEF vars
  <2> QED
    BY <2>1, <2>2, <2>3, <2>4, <2>5, <2>6, <2>7, <2>8, <2>9, <2>10, <2>11, <2>12, <2>13
    DEF Next, Apply, ApplyMonitor, Environment
<1> QED
  BY <1>1, <1>2, TypeCorrect, ForceHolds, PTL DEF Spec

\* Automatic testing set to start at login comes back with the session, before
\* any window opens, whatever becomes of the monitor.
THEOREM ResumptionAtLogin == Spec => []ResumesAtLogin
<1>1. QuietInv => ResumesAtLogin
  BY DEF QuietInv, Quiet, RestInv, AfterApply, ResumesAtLogin, Between
<1> QED
  BY <1>1, RestHolds, PTL

-----------------------------------------------------------------------------
(* When nothing fails, the monitor follows its setting.                    *)

Clean == faults = {}

\* Only the settings handler touches the monitor; while it does not, the
\* monitor and what a login is to make of it are as the setting says.
MonitorInv ==
  call.caller # "settings" \/ pc \in {"closed", "idle", "settle"} =>
    /\ setting.monitor => sd.monUnit
    /\ sd.monLinked = setting.monitor
    /\ sd.session => sd.monActive = setting.monitor

\* The branches of apply_monitor, and what each of their steps finds done.
MonitorStepInv ==
  /\ pc \in {"save monitor", "ask monitor", "stop monitor", "disable monitor", "write monitor",
             "reload monitor", "enable monitor", "restart monitor"} => call.caller = "settings"
  /\ pc \in {"stop monitor", "disable monitor"} => ~setting.monitor
  /\ pc = "disable monitor" => ~sd.monActive
  /\ pc \in {"write monitor", "reload monitor", "enable monitor", "restart monitor"} =>
       setting.monitor
  /\ pc \in {"reload monitor", "enable monitor", "restart monitor"} => sd.monUnit
  /\ pc \in {"enable monitor", "restart monitor"} => sd.monLoaded
  /\ pc = "restart monitor" => sd.monLinked

CleanInv == Clean => MonitorInv /\ MonitorStepInv

LEMMA CleanHolds == Spec => []CleanInv
<1>1. Init => CleanInv
  <2> SUFFICES ASSUME Init PROVE CleanInv
    OBVIOUS
  <2>1. pc = "closed" /\ sd.monLinked = FALSE /\ sd.monActive = FALSE /\ setting.monitor = FALSE
    BY DEF Init
  <2> QED
    BY <2>1 DEF CleanInv, MonitorInv, MonitorStepInv
<1>2. TypeOK /\ ForceInv /\ CleanInv /\ [Next]_vars => CleanInv'
  <2> SUFFICES ASSUME TypeOK, ForceInv, CleanInv, [Next]_vars, Clean PROVE CleanInv'
    BY FaultsStay DEF CleanInv, Clean
  <2>0. faults = {} /\ faults' = {} /\ SessionInv /\ SavedInv /\ StepInv /\ DoneInv
    BY FaultsStay DEF Clean, ForceInv, Obeyed
  <2> USE <2>0 DEF CleanInv, Clean, MonitorInv, MonitorStepInv, AfterApply
  <2>1. CASE Refresh \/ PressRefresh \/ Settle
    BY <2>1 DEF Refresh, PressRefresh, Settle, Uncaught
  <2>2. CASE SaveAuto \/ SaveInterval \/ SaveLogin \/ SaveMonitor
    BY <2>2 DEF SaveAuto, SaveInterval, SaveLogin, SaveMonitor, Save, TypeOK, Setting
  <2>3. CASE AskTimer \/ AskMonitor \/ Return
    BY <2>3 DEF AskTimer, AskMonitor, Supported, Return, Uncaught, DoneInv, StepInv
  <2>4. CASE StopTimer \/ DisableTimer \/ ReloadTimer
    BY <2>4 DEF StopTimer, DisableTimer, ReloadTimer, Reloaded, Command, TypeOK, Systemd,
       StepInv, SavedInv, AfterInterval, AfterLogin
  <2>5. CASE EnableTimer \/ UnlinkTimer \/ RestartTimer
    BY <2>5, SchedulerAssumption DEF EnableTimer, UnlinkTimer, RestartTimer, Command,
       TypeOK, Systemd, Call, StepInv, SavedInv, AfterInterval, AfterLogin
  <2>6. CASE StopMonitor \/ DisableMonitor \/ ReloadMonitor
    BY <2>6 DEF StopMonitor, DisableMonitor, ReloadMonitor, Reloaded, Command, TypeOK, Systemd,
       Setting
  <2>7. CASE EnableMonitor \/ RestartMonitor
    BY <2>7 DEF EnableMonitor, RestartMonitor, Command, TypeOK, Systemd, Setting
  <2>8. CASE WriteTimer \/ WriteMonitor
    BY <2>8 DEF WriteTimer, WriteMonitor, Uncaught, TypeOK, Systemd
  <2>9. CASE Handlers
    BY <2>9 DEF Handlers, Activate, PressRefresh, Stored, Controls, SaveSettings, SaveSettingsFails,
       TypeOK, Systemd
  <2>10. CASE Quit \/ Crash \/ Logout
    BY <2>10 DEF Quit, Crash, Logout, Between, TypeOK, Systemd
  <2>11. CASE Login
    BY <2>11 DEF Login, SessionInv, TypeOK, Systemd
  <2>12. CASE LoseUnit \/ TimerDies
    BY <2>12 DEF LoseUnit, TimerDies
  <2>13. CASE UNCHANGED vars
    BY <2>13 DEF vars
  <2> QED
    BY <2>1, <2>2, <2>3, <2>4, <2>5, <2>6, <2>7, <2>8, <2>9, <2>10, <2>11, <2>12, <2>13
    DEF Next, Apply, ApplyMonitor, Environment
<1> QED
  BY <1>1, <1>2, TypeCorrect, ForceHolds, PTL DEF Spec

\* The monitor runs exactly when its setting says so, whichever handlers ran.
THEOREM MonitorFollowsSetting == Spec => []MonitorInForce
<1>1. ForceInv /\ CleanInv => MonitorInForce
  BY DEF ForceInv, SessionInv, CleanInv, Clean, MonitorInv, MonitorInForce
<1> QED
  BY <1>1, ForceHolds, CleanHolds, PTL
=============================================================================
