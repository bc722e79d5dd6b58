------------------------------ MODULE Scheduler ------------------------------
(***************************************************************************)
(* core/scheduler.py as the window drives it: what the user asked for (the *)
(* settings), the unit files, what systemd has loaded of them and what it  *)
(* is running, and what the window shows.  apply() is a sequence of        *)
(* database writes and systemctl calls, any of which may fail, and the     *)
(* session may end or the window die between two of them.                  *)
(***************************************************************************)
EXTENDS Naturals

CONSTANTS Interval, \* the intervals validate_interval accepts
          None,     \* no unit file, no unit, no timer
          Scenario  \* sets of things that may go wrong in one behaviour

AllFaults == {"timer",    \* a systemctl command for the timer
              "monitor",  \* a systemctl command for the monitor
              "query",    \* a question put to systemctl
              "database", \* a settings write
              "disk",     \* the writing of a unit file
              "unreadable", \* a read of the database, or of the run lock, for the window
              "engine",   \* no speed-test engine is installed whenever one is looked for
              "lost",     \* the timer's unit file, while no handler runs
              "removed",  \* the same, at any moment
              "dies",     \* the timer, inside systemd
              "crash"}    \* the window, wherever it is

ASSUME SchedulerAssumption ==
  /\ Interval # {} /\ None \notin Interval
  /\ Scenario \subseteq SUBSET AllFaults

Maybe == Interval \cup {None}

VARIABLES
  faults,  \* what may go wrong in this behaviour, once and for all
  pc,      \* where the main loop is, "closed" without a window
  call,    \* the arguments of apply, and which handler called it
  setting, \* the settings table
  sd,      \* the unit files, and systemd
  shown    \* the switch, the banner, and whether the ten-second timer still runs

vars == <<faults, pc, call, setting, sd, shown>>

Caller  == {"startup", "controls", "settings"}
Call    == [enabled : BOOLEAN, interval : Interval, login : BOOLEAN, caller : Caller]
Setting == [auto : BOOLEAN, interval : Interval, login : BOOLEAN, monitor : BOOLEAN]
Systemd == [session : BOOLEAN,    \* the user manager runs: someone is logged in
            unit    : Maybe,      \* the interval in the timer's unit file
            loaded  : Maybe,      \* the interval in the unit as last loaded
            timer   : Maybe,      \* the interval the timer counts down, if active
            linked  : BOOLEAN,    \* the timer is enabled at login
            \* The same of the monitor, whose unit has no parameter.
            monUnit : BOOLEAN, monLoaded : BOOLEAN, monLinked : BOOLEAN, monActive : BOOLEAN]
Shown   == [switch : BOOLEAN, banner : {"none", "engine", "error"}, ticking : BOOLEAN]

NoWindow == [switch |-> FALSE, banner |-> "none", ticking |-> FALSE]

Init ==
  /\ faults \in Scenario
  /\ pc = "closed"
  /\ \E i \in Interval :
       /\ setting = [auto |-> FALSE, interval |-> i, login |-> TRUE, monitor |-> FALSE]
       /\ call = [enabled |-> FALSE, interval |-> i, login |-> TRUE, caller |-> "startup"]
  /\ sd = [session |-> TRUE, unit |-> None, loaded |-> None, timer |-> None, linked |-> FALSE,
           monUnit |-> FALSE, monLoaded |-> FALSE, monLinked |-> FALSE, monActive |-> FALSE]
  /\ shown = NoWindow

-----------------------------------------------------------------------------
(* Status.                                                                 *)

\* status() asks systemd, and takes the timer to be inactive when it has no
\* answer: no command of it is checked, so that it raises no SchedulerError.
Inactive == {sd.timer = None} \cup (IF "query" \in faults THEN {TRUE} ELSE {})

\* The banner that says no engine is installed comes before the scheduler's.
Seen(ticking) ==
  {[switch |-> setting.auto, banner |-> banner, ticking |-> ticking] :
     banner \in {IF setting.auto /\ inactive THEN "error" ELSE "none" : inactive \in Inactive}
                \cup (IF "engine" \in faults THEN {"engine"} ELSE {})}

\* A read that fails raises before anything is shown (the settings, the records)
\* or once the switch is corrected (the run lock, the newest record).
HalfSeen(ticking) ==
  IF "unreadable" \in faults
    THEN {[shown EXCEPT !.switch = switch, !.ticking = ticking] : switch \in {shown.switch, setting.auto}}
    ELSE {}

\* Mutant: the periodic refresh keeps the banner it has.
RefreshSwitchOnly ==
  /\ pc = "idle" /\ shown.ticking
  /\ shown' = [shown EXCEPT !.switch = setting.auto]
  /\ UNCHANGED <<faults, pc, call, setting, sd>>

\* The ten-second timer.  GLib drops a timer whose callback raises.
Refresh ==
  /\ pc = "idle" /\ shown.ticking
  /\ shown' \in Seen(TRUE) \cup HalfSeen(FALSE)
  /\ UNCHANGED <<faults, pc, call, setting, sd>>

\* The button, the order, and what else calls refresh_all.
PressRefresh ==
  /\ pc = "idle"
  /\ shown' \in Seen(shown.ticking) \cup HalfSeen(shown.ticking)
  /\ UNCHANGED <<faults, pc, call, setting, sd>>

-----------------------------------------------------------------------------
(* The handlers that call apply.                                           *)

Stored(caller) ==
  [enabled |-> setting.auto, interval |-> setting.interval, login |-> setting.login,
   caller |-> caller]

\* Mutant: the stored schedule is not asserted again at start-up.
ActivateOnly ==
  /\ pc = "closed" /\ sd.session
  /\ pc' = "idle"
  /\ call' = Stored("startup")
  /\ shown' \in Seen(TRUE)
  /\ UNCHANGED <<faults, setting, sd>>

\* do_activate: the stored schedule is asserted again before the window opens.
Activate ==
  /\ pc = "closed" /\ sd.session
  /\ pc' = "auto"
  /\ call' = Stored("startup")
  /\ UNCHANGED <<faults, setting, sd, shown>>

\* The switch, or the Apply button beside the interval (which takes the
\* switch as it stands).  The login setting is read on the way to apply.
Controls(on, i) ==
  /\ pc = "idle"
  /\ pc' \in {"auto"} \cup (IF "unreadable" \in faults THEN {"idle"} ELSE {})
  /\ shown' = [shown EXCEPT !.switch = on]
  /\ call' = [enabled |-> on, interval |-> i, login |-> setting.login, caller |-> "controls"]
  /\ UNCHANGED <<faults, setting, sd>>

\* The settings dialog stores what it holds before the window reads and applies it.
SaveSettings(login, monitor) ==
  /\ pc = "idle"
  /\ pc' \in {"auto"} \cup (IF "unreadable" \in faults THEN {"idle"} ELSE {})
  /\ setting' = [setting EXCEPT !.login = login, !.monitor = monitor]
  /\ call' = [Stored("settings") EXCEPT !.login = login]
  /\ UNCHANGED <<faults, sd, shown>>

\* A write fails between the monitor's setting and the login setting: the
\* exception leaves the dialog, which stays open and applies nothing.
SaveSettingsFails(monitor) ==
  /\ "database" \in faults
  /\ pc = "idle"
  /\ setting' = [setting EXCEPT !.monitor = monitor]
  /\ UNCHANGED <<faults, pc, call, sd, shown>>

-----------------------------------------------------------------------------
(* apply.                                                                  *)

Save(at, new, next) ==
  /\ pc = at
  /\ \/ setting' = new /\ pc' = next
     \/ "database" \in faults /\ setting' = setting /\ pc' = "settle"
  /\ UNCHANGED <<faults, call, sd, shown>>

SaveAuto     == Save("auto", [setting EXCEPT !.auto = call.enabled], "interval")
SaveInterval == Save("interval", [setting EXCEPT !.interval = call.interval], "login")
SaveLogin    == Save("login", [setting EXCEPT !.login = call.login], "ask")

\* is_supported: the user manager has to answer.
Supported(at, yes, no) ==
  /\ pc = at
  /\ pc' \in {yes} \cup (IF "query" \in faults THEN {no} ELSE {})
  /\ UNCHANGED <<faults, call, setting, sd, shown>>

AskTimer == Supported("ask", IF call.enabled THEN "write" ELSE "stop", "return")

\* One systemctl command.  It fails when it cannot be done, and it may fail
\* or time out (after it took effect, or without) for a reason of its own.
Command(at, fault, can, after, worked, failed) ==
  /\ pc = at
  /\ \/ can /\ sd' = after /\ pc' = worked
     \/ /\ ~can \/ fault \in faults
        /\ sd' \in {sd} \cup {s \in {after} : can}
        /\ pc' = failed
  /\ UNCHANGED <<faults, call, setting, shown>>

\* check=False: whether it worked is not looked at.
StopTimer ==
  Command("stop", "timer", TRUE, [sd EXCEPT !.timer = None], "disable", "disable")

DisableTimer ==
  Command("disable", "timer", TRUE, [sd EXCEPT !.linked = FALSE], "return", "return")

\* Neither OSError nor the sqlite3.Error of a read is a SchedulerError or a
\* DatabaseError: it leaves the handler.  At start-up there is then no window, and
\* the application ends.
Uncaught ==
  /\ pc' = IF call.caller = "startup" THEN "closed" ELSE "idle"
  /\ UNCHANGED <<faults, call, setting, shown>>

\* The service's file, whose text is always the same, is written before the
\* timer's.  A write that fails leaves the timer's file as it was, or cut short.
WriteTimer ==
  /\ pc = "write"
  /\ \/ /\ sd' = [sd EXCEPT !.unit = call.interval]
        /\ pc' = "reload"
        /\ UNCHANGED <<faults, call, setting, shown>>
     \/ /\ "disk" \in faults
        /\ sd' \in {sd, [sd EXCEPT !.unit = None]}
        /\ Uncaught

Reloaded == [sd EXCEPT !.loaded = sd.unit, !.monLoaded = sd.monUnit]

ReloadTimer ==
  Command("reload", "timer", TRUE, Reloaded,
          IF call.login THEN "enable" ELSE "unlink", "settle")

EnableTimer ==
  Command("enable", "timer", sd.unit # None, [sd EXCEPT !.linked = TRUE], "restart", "settle")

UnlinkTimer ==
  Command("unlink", "timer", TRUE, [sd EXCEPT !.linked = FALSE], "restart", "restart")

\* Mutant: start, which leaves a timer that runs as it is.
StartTimer ==
  Command("restart", "timer", sd.loaded # None,
          [sd EXCEPT !.timer = IF @ = None THEN sd.loaded ELSE @], "return", "settle")

RestartTimer ==
  Command("restart", "timer", sd.loaded # None, [sd EXCEPT !.timer = sd.loaded],
          "return", "settle")

\* apply ends in status(); the settings handler goes on to the monitor.
Return ==
  /\ pc = "return"
  /\ sd' = sd
  /\ \/ /\ pc' = IF call.caller = "settings" THEN "save monitor" ELSE "settle"
        /\ UNCHANGED <<faults, call, setting, shown>>
     \/ "unreadable" \in faults /\ Uncaught

\* A handler that caught its exceptions ends in a refresh, and so does the window's
\* construction, which then sets its timer.
Settle ==
  LET ticking == shown.ticking \/ call.caller = "startup" IN
  /\ pc = "settle"
  /\ \/ pc' = "idle" /\ shown' \in Seen(ticking)
     \/ pc' = "idle" /\ call.caller # "startup" /\ shown' \in HalfSeen(ticking)
     \/ "unreadable" \in faults /\ Uncaught
  /\ UNCHANGED <<faults, call, setting, sd>>

-----------------------------------------------------------------------------
(* apply_monitor.                                                          *)

\* The dialog has stored it already.
SaveMonitor == Save("save monitor", setting, "ask monitor")

AskMonitor == Supported("ask monitor", IF setting.monitor THEN "write monitor"
                                                          ELSE "stop monitor", "settle")

StopMonitor ==
  Command("stop monitor", "monitor", TRUE, [sd EXCEPT !.monActive = FALSE],
          "disable monitor", "disable monitor")

DisableMonitor ==
  Command("disable monitor", "monitor", TRUE, [sd EXCEPT !.monLinked = FALSE],
          "settle", "settle")

WriteMonitor ==
  /\ pc = "write monitor"
  /\ \/ /\ sd' = [sd EXCEPT !.monUnit = TRUE]
        /\ pc' = "reload monitor"
        /\ UNCHANGED <<faults, call, setting, shown>>
     \/ /\ "disk" \in faults
        /\ sd' \in {sd, [sd EXCEPT !.monUnit = FALSE]}
        /\ Uncaught

ReloadMonitor ==
  Command("reload monitor", "monitor", TRUE, Reloaded, "enable monitor", "settle")

\* Mutant: the monitor is started but not enabled.
EnableMonitorNot ==
  Command("enable monitor", "monitor", TRUE, sd, "restart monitor", "restart monitor")

EnableMonitor ==
  Command("enable monitor", "monitor", TRUE, [sd EXCEPT !.monLinked = TRUE],
          "restart monitor", "restart monitor")

RestartMonitor ==
  Command("restart monitor", "monitor", sd.monLoaded, [sd EXCEPT !.monActive = TRUE],
          "settle", "settle")

-----------------------------------------------------------------------------
(* What the code does not do itself.                                       *)

Between == pc \in {"idle", "closed"}

\* Mutant: the timer is stopped with the window.
QuitStopsTimer ==
  /\ pc = "idle"
  /\ pc' = "closed" /\ shown' = NoWindow
  /\ sd' = [sd EXCEPT !.timer = None]
  /\ UNCHANGED <<faults, call, setting>>

\* Closing the window leaves the timer alone.
Quit ==
  /\ pc = "idle"
  /\ pc' = "closed" /\ shown' = NoWindow
  /\ UNCHANGED <<faults, call, setting, sd>>

Crash ==
  /\ "crash" \in faults
  /\ ~Between
  /\ pc' = "closed" /\ shown' = NoWindow
  /\ UNCHANGED <<faults, call, setting, sd>>

Logout ==
  /\ sd.session
  /\ Between \/ "crash" \in faults
  /\ pc' = "closed" /\ shown' = NoWindow
  /\ sd' = [sd EXCEPT !.session = FALSE, !.loaded = None, !.timer = None,
                      !.monLoaded = FALSE, !.monActive = FALSE]
  /\ UNCHANGED <<faults, call, setting>>

\* The manager reads the unit files and starts what is enabled.
Login ==
  /\ ~sd.session
  /\ sd' = [sd EXCEPT !.session = TRUE, !.loaded = sd.unit, !.monLoaded = sd.monUnit,
                      !.timer = IF sd.linked THEN sd.unit ELSE None,
                      !.monActive = sd.monLinked /\ sd.monUnit]
  /\ UNCHANGED <<faults, pc, call, setting, shown>>

LoseUnit ==
  /\ ("lost" \in faults /\ Between) \/ "removed" \in faults
  /\ sd.unit # None
  /\ sd' = [sd EXCEPT !.unit = None]
  /\ UNCHANGED <<faults, pc, call, setting, shown>>

TimerDies ==
  /\ "dies" \in faults
  /\ sd.timer # None
  /\ sd' = [sd EXCEPT !.timer = None]
  /\ UNCHANGED <<faults, pc, call, setting, shown>>

-----------------------------------------------------------------------------

Apply ==
  \/ SaveAuto \/ SaveInterval \/ SaveLogin \/ AskTimer \/ StopTimer \/ DisableTimer
  \/ WriteTimer \/ ReloadTimer \/ EnableTimer \/ UnlinkTimer \/ RestartTimer
  \/ Return \/ Settle

ApplyMonitor ==
  \/ SaveMonitor \/ AskMonitor \/ StopMonitor \/ DisableMonitor \/ WriteMonitor \/ ReloadMonitor
  \/ EnableMonitor \/ RestartMonitor

Handlers ==
  \/ Activate \/ PressRefresh
  \/ \E on \in BOOLEAN, i \in Interval : Controls(on, i)
  \/ \E login, monitor \in BOOLEAN : SaveSettings(login, monitor)
  \/ \E monitor \in BOOLEAN : SaveSettingsFails(monitor)

Environment == Quit \/ Crash \/ Logout \/ Login \/ LoseUnit \/ TimerDies

Next == Refresh \/ Apply \/ ApplyMonitor \/ Handlers \/ Environment

Spec == Init /\ [][Next]_vars

\* A handler runs to its end (systemctl has a timeout of 20 s), and the main
\* loop, whatever the user clicks between, gets to the ten-second timer as long as
\* that is there: a timeout that is due stays due and has the priority of an input
\* event.  Nobody has to press the button.
FairSpec == Spec /\ WF_vars(Apply \/ ApplyMonitor) /\ SF_vars(Refresh)

-----------------------------------------------------------------------------

Place ==
  {"closed", "idle", "auto", "interval", "login", "ask", "stop", "disable", "write", "reload",
   "enable", "unlink", "restart", "return", "settle", "save monitor", "ask monitor", "stop monitor",
   "disable monitor", "write monitor", "reload monitor", "enable monitor", "restart monitor"}

\* Every variable keeps to its values.
TypeOK ==
  /\ faults \in Scenario
  /\ pc \in Place
  /\ call \in Call /\ setting \in Setting /\ sd \in Systemd /\ shown \in Shown

\* Whatever interrupted earlier calls (a dead window, a logout, a lost unit
\* file), and however the commands for the monitor fail, once a handler has run
\* to its end the timer is what the settings say.
InForce ==
  faults \subseteq {"crash", "lost", "monitor"} /\ pc = "idle" =>
    /\ sd.timer = IF setting.auto THEN setting.interval ELSE None
    /\ sd.linked = (setting.auto /\ setting.login)

\* An apply that returns left the timer asked for or none, however its writes
\* and commands failed, as long as systemctl answers questions.
AppliedAsAsked ==
  "query" \notin faults /\ pc = "return" /\ call.enabled =>
    sd.timer \in {call.interval, None}

\* Automatic testing set to start at login comes back with the session, with
\* no window open, whatever becomes of the monitor.
ResumesAtLogin ==
  faults \subseteq {"monitor"} /\ Between /\ sd.session /\ setting.auto /\ setting.login =>
    sd.timer = setting.interval

\* With nothing failing the monitor runs when, and only when, its setting says so.
MonitorInForce == faults = {} /\ pc = "idle" => sd.monActive = setting.monitor

\* A timer that died, or could not be started, comes to show as an error, or
\* behind the banner that says no engine is installed, as long as the ten-second
\* timer has not fallen to a refresh that raised.
ErrorComesToLight ==
  (pc = "idle" /\ setting.auto /\ sd.timer = None)
    ~> \/ shown.banner \in {"error", "engine"}
       \/ sd.timer # None \/ ~setting.auto \/ pc = "closed" \/ ~shown.ticking
=============================================================================
