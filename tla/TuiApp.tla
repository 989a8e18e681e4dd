--------------------------------- MODULE TuiApp -------------------------------
(***************************************************************************)
(* The terminal user interface: handle_key (main.rs), the Setup tab        *)
(* (tabs/setup.rs) and App (app.rs), one action per key that does          *)
(* something, and App::tick.  The event loop is one thread, so a handler   *)
(* runs to its end before the next key; what it asks of the service and of *)
(* the library happens within its step.                                    *)
(*                                                                         *)
(* daemon is what daemon_pid() finds: the daemon the PID file leads to, if *)
(* there is one.  How that file comes to be right or wrong is the subject  *)
(* of Service, what a setup does to the machine that of Grub and Host.     *)
(* The items of the Setup form are the constant Form, one item of each     *)
(* kind; scroll offsets and the text typed are left out.                   *)
(*                                                                         *)
(* The variable world names what may happen in a behaviour:                *)
(*   "user"   the TUI does not run as root                                 *)
(*   "fail"   a monitor, a log or a daemon cannot be started               *)
(*   "crash"  a daemon dies, and systemd restarts the one of the unit      *)
(*   "cli"    somebody runs 'ubenchmon service ...' in a shell             *)
(***************************************************************************)
EXTENDS Integers, Sequences, FiniteSets

CONSTANTS
  Form,      \* the kinds of the items of the Setup form
  MaxSnaps,  \* bound on the snapshots listed: two for each Apply
  Worlds     \* the worlds explored

Kinds == {"edit", "toggle", "separator", "apply", "teardown", "refresh"}
Items == 1..Len(Form)

ASSUME TuiAssumption ==
  /\ Form \in Seq(Kinds) /\ Len(Form) > 1
  /\ Form[1] # "separator" /\ Form[Len(Form)] # "separator"
  /\ \A i \in Items : Form[i] = "separator" => Form[i + 1] # "separator"
  /\ MaxSnaps \in Nat
  /\ Worlds \subseteq SUBSET {"user", "fail", "crash", "cli"}

VARIABLES
  world,     \* what may happen, see above
  daemon,    \* the mode of the daemon that daemon_pid() finds, or "none"
  unit,      \* the systemd unit is installed
  snaps,     \* config snapshots in /var/lib/ubenchmon/snapshots
  quit,      \* should_quit
  tab,       \* active_tab
  modals,    \* the modals that are open
  refresh,   \* reboot_modal_refresh_on_dismiss
  item,      \* setup_selected_item
  editing,   \* setup_editing
  focused,   \* terminal_focused
  listed,    \* the length of teardown_snapshots
  pick,      \* teardown_picker_idx, counted from 1
  piggy,     \* piggyback_mode and service_active
  monitor,   \* the TUI has a monitor of its own
  logger,    \* its metric log: "none", "open", or "orphaned": open, but removed
  shown,     \* where latest_snapshot is from
  doubled,   \* history: a snapshot was recorded while a daemon the TUI knew of logged
  behind,    \* history: a daemon appeared, and nothing refreshed since
  dropped    \* history: a service was disabled, and nothing refreshed since

env == <<world, daemon, unit, snaps>>
form == <<item, editing>>
picker == <<listed, pick>>
known == <<piggy, monitor, shown, dropped>>
source == <<known, behind>>
vars == <<env, quit, tab, modals, refresh, form, focused, picker, source, logger,
          doubled>>

Tabs == <<"dashboard", "setup", "monitor", "logs", "terminal">>
Sources == {"none", "own", "daemon"}

TypeOK ==
  /\ world \in Worlds
  /\ daemon \in {"none", "transient", "persistent"}
  /\ unit \in BOOLEAN
  /\ snaps \in 0..MaxSnaps
  /\ quit \in BOOLEAN
  /\ tab \in {"dashboard", "setup", "monitor", "logs", "terminal"}
  /\ modals \subseteq {"root", "reboot", "warn", "picker"}
  /\ refresh \in BOOLEAN
  /\ item \in Items
  /\ editing \in BOOLEAN
  /\ focused \in BOOLEAN
  /\ listed \in 0..MaxSnaps
  /\ pick \in 1..MaxSnaps + 1
  /\ piggy \in BOOLEAN /\ monitor \in BOOLEAN
  /\ logger \in {"none", "open", "orphaned"}
  /\ shown \in Sources
  /\ doubled \in BOOLEAN /\ behind \in BOOLEAN
  /\ dropped \in BOOLEAN

Root == "user" \notin world

\* Opening a monitor or a log may fail, for a user or in a world where it does.
Opens == IF "fail" \in world \/ ~Root THEN BOOLEAN ELSE {TRUE}

\* refresh_verify, when daemon_pid() finds d.
RefreshVerify(d) ==
  /\ shown' = "none"
  /\ piggy' = (d # "none")
  /\ monitor' \in IF d # "none" THEN {FALSE} ELSE Opens
  /\ dropped' = FALSE /\ behind' = FALSE

\* start_logging; a log that is open stays.
StartLogging ==
  IF logger # "none"
    THEN UNCHANGED logger
    ELSE \E ok \in Opens : logger' = IF ok THEN "open" ELSE "none"

\* App::new, in whatever state the service is.
Init ==
  /\ world \in Worlds
  /\ daemon \in {"none", "transient", "persistent"}
  /\ unit \in BOOLEAN /\ (daemon = "persistent" => unit)
  /\ snaps \in 0..MaxSnaps
  /\ quit = FALSE /\ tab = "dashboard"
  /\ modals = IF Root THEN {} ELSE {"root"}
  /\ refresh = FALSE
  /\ item = 1 /\ editing = FALSE /\ focused = FALSE
  /\ listed = 0 /\ pick = 1
  /\ piggy = (daemon # "none")
  /\ monitor \in IF piggy THEN {FALSE} ELSE Opens
  /\ logger \in IF piggy THEN {"none"}
                ELSE {IF ok THEN "open" ELSE "none" : ok \in Opens}
  /\ shown = "none"
  /\ doubled = FALSE /\ behind = FALSE /\ dropped = FALSE

-------------------------------------------------------------------------------
\* Keys outside the modals

\* No modal and no edit field takes the key.
Free == ~quit /\ modals = {} /\ ~editing

UnchangedButTab == UNCHANGED <<env, quit, modals, refresh, form, focused, picker,
                               source, logger, doubled>>

\* Tab and Shift-Tab work everywhere, the function keys only on two tabs.
TurnTab ==
  /\ Free
  /\ \E i \in 1..5 : /\ tab = Tabs[i]
                     /\ tab' \in {Tabs[(i % 5) + 1], Tabs[((i + 3) % 5) + 1]}
  /\ UnchangedButTab

JumpTabAnytime ==  \* mutant: the function keys come before the modals
  /\ ~quit
  /\ tab \in {"dashboard", "setup"}
  /\ \E i \in 1..5 : tab' = Tabs[i]
  /\ UnchangedButTab
JumpTab ==
  /\ Free
  /\ tab \in {"dashboard", "setup"}
  /\ \E i \in 1..5 : tab' = Tabs[i]
  /\ UnchangedButTab

\* q, or quit in the terminal.
Quit ==
  /\ ~quit
  /\ modals = {} \/ "root" \in modals
  /\ ~editing
  /\ quit' = TRUE
  /\ UNCHANGED <<env, tab, modals, refresh, form, focused, picker, source, logger, doubled>>

\* r on the first two tabs, verify in the terminal, REFRESH VERIFY in the form.
Refresh ==
  /\ Free
  /\ \/ tab \in {"dashboard", "setup"}
     \/ tab = "terminal" /\ focused
  /\ RefreshVerify(daemon)
  /\ UNCHANGED <<env, quit, tab, modals, refresh, form, focused, picker, logger, doubled>>

\* The cursor of the form skips the separator.
Above(i) == IF Form[i - 1] = "separator" THEN i - 2 ELSE i - 1
Below(i) == IF Form[i + 1] = "separator" THEN i + 2 ELSE i + 1

MoveInForm ==
  /\ Free /\ tab = "setup"
  /\ \/ item > 1 /\ item' = Above(item)
     \/ item < Len(Form) /\ item' = Below(item)
  /\ UNCHANGED <<env, quit, tab, modals, refresh, editing, focused, picker, source,
                 logger, doubled>>

\* Enter on a field opens it; Enter and Esc close it, with or without effect on the
\* configuration.
BeginEdit ==
  /\ Free /\ tab = "setup"
  /\ Form[item] = "edit"
  /\ editing' = TRUE
  /\ UNCHANGED <<env, quit, tab, modals, refresh, item, focused, picker, source,
                 logger, doubled>>

EndEdit ==
  /\ ~quit /\ modals = {} /\ editing
  /\ editing' = FALSE
  /\ UNCHANGED <<env, quit, tab, modals, refresh, item, focused, picker, source,
                 logger, doubled>>

Focus ==
  /\ Free /\ tab = "terminal"
  /\ focused' = ~focused
  /\ UNCHANGED <<env, quit, tab, modals, refresh, form, picker, source, logger, doubled>>

-------------------------------------------------------------------------------
\* Setup and teardown

\* Each Apply saves the state before it and the configuration; in the same second
\* as the last one it overwrites them.  When the setup wants a reboot the modal is
\* all that follows, otherwise the system is verified again.
Apply ==
  /\ Free /\ tab = "setup"
  /\ Form[item] = "apply"
  /\ snaps' \in IF ~Root THEN {snaps}
                ELSE IF snaps + 2 <= MaxSnaps THEN {snaps, snaps + 2} \ {0} ELSE {snaps}
  /\ \/ /\ Root
        /\ modals' = {"reboot"} /\ refresh' = FALSE
        /\ UNCHANGED source
     \/ /\ RefreshVerify(daemon)
        /\ UNCHANGED <<modals, refresh>>
  /\ UNCHANGED <<world, daemon, unit, quit, tab, form, focused, picker, logger, doubled>>

\* open_teardown_picker, after which the modals others are still open.
OpenPicker(others) ==
  /\ listed' = snaps
  /\ pick' = 1
  /\ modals' = IF snaps = 0 THEN others ELSE others \union {"picker"}

RequestTeardownUnasked ==  \* mutant: the unit is not asked for
  /\ Free /\ tab = "setup"
  /\ Form[item] = "teardown"
  /\ OpenPicker(modals)
  /\ UNCHANGED <<env, quit, tab, refresh, form, focused, source, logger, doubled>>
RequestTeardown ==
  /\ Free /\ tab = "setup"
  /\ Form[item] = "teardown"
  /\ IF unit
       THEN modals' = {"warn"} /\ UNCHANGED picker
       ELSE OpenPicker(modals)
  /\ UNCHANGED <<env, quit, tab, refresh, form, focused, source, logger, doubled>>

\* D: disable() stops the unit's daemon and removes the PID file.  The monitor is
\* not opened here, and the last snapshot stays on the screen.
DisableAndContinue ==
  /\ ~quit /\ modals = {"warn"}
  /\ IF Root
       THEN /\ unit' = FALSE /\ daemon' = "none"
            /\ piggy' = FALSE /\ dropped' = TRUE
            /\ OpenPicker({})
            /\ UNCHANGED <<monitor, shown, behind>>
       ELSE /\ modals' = {}
            /\ UNCHANGED <<unit, daemon, source, picker>>
  /\ UNCHANGED <<world, snaps, quit, tab, refresh, form, focused, logger, doubled>>

CancelWarning ==
  /\ ~quit /\ modals = {"warn"}
  /\ modals' = {}
  /\ UNCHANGED <<env, quit, tab, refresh, form, focused, picker, source, logger, doubled>>

PickerUp ==
  /\ ~quit /\ modals = {"picker"}
  /\ pick > 1
  /\ pick' = pick - 1
  /\ UNCHANGED <<env, quit, tab, modals, refresh, form, focused, listed, source,
                 logger, doubled>>

PickerDownUnbounded ==  \* mutant: the end of the list is not looked at
  /\ ~quit /\ modals = {"picker"}
  /\ pick' = pick + 1
  /\ UNCHANGED <<env, quit, tab, modals, refresh, form, focused, listed, source,
                 logger, doubled>>
PickerDownByOne ==  \* mutant: one entry too far
  /\ ~quit /\ modals = {"picker"}
  /\ pick <= listed
  /\ pick' = pick + 1
  /\ UNCHANGED <<env, quit, tab, modals, refresh, form, focused, listed, source,
                 logger, doubled>>
PickerDown ==
  /\ ~quit /\ modals = {"picker"}
  /\ pick < listed
  /\ pick' = pick + 1
  /\ UNCHANGED <<env, quit, tab, modals, refresh, form, focused, listed, source,
                 logger, doubled>>

CancelPicker ==
  /\ ~quit /\ modals = {"picker"}
  /\ modals' = {}
  /\ UNCHANGED <<env, quit, tab, refresh, form, focused, picker, source, logger, doubled>>

\* run_teardown_inner: the state directories of ubenchmon go, the PID file, the
\* snapshots and the metric log with them; the setup with the snapshot follows, and
\* either the reboot modal or the verification.  A snapshot without isolated cores
\* asks for a reboot although a user cannot change anything.
ConfirmPicker ==
  /\ ~quit /\ modals = {"picker"}
  /\ daemon' = IF Root THEN "none" ELSE daemon
  /\ snaps' = IF Root THEN 0 ELSE snaps
  /\ logger' = IF Root /\ logger = "open" THEN "orphaned" ELSE logger
  /\ \/ /\ modals' = {"reboot"} /\ refresh' = TRUE
        /\ UNCHANGED source
     \/ /\ modals' = {}
        /\ RefreshVerify(daemon')
        /\ UNCHANGED refresh
  /\ UNCHANGED <<world, unit, quit, tab, form, focused, picker, doubled>>

DismissRebootOnly ==  \* mutant: the refresh that was put off is forgotten
  /\ ~quit /\ modals = {"reboot"}
  /\ modals' = {} /\ refresh' = FALSE
  /\ UNCHANGED <<env, quit, tab, form, focused, picker, source, logger, doubled>>
DismissReboot ==
  /\ ~quit /\ modals = {"reboot"}
  /\ modals' = {} /\ refresh' = FALSE
  /\ IF refresh THEN RefreshVerify(daemon) ELSE UNCHANGED source
  /\ UNCHANGED <<env, quit, tab, form, focused, picker, logger, doubled>>

RebootNow ==
  /\ ~quit /\ modals = {"reboot"}
  /\ modals' = {} /\ refresh' = FALSE
  /\ quit' = TRUE
  /\ UNCHANGED <<env, tab, form, focused, picker, source, logger, doubled>>

DismissRoot ==
  /\ ~quit /\ "root" \in modals
  /\ modals' = modals \ {"root"}
  /\ UNCHANGED <<env, quit, tab, refresh, form, focused, picker, source, logger, doubled>>

-------------------------------------------------------------------------------
\* Commands of the terminal

Command == Free /\ tab = "terminal" /\ focused

UnchangedByCommand == UNCHANGED <<world, snaps, quit, tab, modals, refresh, form,
                                  focused, picker, doubled>>

LogStart ==
  /\ Command /\ ~piggy
  /\ StartLogging
  /\ UNCHANGED <<daemon, unit, source>> /\ UnchangedByCommand

LogStop ==
  /\ Command /\ ~piggy
  /\ logger' = "none"
  /\ UNCHANGED <<daemon, unit, source>> /\ UnchangedByCommand

\* Once a daemon logs, the TUI stops to.
LeaveLogging == logger' = IF piggy' THEN "none" ELSE logger

ServiceStart ==
  /\ Command /\ daemon = "none"
  /\ \/ /\ daemon' = "transient"
        /\ RefreshVerify(daemon')
        /\ LeaveLogging
     \/ /\ "fail" \in world \/ ~Root
        /\ daemon' \in IF Root THEN {"none", "transient"} ELSE {"none"}
        /\ behind' = (daemon' # "none")
        /\ UNCHANGED <<known, logger>>
  /\ Root \/ daemon' = "none"
  /\ UNCHANGED unit /\ UnchangedByCommand

\* kill(1) fails silently for a user, whose files stay as well.
ServiceStop ==
  /\ Command /\ daemon # "none"
  /\ daemon' = IF Root THEN "none" ELSE daemon
  /\ RefreshVerify(daemon')
  /\ StartLogging
  /\ UNCHANGED unit /\ UnchangedByCommand

\* The daemon of the unit overwrites the PID file.  When its own file does not come
\* up in time the command succeeds all the same.
ServiceEnableUnseen ==  \* mutant: refresh_verify is not called
  /\ Command /\ Root
  /\ unit' = TRUE
  /\ daemon' = "persistent"
  /\ UNCHANGED source
  /\ LeaveLogging
  /\ UnchangedByCommand
ServiceEnable ==
  /\ Command /\ Root
  /\ unit' = TRUE
  /\ daemon' \in IF "fail" \in world THEN {daemon, "persistent"} ELSE {"persistent"}
  /\ RefreshVerify(daemon')
  /\ LeaveLogging
  /\ UnchangedByCommand

ServiceDisable ==
  /\ Command /\ Root
  /\ unit' = FALSE /\ daemon' = "none"
  /\ RefreshVerify(daemon')
  /\ StartLogging
  /\ UnchangedByCommand

-------------------------------------------------------------------------------
\* The tick and the world

\* The snapshot of the daemon or the own one is shown; the own one is recorded.
Tick ==
  /\ ~quit
  /\ \/ piggy /\ daemon # "none" /\ shown' = "daemon"
     \/ ~piggy /\ monitor /\ shown' = "own"
  /\ doubled' = (doubled \/ (logger # "none" /\ ~piggy /\ daemon # "none" /\ ~behind))
  /\ UNCHANGED <<env, quit, tab, modals, refresh, form, focused, picker, piggy,
                 monitor, dropped, behind, logger>>

UnchangedByWorld == UNCHANGED <<world, snaps, quit, tab, modals, refresh, form, focused,
                                picker, known, logger, doubled>>

Crash ==
  /\ ~quit /\ "crash" \in world
  /\ daemon # "none"
  /\ daemon' = "none"
  /\ UNCHANGED <<unit, behind>> /\ UnchangedByWorld

\* systemd starts the daemon of the unit again, also after 'service stop'; a transient
\* daemon loses the PID file to it.
ComesBack ==
  /\ ~quit /\ unit /\ daemon # "persistent"
  /\ daemon' = "persistent" /\ behind' = TRUE
  /\ UNCHANGED unit /\ UnchangedByWorld

Shell ==
  /\ ~quit /\ "cli" \in world
  /\ \/ daemon = "none" /\ daemon' = "transient" /\ UNCHANGED unit
     \/ daemon # "none" /\ daemon' = "none" /\ UNCHANGED unit
     \/ unit' = TRUE /\ daemon' = "persistent"
     \/ unit' = FALSE /\ daemon' = "none"
  /\ behind' = (daemon' # "none")
  /\ UnchangedByWorld

FormKey == MoveInForm \/ BeginEdit \/ EndEdit \/ Apply \/ RequestTeardown

ModalKey ==
  \/ DismissRoot \/ DismissReboot \/ RebootNow
  \/ DisableAndContinue \/ CancelWarning
  \/ PickerUp \/ PickerDown \/ CancelPicker \/ ConfirmPicker

TerminalKey ==
  \/ Focus \/ LogStart \/ LogStop
  \/ ServiceStart \/ ServiceStop \/ ServiceEnable \/ ServiceDisable

Next ==
  \/ TurnTab \/ JumpTab \/ Quit \/ Refresh
  \/ FormKey \/ ModalKey \/ TerminalKey
  \/ Tick
  \/ Crash \/ ComesBack \/ Shell

Spec == Init /\ [][Next]_vars

-------------------------------------------------------------------------------
\* Properties

\* Keys go where the user looks: the modals of the Setup tab and its edit field take
\* all keys and are drawn on that tab only, one at a time.  The cursor is never on
\* the separator, where Enter does nothing.
KeysGoWhereSeen ==
  /\ modals \subseteq {"root"} \/ tab = "setup"
  /\ Cardinality(modals) <= 1
  /\ editing => tab = "setup" /\ modals = {} /\ Form[item] = "edit"
  /\ Form[item] # "separator"

\* The snapshot Enter takes in the picker is one of the list, and exists.
PickerInRange == modals = {"picker"} => pick <= listed /\ listed <= snaps

\* "running Teardown while one is installed would leave the machine in a state that
\* resurrects itself": no teardown wipes the state while the unit is installed,
\* whatever was opened, disabled and cancelled before.
TeardownGuarded ==
  [][snaps' < snaps => ~unit \/ "cli" \in world]_vars

\* "Stop own logging - daemon has it now", "When piggybacking, the daemon owns the
\* metric logger": the TUI never records next to a daemon that logs, whether it
\* started the daemon itself, found it when a refresh asked, or kept its log open
\* meanwhile; but for a daemon that others start, until the next refresh.
LoggedOnce == ~doubled

\* The TUI has something to show: when no modal is open it follows a daemon that is
\* there or has a monitor of its own, unless a teardown was given up after its first
\* step had disabled the service.
Sighted ==
  Free /\ world = {} => monitor \/ dropped \/ (piggy /\ daemon # "none")
===============================================================================
