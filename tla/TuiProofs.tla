------------------------------ MODULE TuiProofs -------------------------------
(***************************************************************************)
(* Theorems about TuiApp, for every form, number of snapshots and set of   *)
(* worlds: type correctness, where keys go, the snapshot picker, the guard *)
(* in front of a teardown, who records, and that there is always something *)
(* to show.                                                                *)
(***************************************************************************)
EXTENDS TuiApp, FiniteSetTheorems, TLAPS

USE DEF env, form, picker, known, source

\* The keys, by what they are about.
PlainKey == TurnTab \/ JumpTab \/ Quit \/ Refresh \/ Focus
LogKey == LogStart \/ LogStop
ServiceKey == ServiceStart \/ ServiceStop \/ ServiceEnable \/ ServiceDisable
Daemons == {"none", "transient", "persistent"}

LEMMA NextIs ==
  Next <=> \/ PlainKey \/ FormKey \/ ModalKey \/ LogKey \/ ServiceKey
           \/ Tick \/ Crash \/ ComesBack \/ Shell
BY DEF Next, TerminalKey, PlainKey, LogKey, ServiceKey

\* What a refresh leaves behind: it follows the daemon that is there or opens a
\* monitor, which cannot fail for root in a world without failures.
LEMMA Refreshed ==
  ASSUME NEW d \in Daemons, RefreshVerify(d)
  PROVE  /\ shown' = "none" /\ dropped' = FALSE /\ behind' = FALSE
         /\ piggy' \in BOOLEAN /\ monitor' \in BOOLEAN
         /\ world = {} => monitor' \/ (piggy' /\ d # "none")
BY DEF RefreshVerify, Opens, Root

\* The logger after a start, an end or neither.
LEMMA LoggerStays ==
  ASSUME logger \in {"none", "open", "orphaned"},
         StartLogging \/ LeaveLogging \/ UNCHANGED logger
  PROVE  logger' \in {"none", "open", "orphaned"}
BY DEF StartLogging, LeaveLogging

LEMMA TabNames ==
  \A i \in 1..5 : Tabs[i] \in {"dashboard", "setup", "monitor", "logs", "terminal"}
BY DEF Tabs

\* The cursor moves within the form, and over a separator to an item.
LEMMA CursorMoves ==
  ASSUME NEW i \in Items
  PROVE  /\ i > 1 => Above(i) \in Items /\ Form[Above(i)] # "separator"
         /\ i < Len(Form) => Below(i) \in Items /\ Form[Below(i)] # "separator"
<1>1. Len(Form) \in Nat
  BY TuiAssumption
<1>2. ASSUME i > 1 PROVE Above(i) \in Items /\ Form[Above(i)] # "separator"
  <2>1. CASE Form[i - 1] # "separator"
    BY <1>1, <1>2, <2>1 DEF Above, Items
  <2>2. CASE Form[i - 1] = "separator"
    <3>1. i - 1 # 1
      BY <2>2, TuiAssumption
    <3>2. i - 2 \in Items /\ (i - 2) + 1 = i - 1
      BY <1>1, <1>2, <3>1 DEF Items
    <3>3. Form[i - 2] # "separator"
      BY <2>2, <3>2, TuiAssumption
    <3> QED
      BY <2>2, <3>2, <3>3 DEF Above
  <2> QED
    BY <2>1, <2>2
<1>3. ASSUME i < Len(Form) PROVE Below(i) \in Items /\ Form[Below(i)] # "separator"
  <2>1. i + 1 \in Items /\ (i + 1) + 1 = i + 2
    BY <1>1, <1>3 DEF Items
  <2>2. CASE Form[i + 1] # "separator"
    BY <2>1, <2>2 DEF Below
  <2>3. CASE Form[i + 1] = "separator"
    <3>1. i + 1 # Len(Form)
      BY <2>3, TuiAssumption
    <3>2. i + 2 \in Items
      BY <1>1, <1>3, <3>1 DEF Items
    <3>3. Form[i + 2] # "separator"
      BY <2>1, <2>3, TuiAssumption
    <3> QED
      BY <2>3, <3>2, <3>3 DEF Below
  <2> QED
    BY <2>2, <2>3
<1> QED
  BY <1>2, <1>3

-------------------------------------------------------------------------------
\* One modal is open at a time, and the one that takes the picker's keys only with
\* a list that has entries.
Shapes == {{}, {"root"}, {"reboot"}, {"warn"}, {"picker"}}

KeysInv ==
  /\ modals \in Shapes
  /\ modals \subseteq {"root"} \/ tab = "setup"
  /\ editing => tab = "setup" /\ modals = {} /\ Form[item] = "edit"
  /\ Form[item] # "separator"

\* The parts of TypeOK.
EnvTypes ==
  /\ world \in Worlds /\ daemon \in Daemons /\ unit \in BOOLEAN /\ snaps \in 0..MaxSnaps
ScreenTypes ==
  /\ quit \in BOOLEAN /\ refresh \in BOOLEAN /\ editing \in BOOLEAN /\ focused \in BOOLEAN
  /\ tab \in {"dashboard", "setup", "monitor", "logs", "terminal"}
  /\ item \in Items
PickerTypes == listed \in 0..MaxSnaps /\ pick \in 1..MaxSnaps + 1
SourceTypes ==
  /\ piggy \in BOOLEAN /\ monitor \in BOOLEAN /\ dropped \in BOOLEAN
  /\ logger \in {"none", "open", "orphaned"}
  /\ shown \in Sources
  /\ doubled \in BOOLEAN /\ behind \in BOOLEAN

TypeInv ==
  /\ EnvTypes /\ ScreenTypes /\ PickerTypes /\ SourceTypes
  /\ KeysInv /\ PickerInRange

LEMMA TypeInvIsTypeOK == TypeInv => TypeOK
<1>1. modals \in Shapes => modals \subseteq {"root", "reboot", "warn", "picker"}
  BY DEF Shapes
<1> QED
  BY <1>1 DEF TypeInv, EnvTypes, ScreenTypes, PickerTypes, SourceTypes, KeysInv, TypeOK, Daemons

LEMMA TypeInvInit == Init => TypeInv
<1> SUFFICES ASSUME Init PROVE TypeInv
  OBVIOUS
<1>1. 1 \in Items /\ Form[1] # "separator" /\ MaxSnaps \in Nat
  BY TuiAssumption DEF Items
<1>2. SourceTypes
  BY DEF Init, Opens, SourceTypes, Sources
<1>3. modals = {} \/ modals = {"root"}
  BY DEF Init
<1>4. EnvTypes
  BY DEF Init, EnvTypes, Daemons
<1>5. PickerTypes
  BY <1>1 DEF Init, PickerTypes
<1>6. ScreenTypes
  BY <1>1 DEF Init, ScreenTypes
<1> QED
  BY <1>1, <1>2, <1>3, <1>4, <1>5, <1>6 DEF Init, TypeInv, KeysInv, PickerInRange, Shapes

LEMMA EnvStep == TypeInv /\ Next => EnvTypes'
<1> SUFFICES ASSUME TypeInv, Next PROVE EnvTypes'
  OBVIOUS
<1> USE TuiAssumption DEF TypeInv, EnvTypes, Daemons
<1>1. CASE PlainKey \/ LogKey \/ Tick
  BY <1>1 DEF PlainKey, TurnTab, JumpTab, Quit, Refresh, Focus, LogKey, LogStart, LogStop, Tick,
              UnchangedButTab, UnchangedByCommand
<1>2. CASE FormKey
  BY <1>2 DEF FormKey, MoveInForm, BeginEdit, EndEdit, Apply, RequestTeardown
<1>3. CASE ModalKey
  <2>1. CASE DisableAndContinue
    BY <2>1 DEF DisableAndContinue
  <2>2. CASE ConfirmPicker
    BY <2>2 DEF ConfirmPicker
  <2> QED
    BY <1>3, <2>1, <2>2 DEF ModalKey, DismissRoot, DismissReboot, RebootNow, CancelWarning, PickerUp,
                      PickerDown, CancelPicker
<1>4. CASE ServiceKey
  BY <1>4 DEF ServiceKey, ServiceStart, ServiceStop, ServiceEnable, ServiceDisable,
              UnchangedByCommand
<1>5. CASE Crash \/ ComesBack \/ Shell
  BY <1>5 DEF Crash, ComesBack, Shell, UnchangedByWorld
<1> QED
  BY <1>1, <1>2, <1>3, <1>4, <1>5, NextIs

LEMMA PickerStep == TypeInv /\ Next => PickerTypes' /\ PickerInRange'
<1> SUFFICES ASSUME TypeInv, Next PROVE PickerTypes' /\ PickerInRange'
  OBVIOUS
<1>0. /\ MaxSnaps \in Nat /\ snaps \in 0..MaxSnaps
      /\ listed \in 0..MaxSnaps /\ pick \in 1..MaxSnaps + 1
      /\ modals = {"picker"} => pick <= listed /\ listed <= snaps
      /\ modals \in Shapes
  BY TuiAssumption DEF TypeInv, EnvTypes, PickerTypes, PickerInRange, KeysInv
<1> USE DEF PickerTypes, PickerInRange
<1>1. CASE UNCHANGED <<snaps, modals, listed, pick>>
  BY <1>0, <1>1
<1>2. CASE modals' # {"picker"} /\ UNCHANGED <<listed, pick>>
  BY <1>0, <1>2
<1>3. CASE OpenPicker({}) /\ UNCHANGED snaps
  BY <1>0, <1>3 DEF OpenPicker
<1>4. CASE PickerUp \/ PickerDown
  BY <1>0, <1>4 DEF PickerUp, PickerDown
<1>5. CASE PlainKey \/ LogKey \/ ServiceKey \/ Tick \/ Crash \/ ComesBack \/ Shell
  BY <1>1, <1>5 DEF PlainKey, TurnTab, JumpTab, Quit, Refresh, Focus, LogKey, LogStart, LogStop,
     ServiceKey, ServiceStart, ServiceStop, ServiceEnable, ServiceDisable, Tick, Crash,
     ComesBack, Shell, UnchangedButTab, UnchangedByCommand, UnchangedByWorld
<1>6. CASE FormKey
  <2>1. CASE Apply
    BY <1>2, <2>1 DEF Apply, Free
  <2>2. CASE RequestTeardown
    BY <1>2, <1>3, <2>2 DEF RequestTeardown, Free
  <2> QED
    BY <1>1, <1>6, <2>1, <2>2 DEF FormKey, MoveInForm, BeginEdit, EndEdit
<1>7. CASE ModalKey
  <2>1. CASE DismissRoot
    <3>1. modals' = {}
      BY <1>0, <2>1 DEF DismissRoot, Shapes
    <3> QED
      BY <1>2, <2>1, <3>1 DEF DismissRoot
  <2>2. CASE DismissReboot \/ RebootNow \/ CancelWarning \/ CancelPicker
    BY <1>2, <2>2 DEF DismissReboot, RebootNow, CancelWarning, CancelPicker
  <2>3. CASE DisableAndContinue
    BY <1>2, <1>3, <2>3 DEF DisableAndContinue
  <2>4. CASE ConfirmPicker
    BY <1>2, <2>4 DEF ConfirmPicker
  <2> QED
    BY <1>4, <1>7, <2>1, <2>2, <2>3, <2>4 DEF ModalKey
<1> QED
  BY <1>5, <1>6, <1>7, NextIs

LEMMA SourceStep == TypeInv /\ Next => SourceTypes'
<1> SUFFICES ASSUME TypeInv, Next PROVE SourceTypes'
  OBVIOUS
<1> USE DEF TypeInv, SourceTypes
<1>1. \/ UNCHANGED known
      \/ \E d \in Daemons \union {daemon'} : RefreshVerify(d)
      \/ Tick
      \/ UNCHANGED <<monitor, shown>> /\ piggy' = FALSE /\ dropped' = TRUE
  BY NextIs DEF PlainKey, TurnTab, JumpTab, Quit, Refresh, Focus, FormKey, MoveInForm, BeginEdit,
     EndEdit, Apply, RequestTeardown, ModalKey, DismissRoot, DismissReboot, RebootNow,
     DisableAndContinue, CancelWarning, PickerUp, PickerDown, CancelPicker, ConfirmPicker,
     LogKey, LogStart, LogStop, ServiceKey, ServiceStart, ServiceStop, ServiceEnable,
     ServiceDisable, Crash, ComesBack, Shell, UnchangedButTab, UnchangedByWorld, EnvTypes
<1>2. /\ piggy' \in BOOLEAN /\ monitor' \in BOOLEAN /\ dropped' \in BOOLEAN
      /\ shown' \in Sources
  <2>1. ASSUME NEW d, RefreshVerify(d)
        PROVE  /\ shown' = "none" /\ dropped' = FALSE
               /\ piggy' \in BOOLEAN /\ monitor' \in BOOLEAN
    BY <2>1 DEF RefreshVerify, Opens
  <2> QED
    BY <1>1, <2>1 DEF Tick, Sources
<1>3. logger' \in {"none", "open", "orphaned"}
  BY LoggerStays, NextIs
     DEF PlainKey, TurnTab, JumpTab, Quit, Refresh, Focus, FormKey, MoveInForm, BeginEdit,
     EndEdit, Apply, RequestTeardown, ModalKey, DismissRoot, DismissReboot, RebootNow,
     DisableAndContinue, CancelWarning, PickerUp, PickerDown, CancelPicker, ConfirmPicker,
     LogKey, LogStart, LogStop, ServiceKey, ServiceStart, ServiceStop, ServiceEnable,
     ServiceDisable, Tick, Crash, ComesBack, Shell, UnchangedButTab, UnchangedByWorld
<1>5. behind' \in BOOLEAN
  BY NextIs
     DEF PlainKey, TurnTab, JumpTab, Quit, Refresh, Focus, FormKey, MoveInForm, BeginEdit,
     EndEdit, Apply, RequestTeardown, ModalKey, DismissRoot, DismissReboot, RebootNow,
     DisableAndContinue, CancelWarning, PickerUp, PickerDown, CancelPicker, ConfirmPicker,
     LogKey, LogStart, LogStop, ServiceKey, ServiceStart, ServiceStop, ServiceEnable,
     ServiceDisable, Tick, Crash, ComesBack, Shell, UnchangedButTab, UnchangedByWorld,
     RefreshVerify
<1>4. doubled' = doubled \/ Tick
  BY NextIs
     DEF PlainKey, TurnTab, JumpTab, Quit, Refresh, Focus, FormKey, MoveInForm, BeginEdit,
     EndEdit, Apply, RequestTeardown, ModalKey, DismissRoot, DismissReboot, RebootNow,
     DisableAndContinue, CancelWarning, PickerUp, PickerDown, CancelPicker, ConfirmPicker,
     LogKey, LogStart, LogStop, ServiceKey, ServiceStart, ServiceStop, ServiceEnable,
     ServiceDisable, Tick, Crash, ComesBack, Shell, UnchangedButTab, UnchangedByWorld,
     UnchangedByCommand
<1>6. doubled' \in BOOLEAN
  BY <1>4 DEF Tick
<1> QED
  BY <1>2, <1>3, <1>5, <1>6

\* Only the keys of the Setup tab and of the modals open or close one.
LEMMA ModalSteps ==
  ASSUME TypeInv, Next
  PROVE  /\ modals' \in Shapes
         /\ modals' = modals \/ modals' = {} \/ tab = "setup"
         /\ modals' = modals \/ ~editing
         /\ modals # {} => item' = item /\ tab' = tab /\ editing' = editing
<1>0. /\ {} \in Shapes /\ {"reboot"} \in Shapes /\ {"warn"} \in Shapes /\ {"picker"} \in Shapes
      /\ modals \in Shapes
  BY DEF TypeInv, KeysInv, Shapes
<1>1. CASE FormKey
  <2>1. CASE modals' = modals
    BY <1>0, <1>1, <2>1 DEF FormKey, MoveInForm, BeginEdit, EndEdit, Apply, RequestTeardown, Free
  <2>2. CASE modals' # modals
    BY <1>0, <1>1, <2>2 DEF FormKey, MoveInForm, BeginEdit, EndEdit, Apply, RequestTeardown,
                            OpenPicker, Free
  <2> QED
    BY <2>1, <2>2
<1>2. CASE ModalKey
  <2>1. UNCHANGED <<tab, item, editing>> /\ modals # {}
    BY <1>2 DEF ModalKey, DismissRoot, DismissReboot, RebootNow, DisableAndContinue,
                CancelWarning, PickerUp, PickerDown, CancelPicker, ConfirmPicker
  <2>2. modals = {"root"} \/ tab = "setup"
    BY <1>0, <2>1 DEF TypeInv, KeysInv, Shapes
  <2>3. ~editing
    BY <2>1 DEF TypeInv, KeysInv
  <2>4. CASE DismissRoot
    <3>1. modals = {"root"}
      BY <1>0, <2>4 DEF DismissRoot, Shapes
    <3> QED
      BY <1>0, <2>1, <2>3, <2>4, <3>1 DEF DismissRoot
  <2>5. CASE ModalKey /\ ~DismissRoot
    BY <1>0, <2>1, <2>2, <2>3, <2>5
       DEF ModalKey, DismissReboot, RebootNow, DisableAndContinue, OpenPicker,
           CancelWarning, PickerUp, PickerDown, CancelPicker, ConfirmPicker
  <2> QED
    BY <1>2, <2>4, <2>5
<1>3. CASE PlainKey \/ LogKey \/ ServiceKey \/ Tick \/ Crash \/ ComesBack \/ Shell
  BY <1>0, <1>3
     DEF PlainKey, TurnTab, JumpTab, Quit, Refresh, Focus, LogKey, LogStart, LogStop,
     ServiceKey, ServiceStart, ServiceStop, ServiceEnable, ServiceDisable, Tick, Crash,
     ComesBack, Shell, UnchangedButTab, UnchangedByCommand, UnchangedByWorld, Free, Command
<1> QED
  BY <1>1, <1>2, <1>3, NextIs

\* The cursor, the field and the tab.
LEMMA ScreenSteps ==
  ASSUME TypeInv, Next
  PROVE  /\ item' \in Items /\ Form[item'] # "separator"
         /\ tab' \in {"dashboard", "setup", "monitor", "logs", "terminal"}
         /\ editing' => tab' = "setup" /\ Form[item'] = "edit" /\ modals' = {}
         /\ tab' = tab \/ modals' = {}
<1>0. /\ item \in Items /\ Form[item] # "separator"
      /\ tab \in {"dashboard", "setup", "monitor", "logs", "terminal"}
      /\ editing => tab = "setup" /\ modals = {} /\ Form[item] = "edit"
  BY DEF TypeInv, ScreenTypes, KeysInv
<1>1. CASE TurnTab \/ JumpTab
  <2>1. \A i \in 1..5 : (i % 5) + 1 \in 1..5 /\ ((i + 3) % 5) + 1 \in 1..5
    OBVIOUS
  <2>2. tab' \in {"dashboard", "setup", "monitor", "logs", "terminal"}
    BY <1>1, <2>1, TabNames DEF TurnTab, JumpTab
  <2> QED
    BY <1>0, <1>1, <2>2 DEF TurnTab, JumpTab, UnchangedButTab, Free
<1>2. CASE FormKey
  <2>1. CASE MoveInForm
    BY <1>0, <2>1, CursorMoves DEF MoveInForm, Free
  <2> QED
    BY <1>0, <1>2, <2>1 DEF FormKey, BeginEdit, EndEdit, Apply, RequestTeardown, Free
<1>3. CASE ModalKey
  <2>1. UNCHANGED <<tab, item, editing>> /\ modals # {}
    BY <1>3 DEF ModalKey, DismissRoot, DismissReboot, RebootNow, DisableAndContinue,
                CancelWarning, PickerUp, PickerDown, CancelPicker, ConfirmPicker
  <2> QED
    BY <1>0, <2>1
<1>4. CASE (PlainKey /\ ~TurnTab /\ ~JumpTab) \/ LogKey \/ ServiceKey \/ Tick \/ Crash
           \/ ComesBack \/ Shell
  BY <1>0, <1>4 DEF PlainKey, Quit, Refresh, Focus, LogKey, LogStart, LogStop, ServiceKey,
     ServiceStart, ServiceStop, ServiceEnable, ServiceDisable, Tick, Crash, ComesBack, Shell,
     UnchangedByCommand, UnchangedByWorld
<1> QED
  BY <1>1, <1>2, <1>3, <1>4, NextIs DEF PlainKey

LEMMA SwitchSteps ==
  TypeInv /\ Next => /\ quit' \in BOOLEAN /\ refresh' \in BOOLEAN
                     /\ editing' \in BOOLEAN /\ focused' \in BOOLEAN
BY NextIs
   DEF TypeInv, ScreenTypes, PlainKey, TurnTab, JumpTab, Quit, Refresh, Focus, FormKey,
   MoveInForm, BeginEdit, EndEdit, Apply, RequestTeardown, ModalKey, DismissRoot, DismissReboot,
   RebootNow, DisableAndContinue, CancelWarning, PickerUp, PickerDown, CancelPicker,
   ConfirmPicker, LogKey, LogStart, LogStop, ServiceKey, ServiceStart, ServiceStop,
   ServiceEnable, ServiceDisable, Tick, Crash, ComesBack, Shell, UnchangedButTab,
   UnchangedByWorld, UnchangedByCommand

LEMMA TypeInvStep == TypeInv /\ [Next]_vars => TypeInv'
<1> SUFFICES ASSUME TypeInv, [Next]_vars PROVE TypeInv'
  OBVIOUS
<1>1. CASE Next
  <2>1. EnvTypes' /\ PickerTypes' /\ PickerInRange' /\ SourceTypes'
    BY <1>1, EnvStep, PickerStep, SourceStep
  <2>2. ScreenTypes'
    BY <1>1, ScreenSteps, SwitchSteps DEF ScreenTypes
  <2>3. modals' \in Shapes
    BY <1>1, ModalSteps
  <2>4. modals' \subseteq {"root"} \/ tab' = "setup"
    <3>1. modals' = {} \/ (tab' = tab /\ (modals' = modals \/ tab = "setup"))
      BY <1>1, ModalSteps, ScreenSteps
    <3> QED
      BY <3>1 DEF TypeInv, KeysInv
  <2> QED
    BY <1>1, <2>1, <2>2, <2>3, <2>4, ScreenSteps DEF TypeInv, KeysInv
<1>2. CASE UNCHANGED vars
  BY <1>2 DEF vars, TypeInv, EnvTypes, ScreenTypes, PickerTypes, SourceTypes, KeysInv,
              PickerInRange
<1> QED
  BY <1>1, <1>2

\* Every variable keeps its type, for any form and any number of snapshots: the
\* cursor stays in the form and the choice in the list.
THEOREM TuiTypes == Spec => []TypeOK
BY TypeInvInit, TypeInvStep, TypeInvIsTypeOK, PTL DEF Spec

\* Keys go where the user looks, for any form without two separators in a row: one
\* modal at a time, on its tab, and the cursor on an item.
THEOREM KeysGoWhereSeenAlways == Spec => []KeysGoWhereSeen
<1>1. \A m \in Shapes : Cardinality(m) <= 1
  <2>1. Cardinality({}) = 0
    BY FS_EmptySet
  <2>2. \A m : Cardinality({m}) = 1
    BY FS_Singleton
  <2>3. /\ Cardinality({"root"}) = 1 /\ Cardinality({"reboot"}) = 1
        /\ Cardinality({"warn"}) = 1 /\ Cardinality({"picker"}) = 1
    BY <2>2
  <2> QED
    BY <2>1, <2>3 DEF Shapes
<1>2. TypeInv => KeysGoWhereSeen
  BY <1>1 DEF TypeInv, KeysInv, KeysGoWhereSeen
<1> QED
  BY <1>2, TypeInvInit, TypeInvStep, PTL DEF Spec

\* The snapshot a teardown restores is one of the list, for lists of any length.
THEOREM PickerInRangeAlways == Spec => []PickerInRange
<1>1. TypeInv => PickerInRange
  BY DEF TypeInv
<1> QED
  BY <1>1, TypeInvInit, TypeInvStep, PTL DEF Spec

\* The TUI follows every daemon but one that others started since it last asked.
Follows == daemon # "none" /\ ~behind => piggy

LEMMA FollowsStep == Follows /\ Next => Follows'
<1> SUFFICES ASSUME Follows, Next PROVE Follows'
  OBVIOUS
<1>1. \/ UNCHANGED <<daemon, piggy, behind>>
      \/ daemon' = "none"
      \/ RefreshVerify(daemon')
      \/ RefreshVerify(daemon) /\ daemon' = daemon
      \/ behind' = TRUE \/ behind' = (daemon' # "none")
  BY NextIs
     DEF PlainKey, TurnTab, JumpTab, Quit, Refresh, Focus, FormKey, MoveInForm, BeginEdit,
     EndEdit, Apply, RequestTeardown, ModalKey, DismissRoot, DismissReboot, RebootNow,
     DisableAndContinue, CancelWarning, PickerUp, PickerDown, CancelPicker, ConfirmPicker,
     LogKey, LogStart, LogStop, ServiceKey, ServiceStart, ServiceStop, ServiceEnable,
     ServiceDisable, Tick, Crash, ComesBack, Shell, UnchangedButTab, UnchangedByWorld,
     UnchangedByCommand
<1> QED
  BY <1>1 DEF Follows, RefreshVerify

\* The TUI never records next to a daemon it knows of, although its log may be open
\* when a refresh finds a daemon, and although a daemon may come, go and come back
\* between any two keys: for any form and any world.
THEOREM LoggedOnceAlways == Spec => []LoggedOnce
<1> DEFINE Inv == Follows /\ LoggedOnce
<1>1. Init => Inv
  BY DEF Init, Follows, LoggedOnce
<1>2. Inv /\ [Next]_vars => Inv'
  <2> SUFFICES ASSUME Inv, [Next]_vars PROVE Inv'
    OBVIOUS
  <2>1. CASE Tick
    BY <2>1, FollowsStep DEF Tick, Next, LoggedOnce, Follows
  <2>2. CASE UNCHANGED vars
    BY <2>2 DEF vars, Follows, LoggedOnce
  <2>3. CASE Next /\ UNCHANGED doubled
    BY <2>3, FollowsStep DEF LoggedOnce
  <2> QED
    BY <2>1, <2>2, <2>3, NextIs
     DEF PlainKey, TurnTab, JumpTab, Quit, Refresh, Focus, FormKey, MoveInForm, BeginEdit,
     EndEdit, Apply, RequestTeardown, ModalKey, DismissRoot, DismissReboot, RebootNow,
     DisableAndContinue, CancelWarning, PickerUp, PickerDown, CancelPicker, ConfirmPicker,
     LogKey, LogStart, LogStop, ServiceKey, ServiceStart, ServiceStop, ServiceEnable,
     ServiceDisable, Crash, ComesBack, Shell, UnchangedButTab, UnchangedByWorld,
     UnchangedByCommand
<1>3. Inv => LoggedOnce
  OBVIOUS
<1> QED
  BY <1>1, <1>2, <1>3, PTL DEF Spec

-------------------------------------------------------------------------------
\* While the picker is open the unit is not installed: it was not when the teardown
\* was asked for, or has been disabled, and no key installs it under a modal.
PickerGuarded == modals = {"picker"} => ~unit \/ "cli" \in world

LEMMA PickerGuardedInit == Init => PickerGuarded
BY DEF Init, PickerGuarded

LEMMA PickerGuardedStep == TypeInv /\ PickerGuarded /\ [Next]_vars => PickerGuarded'
<1> SUFFICES ASSUME TypeInv, PickerGuarded, [Next]_vars PROVE PickerGuarded'
  OBVIOUS
<1> USE DEF PickerGuarded
<1>1. CASE UNCHANGED <<modals, unit, world>>
  BY <1>1
<1>2. CASE modals' # {"picker"}
  BY <1>2
<1>3. CASE PlainKey \/ LogKey \/ Tick \/ Crash \/ ComesBack
  BY <1>1, <1>3 DEF PlainKey, TurnTab, JumpTab, Quit, Refresh, Focus, LogKey, LogStart, LogStop,
     Tick, Crash, ComesBack, UnchangedButTab, UnchangedByCommand, UnchangedByWorld
<1>4. CASE ServiceKey
  <2>1. modals' = {}
    BY <1>4 DEF ServiceKey, ServiceStart, ServiceStop, ServiceEnable, ServiceDisable,
                UnchangedByCommand, Command, Free
  <2> QED
    BY <1>2, <2>1
<1>5. CASE Shell
  BY <1>5 DEF Shell, UnchangedByWorld
<1>6. CASE FormKey
  <2>1. CASE RequestTeardown
    BY <1>1, <1>2, <2>1 DEF RequestTeardown, Free
  <2>2. CASE Apply
    BY <1>2, <2>2 DEF Apply, Free
  <2> QED
    BY <1>1, <1>6, <2>1, <2>2 DEF FormKey, MoveInForm, BeginEdit, EndEdit
<1>7. CASE ModalKey
  <2>1. CASE DismissRoot
    <3>1. modals' = {}
      BY <2>1 DEF DismissRoot, TypeInv, KeysInv, Shapes
    <3> QED
      BY <1>2, <3>1
  <2>2. CASE DisableAndContinue
    BY <1>2, <2>2 DEF DisableAndContinue
  <2>3. CASE PickerUp \/ PickerDown
    BY <1>1, <2>3 DEF PickerUp, PickerDown
  <2> QED
    BY <1>2, <1>7, <2>1, <2>2, <2>3
       DEF ModalKey, DismissReboot, RebootNow, CancelWarning, CancelPicker, ConfirmPicker
<1>8. CASE UNCHANGED vars
  BY <1>1, <1>8 DEF vars
<1> QED
  BY <1>3, <1>4, <1>5, <1>6, <1>7, <1>8, NextIs

\* No teardown wipes the state while the unit is installed, unless a shell installed
\* it behind the picker.
THEOREM TeardownGuardedAlways == Spec => TeardownGuarded
<1>1. TypeInv /\ PickerGuarded /\ [Next]_vars
        => [snaps' < snaps => ~unit \/ "cli" \in world]_vars
  <2> SUFFICES ASSUME TypeInv, PickerGuarded, Next, snaps' < snaps
               PROVE  ~unit \/ "cli" \in world
    OBVIOUS
  <2>1. snaps \in Nat
    BY TuiAssumption DEF TypeInv, EnvTypes
  <2>2. snaps' # snaps /\ snaps' # snaps + 2
    BY <2>1
  <2>3. ConfirmPicker
    BY <2>2, NextIs
     DEF PlainKey, TurnTab, JumpTab, Quit, Refresh, Focus, FormKey, MoveInForm, BeginEdit,
     EndEdit, Apply, RequestTeardown, ModalKey, DismissRoot, DismissReboot, RebootNow,
     DisableAndContinue, CancelWarning, PickerUp, PickerDown, CancelPicker,
     LogKey, LogStart, LogStop, ServiceKey, ServiceStart, ServiceStop, ServiceEnable,
     ServiceDisable, Tick, Crash, ComesBack, Shell, UnchangedButTab, UnchangedByWorld,
     UnchangedByCommand
  <2> QED
    BY <2>3 DEF ConfirmPicker, PickerGuarded
<1> QED
  BY <1>1, TypeInvInit, TypeInvStep, PickerGuardedInit, PickerGuardedStep, PTL
     DEF Spec, TeardownGuarded

-------------------------------------------------------------------------------
\* What a step without failures shows: what it showed before, what a refresh finds,
\* or the reboot modal, which refreshes when it goes away.
Shows == monitor \/ dropped \/ (piggy /\ daemon # "none")
SightInv == world = {} => quit \/ Shows \/ (modals = {"reboot"} /\ refresh)

LEMMA SightInit == Init => SightInv
BY DEF Init, SightInv, Shows, Opens, Root

LEMMA RefreshShows ==
  ASSUME world = {}, RefreshVerify(daemon')
  PROVE  Shows'
BY DEF RefreshVerify, Opens, Root, Shows

LEMMA SightStep == TypeInv /\ SightInv /\ [Next]_vars => SightInv'
<1> SUFFICES ASSUME TypeInv, SightInv, [Next]_vars, world = {}, ~quit'
             PROVE  Shows' \/ (modals' = {"reboot"} /\ refresh')
  <2>1. Next => world' = world
    BY NextIs
       DEF PlainKey, TurnTab, JumpTab, Quit, Refresh, Focus, FormKey, MoveInForm, BeginEdit,
       EndEdit, Apply, RequestTeardown, ModalKey, DismissRoot, DismissReboot, RebootNow,
       DisableAndContinue, CancelWarning, PickerUp, PickerDown, CancelPicker, ConfirmPicker,
       LogKey, LogStart, LogStop, ServiceKey, ServiceStart, ServiceStop, ServiceEnable,
       ServiceDisable, Tick, Crash, ComesBack, Shell, UnchangedButTab, UnchangedByWorld,
       UnchangedByCommand
  <2> QED
    BY <2>1 DEF SightInv, vars
<1>1. CASE UNCHANGED <<quit, monitor, dropped, piggy, daemon, modals, refresh>>
  BY <1>1 DEF SightInv, Shows
<1>2. CASE RefreshVerify(daemon')
  BY <1>2, RefreshShows
<1>3. CASE PlainKey
  <2>1. CASE Refresh
    BY <1>2, <2>1 DEF Refresh
  <2> QED
    BY <1>1, <1>3, <2>1 DEF PlainKey, TurnTab, JumpTab, Quit, Focus, UnchangedButTab
<1>4. CASE FormKey
  <2>1. CASE Apply
    <3>1. modals = {} /\ daemon' = daemon /\ quit' = quit
      BY <2>1 DEF Apply, Free
    <3>2. CASE UNCHANGED source
      BY <3>1, <3>2 DEF SightInv, Shows
    <3>3. CASE RefreshVerify(daemon)
      BY <1>2, <3>1, <3>3
    <3> QED
      BY <2>1, <3>2, <3>3 DEF Apply
  <2>2. CASE RequestTeardown
    <3>1. modals = {} /\ UNCHANGED <<daemon, quit, monitor, dropped, piggy>>
      BY <2>2 DEF RequestTeardown, Free
    <3> QED
      BY <3>1 DEF SightInv, Shows
  <2> QED
    BY <1>1, <1>4, <2>1, <2>2 DEF FormKey, MoveInForm, BeginEdit, EndEdit
<1>5. CASE ModalKey
  <2>1. CASE DismissReboot
    <3>1. daemon' = daemon /\ quit' = quit
      BY <2>1 DEF DismissReboot
    <3>2. CASE refresh
      BY <1>2, <2>1, <3>1, <3>2 DEF DismissReboot
    <3>3. CASE ~refresh
      BY <2>1, <3>1, <3>3 DEF DismissReboot, SightInv, Shows
    <3> QED
      BY <3>2, <3>3
  <2>2. CASE DismissRoot
    <3>1. modals # {"reboot"}
      BY <2>2 DEF DismissRoot
    <3> QED
      BY <2>2, <3>1 DEF DismissRoot, SightInv, Shows
  <2>3. CASE DisableAndContinue
    <3>1. Root
      BY DEF Root
    <3> QED
      BY <2>3, <3>1 DEF DisableAndContinue, Shows
  <2>4. CASE ConfirmPicker
    BY <1>2, <2>4 DEF ConfirmPicker
  <2>5. CASE CancelWarning \/ CancelPicker
    <3>1. modals # {"reboot"} /\ UNCHANGED <<daemon, quit, monitor, dropped, piggy>>
      BY <2>5 DEF CancelWarning, CancelPicker
    <3> QED
      BY <3>1 DEF SightInv, Shows
  <2>6. CASE RebootNow
    BY <2>6 DEF RebootNow
  <2> QED
    BY <1>1, <1>5, <2>1, <2>2, <2>3, <2>4, <2>5, <2>6 DEF ModalKey, PickerUp, PickerDown
<1>6. CASE LogKey
  BY <1>1, <1>6 DEF LogKey, LogStart, LogStop, UnchangedByCommand
<1>7. CASE ServiceKey
  <2>1. Root /\ "fail" \notin world
    BY DEF Root
  <2> QED
    BY <1>2, <1>7, <2>1 DEF ServiceKey, ServiceStart, ServiceStop, ServiceEnable, ServiceDisable
<1>8. CASE Tick
  BY <1>1, <1>8 DEF Tick
<1>9. CASE Crash \/ Shell
  BY <1>9 DEF Crash, Shell
<1>10. CASE ComesBack
  BY <1>10 DEF ComesBack, UnchangedByWorld, SightInv, Shows
<1>11. CASE UNCHANGED vars
  BY <1>1, <1>11 DEF vars
<1> QED
  BY <1>3, <1>4, <1>5, <1>6, <1>7, <1>8, <1>9, <1>10, <1>11, NextIs

\* With no modal open there is something to show, unless a teardown was given up
\* after it had disabled the service.
THEOREM SightedAlways == Spec => []Sighted
<1>1. SightInv => Sighted
  BY DEF SightInv, Shows, Sighted, Free
<1> QED
  BY <1>1, TypeInvInit, TypeInvStep, SightInit, SightStep, PTL DEF Spec

===============================================================================
