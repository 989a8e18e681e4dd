----------------------------- MODULE ServiceProofs ----------------------------
(***************************************************************************)
(* Theorems about Service, for every set of processes and controllers and  *)
(* any number of polls and crashes: type correctness, that a disabled unit *)
(* runs nothing, and, in the orderly worlds, that there is one daemon and  *)
(* that it can be found.                                                   *)
(***************************************************************************)
EXTENDS Service, FiniteSetTheorems, TLAPS

USE DEF procs, files, units

Control == [pc : Positions, goal : Goals, seen : Pids \union {None},
            target : Pids \union {None}, tries : 0..MaxTries]

\* The parts of TypeOK; a process has a mode, and daemon_pid() was asked by somebody.
ProcTypes ==
  /\ proc \in [Pids -> ProcStates]
  /\ mode \in [Pids -> Modes \union {None}]
  /\ parent \in [Pids -> Controllers \union {"init", "systemd"}]
  /\ \A p \in Pids : proc[p] # "free" => mode[p] \in Modes
FileTypes ==
  /\ runDir \in BOOLEAN /\ snapFile \in BOOLEAN
  /\ unitFile \in BOOLEAN /\ enabled \in BOOLEAN
  /\ pidFile \in Pids \union {NoFile} /\ modeFile \in Modes \union {NoFile}
UnitTypes ==
  /\ world \in Worlds
  /\ systemd \in {"dead", "running", "waiting", "due"}
  /\ crashes \in 0..MaxCrashes
CtlTypes ==
  /\ ctl \in [Controllers -> Control]
  /\ \A c \in Controllers : ctl[c].pc \in {"read", "check", "clean"} => ctl[c].goal # "none"

TypeInv == ProcTypes /\ FileTypes /\ UnitTypes /\ CtlTypes

LEMMA TypeInvIsTypeOK == TypeInv => TypeOK
BY DEF TypeInv, ProcTypes, FileTypes, UnitTypes, CtlTypes, Control, TypeOK

LEMMA IdleIsControl == Idle \in Control /\ Idle.pc = "idle" /\ Idle.goal = "none"
BY ServiceAssumption DEF Idle, Control, Positions, Goals

LEMMA TypeInvInit == Init => TypeInv
<1> SUFFICES ASSUME Init PROVE TypeInv
  OBVIOUS
<1>1. ProcTypes
  BY DEF Init, ProcTypes, ProcStates
<1>2. FileTypes
  BY DEF Init, FileTypes
<1>3. UnitTypes
  BY ServiceAssumption DEF Init, UnitTypes
<1>4. CtlTypes
  BY IdleIsControl DEF Init, CtlTypes
<1> QED
  BY <1>1, <1>2, <1>3, <1>4 DEF TypeInv

-------------------------------------------------------------------------------
\* What the operators on processes and controllers do.

LEMMA ReapTypes ==
  ASSUME ProcTypes, NEW gone, Reap(gone)
  PROVE  ProcTypes'
BY DEF ProcTypes, Reap, ProcStates

LEMMA EndedTypes ==
  ASSUME ProcTypes, NEW p \in Pids, proc[p] # "free", Ended(p)
  PROVE  ProcTypes'
BY ReapTypes DEF ProcTypes, Ended, ProcStates

LEMMA SpawnTypes ==
  ASSUME ProcTypes, NEW p \in Pids, NEW m \in Modes,
         NEW by \in Controllers \union {"systemd"}, Spawn(p, m, by)
  PROVE  ProcTypes'
BY DEF ProcTypes, Spawn, ProcStates

LEMMA GotoTypes ==
  ASSUME CtlTypes, NEW c \in Controllers, NEW pc \in Positions \ {"read", "check"}, Goto(c, pc),
         pc # "clean" \/ ctl[c].pc \in {"read", "check", "clean"}
  PROVE  CtlTypes'
BY DEF CtlTypes, Control, Goto

\* A call that begins, or waits for what it has asked for.
LEMMA ReadTypes ==
  ASSUME CtlTypes, NEW c \in Controllers, NEW goal \in Goals \ {"none"},
         NEW target \in Pids \union {None}, NEW tries \in 0..MaxTries,
         \/ ctl' = [ctl EXCEPT ![c].pc = "read", ![c].goal = goal]
         \/ ctl' = [ctl EXCEPT ![c].pc = "read", ![c].goal = goal, ![c].tries = tries]
         \/ ctl' = [ctl EXCEPT ![c].pc = "read", ![c].goal = goal, ![c].target = target,
                               ![c].tries = tries]
  PROVE  CtlTypes'
<1>1. \A d \in Controllers : ctl[d] \in Control
  BY DEF CtlTypes
<1>2. /\ DOMAIN ctl' = Controllers /\ ctl' = [d \in Controllers |-> ctl'[d]]
      /\ \A d \in Controllers : d # c => ctl'[d] = ctl[d]
  BY DEF CtlTypes
<1>3. ctl'[c] \in Control /\ ctl'[c].goal # "none"
  <2>1. PICK r \in Pids \union {None}, n \in 0..MaxTries :
          ctl'[c] = [ctl[c] EXCEPT !.pc = "read", !.goal = goal, !.target = r, !.tries = n]
    <3>1. /\ ctl[c].target \in Pids \union {None} /\ ctl[c].tries \in 0..MaxTries
          /\ ctl[c] = [ctl[c] EXCEPT !.target = ctl[c].target, !.tries = ctl[c].tries]
      BY <1>1 DEF Control
    <3>2. CASE ctl' = [ctl EXCEPT ![c].pc = "read", ![c].goal = goal]
      <4>1. ctl'[c] = [ctl[c] EXCEPT !.pc = "read", !.goal = goal]
        BY <3>2 DEF CtlTypes
      <4>2. ctl'[c] = [ctl[c] EXCEPT !.pc = "read", !.goal = goal,
                                     !.target = ctl[c].target, !.tries = ctl[c].tries]
        BY <1>1, <4>1 DEF Control
      <4> QED
        BY <3>1, <4>2
    <3>3. CASE ctl' = [ctl EXCEPT ![c].pc = "read", ![c].goal = goal, ![c].tries = tries]
      <4>1. ctl'[c] = [ctl[c] EXCEPT !.pc = "read", !.goal = goal, !.tries = tries]
        BY <3>3 DEF CtlTypes
      <4>2. ctl'[c] = [ctl[c] EXCEPT !.pc = "read", !.goal = goal,
                                     !.target = ctl[c].target, !.tries = tries]
        BY <1>1, <4>1 DEF Control
      <4> QED
        BY <3>1, <4>2
    <3>4. CASE ctl' = [ctl EXCEPT ![c].pc = "read", ![c].goal = goal, ![c].target = target,
                                  ![c].tries = tries]
      <4>1. ctl'[c] = [ctl[c] EXCEPT !.pc = "read", !.goal = goal, !.target = target,
                                     !.tries = tries]
        BY <3>4 DEF CtlTypes
      <4> QED
        BY <4>1
    <3> QED
      BY <3>2, <3>3, <3>4
  <2>2. ctl[c] \in Control /\ "read" \in Positions
    BY <1>1 DEF Positions
  <2> QED
    BY <2>1, <2>2 DEF Control
<1>4. ctl' \in [Controllers -> Control]
  BY <1>1, <1>2, <1>3
<1> QED
  BY <1>2, <1>3, <1>4 DEF CtlTypes

LEMMA FinishTypes ==
  ASSUME ProcTypes, CtlTypes, NEW c \in Controllers, Finish(c)
  PROVE  ProcTypes' /\ CtlTypes'
<1>1. CtlTypes'
  BY IdleIsControl DEF CtlTypes, Finish
<1>2. ProcTypes'
  BY DEF ProcTypes, Finish, ProcStates
<1> QED
  BY <1>1, <1>2

\* An answer ends the call, asks again, or goes on to what the call is about.
LEMMA AnswerSteps ==
  ASSUME CtlTypes, NEW c \in Controllers, ctl[c].pc \in {"read", "check", "clean"},
         NEW found \in BOOLEAN, Answer(c, found)
  PROVE  \/ /\ Finish(c)
            /\ \/ ctl[c].goal \in {"look", "enablewait"}
               \/ ctl[c].goal = "start" /\ found
               \/ ctl[c].goal = "stop" /\ ~found
               \/ /\ ctl[c].goal = "startwait"
                  /\ \/ found \/ "slow" \in world
                     \/ ctl[c].target # None => proc[ctl[c].target] # "spawned"
         \/ /\ ctl[c].goal \in {"startwait", "stopwait", "enablewait"}
            /\ ctl[c].goal \in {"startwait", "enablewait"} => ~found
            /\ ctl' = [ctl EXCEPT ![c].pc = "read", ![c].seen = None, ![c].tries = Polled(@)]
            /\ UNCHANGED procs
         \/ /\ ctl[c].goal = "start" /\ ~found
            /\ ctl' = [ctl EXCEPT ![c].pc = "spawn", ![c].seen = None]
            /\ UNCHANGED procs
         \/ /\ ctl[c].goal = "stop" /\ found
            /\ ctl' = [ctl EXCEPT ![c].pc = "term"]
            /\ UNCHANGED procs
         \/ /\ ctl[c].goal = "stopwait"
            /\ \E pc \in {"unsnap", "kill"} :
                 ctl' = [ctl EXCEPT ![c].pc = pc, ![c].seen = None]
            /\ UNCHANGED procs
<1>1. ctl[c].goal \in Goals \ {"none"} /\ ctl \in [Controllers -> Control]
  BY DEF CtlTypes, Control
<1>2. CASE ctl[c].goal = "look"
  BY <1>2 DEF Answer
<1>3. CASE ctl[c].goal = "start"
  BY <1>3 DEF Answer
<1>4. CASE ctl[c].goal = "startwait"
  BY <1>4 DEF Answer
<1>5. CASE ctl[c].goal = "stop"
  BY <1>1, <1>5 DEF Answer, Control
<1>6. CASE ctl[c].goal = "stopwait"
  BY <1>6 DEF Answer
<1>7. CASE ctl[c].goal = "enablewait"
  BY <1>7 DEF Answer
<1> QED
  BY <1>1, <1>2, <1>3, <1>4, <1>5, <1>6, <1>7 DEF Goals

LEMMA AnswerTypes ==
  ASSUME ProcTypes, CtlTypes, NEW c \in Controllers, ctl[c].pc \in {"read", "check", "clean"},
         NEW found \in BOOLEAN, Answer(c, found)
  PROVE  ProcTypes' /\ CtlTypes'
<1>1. CASE Finish(c)
  BY <1>1, FinishTypes
<1>2. CASE UNCHANGED procs /\ ctl[c].goal # "none"
           /\ \/ ctl' = [ctl EXCEPT ![c].pc = "read", ![c].seen = None, ![c].tries = Polled(@)]
              \/ ctl' = [ctl EXCEPT ![c].pc = "term"]
              \/ \E pc \in {"spawn", "unsnap", "kill"} :
                   ctl' = [ctl EXCEPT ![c].pc = pc, ![c].seen = None]
  <2>1. ctl[c].tries \in 0..MaxTries /\ MaxTries \in Nat
    BY ServiceAssumption DEF CtlTypes, Control
  <2>2. Polled(ctl[c].tries) \in 0..MaxTries
    BY <2>1 DEF Polled
  <2>3. CtlTypes'
    BY <1>2, <2>2 DEF CtlTypes, Control, Positions
  <2> QED
    BY <1>2, <2>3 DEF ProcTypes
<1>3. ctl[c].goal # "none"
  BY DEF CtlTypes
<1> QED
  BY <1>1, <1>2, <1>3, AnswerSteps

LEMMA SignalTypes ==
  ASSUME ProcTypes, UnitTypes, NEW p, Signal(p)
  PROVE  ProcTypes' /\ systemd' \in {"dead", "running", "waiting", "due"}
<1>1. CASE p \in Alive
  BY <1>1, EndedTypes DEF Signal, UnitAfterEnd, UnitTypes, Alive
<1>2. CASE p \notin Alive
  BY <1>2 DEF Signal, ProcTypes, UnitTypes
<1> QED
  BY <1>1, <1>2

-------------------------------------------------------------------------------
LEMMA ControllerTypes ==
  ASSUME TypeInv, NEW c \in Controllers, ControllerStep(c)
  PROVE  TypeInv'
<1> USE DEF TypeInv
<1>1. CASE ReadPid(c)
  <2>1. CASE pidFile = NoFile
    BY <1>1, <2>1, AnswerTypes DEF ReadPid, FileTypes, UnitTypes
  <2>2. CASE pidFile # NoFile
    <3>1. CtlTypes'
      BY <1>1, <2>2 DEF ReadPid, CtlTypes, Control, Positions, FileTypes
    <3> QED
      BY <1>1, <2>2, <3>1 DEF ReadPid, FileTypes, UnitTypes, ProcTypes
  <2> QED
    BY <2>1, <2>2
<1>2. CASE CheckProc(c)
  <2>1. CASE proc[ctl[c].seen] # "free"
    BY <1>2, <2>1, AnswerTypes DEF CheckProc, FileTypes, UnitTypes
  <2>2. CASE proc[ctl[c].seen] = "free"
    BY <1>2, <2>2, GotoTypes DEF CheckProc, FileTypes, UnitTypes, ProcTypes, Positions
  <2> QED
    BY <2>1, <2>2
<1>3. CASE CleanStale(c)
  BY <1>3, AnswerTypes DEF CleanStale, FileTypes, UnitTypes
<1>4. CASE SpawnDaemon(c)
  <2>1. PICK p \in Pids :
          /\ Spawn(p, "transient", c)
          /\ ctl' = [ctl EXCEPT ![c].pc = "read", ![c].goal = "startwait",
                                ![c].target = p, ![c].tries = MaxTries]
    BY <1>4 DEF SpawnDaemon
  <2>2. ProcTypes'
    BY <2>1, SpawnTypes DEF Modes
  <2>3. CtlTypes'
    <3>1. MaxTries \in 0..MaxTries /\ p \in Pids \union {None}
      BY ServiceAssumption
    <3> QED
      BY <2>1, <3>1, ReadTypes DEF Goals
  <2> QED
    BY <1>4, <2>2, <2>3 DEF SpawnDaemon, FileTypes, UnitTypes
<1>5. CASE SpawnFails(c) \/ RemoveSnap(c) \/ SendKill(c) \/ RemoveFiles(c) \/ WipeRunDir(c)
  <2>1. Finish(c) /\ UNCHANGED <<world, systemd, crashes>>
    BY <1>5 DEF SpawnFails, RemoveSnap, SendKill, RemoveFiles, WipeRunDir
  <2>2. FileTypes'
    BY <1>5 DEF SpawnFails, RemoveSnap, SendKill, RemoveFiles, WipeRunDir, FileTypes
  <2> QED
    BY <2>1, <2>2, FinishTypes DEF UnitTypes
<1>6. CASE SendTerm(c)
  <2>1. CtlTypes'
    <3>1. ctl[c].seen \in Pids \union {None} /\ MaxTries \in 0..MaxTries
      BY ServiceAssumption DEF CtlTypes, Control
    <3> QED
      BY <1>6, <3>1, ReadTypes DEF SendTerm, Goals
  <2> QED
    BY <1>6, <2>1, SignalTypes DEF SendTerm, FileTypes, UnitTypes
<1>7. CASE WriteUnit(c) \/ EnableUnit(c) \/ DisableUnit(c)
  BY <1>7, GotoTypes DEF WriteUnit, EnableUnit, DisableUnit, ProcTypes, FileTypes, UnitTypes,
                         Positions
<1>8. CASE StartUnit(c)
  <2>1. CtlTypes'
    <3>1. MaxTries \in 0..MaxTries
      BY ServiceAssumption
    <3> QED
      BY <1>8, <3>1, ReadTypes DEF StartUnit, Goals
  <2>2. ProcTypes'
    BY <1>8, SpawnTypes DEF StartUnit, ProcTypes, Modes
  <2> QED
    BY <1>8, <2>1, <2>2 DEF StartUnit, FileTypes, UnitTypes
<1>9. CASE StopUnit(c)
  BY <1>9, GotoTypes, ReapTypes DEF StopUnit, FileTypes, UnitTypes, Positions
<1> QED
  BY <1>1, <1>2, <1>3, <1>4, <1>5, <1>6, <1>7, <1>8, <1>9 DEF ControllerStep

LEMMA UserTypes ==
  ASSUME TypeInv, NEW c \in Controllers, UserStep(c)
  PROVE  TypeInv'
<1> USE DEF TypeInv
<1>1. ASSUME NEW goal \in {"look", "start", "stop"}, BeginProbe(c, goal) PROVE TypeInv'
  <2>1. CtlTypes'
    <3>1. 0 \in 0..MaxTries
      BY ServiceAssumption
    <3> QED
      BY <1>1, <3>1, ReadTypes DEF BeginProbe, Goals
  <2> QED
    BY <1>1, <2>1 DEF BeginProbe, ProcTypes, FileTypes, UnitTypes
<1>2. ASSUME NEW pc \in {"e_unit", "d_stop"}, BeginUnitCall(c, pc) PROVE TypeInv'
  BY <1>2, GotoTypes DEF BeginUnitCall, ProcTypes, FileTypes, UnitTypes, Positions
<1>3. CASE BeginTeardown(c)
  BY <1>3, GotoTypes DEF BeginTeardown, ProcTypes, FileTypes, UnitTypes, Positions
<1> QED
  BY <1>1, <1>2, <1>3 DEF UserStep

LEMMA TypeInvStep == TypeInv /\ [Next]_vars => TypeInv'
<1> SUFFICES ASSUME TypeInv, [Next]_vars PROVE TypeInv'
  OBVIOUS
<1> USE DEF TypeInv
<1>1. ASSUME NEW p \in Pids, DaemonStep(p) \/ Publish(p) PROVE TypeInv'
  <2>1. ProcTypes' /\ FileTypes'
    <3>1. CASE Announce(p)
      <4>1. mode[p] \in Modes
        BY <3>1 DEF Announce, ProcTypes
      <4> QED
        BY <3>1, <4>1 DEF Announce, ProcTypes, FileTypes, ProcStates
    <3>2. CASE EnterLoop(p)
      BY <3>2 DEF EnterLoop, ProcTypes, FileTypes, ProcStates
    <3>3. CASE Publish(p)
      BY <3>3 DEF Publish, ProcTypes, FileTypes
    <3> QED
      BY <1>1, <3>1, <3>2, <3>3 DEF DaemonStep
  <2>2. UnitTypes' /\ CtlTypes'
    BY <1>1 DEF DaemonStep, Announce, EnterLoop, Publish, UnitTypes, CtlTypes
  <2> QED
    BY <2>1, <2>2
<1>2. ASSUME NEW p \in Pids, GiveUp(p) \/ Crash(p) PROVE TypeInv'
  <2>1. ProcTypes'
    BY <1>2, EndedTypes DEF GiveUp, Crash, Alive
  <2>2. FileTypes' /\ CtlTypes'
    BY <1>2 DEF GiveUp, Crash, FileTypes, CtlTypes
  <2>3. UnitTypes'
    BY <1>2, ServiceAssumption DEF GiveUp, Crash, UnitAfterEnd, UnitTypes
  <2> QED
    BY <2>1, <2>2, <2>3
<1>3. ASSUME NEW p \in Pids, SystemdRestart(p) PROVE TypeInv'
  BY <1>3, SpawnTypes DEF SystemdRestart, FileTypes, UnitTypes, CtlTypes, Modes
<1>4. CASE RestartDelay
  BY <1>4 DEF RestartDelay, ProcTypes, FileTypes, UnitTypes, CtlTypes
<1>5. CASE Reboot
  <2>1. CtlTypes'
    BY <1>5, IdleIsControl DEF Reboot, CtlTypes
  <2>2. UnitTypes'
    BY <1>5, ServiceAssumption DEF Reboot, UnitTypes
  <2> QED
    BY <1>5, <2>1, <2>2, ReapTypes DEF Reboot, FileTypes
<1>6. CASE UNCHANGED vars
  BY <1>6 DEF vars, ProcTypes, FileTypes, UnitTypes, CtlTypes
<1> QED
  BY <1>1, <1>2, <1>3, <1>4, <1>5, <1>6, ControllerTypes, UserTypes DEF Next

\* Every variable keeps its type with any number of callers and daemons: no call
\* waits for an answer it did not ask for.
THEOREM ServiceTypes == Spec => []TypeOK
BY TypeInvInit, TypeInvStep, TypeInvIsTypeOK, PTL DEF Spec

-------------------------------------------------------------------------------
\* Without overlap one call runs at a time, and a unit that is gone or about to go
\* has nothing that runs and nothing that would start.
Stopping(c) == ctl[c].pc \in {"d_disable", "d_files"}

OneCall == \A c, d \in Controllers : ctl[c] # Idle /\ ctl[d] # Idle => c = d

Stopped == systemd = "dead" /\ UnitDaemons = {}

UnitInv ==
  "overlap" \notin world =>
    OneCall /\ (~unitFile \/ (\E c \in Controllers : Stopping(c)) => Stopped)

LEMMA UnitInit == Init => UnitInv
BY IdleIsControl DEF Init, UnitInv, OneCall, Stopped, Stopping, UnitDaemons, Alive

\* How a call uses its controller: the other ones stay as they are.
LEMMA OneAtATime ==
  ASSUME TypeInv, NEW c \in Controllers, ControllerStep(c) \/ UserStep(c)
  PROVE  \A d \in Controllers : d # c => ctl'[d] = ctl[d]
<1>1. ASSUME NEW found \in BOOLEAN, Answer(c, found), ctl[c].pc \in {"read", "check", "clean"}
      PROVE  \A d \in Controllers : d # c => ctl'[d] = ctl[d]
  BY <1>1, AnswerSteps DEF Finish, TypeInv, CtlTypes
<1>2. CASE UserStep(c)
  BY <1>2 DEF UserStep, BeginProbe, BeginUnitCall, BeginTeardown, Goto, TypeInv, CtlTypes
<1>3. CASE ReadPid(c) \/ CheckProc(c) \/ CleanStale(c)
  BY <1>1, <1>3 DEF ReadPid, CheckProc, CleanStale, Goto, TypeInv, CtlTypes
<1>4. CASE SpawnDaemon(c) \/ SendTerm(c) \/ WriteUnit(c) \/ EnableUnit(c) \/ StartUnit(c)
           \/ StopUnit(c) \/ DisableUnit(c)
  BY <1>4 DEF SpawnDaemon, SendTerm, WriteUnit, EnableUnit, StartUnit, StopUnit, DisableUnit,
              Goto, TypeInv, CtlTypes
<1>5. CASE SpawnFails(c) \/ RemoveSnap(c) \/ SendKill(c) \/ RemoveFiles(c) \/ WipeRunDir(c)
  BY <1>5 DEF SpawnFails, RemoveSnap, SendKill, RemoveFiles, WipeRunDir, Finish, TypeInv,
              CtlTypes
<1> QED
  BY <1>2, <1>3, <1>4, <1>5 DEF ControllerStep

\* A call of one controller leaves one call at a time, where calls do not overlap.
LEMMA OneCallStays ==
  ASSUME TypeInv, "overlap" \notin world, OneCall, NEW c \in Controllers,
         ControllerStep(c) \/ UserStep(c)
  PROVE  OneCall' /\ \A d \in Controllers : d # c => ctl[d] = Idle /\ ctl'[d] = Idle
<1>1. \A d \in Controllers : d # c => ctl[d] = Idle
  <2>1. CASE ControllerStep(c)
    <3>1. ctl[c].pc # "idle"
      BY <2>1 DEF ControllerStep, ReadPid, CheckProc, CleanStale, SpawnDaemon, SpawnFails,
         SendTerm, RemoveSnap, SendKill, WriteUnit, EnableUnit, StartUnit, StopUnit, DisableUnit,
         RemoveFiles, WipeRunDir
    <3> QED
      BY <3>1, IdleIsControl DEF OneCall
  <2>2. CASE UserStep(c)
    BY <2>2 DEF UserStep, BeginProbe, BeginUnitCall, BeginTeardown, MayBegin
  <2> QED
    BY <2>1, <2>2
<1> QED
  BY <1>1, OneAtATime DEF OneCall

\* systemd alone starts daemons for the unit: what ends, is reaped or is inherited
\* by init adds none, and a dead unit stays dead.
UnitShrinks ==
  /\ UnitDaemons' \subseteq UnitDaemons
  /\ systemd = "dead" => systemd' = "dead"

LEMMA ProcsShrink ==
  ASSUME TypeInv,
         \/ UNCHANGED procs
         \/ \E gone \in SUBSET Pids : Reap(gone)
         \/ \E p \in Pids : Ended(p)
         \/ \E c \in Controllers : Finish(c)
  PROVE  UnitDaemons' \subseteq UnitDaemons
<1> USE DEF UnitDaemons, Alive, TypeInv, ProcTypes
<1>1. ASSUME NEW gone, Reap(gone) PROVE UnitDaemons' \subseteq UnitDaemons
  BY <1>1 DEF Reap
<1>2. ASSUME NEW p \in Pids, Ended(p) PROVE UnitDaemons' \subseteq UnitDaemons
  BY <1>1, <1>2 DEF Ended
<1>3. ASSUME NEW c \in Controllers, Finish(c) PROVE UnitDaemons' \subseteq UnitDaemons
  BY <1>3 DEF Finish
<1>4. ASSUME UNCHANGED procs PROVE UnitDaemons' \subseteq UnitDaemons
  BY <1>4
<1> QED
  BY <1>1, <1>2, <1>3, <1>4

LEMMA CallShrinks ==
  ASSUME TypeInv, NEW c \in Controllers, ControllerStep(c) \/ UserStep(c), ~StartUnit(c)
  PROVE  UnitShrinks
<1>1. ASSUME NEW found \in BOOLEAN, Answer(c, found), ctl[c].pc \in {"read", "check", "clean"}
      PROVE  UnitDaemons' \subseteq UnitDaemons
  <2>1. Finish(c) \/ UNCHANGED procs
    BY <1>1, AnswerSteps DEF TypeInv
  <2> QED
    BY <2>1, ProcsShrink
<1>2. CASE ReadPid(c) \/ CheckProc(c) \/ CleanStale(c)
  BY <1>1, <1>2, ProcsShrink DEF ReadPid, CheckProc, CleanStale, UnitShrinks
<1>3. CASE SpawnDaemon(c)
  BY <1>3, ServiceAssumption DEF SpawnDaemon, Spawn, UnitShrinks, UnitDaemons, Alive, TypeInv,
                                 ProcTypes
<1>4. CASE SendTerm(c)
  BY <1>4, ProcsShrink DEF SendTerm, Signal, UnitAfterEnd, Alive, UnitShrinks
<1>5. CASE SpawnFails(c) \/ RemoveSnap(c) \/ SendKill(c) \/ RemoveFiles(c) \/ WipeRunDir(c)
  BY <1>5, ProcsShrink DEF SpawnFails, RemoveSnap, SendKill, RemoveFiles, WipeRunDir, UnitShrinks
<1>6. CASE WriteUnit(c) \/ EnableUnit(c) \/ DisableUnit(c)
  BY <1>6, ProcsShrink DEF WriteUnit, EnableUnit, DisableUnit, UnitShrinks
<1>7. CASE StopUnit(c)
  <2>1. UnitDaemons \subseteq Pids
    BY DEF UnitDaemons, Alive
  <2> QED
    BY <1>7, <2>1, ProcsShrink DEF StopUnit, UnitShrinks
<1>8. CASE UserStep(c)
  BY <1>8, ProcsShrink DEF UserStep, BeginProbe, BeginUnitCall, BeginTeardown, UnitShrinks
<1> QED
  BY <1>2, <1>3, <1>4, <1>5, <1>6, <1>7, <1>8 DEF ControllerStep

LEMMA DaemonShrinks ==
  ASSUME TypeInv, NEW p \in Pids, DaemonStep(p) \/ Publish(p) \/ GiveUp(p) \/ Crash(p)
  PROVE  UnitShrinks
<1>1. CASE DaemonStep(p)
  BY <1>1 DEF DaemonStep, Announce, EnterLoop, UnitShrinks, UnitDaemons, Alive, TypeInv, ProcTypes
<1>2. CASE Publish(p)
  BY <1>2, ProcsShrink DEF Publish, UnitShrinks
<1>3. CASE GiveUp(p) \/ Crash(p)
  BY <1>3, ProcsShrink DEF GiveUp, Crash, UnitAfterEnd, UnitShrinks
<1> QED
  BY <1>1, <1>2, <1>3

LEMMA ShrinksStopped ==
  ASSUME UnitShrinks
  PROVE  Stopped => Stopped'
BY DEF UnitShrinks, Stopped

\* The steps that can make the unit file go, or a disable come closer to it.
LEMMA GoingWasStopped ==
  ASSUME TypeInv, NEW c \in Controllers, ControllerStep(c) \/ UserStep(c), ~StopUnit(c),
         ~unitFile' \/ Stopping(c)'
  PROVE  ~unitFile \/ Stopping(c)
<1>0. ctl \in [Controllers -> Control]
  BY DEF TypeInv, CtlTypes
<1>1. Stopping(c)' => Stopping(c)
  <2>1. ASSUME NEW pc, Goto(c, pc), pc \notin {"d_disable", "d_files"} PROVE ~Stopping(c)'
    BY <1>0, <2>1 DEF Goto, Stopping, Control
  <2>2. ASSUME Finish(c) PROVE ~Stopping(c)'
    BY <1>0, <2>2, IdleIsControl DEF Finish, Stopping
  <2>3. ASSUME NEW found \in BOOLEAN, Answer(c, found), ctl[c].pc \in {"read", "check", "clean"}
        PROVE  ~Stopping(c)'
    <3>1. CASE Finish(c)
      BY <2>2, <3>1
    <3>2. CASE ~Finish(c)
      <4>1. \/ ctl' = [ctl EXCEPT ![c].pc = "read", ![c].seen = None, ![c].tries = Polled(@)]
            \/ ctl' = [ctl EXCEPT ![c].pc = "term"]
            \/ \E pc \in {"spawn", "unsnap", "kill"} :
                 ctl' = [ctl EXCEPT ![c].pc = pc, ![c].seen = None]
        BY <2>3, <3>2, AnswerSteps DEF TypeInv
      <4>2. ctl'[c].pc \in {"read", "term", "spawn", "unsnap", "kill"}
        BY <1>0, <4>1 DEF Control
      <4> QED
        BY <4>2 DEF Stopping
    <3> QED
      BY <3>1, <3>2
  <2>4. CASE ReadPid(c)
    <3>1. CASE pidFile = NoFile
      BY <2>3, <2>4, <3>1 DEF ReadPid
    <3>2. CASE pidFile # NoFile
      BY <1>0, <2>4, <3>2 DEF ReadPid, Stopping, Control
    <3> QED
      BY <3>1, <3>2
  <2>5. CASE CheckProc(c) \/ CleanStale(c)
    BY <2>1, <2>3, <2>5 DEF CheckProc, CleanStale
  <2>6. CASE SpawnDaemon(c) \/ SendTerm(c) \/ StartUnit(c)
    <3>1. CASE SpawnDaemon(c)
      BY <1>0, <3>1 DEF SpawnDaemon, Stopping, Control
    <3>2. CASE SendTerm(c)
      BY <1>0, <3>2 DEF SendTerm, Stopping, Control
    <3>3. CASE StartUnit(c)
      BY <1>0, <3>3 DEF StartUnit, Stopping, Control
    <3> QED
      BY <2>6, <3>1, <3>2, <3>3
  <2>7. CASE WriteUnit(c) \/ EnableUnit(c)
    BY <2>1, <2>7 DEF WriteUnit, EnableUnit
  <2>8. CASE DisableUnit(c)
    BY <2>8 DEF DisableUnit, Stopping
  <2>9. CASE SpawnFails(c) \/ RemoveSnap(c) \/ SendKill(c) \/ RemoveFiles(c) \/ WipeRunDir(c)
    BY <2>2, <2>9 DEF SpawnFails, RemoveSnap, SendKill, RemoveFiles, WipeRunDir
  <2>10. CASE UserStep(c)
    <3>1. CASE \E goal \in {"look", "start", "stop"} : BeginProbe(c, goal)
      BY <1>0, <3>1 DEF BeginProbe, Stopping, Control
    <3>2. CASE \E pc \in {"e_unit", "d_stop"} : BeginUnitCall(c, pc)
      BY <2>1, <3>2 DEF BeginUnitCall
    <3>3. CASE BeginTeardown(c)
      BY <2>1, <3>3 DEF BeginTeardown
    <3> QED
      BY <2>10, <3>1, <3>2, <3>3 DEF UserStep
  <2> QED
    BY <2>4, <2>5, <2>6, <2>7, <2>8, <2>9, <2>10 DEF ControllerStep
<1>2. unitFile' = unitFile \/ WriteUnit(c) \/ RemoveFiles(c)
  BY DEF ControllerStep, UserStep, ReadPid, CheckProc, CleanStale, SpawnDaemon, SpawnFails,
         SendTerm, RemoveSnap, SendKill, EnableUnit, StartUnit, StopUnit, DisableUnit, WipeRunDir,
         BeginProbe, BeginUnitCall, BeginTeardown
<1>3. WriteUnit(c) => unitFile'
  BY DEF WriteUnit
<1>4. RemoveFiles(c) => Stopping(c)
  BY DEF RemoveFiles, Stopping
<1> QED
  BY <1>1, <1>2, <1>3, <1>4

LEMMA UnitStep == TypeInv /\ UnitInv /\ [Next]_vars => UnitInv'
<1> SUFFICES ASSUME TypeInv, UnitInv, [Next]_vars, "overlap" \notin world'
             PROVE  OneCall' /\ (~unitFile' \/ (\E c \in Controllers : Stopping(c)') => Stopped')
  BY DEF UnitInv
<1>0. "overlap" \notin world /\ OneCall
      /\ (~unitFile \/ (\E c \in Controllers : Stopping(c)) => Stopped)
  <2>1. world' = world
    BY DEF Next, ControllerStep, UserStep, DaemonStep, ReadPid, CheckProc, CleanStale, SpawnDaemon,
       SpawnFails, SendTerm, RemoveSnap, SendKill, WriteUnit, EnableUnit, StartUnit, StopUnit,
       DisableUnit, RemoveFiles, WipeRunDir, BeginProbe, BeginUnitCall, BeginTeardown, Announce,
       EnterLoop, Publish, GiveUp, Crash, SystemdRestart, RestartDelay, Reboot, vars
  <2> QED
    BY <2>1 DEF UnitInv
<1>1. ASSUME UNCHANGED ctl, unitFile' = unitFile, Stopped => Stopped'
      PROVE  OneCall' /\ (~unitFile' \/ (\E c \in Controllers : Stopping(c)') => Stopped')
  BY <1>0, <1>1 DEF OneCall, Stopping
<1>2. ASSUME NEW c \in Controllers, ControllerStep(c) \/ UserStep(c)
      PROVE  OneCall' /\ (~unitFile' \/ (\E d \in Controllers : Stopping(d)') => Stopped')
  <2>1. OneCall' /\ \A d \in Controllers : d # c => ctl[d] = Idle /\ ctl'[d] = Idle
    BY <1>0, <1>2, OneCallStays
  <2>2. (\E d \in Controllers : Stopping(d)') => Stopping(c)'
    BY <2>1, IdleIsControl DEF Stopping
  <2>3. ctl \in [Controllers -> Control]
    BY DEF TypeInv, CtlTypes
  <2>4. CASE StartUnit(c)
    <3>1. ~Stopping(c)'
      BY <2>3, <2>4 DEF StartUnit, Stopping
    <3>2. ~unitFile' => UNCHANGED <<procs, systemd>> /\ ~unitFile
      BY <2>4 DEF StartUnit
    <3> QED
      BY <1>0, <2>1, <2>2, <3>1, <3>2 DEF Stopped, UnitDaemons, Alive
  <2>5. CASE StopUnit(c)
    <3>1. UnitDaemons' = {}
      BY <2>5 DEF StopUnit, Reap, UnitDaemons, Alive
    <3> QED
      BY <2>1, <2>5, <3>1 DEF StopUnit, Stopped
  <2>6. CASE ~StartUnit(c) /\ ~StopUnit(c)
    <3>1. Stopped => Stopped'
      BY <1>2, <2>6, CallShrinks, ShrinksStopped
    <3>2. ~unitFile' \/ Stopping(c)' => ~unitFile \/ Stopping(c)
      BY <1>2, <2>6, GoingWasStopped
    <3> QED
      BY <1>0, <2>1, <2>2, <3>1, <3>2
  <2> QED
    BY <2>4, <2>5, <2>6
<1>3. ASSUME NEW p \in Pids, DaemonStep(p) \/ Publish(p) \/ GiveUp(p) \/ Crash(p)
      PROVE  OneCall' /\ (~unitFile' \/ (\E d \in Controllers : Stopping(d)') => Stopped')
  <2>1. UNCHANGED ctl /\ unitFile' = unitFile
    BY <1>3 DEF DaemonStep, Announce, EnterLoop, Publish, GiveUp, Crash
  <2> QED
    BY <1>1, <1>3, <2>1, DaemonShrinks, ShrinksStopped
<1>4. ASSUME NEW p \in Pids, SystemdRestart(p)
      PROVE  OneCall' /\ (~unitFile' \/ (\E d \in Controllers : Stopping(d)') => Stopped')
  <2>1. UNCHANGED ctl /\ unitFile' = unitFile /\ systemd = "due"
    BY <1>4 DEF SystemdRestart
  <2> QED
    BY <1>1, <2>1 DEF Stopped
<1>5. CASE RestartDelay
  <2>1. UNCHANGED ctl /\ unitFile' = unitFile /\ systemd = "waiting"
    BY <1>5 DEF RestartDelay
  <2> QED
    BY <1>1, <2>1 DEF Stopped
<1>6. CASE Reboot
  <2>1. \A c \in Controllers : ctl'[c] = Idle
    BY <1>6 DEF Reboot
  <2>2. UnitDaemons' = {}
    BY <1>6 DEF Reboot, Reap, UnitDaemons, Alive
  <2>3. unitFile' = unitFile /\ (~unitFile => systemd' = "dead")
    BY <1>6 DEF Reboot
  <2> QED
    BY <2>1, <2>2, <2>3, IdleIsControl DEF OneCall, Stopping, Stopped
<1>7. CASE UNCHANGED vars
  <2>1. UNCHANGED ctl /\ unitFile' = unitFile /\ UNCHANGED <<procs, systemd>>
    BY <1>7 DEF vars
  <2> QED
    BY <1>1, <2>1 DEF Stopped, UnitDaemons, Alive
<1> QED
  BY <1>2, <1>3, <1>4, <1>5, <1>6, <1>7 DEF Next

\* A unit whose file is gone has no daemon and starts none: disable stops the unit
\* before it removes the file, and only an enable brings it back.
THEOREM DisabledIsStoppedAlways == Spec => []DisabledIsStopped
<1>1. UnitInv => DisabledIsStopped
  BY DEF UnitInv, Stopped, DisabledIsStopped
<1> QED
  BY <1>1, TypeInvInit, TypeInvStep, UnitInit, UnitStep, PTL DEF Spec

-------------------------------------------------------------------------------
\* The orderly worlds.  A daemon that has not written its PID file yet is waited for
\* by the call that spawned it; one that has is the one the file names.
NoUnit ==
  /\ ~unitFile /\ systemd = "dead"
  /\ \A p \in Pids : parent[p] # "systemd"

Awaits(c, p) ==
  ctl[c].pc = "read" /\ ctl[c].goal = "startwait" /\ ctl[c].target = p

Known ==
  /\ \A p \in Pids : proc[p] = "spawned" => pidFile = NoFile /\ \E c \in Controllers : Awaits(c, p)
  /\ \A p \in Announced : pidFile = p

\* What a call may rely on where it stands: the file it has read still names that
\* process or is gone, and nothing lives where it removes files or spawns.
CallKnows(c) ==
  /\ ctl[c].pc \in {"idle", "read", "check", "clean", "spawn", "term", "unsnap", "kill"}
  /\ ctl[c].goal # "enablewait"
  /\ ctl[c].pc \in {"check", "term"} => pidFile \in {ctl[c].seen, NoFile}
  /\ ctl[c].pc \in {"clean", "spawn"} \/ ctl[c].goal = "stopwait" => Alive = {}
  /\ ctl[c].pc = "spawn" => pidFile = NoFile
  /\ ctl[c].pc = "term" => ctl[c].goal = "stop"
  /\ ctl[c].pc \in {"unsnap", "kill"} => ctl[c].goal = "stopwait"

OrderInv ==
  Orderly => NoUnit /\ OneCall /\ Known /\ \A c \in Controllers : CallKnows(c)

LEMMA OrderInit == Init => OrderInv
BY IdleIsControl, ServiceAssumption
   DEF Init, OrderInv, NoUnit, OneCall, Known, CallKnows, Announced, Alive, Idle

\* What ends is not alive, and what is alive is what it was.
LEMMA FallKeeps ==
  ASSUME TypeInv,
         \/ UNCHANGED procs
         \/ \E p \in Pids : Ended(p)
         \/ \E c \in Controllers : Finish(c)
  PROVE  /\ \A p \in Pids : proc'[p] \in {"spawned", "setup", "loop"} => proc'[p] = proc[p]
         /\ \A p \in Pids : parent[p] # "systemd" => parent'[p] # "systemd"
         /\ Alive' \subseteq Alive /\ Announced' \subseteq Announced
<1> USE DEF TypeInv, ProcTypes
<1>1. /\ \A p \in Pids : proc'[p] \in {"spawned", "setup", "loop"} => proc'[p] = proc[p]
      /\ \A p \in Pids : parent[p] # "systemd" => parent'[p] # "systemd"
  <2>1. CASE UNCHANGED procs
    BY <2>1
  <2>2. ASSUME NEW p \in Pids, Ended(p)
        PROVE  /\ \A q \in Pids : proc'[q] \in {"spawned", "setup", "loop"} => proc'[q] = proc[q]
               /\ \A q \in Pids : parent[q] # "systemd" => parent'[q] # "systemd"
    BY <2>2 DEF Ended, Reap
  <2>3. ASSUME NEW c \in Controllers, Finish(c)
        PROVE  /\ \A q \in Pids : proc'[q] \in {"spawned", "setup", "loop"} => proc'[q] = proc[q]
               /\ \A q \in Pids : parent[q] # "systemd" => parent'[q] # "systemd"
    BY <2>3 DEF Finish
  <2> QED
    BY <2>1, <2>2, <2>3
<1> QED
  BY <1>1 DEF Alive, Announced

\* A call finds all that lives through the PID file, unless it waits for it itself.
LEMMA CallOrder ==
  ASSUME TypeInv, Orderly, NoUnit, OneCall, Known, \A d \in Controllers : CallKnows(d),
         NEW c \in Controllers, ControllerStep(c) \/ UserStep(c)
  PROVE  NoUnit' /\ OneCall' /\ Known' /\ \A d \in Controllers : CallKnows(d)'
<1>1. {"overlap", "unit", "teardown", "slow"} \intersect world = {}
  BY DEF Orderly
<1>2. OneCall' /\ \A d \in Controllers : d # c => ctl[d] = Idle /\ ctl'[d] = Idle
  BY <1>1, OneCallStays
<1>3. \A p \in Pids : proc[p] = "spawned" => pidFile = NoFile /\ Awaits(c, p)
  BY <1>2, IdleIsControl DEF Known, Awaits
<1>4. \A d \in Controllers : d # c => CallKnows(d)'
  BY <1>2 DEF CallKnows, Idle
<1>5. SUFFICES NoUnit' /\ Known' /\ CallKnows(c)'
  BY <1>2, <1>4
<1>6. /\ ctl \in [Controllers -> Control] /\ NoFile \notin Pids /\ None \notin Pids
      /\ pidFile \in Pids \union {NoFile} /\ CallKnows(c)
  BY ServiceAssumption DEF TypeInv, CtlTypes, FileTypes
<1>7. ASSUME Finish(c), \A p \in Pids : proc[p] # "spawned", UNCHANGED <<unitFile, systemd>>,
             pidFile' = pidFile \/ Alive = {}
      PROVE  NoUnit' /\ Known' /\ CallKnows(c)'
  <2>1. /\ \A p \in Pids : proc'[p] \in {"spawned", "setup", "loop"} => proc'[p] = proc[p]
        /\ \A p \in Pids : parent[p] # "systemd" => parent'[p] # "systemd"
        /\ Alive' \subseteq Alive /\ Announced' \subseteq Announced
    BY <1>7, FallKeeps
  <2>2. NoUnit'
    BY <1>7, <2>1 DEF NoUnit
  <2>3. Known'
    BY <1>7, <2>1 DEF Known, Alive, Announced
  <2>4. CallKnows(c)'
    BY <1>6, <1>7 DEF Finish, CallKnows, Idle
  <2> QED
    BY <2>2, <2>3, <2>4
<1>8. ASSUME UNCHANGED procs, UNCHANGED <<unitFile, systemd>> PROVE NoUnit' /\ Alive' = Alive
                                                                   /\ Announced' = Announced
  BY <1>8 DEF NoUnit, Alive, Announced
<1>9. ASSUME Answer(c, TRUE), ctl[c].pc = "check", UNCHANGED <<unitFile, systemd, pidFile>>
      PROVE  NoUnit' /\ Known' /\ CallKnows(c)'
  <2>1. \A p \in Pids : proc[p] # "spawned"
    BY <1>3, <1>9 DEF Awaits
  <2>2. CASE Finish(c)
    BY <1>7, <1>9, <2>1, <2>2
  <2>3. CASE ~Finish(c)
    <3>0. /\ UNCHANGED procs
          /\ \/ /\ ctl[c].goal = "stopwait"
                /\ \/ ctl' = [ctl EXCEPT ![c].pc = "read", ![c].seen = None,
                                         ![c].tries = Polled(@)]
                   \/ \E pc \in {"unsnap", "kill"} :
                        ctl' = [ctl EXCEPT ![c].pc = pc, ![c].seen = None]
             \/ ctl[c].goal = "stop" /\ ctl' = [ctl EXCEPT ![c].pc = "term"]
      <4>1. TRUE \in BOOLEAN /\ ctl[c].pc \in {"read", "check", "clean"} /\ CtlTypes
        BY <1>9 DEF TypeInv
      <4> HIDE DEF procs
      <4> QED
        BY <1>9, <2>3, <4>1, AnswerSteps
    <3>1. /\ UNCHANGED procs
          /\ \/ /\ ctl[c].goal = "stopwait"
                /\ \E pc \in {"read", "unsnap", "kill"} :
                     ctl'[c].pc = pc /\ ctl'[c].goal = "stopwait"
             \/ /\ ctl[c].goal = "stop"
                /\ ctl'[c].pc = "term" /\ ctl'[c].goal = "stop" /\ ctl'[c].seen = ctl[c].seen
      BY <1>6, <3>0 DEF Control
    <3>2. NoUnit' /\ Alive' = Alive /\ Announced' = Announced
      BY <1>8, <1>9, <3>1
    <3>3. CallKnows(c)'
      BY <1>6, <1>9, <3>1, <3>2 DEF CallKnows
    <3>4. Known'
      BY <1>9, <2>1, <3>1, <3>2 DEF Known
    <3> QED
      BY <3>2, <3>3, <3>4
  <2> QED
    BY <2>2, <2>3
<1>10. ASSUME Answer(c, FALSE), ctl[c].pc \in {"read", "clean"}, UNCHANGED <<unitFile, systemd>>,
              pidFile' = NoFile, Announced = {}
       PROVE  NoUnit' /\ Known' /\ CallKnows(c)'
  <2>1. ctl[c].goal # "startwait" => Alive = {}
    BY <1>3, <1>10 DEF Awaits, Alive, Announced
  <2>2. CASE Finish(c)
    <3>1. \A p \in Pids : proc[p] # "spawned"
      <4>1. FALSE \in BOOLEAN /\ ctl[c].pc \in {"read", "check", "clean"} /\ CtlTypes
        BY <1>10 DEF TypeInv
      <4>2. \/ ctl[c].goal # "startwait"
            \/ "slow" \in world
            \/ ctl[c].target # None => proc[ctl[c].target] # "spawned"
        <5>1. ctl'[c].pc = "idle"
          BY <1>6, <2>2, IdleIsControl DEF Finish
        <5>2. ctl' # [ctl EXCEPT ![c].pc = "read", ![c].seen = None, ![c].tries = Polled(@)]
          BY <1>6, <5>1 DEF Control
        <5> HIDE DEF procs
        <5> QED
          BY <1>10, <4>1, <5>2, AnswerSteps
      <4> QED
        BY <1>1, <1>3, <1>6, <4>2 DEF Awaits
    <3>2. Alive = {}
      BY <1>10, <3>1 DEF Alive, Announced
    <3> QED
      BY <1>7, <1>10, <2>2, <3>1, <3>2
  <2>3. CASE ~Finish(c)
    <3>0. /\ UNCHANGED procs
          /\ \/ /\ ctl[c].goal \in {"startwait", "stopwait", "enablewait"}
                /\ ctl' = [ctl EXCEPT ![c].pc = "read", ![c].seen = None,
                                      ![c].tries = Polled(@)]
             \/ /\ ctl[c].goal = "start"
                /\ ctl' = [ctl EXCEPT ![c].pc = "spawn", ![c].seen = None]
             \/ /\ ctl[c].goal = "stopwait"
                /\ \E pc \in {"unsnap", "kill"} :
                     ctl' = [ctl EXCEPT ![c].pc = pc, ![c].seen = None]
      <4>1. FALSE \in BOOLEAN /\ ctl[c].pc \in {"read", "check", "clean"} /\ CtlTypes
        BY <1>10 DEF TypeInv
      <4> HIDE DEF procs
      <4> QED
        BY <1>10, <2>3, <4>1, AnswerSteps
    <3>1. /\ UNCHANGED procs
          /\ \/ /\ ctl[c].goal = "startwait"
                /\ ctl'[c].pc = "read" /\ ctl'[c].goal = "startwait"
                /\ ctl'[c].target = ctl[c].target
             \/ ctl[c].goal = "start" /\ ctl'[c].pc = "spawn" /\ ctl'[c].goal = "start"
             \/ /\ ctl[c].goal = "stopwait"
                /\ \E pc \in {"read", "unsnap", "kill"} :
                     ctl'[c].pc = pc /\ ctl'[c].goal = "stopwait"
      BY <1>6, <3>0 DEF Control, CallKnows
    <3>2. NoUnit' /\ Alive' = Alive /\ Announced' = Announced
      BY <1>8, <1>10, <3>1
    <3>3. CallKnows(c)'
      BY <1>6, <1>10, <2>1, <3>1, <3>2 DEF CallKnows
    <3>4. ASSUME NEW p \in Pids, proc'[p] = "spawned" PROVE Awaits(c, p)'
      <4>1. proc[p] = "spawned"
        BY <3>1, <3>4
      <4>2. Awaits(c, p)
        BY <1>3, <4>1
      <4> QED
        BY <3>1, <4>2 DEF Awaits
    <3>5. Known'
      BY <1>10, <3>2, <3>4 DEF Known
    <3> QED
      BY <3>2, <3>3, <3>5
  <2> QED
    BY <2>2, <2>3
<1>11. pidFile = NoFile => Announced = {}
  BY <1>6 DEF Known, Announced
<1>12. CASE ReadPid(c)
  <2>1. CASE pidFile = NoFile
    BY <1>10, <1>11, <1>12, <2>1 DEF ReadPid
  <2>2. CASE pidFile # NoFile
    <3>1. /\ UNCHANGED procs /\ UNCHANGED <<unitFile, systemd, pidFile>>
          /\ ctl'[c].pc = "check" /\ ctl'[c].seen = pidFile /\ ctl'[c].goal = ctl[c].goal
      BY <1>6, <1>12, <2>2 DEF ReadPid, Control
    <3>2. NoUnit' /\ Alive' = Alive /\ Announced' = Announced
      BY <1>8, <3>1
    <3>3. CallKnows(c)'
      BY <1>6, <3>1, <3>2 DEF CallKnows
    <3>4. Known'
      BY <1>3, <2>2, <3>1, <3>2 DEF Known
    <3> QED
      BY <3>2, <3>3, <3>4
  <2> QED
    BY <2>1, <2>2
<1>13. CASE CheckProc(c)
  <2>1. CASE proc[ctl[c].seen] # "free"
    BY <1>9, <1>13, <2>1 DEF CheckProc
  <2>2. CASE proc[ctl[c].seen] = "free"
    <3>1. /\ UNCHANGED procs /\ UNCHANGED <<unitFile, systemd, pidFile>>
          /\ ctl[c].pc = "check" /\ ctl'[c].pc = "clean" /\ ctl'[c].goal = ctl[c].goal
      BY <1>6, <1>13, <2>2 DEF CheckProc, Goto, Control
    <3>2. NoUnit' /\ Alive' = Alive /\ Announced' = Announced
      BY <1>8, <3>1
    <3>3. \A p \in Pids : proc[p] # "spawned"
      BY <1>3, <3>1 DEF Awaits
    <3>4. Announced = {}
      BY <1>6, <2>2, <3>1 DEF Known, CallKnows, Announced
    <3>5. Alive = {}
      BY <3>3, <3>4 DEF Alive, Announced
    <3>6. CallKnows(c)'
      BY <1>6, <3>1, <3>2, <3>5 DEF CallKnows
    <3>7. Known'
      BY <3>1, <3>2, <3>3 DEF Known
    <3> QED
      BY <3>2, <3>6, <3>7
  <2> QED
    BY <2>1, <2>2
<1>14. CASE CleanStale(c)
  <2>1. ctl[c].pc = "clean" /\ Alive = {}
    BY <1>6, <1>14 DEF CleanStale, CallKnows
  <2>2. Announced = {}
    BY <2>1 DEF Alive, Announced
  <2> QED
    BY <1>10, <1>14, <2>1, <2>2 DEF CleanStale
<1>15. CASE SpawnDaemon(c)
  <2>1. Alive = {} /\ pidFile = NoFile /\ pidFile' = pidFile /\ UNCHANGED <<unitFile, systemd>>
    BY <1>6, <1>15 DEF SpawnDaemon, CallKnows
  <2>2. PICK p \in Pids :
          /\ Spawn(p, "transient", c)
          /\ ctl' = [ctl EXCEPT ![c].pc = "read", ![c].goal = "startwait",
                                ![c].target = p, ![c].tries = MaxTries]
    BY <1>15 DEF SpawnDaemon
  <2>3. Awaits(c, p)' /\ ctl'[c].pc = "read" /\ ctl'[c].goal = "startwait"
    BY <1>6, <2>2 DEF Awaits, Control
  <2>4. /\ proc'[p] = "spawned"
        /\ \A q \in Pids \ {p} : proc'[q] = proc[q] /\ parent'[q] = parent[q]
        /\ parent'[p] = c
    BY <2>2 DEF Spawn, TypeInv, ProcTypes
  <2>5. c # "systemd"
    BY ServiceAssumption
  <2>6. NoUnit'
    BY <2>1, <2>4, <2>5 DEF NoUnit
  <2>7. \A q \in Pids : proc'[q] \in {"spawned", "setup", "loop"} => q = p
    BY <2>1, <2>4 DEF Alive
  <2>8. Known'
    BY <2>1, <2>3, <2>4, <2>7 DEF Known, Announced
  <2>9. CallKnows(c)'
    BY <2>3 DEF CallKnows
  <2> QED
    BY <2>6, <2>8, <2>9
<1>16. CASE SpawnFails(c)
  <2>1. Alive = {}
    BY <1>6, <1>16 DEF SpawnFails, CallKnows
  <2> QED
    BY <1>7, <1>16, <2>1 DEF SpawnFails, Alive
<1>17. CASE SendTerm(c)
  <2>1. /\ ctl'[c].pc = "read" /\ ctl'[c].goal = "stopwait"
        /\ ctl[c].pc = "term" /\ pidFile' = pidFile /\ unitFile' = unitFile
        /\ Signal(ctl[c].seen)
    BY <1>6, <1>17 DEF SendTerm, Control
  <2>2. \A p \in Alive : p = ctl[c].seen
    BY <1>3, <1>6, <2>1 DEF CallKnows, Known, Awaits, Alive, Announced
  <2>3. CASE ctl[c].seen \in Alive
    <3>1. /\ ctl[c].seen \in Pids /\ Ended(ctl[c].seen) /\ UnitAfterEnd(ctl[c].seen)
      BY <2>1, <2>3 DEF Signal, Alive
    <3>2. /\ \A p \in Pids : parent[p] # "systemd" => parent'[p] # "systemd"
          /\ Alive' \subseteq Alive
      BY <3>1, FallKeeps
    <3>3. ctl[c].seen \notin Alive'
      BY <3>1 DEF Ended, Reap, Alive, TypeInv, ProcTypes
    <3>4. Alive' = {}
      BY <2>2, <3>2, <3>3
    <3>5. NoUnit'
      BY <2>1, <3>1, <3>2 DEF NoUnit, UnitAfterEnd
    <3>6. Known'
      BY <3>4 DEF Known, Alive, Announced
    <3>7. CallKnows(c)'
      BY <2>1, <3>4 DEF CallKnows
    <3> QED
      BY <3>5, <3>6, <3>7
  <2>4. CASE ctl[c].seen \notin Alive
    <3>1. Alive = {} /\ UNCHANGED procs /\ systemd' = systemd
      BY <2>1, <2>2, <2>4 DEF Signal
    <3>2. NoUnit' /\ Alive' = {}
      BY <1>8, <2>1, <3>1
    <3>3. Known'
      BY <3>2 DEF Known, Alive, Announced
    <3>4. CallKnows(c)'
      BY <2>1, <3>2 DEF CallKnows
    <3> QED
      BY <3>2, <3>3, <3>4
  <2> QED
    BY <2>3, <2>4
<1>18. CASE RemoveSnap(c) \/ SendKill(c)
  <2>1. Alive = {}
    BY <1>6, <1>18 DEF RemoveSnap, SendKill, CallKnows
  <2> QED
    BY <1>7, <1>18, <2>1 DEF RemoveSnap, SendKill, Alive
<1>19. CASE WriteUnit(c) \/ EnableUnit(c) \/ StartUnit(c) \/ StopUnit(c) \/ DisableUnit(c)
            \/ RemoveFiles(c) \/ WipeRunDir(c)
  BY <1>6, <1>19 DEF WriteUnit, EnableUnit, StartUnit, StopUnit, DisableUnit, RemoveFiles,
                     WipeRunDir, CallKnows
<1>20. CASE UserStep(c)
  <2>1. PICK goal \in {"look", "start", "stop"} : BeginProbe(c, goal)
    BY <1>1, <1>20 DEF UserStep, BeginUnitCall, BeginTeardown
  <2>2. /\ UNCHANGED procs /\ UNCHANGED <<unitFile, systemd, pidFile>>
        /\ ctl[c] = Idle /\ ctl'[c].pc = "read" /\ ctl'[c].goal = goal
    BY <1>6, <2>1 DEF BeginProbe, MayBegin, Control
  <2>3. NoUnit' /\ Alive' = Alive /\ Announced' = Announced
    BY <1>8, <2>2
  <2>4. \A p \in Pids : proc[p] # "spawned"
    BY <1>3, <2>2, IdleIsControl DEF Awaits
  <2>5. Known'
    BY <2>2, <2>3, <2>4 DEF Known
  <2>6. CallKnows(c)'
    BY <2>2 DEF CallKnows
  <2> QED
    BY <2>3, <2>5, <2>6
<1> QED
  BY <1>12, <1>13, <1>14, <1>15, <1>16, <1>17, <1>18, <1>19, <1>20 DEF ControllerStep

\* A daemon takes the PID file over from nobody, and leaves it to nobody.
LEMMA DaemonOrder ==
  ASSUME TypeInv, Orderly, NoUnit, OneCall, Known, \A d \in Controllers : CallKnows(d),
         NEW p \in Pids, DaemonStep(p) \/ Publish(p) \/ GiveUp(p) \/ Crash(p)
  PROVE  NoUnit' /\ OneCall' /\ Known' /\ \A d \in Controllers : CallKnows(d)'
<1>1. UNCHANGED ctl /\ OneCall'
  BY DEF DaemonStep, Announce, EnterLoop, Publish, GiveUp, Crash, OneCall
<1>2. pidFile \in Pids \union {NoFile} /\ NoFile \notin Pids
  BY ServiceAssumption DEF TypeInv, FileTypes
<1>3. CASE Announce(p)
  <2>1. PICK c \in Controllers : Awaits(c, p)
    BY <1>3 DEF Announce, Known
  <2>2. \A d \in Controllers : d # c => ctl[d] = Idle
    BY <2>1, IdleIsControl DEF OneCall, Awaits
  <2>3. \A q \in Pids \ {p} : proc[q] \notin {"spawned", "setup", "loop"}
    <3>1. pidFile = NoFile
      BY <1>3 DEF Announce, Known
    <3>2. \A q \in Pids : proc[q] = "spawned" => q = p
      BY <2>1, <2>2, IdleIsControl DEF Known, Awaits
    <3> QED
      BY <1>2, <3>1, <3>2 DEF Known, Announced
  <2>4. /\ proc'[p] = "setup" /\ pidFile' = p
        /\ \A q \in Pids \ {p} : proc'[q] = proc[q]
        /\ UNCHANGED <<parent, unitFile, systemd>>
    BY <1>3 DEF Announce, TypeInv, ProcTypes
  <2>5. NoUnit'
    BY <2>4 DEF NoUnit
  <2>6. Known'
    BY <2>3, <2>4 DEF Known, Announced
  <2>7. CallKnows(c)'
    BY <1>1, <2>1 DEF CallKnows, Awaits
  <2>8. \A d \in Controllers : d # c => CallKnows(d)'
    BY <1>1, <2>2 DEF CallKnows, Idle
  <2> QED
    BY <1>1, <2>5, <2>6, <2>7, <2>8
<1>4. CASE EnterLoop(p) \/ Publish(p)
  <2>1. /\ Alive' = Alive /\ Announced' = Announced
        /\ \A q \in Pids : proc'[q] = "spawned" <=> proc[q] = "spawned"
    BY <1>4 DEF EnterLoop, Publish, Alive, Announced, TypeInv, ProcTypes
  <2>2. UNCHANGED <<parent, unitFile, systemd, pidFile>>
    BY <1>4 DEF EnterLoop, Publish
  <2>3. NoUnit'
    BY <2>2 DEF NoUnit
  <2>4. Known'
    BY <1>1, <2>1, <2>2 DEF Known, Awaits
  <2>5. \A d \in Controllers : CallKnows(d)'
    BY <1>1, <2>1, <2>2 DEF CallKnows
  <2> QED
    BY <1>1, <2>3, <2>4, <2>5
<1>5. CASE GiveUp(p) \/ Crash(p)
  <2>1. Ended(p) /\ UnitAfterEnd(p) /\ unitFile' = unitFile
    BY <1>5 DEF GiveUp, Crash
  <2>2. /\ \A q \in Pids : proc'[q] \in {"spawned", "setup", "loop"} => proc'[q] = proc[q]
        /\ \A q \in Pids : parent[q] # "systemd" => parent'[q] # "systemd"
        /\ Alive' \subseteq Alive /\ Announced' \subseteq Announced
    BY <2>1, FallKeeps
  <2>3. NoUnit'
    BY <2>1, <2>2 DEF NoUnit, UnitAfterEnd
  <2>4. p \notin Announced'
    BY <2>1 DEF Ended, Reap, Announced, TypeInv, ProcTypes
  <2>5. pidFile' = pidFile \/ (pidFile' = NoFile /\ Announced' = {})
    BY <1>5, <2>2, <2>4 DEF GiveUp, Crash, Known, Announced
  <2>6. Known'
    BY <1>1, <2>2, <2>5 DEF Known, Awaits
  <2>7. \A d \in Controllers : CallKnows(d)'
    BY <1>1, <2>2, <2>5 DEF CallKnows
  <2> QED
    BY <1>1, <2>3, <2>6, <2>7
<1> QED
  BY <1>3, <1>4, <1>5 DEF DaemonStep

LEMMA OrderStep == TypeInv /\ OrderInv /\ [Next]_vars => OrderInv'
<1> SUFFICES ASSUME TypeInv, OrderInv, [Next]_vars, Orderly'
             PROVE  NoUnit' /\ OneCall' /\ Known' /\ \A c \in Controllers : CallKnows(c)'
  BY DEF OrderInv
<1>1. Orderly /\ NoUnit /\ OneCall /\ Known /\ \A c \in Controllers : CallKnows(c)
  <2>1. world' = world
    BY DEF Next, ControllerStep, UserStep, DaemonStep, ReadPid, CheckProc, CleanStale, SpawnDaemon,
       SpawnFails, SendTerm, RemoveSnap, SendKill, WriteUnit, EnableUnit, StartUnit, StopUnit,
       DisableUnit, RemoveFiles, WipeRunDir, BeginProbe, BeginUnitCall, BeginTeardown, Announce,
       EnterLoop, Publish, GiveUp, Crash, SystemdRestart, RestartDelay, Reboot, vars
  <2> QED
    BY <2>1 DEF OrderInv, Orderly
<1>2. CASE \E c \in Controllers : ControllerStep(c) \/ UserStep(c)
  BY <1>1, <1>2, CallOrder
<1>3. CASE \E p \in Pids : DaemonStep(p) \/ Publish(p) \/ GiveUp(p) \/ Crash(p)
  BY <1>1, <1>3, DaemonOrder
<1>4. CASE \E p \in Pids : SystemdRestart(p)
  BY <1>1, <1>4 DEF SystemdRestart, NoUnit
<1>5. CASE RestartDelay
  BY <1>1, <1>5 DEF RestartDelay, NoUnit
<1>6. CASE Reboot
  BY <1>1, <1>6 DEF Reboot, Orderly
<1>7. CASE UNCHANGED vars
  BY <1>1, <1>7 DEF vars, NoUnit, OneCall, Known, CallKnows, Awaits, Alive, Announced
<1> QED
  BY <1>2, <1>3, <1>4, <1>5, <1>6, <1>7 DEF Next

\* One call at a time never leaves two daemons: start() spawns only where nothing lives.
THEOREM OneDaemonAlways == Spec => []OneDaemon
<1>1. TypeInv /\ OrderInv => OneDaemon
  <2>1. SUFFICES ASSUME TypeInv, OrderInv, Orderly PROVE Cardinality(Alive) <= 1
    BY DEF OneDaemon
  <2>2. \A p, q \in Alive : p = q
    <3>1. pidFile = NoFile => Announced = {}
      BY <2>1, ServiceAssumption DEF OrderInv, Known, Announced
    <3>2. \A p, q \in Announced : p = q
      BY <2>1 DEF OrderInv, Known
    <3>3. \A p, q \in Pids : proc[p] = "spawned" /\ proc[q] = "spawned" => p = q
      BY <2>1, IdleIsControl DEF OrderInv, Known, OneCall, Awaits
    <3> QED
      BY <2>1, <3>1, <3>2, <3>3 DEF OrderInv, Known, Alive, Announced
  <2>3. CASE Alive = {}
    BY <2>3, FS_EmptySet
  <2>4. CASE Alive # {}
    <3>1. PICK p : Alive = {p}
      BY <2>2, <2>4
    <3> QED
      <4>1. Cardinality({p}) = 1
        BY FS_Singleton
      <4> QED
        BY <3>1, <4>1
  <2> QED
    BY <2>3, <2>4
<1> QED
  BY <1>1, TypeInvInit, TypeInvStep, OrderInit, OrderStep, PTL DEF Spec

\* A daemon that has written the PID file stays the one the file names, so that stop()
\* and status find it, whatever crashes or fails.
THEOREM FindableAlways == Spec => []Findable
<1>1. OrderInv => Findable
  BY DEF OrderInv, Known, Findable
<1> QED
  BY <1>1, TypeInvInit, TypeInvStep, OrderInit, OrderStep, PTL DEF Spec

===============================================================================
