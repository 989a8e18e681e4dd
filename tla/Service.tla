-------------------------------- MODULE Service -------------------------------
(***************************************************************************)
(* The background daemon: service.rs (daemon_pid, start, stop, enable,     *)
(* disable, run_daemon) with systemd as far as the unit file uses it, and  *)
(* the removal of /var/run/ubenchmon by a teardown.                        *)
(*                                                                         *)
(* Controllers are the processes that run those functions: the TUI, which  *)
(* lives on and never waits for the daemon it spawned, and command-line    *)
(* calls, which exit when the function returns.  A function is a sequence  *)
(* of file and process operations; each is a step, because every caller    *)
(* works on the same files.  SIGTERM and SIGKILL end a daemon at once: it  *)
(* installs no handler.                                                    *)
(*                                                                         *)
(* The variable world names what may happen in a behaviour:                *)
(*   "crash"     a daemon is killed from outside (at most MaxCrashes)      *)
(*   "fail"      no process can be spawned, or Monitor::new fails in it    *)
(*   "slow"      a daemon needs more than the 2 s start() waits for it     *)
(*   "overlap"   two controllers work at the same time                     *)
(*   "unit"      the systemd unit is installed and removed                 *)
(*   "teardown"  the TUI tears down while a transient daemon runs          *)
(***************************************************************************)
EXTENDS Naturals, FiniteSets

CONSTANTS
  Pids,        \* process identifiers
  Tuis,        \* controllers that stay alive
  Clis,        \* controllers that exit after each call
  Worlds,      \* the worlds explored
  MaxTries,    \* polls of a waiting loop: 20, 30 and 20 in the code
  MaxCrashes,  \* bound on the kills from outside
  NoFile,      \* a file does not exist
  None         \* no process

Controllers == Tuis \union Clis
WorldNames == {"crash", "fail", "slow", "overlap", "unit", "teardown"}

ASSUME ServiceAssumption ==
  /\ Worlds \subseteq SUBSET WorldNames
  /\ MaxTries \in Nat /\ MaxCrashes \in Nat
  /\ NoFile \notin Pids /\ None \notin Pids
  /\ Tuis \intersect Clis = {}
  /\ Controllers \intersect {"init", "systemd"} = {}

VARIABLES
  world,     \* what may happen, see above
  proc,      \* the state of each daemon process
  mode,      \* the mode it was started with
  parent,    \* who has to wait for it
  runDir,    \* /var/run/ubenchmon exists
  pidFile,   \* ubenchmon.pid
  modeFile,  \* service.mode
  snapFile,  \* snap.bin exists
  unitFile,  \* the unit file exists
  enabled,   \* systemctl enable was called
  systemd,   \* the unit for systemd: "dead", "running", "waiting" for the restart
             \* delay, "due" to be started
  crashes,   \* kills from outside so far
  ctl        \* the controllers: position, call, pids held, polls left

procs == <<proc, mode, parent>>
files == <<runDir, pidFile, modeFile, snapFile>>
units == <<unitFile, enabled, systemd>>
vars == <<world, procs, files, units, crashes, ctl>>

Modes == {"transient", "persistent"}
ProcStates == {"free", "spawned", "setup", "loop", "zombie"}
Goals == {"look", "start", "startwait", "stop", "stopwait", "enablewait", "none"}
Positions == {"idle", "read", "check", "clean", "spawn", "term", "unsnap", "kill",
              "wipe", "e_unit", "e_enable", "e_start", "d_stop", "d_disable",
              "d_files"}

TypeOK ==
  /\ world \in Worlds
  /\ proc \in [Pids -> ProcStates]
  /\ mode \in [Pids -> Modes \union {None}]
  /\ parent \in [Pids -> Controllers \union {"init", "systemd"}]
  /\ runDir \in BOOLEAN
  /\ pidFile \in Pids \union {NoFile}
  /\ modeFile \in Modes \union {NoFile}
  /\ snapFile \in BOOLEAN
  /\ unitFile \in BOOLEAN /\ enabled \in BOOLEAN
  /\ systemd \in {"dead", "running", "waiting", "due"}
  /\ crashes \in 0..MaxCrashes
  /\ ctl \in [Controllers -> [pc : Positions, goal : Goals,
                              seen : Pids \union {None},
                              target : Pids \union {None}, tries : 0..MaxTries]]

Idle == [pc |-> "idle", goal |-> "none", seen |-> None, target |-> None, tries |-> 0]

Init ==
  /\ world \in Worlds
  /\ proc = [p \in Pids |-> "free"]
  /\ mode = [p \in Pids |-> None]
  /\ parent = [p \in Pids |-> "init"]
  /\ runDir = FALSE
  /\ pidFile = NoFile /\ modeFile = NoFile /\ snapFile = FALSE
  /\ unitFile = FALSE /\ enabled = FALSE /\ systemd = "dead"
  /\ crashes = 0
  /\ ctl = [c \in Controllers |-> Idle]

Alive == {p \in Pids : proc[p] \in {"spawned", "setup", "loop"}}
Announced == {p \in Pids : proc[p] \in {"setup", "loop"}}
UnitDaemons == {p \in Alive : parent[p] = "systemd"}

-------------------------------------------------------------------------------
\* Processes

\* Nothing is left of the processes in gone.
Reap(gone) ==
  /\ proc' = [p \in Pids |-> IF p \in gone THEN "free" ELSE proc[p]]
  /\ mode' = [p \in Pids |-> IF p \in gone THEN None ELSE mode[p]]
  /\ parent' = [p \in Pids |-> IF p \in gone THEN "init" ELSE parent[p]]

\* A process that ended stays a zombie until its parent waits for it.  systemd
\* and init do; start() drops the Child and never waits.
Ended(p) ==
  IF parent[p] \in Controllers
    THEN /\ proc' = [proc EXCEPT ![p] = "zombie"]
         /\ UNCHANGED <<mode, parent>>
    ELSE Reap({p})

\* Restart=always: systemd starts the unit again after its process ended.
UnitAfterEndNoRestart(p) ==  \* mutant: no Restart= in the unit
  systemd' = IF parent[p] = "systemd" THEN "dead" ELSE systemd
UnitAfterEnd(p) ==
  systemd' = IF parent[p] = "systemd" /\ systemd = "running" THEN "waiting" ELSE systemd

\* The kernel hands out other pids before it comes back to one somebody holds.
Held == {pidFile} \union {ctl[c].seen : c \in Controllers}
          \union {ctl[c].target : c \in Controllers}

Fresh == {p \in Pids : proc[p] = "free"} \ Held

Spawn(p, m, by) ==
  /\ p \in Fresh
  /\ proc' = [proc EXCEPT ![p] = "spawned"]
  /\ mode' = [mode EXCEPT ![p] = m]
  /\ parent' = [parent EXCEPT ![p] = by]

-------------------------------------------------------------------------------
\* run_daemon

\* Creates the directory, writes the PID file whatever it holds, and the mode.
Announce(p) ==
  /\ proc[p] = "spawned"
  /\ runDir' = TRUE
  /\ pidFile' = p
  /\ modeFile' = mode[p]
  /\ proc' = [proc EXCEPT ![p] = "setup"]
  /\ UNCHANGED <<world, mode, parent, snapFile, units, crashes, ctl>>

\* The setup is done and the monitor is open.
EnterLoop(p) ==
  /\ proc[p] = "setup"
  /\ proc' = [proc EXCEPT ![p] = "loop"]
  /\ UNCHANGED <<world, mode, parent, files, units, crashes, ctl>>

\* Monitor::new failed: the PID file is removed, whoever wrote it.
GiveUp(p) ==
  /\ "fail" \in world
  /\ proc[p] = "setup"
  /\ pidFile' = NoFile
  /\ Ended(p)
  /\ UnitAfterEnd(p)
  /\ UNCHANGED <<world, runDir, modeFile, snapFile, unitFile, enabled, crashes, ctl>>

\* One turn of the main loop.  Without the directory the write fails silently.
Publish(p) ==
  /\ proc[p] = "loop"
  /\ runDir
  /\ ~snapFile
  /\ snapFile' = TRUE
  /\ UNCHANGED <<world, procs, runDir, pidFile, modeFile, units, crashes, ctl>>

Crash(p) ==
  /\ "crash" \in world
  /\ crashes < MaxCrashes
  /\ p \in Alive
  /\ crashes' = crashes + 1
  /\ Ended(p)
  /\ UnitAfterEnd(p)
  /\ UNCHANGED <<world, files, unitFile, enabled, ctl>>

\* RestartSec=5 is longer than any daemon_pid() call: what a controller saw before
\* the daemon died, it has acted upon when the next daemon starts.
RestartDelay ==
  /\ systemd = "waiting"
  /\ \A c \in Controllers : ctl[c].pc \notin {"check", "clean", "term"}
  /\ systemd' = "due"
  /\ UNCHANGED <<world, procs, files, unitFile, enabled, crashes, ctl>>

SystemdRestart(p) ==
  /\ systemd = "due"
  /\ Spawn(p, "persistent", "systemd")
  /\ systemd' = "running"
  /\ UNCHANGED <<world, files, unitFile, enabled, crashes, ctl>>

-------------------------------------------------------------------------------
\* Controllers

Goto(c, pc) == ctl' = [ctl EXCEPT ![c].pc = pc]

\* The children of a command-line call are inherited by init when it exits, and
\* the dead ones among them disappear.
Finish(c) ==
  /\ ctl' = [ctl EXCEPT ![c] = Idle]
  /\ IF c \in Tuis
       THEN UNCHANGED procs
       ELSE LET mine == {p \in Pids : parent[p] = c}
                dead == {p \in mine : proc[p] = "zombie"}
            IN /\ proc' = [p \in Pids |-> IF p \in dead THEN "free" ELSE proc[p]]
               /\ mode' = [p \in Pids |-> IF p \in dead THEN None ELSE mode[p]]
               /\ parent' = [p \in Pids |-> IF p \in mine THEN "init" ELSE parent[p]]

MayBegin(c) ==
  /\ ctl[c] = Idle
  /\ "overlap" \in world \/ \A d \in Controllers : ctl[d] = Idle

\* status, refresh_verify, start and stop begin with daemon_pid().  The bounds:
\* a start leaves a pid; with the unit or two busy controllers it comes first.
BeginProbeUnasked(c, goal) ==  \* mutant: start() does not ask is_running()
  /\ MayBegin(c)
  /\ goal = "start" => Cardinality(Fresh) > 1
  /\ ctl' = [ctl EXCEPT ![c].pc = IF goal = "start" THEN "spawn" ELSE "read",
                        ![c].goal = goal]
  /\ UNCHANGED <<world, procs, files, units, crashes>>
BeginProbe(c, goal) ==
  /\ MayBegin(c)
  /\ goal = "start" =>
       /\ Cardinality(Fresh) > 1
       /\ {"unit", "overlap"} \intersect world # {}
            => \A p \in Pids : mode[p] # "transient"
  /\ ctl' = [ctl EXCEPT ![c].pc = "read", ![c].goal = goal]
  /\ UNCHANGED <<world, procs, files, units, crashes>>

BeginUnitCallUnstopped(c, pc) ==  \* mutant: disable without systemctl stop
  /\ MayBegin(c)
  /\ "unit" \in world
  /\ Goto(c, IF pc = "d_stop" THEN "d_disable" ELSE pc)
  /\ UNCHANGED <<world, procs, files, units, crashes>>
BeginUnitCall(c, pc) ==
  /\ MayBegin(c)
  /\ "unit" \in world
  /\ Goto(c, pc)
  /\ UNCHANGED <<world, procs, files, units, crashes>>

\* A transient daemon does not keep the TUI from a teardown: only the unit file
\* is asked for (request_teardown).
BeginTeardown(c) ==
  /\ MayBegin(c)
  /\ "teardown" \in world
  /\ c \in Tuis
  /\ ~unitFile
  /\ Goto(c, "wipe")
  /\ UNCHANGED <<world, procs, files, units, crashes>>

\* The polls a waiting loop has left.
PolledForever(n) == n  \* mutant: the loop has no bound
Polled(n) == IF n = 0 THEN 0 ELSE n - 1

\* daemon_pid() answered None or a pid, and its caller goes on.
Answer(c, found) ==
  LET again == ctl' = [ctl EXCEPT ![c].pc = "read", ![c].seen = None,
                                  ![c].tries = Polled(@)]
      done == Finish(c)
      stay(pc) == /\ ctl' = [ctl EXCEPT ![c].pc = pc,
                                        ![c].seen = IF pc = "term" THEN @ ELSE None]
                  /\ UNCHANGED procs
      late == /\ ctl[c].tries = 0
              /\ \/ "slow" \in world
                 \/ ctl[c].target # None => proc[ctl[c].target] # "spawned"
  IN CASE ctl[c].goal = "look" -> done
       [] ctl[c].goal = "start" -> IF found THEN done ELSE stay("spawn")
       [] ctl[c].goal = "startwait" ->
            IF found \/ late THEN done ELSE again /\ UNCHANGED procs
       [] ctl[c].goal = "stop" -> IF found THEN stay("term") ELSE done
       [] ctl[c].goal = "stopwait" ->
            IF ~found THEN stay("unsnap")
            ELSE IF ctl[c].tries = 0 THEN stay("kill")
            ELSE again /\ UNCHANGED procs
       [] ctl[c].goal = "enablewait" ->
            IF found \/ ctl[c].tries = 0 THEN done ELSE again /\ UNCHANGED procs

\* daemon_pid(): read the file, look for /proc/<pid>, remove a stale file.
ReadPid(c) ==
  /\ ctl[c].pc = "read"
  /\ IF pidFile = NoFile
       THEN Answer(c, FALSE)
       ELSE /\ ctl' = [ctl EXCEPT ![c].pc = "check", ![c].seen = pidFile]
            /\ UNCHANGED procs
  /\ UNCHANGED <<world, files, units, crashes>>

\* A zombie still has its /proc entry.
CheckProcInverted(c) ==  \* mutant: the condition is negated
  /\ ctl[c].pc = "check"
  /\ IF proc[ctl[c].seen] = "free"
       THEN Answer(c, TRUE)
       ELSE Goto(c, "clean") /\ UNCHANGED procs
  /\ UNCHANGED <<world, files, units, crashes>>
CheckProc(c) ==
  /\ ctl[c].pc = "check"
  /\ IF proc[ctl[c].seen] # "free"
       THEN Answer(c, TRUE)
       ELSE Goto(c, "clean") /\ UNCHANGED procs
  /\ UNCHANGED <<world, files, units, crashes>>

CleanStale(c) ==
  /\ ctl[c].pc = "clean"
  /\ pidFile' = NoFile
  /\ Answer(c, FALSE)
  /\ UNCHANGED <<world, runDir, modeFile, snapFile, units, crashes>>

SpawnDaemon(c) ==
  /\ ctl[c].pc = "spawn"
  /\ \E p \in Pids :
       /\ Spawn(p, "transient", c)
       /\ ctl' = [ctl EXCEPT ![c].pc = "read", ![c].goal = "startwait",
                             ![c].target = p, ![c].tries = MaxTries]
  /\ UNCHANGED <<world, files, units, crashes>>

\* "Failed to spawn daemon".
SpawnFails(c) ==
  /\ "fail" \in world
  /\ ctl[c].pc = "spawn"
  /\ Finish(c)
  /\ UNCHANGED <<world, files, units, crashes>>

\* kill(1) on a pid that may have died since.
Signal(p) ==
  IF p \in Alive
    THEN Ended(p) /\ UnitAfterEnd(p)
    ELSE UNCHANGED <<procs, systemd>>

SendTermTwice(c) ==  \* mutant: one poll too many
  /\ ctl[c].pc = "term"
  /\ Signal(ctl[c].seen)
  /\ ctl' = [ctl EXCEPT ![c].pc = "read", ![c].goal = "stopwait",
                        ![c].target = ctl[c].seen, ![c].tries = MaxTries + 1]
  /\ UNCHANGED <<world, files, unitFile, enabled, crashes>>
SendTerm(c) ==
  /\ ctl[c].pc = "term"
  /\ Signal(ctl[c].seen)
  /\ ctl' = [ctl EXCEPT ![c].pc = "read", ![c].goal = "stopwait",
                        ![c].target = ctl[c].seen, ![c].tries = MaxTries]
  /\ UNCHANGED <<world, files, unitFile, enabled, crashes>>

RemoveSnap(c) ==
  /\ ctl[c].pc = "unsnap"
  /\ snapFile' = FALSE
  /\ Finish(c)
  /\ UNCHANGED <<world, runDir, pidFile, modeFile, units, crashes>>

\* The last resort after 3 s.  SIGTERM has killed the target already, so SIGKILL
\* changes nothing; the files are removed without another look at them.
SendKill(c) ==
  /\ ctl[c].pc = "kill"
  /\ pidFile' = NoFile /\ snapFile' = FALSE
  /\ Finish(c)
  /\ UNCHANGED <<world, runDir, modeFile, units, crashes>>

WriteUnit(c) ==
  /\ ctl[c].pc = "e_unit"
  /\ unitFile' = TRUE
  /\ Goto(c, "e_enable")
  /\ UNCHANGED <<world, procs, files, enabled, systemd, crashes>>

EnableUnit(c) ==
  /\ ctl[c].pc = "e_enable"
  /\ enabled' = unitFile
  /\ Goto(c, "e_start")
  /\ UNCHANGED <<world, procs, files, unitFile, systemd, crashes>>

\* systemctl start, and on to the polls.  Nobody asks whether a transient daemon
\* runs already.  run_cmd ignores a failing exit status.
StartUnit(c) ==
  /\ ctl[c].pc = "e_start"
  /\ \/ /\ systemd = "running" \/ ~unitFile
        /\ UNCHANGED <<procs, systemd>>
     \/ /\ systemd # "running" /\ unitFile
        /\ \E p \in Pids : Spawn(p, "persistent", "systemd")
        /\ systemd' = "running"
  /\ ctl' = [ctl EXCEPT ![c].pc = "read", ![c].goal = "enablewait",
                        ![c].tries = MaxTries]
  /\ UNCHANGED <<world, files, unitFile, enabled, crashes>>

StopUnit(c) ==
  /\ ctl[c].pc = "d_stop"
  /\ Reap(UnitDaemons)
  /\ systemd' = "dead"
  /\ Goto(c, "d_disable")
  /\ UNCHANGED <<world, files, unitFile, enabled, crashes>>

DisableUnit(c) ==
  /\ ctl[c].pc = "d_disable"
  /\ enabled' = FALSE
  /\ Goto(c, "d_files")
  /\ UNCHANGED <<world, procs, files, unitFile, systemd, crashes>>

RemoveFiles(c) ==
  /\ ctl[c].pc = "d_files"
  /\ unitFile' = FALSE
  /\ pidFile' = NoFile /\ modeFile' = NoFile /\ snapFile' = FALSE
  /\ Finish(c)
  /\ UNCHANGED <<world, runDir, enabled, systemd, crashes>>

\* rm -rf /var/run/ubenchmon at the end of ubenchmon_teardown.
WipeRunDir(c) ==
  /\ ctl[c].pc = "wipe"
  /\ runDir' = FALSE
  /\ pidFile' = NoFile /\ modeFile' = NoFile /\ snapFile' = FALSE
  /\ Finish(c)
  /\ UNCHANGED <<world, units, crashes>>

\* /var/run is a tmpfs; an enabled unit starts at boot.
Reboot ==
  /\ "unit" \in world
  /\ crashes < MaxCrashes
  /\ crashes' = crashes + 1
  /\ Reap(Pids)
  /\ runDir' = FALSE
  /\ pidFile' = NoFile /\ modeFile' = NoFile /\ snapFile' = FALSE
  /\ systemd' = IF enabled /\ unitFile THEN "due" ELSE "dead"
  /\ ctl' = [c \in Controllers |-> Idle]
  /\ UNCHANGED <<world, unitFile, enabled>>

ControllerStep(c) ==
  \/ ReadPid(c) \/ CheckProc(c) \/ CleanStale(c)
  \/ SpawnDaemon(c) \/ SpawnFails(c) \/ SendTerm(c) \/ RemoveSnap(c) \/ SendKill(c)
  \/ WriteUnit(c) \/ EnableUnit(c) \/ StartUnit(c)
  \/ StopUnit(c) \/ DisableUnit(c) \/ RemoveFiles(c) \/ WipeRunDir(c)

UserStep(c) ==
  \/ \E goal \in {"look", "start", "stop"} : BeginProbe(c, goal)
  \/ \E pc \in {"e_unit", "d_stop"} : BeginUnitCall(c, pc)
  \/ BeginTeardown(c)

DaemonStep(p) == Announce(p) \/ EnterLoop(p)

Next ==
  \/ \E c \in Controllers : ControllerStep(c) \/ UserStep(c)
  \/ \E p \in Pids :
       DaemonStep(p) \/ Publish(p) \/ GiveUp(p) \/ Crash(p) \/ SystemdRestart(p)
  \/ RestartDelay
  \/ Reboot

\* Processes run, calls go on and systemd restarts what it promised; users,
\* faults and reboots need not happen.  The delay passes although somebody keeps
\* asking for the daemon: between two calls the guard holds, hence SF.
Fairness ==
  /\ \A c \in Controllers : WF_vars(ControllerStep(c))
  /\ \A p \in Pids : WF_vars(DaemonStep(p))
  /\ SF_vars(RestartDelay)
  /\ WF_vars(\E p \in Pids : SystemdRestart(p))

Spec == Init /\ [][Next]_vars /\ Fairness

-------------------------------------------------------------------------------
\* Properties

\* Worlds in which start() and stop() are enough to know what runs: one call at a
\* time, no unit, no teardown, and daemons that write their PID file in time.
Orderly == world \subseteq {"crash", "fail"}

\* start() never makes a second daemon: is_running() sees every daemon that lives,
\* also right after another call returned and after daemons died on their own.
OneDaemon == Orderly => Cardinality(Alive) <= 1

\* A daemon that wrote its PID file can be found and stopped through it as long
\* as it lives; nobody removes or overwrites the file under it.
Findable == Orderly => \A p \in Announced : pidFile = p

\* Once the unit file is gone, systemd neither runs nor restarts a daemon: disable
\* stops the unit before it removes it.
DisabledIsStopped ==
  "overlap" \notin world /\ ~unitFile => systemd = "dead" /\ UnitDaemons = {}

\* Every call returns: its waiting loops are bounded, whatever dies meanwhile.
CallsReturn == \A c \in Controllers : ctl[c] # Idle ~> ctl[c] = Idle

\* While the unit is enabled, a daemon that crashed or that a reboot ended is followed
\* by another one that gets into its main loop ("Restart=always"), unless a SIGTERM
\* of 'service stop' comes first.  A stop does not keep systemd from restarting the
\* daemon either, although the TUI says that it is back on the next boot only: what
\* follows a stop is not claimed.
ServiceRecovers ==
  "fail" \notin world /\ unitFile /\ enabled
    ~> \/ ~enabled
       \/ \E p \in UnitDaemons : proc[p] = "loop"
       \/ \E c \in Controllers : ctl[c].pc = "term"
===============================================================================
