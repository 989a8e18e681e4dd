---------------------------------- MODULE Host --------------------------------
(***************************************************************************)
(* The run-time side of a setup: capture_sysctl_preconfig, the setup_*     *)
(* functions that follow setup_grub, setup_network, ubenchmon_teardown     *)
(* with restore_sysctl_preconfig (setup.c), and their callers: Apply and   *)
(* Teardown in the TUI, and a starting daemon, which runs the setup again  *)
(* with the active configuration.                                          *)
(*                                                                         *)
(* A setting of the machine has one of three values: "tuned", what a setup *)
(* writes; "default", what the code falls back to when it knows no better; *)
(* and "own", what the owner chose.  A switch (a service, frequency boost) *)
(* is on when it is "own" and off when it is "tuned".                      *)
(*                                                                         *)
(* The boot parameters are the subject of Grub; here they are just the     *)
(* isolated cores, of which the machine had none, and which decide whether *)
(* a setup asks for a reboot.  The two namespaces of a configuration, with *)
(* the link between them, are one here.                                    *)
(*                                                                         *)
(* The variable world names what may happen in a behaviour:                *)
(*   "kill"     an actor dies between two steps                            *)
(*   "overlap"  the TUI and a daemon run setups at the same time; a setup  *)
(*              during a teardown is not modelled                          *)
(***************************************************************************)
EXTENDS Naturals, FiniteSets

CONSTANTS
  Tui, Daemon,  \* the two processes that run setups
  Machines,     \* how the settings of the machine may be before ubenchmon
  CoreLists,    \* lists of isolated cores
  Names,        \* names of namespaces
  Nets,         \* namespaces; bounds the setups between two reboots
  Configs,      \* the configurations the user applies
  Default,      \* SetupConfig::default()
  Worlds,       \* the worlds explored
  NoFile,       \* a file does not exist
  None          \* no value

Actors == {Tui, Daemon}

\* What restore_sysctl_preconfig writes back as it was ...
Written == {"governor", "aslr", "buffers"}
\* ... and what it switches on again if it was on.
Switches == {"boost", "timesync", "irqbalance", "noisy"}
Captured == Written \union Switches
Settings == Captured \union {"irq", "swap", "target"}

Values == {"own", "tuned", "default"}
Knobs == [Settings -> Values]
Baseline == [Captured -> Values]

Flags == {"boost", "irqbalance", "swap", "target", "aslr", "buffers", "timesync"}
Config == [cores : CoreLists \union {None}, flags : SUBSET Flags,
           net : Names \union {None}]

ASSUME HostAssumption ==
  /\ Tui # Daemon
  /\ Worlds \subseteq SUBSET {"kill", "overlap"}
  /\ Machines \subseteq Knobs
  /\ \A m \in Machines : \A s \in Switches : m[s] # "default"
  /\ Configs \subseteq Config /\ Default \in Config
  /\ None \notin CoreLists \union Names \union Nets \union Config
  /\ NoFile \notin Baseline /\ None \notin Baseline

VARIABLES
  world,     \* what may happen, see above
  orig,      \* the settings the machine boots with
  knob,      \* the settings now
  baseline,  \* preconfig_sysctl.json
  active,    \* active_config.json
  running,   \* the isolated cores of the running kernel
  next,      \* and those of the next boot
  named,     \* the namespace each name refers to
  anchors,   \* namespaces with a sleep process in them
  pc,        \* what each actor does next
  cfg,       \* the configuration it works with
  mem,       \* the settings it captured or read from the baseline
  after,     \* what the TUI applies after a teardown
  listed,    \* the picker has a snapshot to offer
  result,    \* history: how its last setup ended
  applied,   \* history: what an Apply that just completed applied
  spoiled    \* history: a capture went wrong, and no teardown and reboot followed

machine == <<world, orig, knob>>
boot == <<running, next>>
net == <<named, anchors>>
actor == <<pc, cfg, mem, after, result>>
history == <<applied, spoiled>>
vars == <<machine, baseline, active, boot, net, actor, listed, history>>

\* The order of the steps in ubenchmon_setup and in restore_sysctl_preconfig.
Following ==
  [s_freq |-> "s_irq", s_irq |-> "s_services", s_services |-> "s_swap",
   s_swap |-> "s_sysctl", s_sysctl |-> "s_clean",
   r_sysctl |-> "r_timesync", r_timesync |-> "r_irqbalance",
   r_irqbalance |-> "r_boost", r_boost |-> "r_governor", r_governor |-> "r_irq",
   r_irq |-> "r_noisy", r_noisy |-> "r_remove"]

TuneSteps == {"s_freq", "s_irq", "s_services", "s_swap", "s_sysctl"}
RestoreSteps == {"r_sysctl", "r_timesync", "r_irqbalance", "r_boost", "r_governor",
                 "r_irq", "r_noisy"}
SetupSteps == TuneSteps \union {"s_stat", "s_read", "s_open", "s_write", "s_grub",
                                "s_clean", "s_create", "s_anchor"}
TeardownSteps == RestoreSteps \union {"t_grub", "t_net", "t_swap", "r_open",
                                      "r_remove", "t_wipe"}

Result == [rc : {"none", "running", "reboot", "ok", "partial"},
           of : Configs \union {Default, None}]
NoResult == [rc |-> "none", of |-> None]
Begun(c) == [rc |-> "running", of |-> c]

TypeOK ==
  /\ world \in Worlds
  /\ orig \in Machines
  /\ knob \in Knobs
  /\ baseline \in Baseline \union {NoFile}
  /\ active \in Configs \union {Default, NoFile}
  /\ running \in CoreLists \union {None} /\ next \in CoreLists \union {None}
  /\ named \in [Names -> Nets \union {None}]
  /\ anchors \subseteq Nets
  /\ pc \in [Actors -> {"idle"} \union SetupSteps \union TeardownSteps]
  /\ cfg \in [Actors -> Configs \union {Default, None}]
  /\ mem \in [Actors -> Baseline \union {None}]
  /\ after \in Configs \union {None}
  /\ listed \in BOOLEAN
  /\ result \in [Actors -> Result]
  /\ applied \in Configs \union {None}
  /\ spoiled \in BOOLEAN

Init ==
  /\ world \in Worlds
  /\ orig \in Machines
  /\ knob = orig
  /\ baseline = NoFile /\ active = NoFile
  /\ running = None /\ next = None
  /\ named = [n \in Names |-> None] /\ anchors = {}
  /\ pc = [a \in Actors |-> "idle"]
  /\ cfg = [a \in Actors |-> None]
  /\ mem = [a \in Actors |-> None]
  /\ after = None
  /\ listed = FALSE
  /\ result = [a \in Actors |-> NoResult]
  /\ applied = None /\ spoiled = FALSE

Goto(a, step) == pc' = [pc EXCEPT ![a] = step]

Taken == {named[n] : n \in Names} \union anchors
UsedNets == Nets \intersect Taken

AllIdle == \A a \in Actors : pc[a] = "idle"

\* A setup may begin at any time of another setup.
MayBegin(a) ==
  /\ pc[a] = "idle"
  /\ \/ AllIdle
     \/ /\ "overlap" \in world
        /\ \A b \in Actors : pc[b] \in SetupSteps \union {"idle"}
  /\ Cardinality(Nets \ UsedNets) > Cardinality({b \in Actors : pc[b] # "idle"})

-------------------------------------------------------------------------------
\* ubenchmon_setup

Start(a, c) ==
  /\ MayBegin(a)
  /\ Goto(a, "s_stat")
  /\ cfg' = [cfg EXCEPT ![a] = c]
  /\ result' = [b \in Actors |->
                  IF b = a THEN Begun(c) ELSE IF AllIdle THEN NoResult ELSE result[b]]
  /\ applied' = None
  /\ UNCHANGED <<machine, baseline, active, boot, net, mem, after, spoiled>>

\* Apply in the Setup tab, which saves snapshots for the picker first, and run_daemon.
Apply(c) == Start(Tui, c) /\ listed' = TRUE
StartDaemon ==
  /\ Start(Daemon, IF active = NoFile THEN Default ELSE active)
  /\ UNCHANGED listed

\* An empty file: no switch was on, and every value is the default of the code.
EmptyFile == [s \in Captured |-> IF s \in Switches THEN "tuned" ELSE "default"]

\* Somebody found no baseline and has not created it yet.
Capturing(a) == pc[a] \in {"s_read", "s_open"}

\* A baseline that exists is kept.
StatBaselineAgain(a) ==  \* mutant: every setup captures
  /\ pc[a] = "s_stat"
  /\ Goto(a, "s_read")
  /\ spoiled' = (spoiled \/ \E b \in Actors \ {a} : Capturing(b))
  /\ UNCHANGED <<machine, baseline, active, boot, net, cfg, mem, after, result, listed,
                 applied>>
StatBaseline(a) ==
  /\ pc[a] = "s_stat"
  /\ IF baseline # NoFile
       THEN Goto(a, "s_grub") /\ UNCHANGED spoiled
       ELSE /\ Goto(a, "s_read")
            /\ spoiled' = (spoiled \/ \E b \in Actors \ {a} : Capturing(b))
  /\ UNCHANGED <<machine, baseline, active, boot, net, cfg, mem, after, result, listed,
                 applied>>

\* Otherwise the current settings are read.
ReadSettingsUnread(a) ==  \* mutant: the settings are never read
  /\ pc[a] = "s_read"
  /\ Goto(a, "s_open")
  /\ UNCHANGED <<machine, baseline, active, boot, net, cfg, mem, after, result, listed,
                 history>>
ReadSettings(a) ==
  /\ pc[a] = "s_read"
  /\ mem' = [mem EXCEPT ![a] = [s \in Captured |-> knob[s]]]
  /\ Goto(a, "s_open")
  /\ UNCHANGED <<machine, baseline, active, boot, net, cfg, after, result, listed, history>>

OpenBaseline(a) ==
  /\ pc[a] = "s_open"
  /\ baseline' = EmptyFile
  /\ Goto(a, "s_write")
  /\ UNCHANGED <<machine, active, boot, net, cfg, mem, after, result, listed, history>>

WriteBaseline(a) ==
  /\ pc[a] = "s_write"
  /\ baseline' = mem[a]
  /\ mem' = [mem EXCEPT ![a] = None]
  /\ Goto(a, "s_grub")
  /\ UNCHANGED <<machine, active, boot, net, cfg, after, result, listed, history>>

\* setup_grub, as far as the isolated cores go.
ConfigureBoot(a) ==
  /\ pc[a] = "s_grub"
  /\ Goto(a, "s_freq")
  /\ IF cfg[a].cores = None \/ cfg[a].cores = running
       THEN UNCHANGED <<next, result>>
       ELSE /\ next' = cfg[a].cores
            /\ result' = [result EXCEPT ![a].rc = "reboot"]
  /\ UNCHANGED <<machine, baseline, active, running, net, cfg, mem, after, listed, history>>

\* What each step changes: the governor and the noisy services always, the rest
\* as the configuration says.
Tunes(step, c) ==
  CASE step = "s_freq"     -> {"governor"} \union ({"boost"} \intersect c.flags)
    [] step = "s_irq"      -> IF c.cores = None THEN {} ELSE {"irq"}
    [] step = "s_services" -> {"noisy"} \union ({"irqbalance", "target"} \intersect c.flags)
    [] step = "s_swap"     -> {"swap"} \intersect c.flags
    [] step = "s_sysctl"   -> {"aslr", "buffers", "timesync"} \intersect c.flags

Tune(a) ==
  /\ pc[a] \in TuneSteps
  /\ knob' = [s \in Settings |-> IF s \in Tunes(pc[a], cfg[a]) THEN "tuned" ELSE knob[s]]
  /\ Goto(a, Following[pc[a]])
  /\ UNCHANGED <<world, orig, baseline, active, boot, net, cfg, mem, after, result,
                 listed, history>>

\* The end of a setup.  Apply saves the active configuration, unless the machine
\* has to be rebooted; run_teardown_inner and the daemon do not save it.
Finish(a, rc) ==
  /\ Goto(a, "idle")
  /\ cfg' = [cfg EXCEPT ![a] = None]
  /\ result' = [result EXCEPT ![a].rc = IF @ = "reboot" THEN @ ELSE rc]
  /\ IF a = Tui /\ after = None
       THEN /\ applied' = cfg[a]
            /\ active' = IF result[a].rc = "reboot" THEN active ELSE cfg[a]
       ELSE UNCHANGED <<applied, active>>
  /\ after' = IF a = Tui THEN None ELSE after
  /\ UNCHANGED <<listed, spoiled>>

\* Both namespaces must have names.  pkill finds no sleep process, since 'ip netns
\* exec' has replaced itself by sleep; a namespace lives on with the process in it.
CleanNet(a) ==
  /\ pc[a] = "s_clean"
  /\ IF cfg[a].net = None
       THEN Finish(a, "ok") /\ UNCHANGED named
       ELSE /\ named' = [named EXCEPT ![cfg[a].net] = None]
            /\ Goto(a, "s_create")
            /\ UNCHANGED <<active, cfg, after, result, listed, history>>
  /\ UNCHANGED <<machine, baseline, boot, anchors, mem>>

CreateNetUnanchored(a) ==  \* mutant: no process is started in the namespace
  /\ pc[a] = "s_create"
  /\ \E n \in Nets \ UsedNets : named' = [named EXCEPT ![cfg[a].net] = n]
  /\ Finish(a, "ok")
  /\ UNCHANGED <<machine, baseline, boot, anchors, mem>>
\* 'ip netns add' fails on a name that exists.
CreateNet(a) ==
  /\ pc[a] = "s_create"
  /\ IF named[cfg[a].net] # None
       THEN Finish(a, "partial") /\ UNCHANGED named
       ELSE /\ \E n \in Nets \ UsedNets : named' = [named EXCEPT ![cfg[a].net] = n]
            /\ Goto(a, "s_anchor")
            /\ UNCHANGED <<active, cfg, after, result, listed, history>>
  /\ UNCHANGED <<machine, baseline, boot, anchors, mem>>

\* A sleep process, if the name still is there.
StartAnchor(a) ==
  /\ pc[a] = "s_anchor"
  /\ anchors' = anchors \union ({named[cfg[a].net]} \ {None})
  /\ Finish(a, "ok")
  /\ UNCHANGED <<machine, baseline, boot, named, mem>>

-------------------------------------------------------------------------------
\* ubenchmon_teardown, run by the TUI with the configuration in its form (c) and
\* followed by a setup with the snapshot chosen (r)

BeginTeardown(c, r) ==
  /\ AllIdle /\ MayBegin(Tui)
  /\ listed
  /\ Goto(Tui, "t_grub")
  /\ cfg' = [cfg EXCEPT ![Tui] = c]
  /\ after' = r
  /\ result' = [a \in Actors |-> NoResult]
  /\ applied' = None
  /\ UNCHANGED <<machine, baseline, active, boot, net, mem, listed, spoiled>>

RestoreBoot ==
  /\ pc[Tui] = "t_grub"
  /\ next' = None
  /\ Goto(Tui, "t_net")
  /\ UNCHANGED <<machine, baseline, active, running, net, cfg, mem, after, result,
                 listed, history>>

\* The last step that looks at the configuration.
RemoveNet ==
  /\ pc[Tui] = "t_net"
  /\ named' = [n \in Names |-> IF n = cfg[Tui].net THEN None ELSE named[n]]
  /\ Goto(Tui, "t_swap")
  /\ cfg' = [cfg EXCEPT ![Tui] = None]
  /\ UNCHANGED <<machine, baseline, active, boot, anchors, mem, after, result, listed,
                 history>>

\* swapon -a, whether or not a setup turned swap off.
RestoreSwap ==
  /\ pc[Tui] = "t_swap"
  /\ knob' = [knob EXCEPT !["swap"] = "own"]
  /\ Goto(Tui, "r_open")
  /\ UNCHANGED <<world, orig, baseline, active, boot, net, cfg, mem, after, result,
                 listed, history>>

ReadBaseline ==
  /\ pc[Tui] = "r_open"
  /\ IF baseline = NoFile
       THEN Goto(Tui, "t_wipe") /\ UNCHANGED mem
       ELSE /\ mem' = [mem EXCEPT ![Tui] = baseline]
            /\ Goto(Tui, "r_sysctl")
  /\ UNCHANGED <<machine, baseline, active, boot, net, cfg, after, result, listed, history>>

RestoresNoGovernor(step) ==  \* mutant: the governor is not restored
  CASE step = "r_sysctl"     -> {"aslr", "buffers"}
    [] step = "r_timesync"   -> {"timesync"}
    [] step = "r_irqbalance" -> {"irqbalance"}
    [] step = "r_boost"      -> {"boost"}
    [] step = "r_governor"   -> {}
    [] step = "r_irq"        -> {"irq"}
    [] step = "r_noisy"      -> {"noisy"}
Restores(step) ==
  CASE step = "r_sysctl"     -> {"aslr", "buffers"}
    [] step = "r_timesync"   -> {"timesync"}
    [] step = "r_irqbalance" -> {"irqbalance"}
    [] step = "r_boost"      -> {"boost"}
    [] step = "r_governor"   -> {"governor"}
    [] step = "r_irq"        -> {"irq"}
    [] step = "r_noisy"      -> {"noisy"}

\* Interrupts go to all cores, and a switch is only ever turned on.
Restored(s, saved) ==
  CASE s \in Written  -> saved[s]
    [] s \in Switches -> IF saved[s] = "own" THEN "own" ELSE knob[s]
    [] s = "irq"      -> "default"

Restore ==
  /\ pc[Tui] \in RestoreSteps
  /\ knob' = [s \in Settings |->
                IF s \in Restores(pc[Tui]) THEN Restored(s, mem[Tui]) ELSE knob[s]]
  /\ Goto(Tui, Following[pc[Tui]])
  /\ UNCHANGED <<world, orig, baseline, active, boot, net, cfg, mem, after, result,
                 listed, history>>

RemoveBaseline ==
  /\ pc[Tui] = "r_remove"
  /\ baseline' = NoFile
  /\ mem' = [mem EXCEPT ![Tui] = None]
  /\ Goto(Tui, "t_wipe")
  /\ UNCHANGED <<machine, active, boot, net, cfg, after, result, listed, history>>

\* rm -rf /var/lib/ubenchmon, the snapshots with it, and on to the setup with the
\* one chosen.
WipeState ==
  /\ pc[Tui] = "t_wipe"
  /\ baseline' = NoFile /\ active' = NoFile
  /\ listed' = FALSE
  /\ IF after = None
       THEN Goto(Tui, "idle") /\ UNCHANGED <<cfg, result>>
       ELSE /\ Goto(Tui, "s_stat")
            /\ cfg' = [cfg EXCEPT ![Tui] = after]
            /\ result' = [result EXCEPT ![Tui] = Begun(after)]
  /\ UNCHANGED <<machine, boot, net, mem, after, history>>

-------------------------------------------------------------------------------
\* The machine

Forget ==
  /\ cfg' = [a \in Actors |-> None]
  /\ mem' = [a \in Actors |-> None]
  /\ after' = None
  /\ result' = [a \in Actors |-> NoResult]
  /\ pc' = [a \in Actors |-> "idle"]

\* Settings and namespaces do not survive a reboot; the files do.
Reboot ==
  /\ AllIdle
  /\ knob' = orig
  /\ running' = next
  /\ named' = [n \in Names |-> None] /\ anchors' = {}
  /\ Forget
  /\ applied' = None
  /\ spoiled' = (spoiled /\ baseline # NoFile)
  /\ UNCHANGED <<world, orig, baseline, active, next, listed>>

\* The process dies.  One that dies right after it created the baseline leaves an
\* empty file.
Kill(a) ==
  /\ "kill" \in world
  /\ pc[a] # "idle"
  /\ Goto(a, "idle")
  /\ cfg' = [cfg EXCEPT ![a] = None]
  /\ mem' = [mem EXCEPT ![a] = None]
  /\ after' = IF a = Tui THEN None ELSE after
  /\ result' = [result EXCEPT ![a] = NoResult]
  /\ spoiled' = (spoiled \/ pc[a] = "s_write")
  /\ UNCHANGED <<machine, baseline, active, boot, net, listed, applied>>

SetupStep(a) ==
  \/ StatBaseline(a) \/ ReadSettings(a) \/ OpenBaseline(a) \/ WriteBaseline(a)
  \/ ConfigureBoot(a) \/ Tune(a) \/ CleanNet(a) \/ CreateNet(a) \/ StartAnchor(a)

TeardownStep ==
  \/ RestoreBoot \/ RemoveNet \/ RestoreSwap \/ ReadBaseline \/ Restore
  \/ RemoveBaseline \/ WipeState

Next ==
  \/ \E c \in Configs : Apply(c)
  \/ StartDaemon
  \/ \E c \in Configs, r \in Configs \union {None} : BeginTeardown(c, r)
  \/ \E a \in Actors : SetupStep(a) \/ Kill(a)
  \/ TeardownStep
  \/ Reboot

Spec == Init /\ [][Next]_vars

-------------------------------------------------------------------------------
\* Properties

BaselineMatches == \A s \in Captured : baseline[s] = orig[s]

\* The baseline holds the settings the machine had before ubenchmon, whatever was
\* killed, rebooted, torn down and set up again, also when the daemon and the TUI
\* set up at once, with two exceptions, after which it holds again once a teardown
\* and a reboot have followed: a process was killed between creating the file and
\* writing it, or found no baseline while the other one was about to create it.
RuntimeBaselineTrue ==
  ~spoiled =>
    \/ baseline = NoFile
    \/ \E a \in Actors : pc[a] = "s_write"
    \/ BaselineMatches

\* The baseline is given up only when every setting it holds is back: a teardown
\* that was killed half way can be run again.  The same two cases are excepted.
RuntimeNothingForgotten ==
  ~spoiled /\ baseline = NoFile => \A s \in Captured : knob[s] = orig[s]

\* A setup that reported success has its settings in place, and its namespace has
\* a process through which its counters can be read, also when another setup ran
\* at the same time: until a teardown, a reboot or the next setup begins.
SetupTakesHold ==
  AllIdle /\ ~({"kill", "overlap"} \subseteq world) =>
    \A a \in Actors : result[a].rc = "ok" =>
      /\ \A step \in TuneSteps : \A s \in Tunes(step, result[a].of) : knob[s] = "tuned"
      /\ result[a].of.net # None => named[result[a].of.net] \in anchors

\* "The active configuration is persisted after every successful Apply so the
\* daemon and teardown picker can reload it".
ActiveIsApplied == applied # None => active = applied
===============================================================================
