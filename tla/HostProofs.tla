------------------------------ MODULE HostProofs ------------------------------
(***************************************************************************)
(* Theorems about Host, for every machine, set of configurations, names,   *)
(* namespaces and worlds: type correctness, the safety of the baseline of  *)
(* the run-time settings, and that a setup which reported success is in    *)
(* place, with kills between any two steps and with a setup of the daemon  *)
(* between any two steps of one of the TUI.                                *)
(***************************************************************************)
EXTENDS Host, TLAPS

USE DEF machine, boot, net, history

AnyConfig == Configs \union {Default}

\* TypeOK with what the steps rely on: the configuration and the settings a
\* position works with are in memory, and only the TUI tears down.
TypeInv ==
  /\ TypeOK
  /\ \A a \in Actors :
       /\ pc[a] \in SetupSteps => cfg[a] \in AnyConfig
       /\ pc[a] \in {"s_open", "s_write"} => mem[a] \in Baseline
       /\ pc[a] \in {"s_create", "s_anchor"} => cfg[a].net \in Names
  /\ pc[Tui] \in SetupSteps \union {"t_grub", "t_net"} => cfg[Tui] \in Configs
  /\ pc[Tui] \in RestoreSteps => mem[Tui] \in Baseline
  /\ pc[Daemon] \notin TeardownSteps

LEMMA TypeInvInit == Init => TypeInv
<1> SUFFICES ASSUME Init PROVE TypeInv
  OBVIOUS
<1>1. orig \in Knobs /\ None \notin Nets
  BY HostAssumption DEF Init
<1>2. \A a \in Actors : pc[a] = "idle"
  BY DEF Init, Actors
<1>3. TypeOK
  BY <1>1 DEF Init, TypeOK, NoResult, Result
<1> QED
  BY <1>2, <1>3 DEF TypeInv, Actors, SetupSteps, TuneSteps, RestoreSteps, TeardownSteps

\* The position after a tuning or a restoring step.
LEMMA FollowingSteps ==
  /\ Following["s_freq"] = "s_irq" /\ Following["s_irq"] = "s_services"
  /\ Following["s_services"] = "s_swap" /\ Following["s_swap"] = "s_sysctl"
  /\ Following["s_sysctl"] = "s_clean"
  /\ Following["r_sysctl"] = "r_timesync" /\ Following["r_timesync"] = "r_irqbalance"
  /\ Following["r_irqbalance"] = "r_boost" /\ Following["r_boost"] = "r_governor"
  /\ Following["r_governor"] = "r_irq" /\ Following["r_irq"] = "r_noisy"
  /\ Following["r_noisy"] = "r_remove"
BY DEF Following

\* Every configuration has its three fields.
LEMMA ConfigFields ==
  ASSUME NEW c \in AnyConfig
  PROVE  /\ c \in Config /\ c # None
         /\ c.cores \in CoreLists \union {None}
         /\ c.net \in Names \union {None}
         /\ c.flags \subseteq Flags
BY HostAssumption DEF AnyConfig, Config

\* The end of a setup, whatever the result.
LEMMA FinishTypes ==
  ASSUME TypeInv, NEW a \in Actors, NEW rc \in {"ok", "partial"}, Finish(a, rc),
         pc[a] \in SetupSteps
  PROVE  /\ pc' = [pc EXCEPT ![a] = "idle"]
         /\ cfg' = [cfg EXCEPT ![a] = None]
         /\ result' \in [Actors -> Result]
         /\ applied' \in Configs \union {None}
         /\ active' \in AnyConfig \union {NoFile}
         /\ after' \in Configs \union {None}
         /\ UNCHANGED <<listed, spoiled>>
<1>1. result' \in [Actors -> Result]
  BY DEF TypeInv, TypeOK, Finish, Result
<1>2. a = Tui => cfg[Tui] \in Configs
  BY DEF TypeInv
<1> QED
  BY <1>1, <1>2 DEF TypeInv, TypeOK, Finish, Goto, AnyConfig

LEMMA SetupTypes ==
  ASSUME TypeInv, NEW a \in Actors, SetupStep(a)
  PROVE  TypeInv'
<1> USE DEF TypeInv, TypeOK, AnyConfig
<1>0. /\ Tui \in Actors /\ Daemon \in Actors /\ Tui # Daemon /\ Actors = {Tui, Daemon}
      /\ \A b \in Actors : cfg[b] \in AnyConfig => cfg[b].cores \in CoreLists \union {None}
      /\ \A b \in Actors : cfg[b] \in AnyConfig => cfg[b].net \in Names \union {None}
  BY ConfigFields, HostAssumption DEF Actors
<1>1. CASE StatBaseline(a)
  <2>1. spoiled' \in BOOLEAN
    BY <1>1 DEF StatBaseline
  <2>2. /\ pc[a] = "s_stat"
        /\ pc' = [pc EXCEPT ![a] = "s_grub"] \/ pc' = [pc EXCEPT ![a] = "s_read"]
        /\ UNCHANGED <<machine, baseline, active, boot, net, cfg, mem, after, result, listed,
                       applied>>
    BY <1>1 DEF StatBaseline, Goto
  <2> QED
    BY <1>0, <2>1, <2>2 DEF SetupSteps, TuneSteps, TeardownSteps, RestoreSteps
<1>9. CASE ReadSettings(a)
  <2>1. [s \in Captured |-> knob[s]] \in Baseline
    BY DEF Knobs, Baseline, Captured, Settings
  <2> QED
    BY <1>0, <1>9, <2>1 DEF ReadSettings, Goto, SetupSteps, TeardownSteps, RestoreSteps
<1>2. CASE OpenBaseline(a)
  <2>1. EmptyFile \in Baseline
    BY DEF EmptyFile, Baseline, Values
  <2> QED
    BY <1>0, <1>2, <2>1 DEF OpenBaseline, Goto, SetupSteps, TeardownSteps, RestoreSteps
<1>3. CASE WriteBaseline(a)
  BY <1>0, <1>3 DEF WriteBaseline, Goto, SetupSteps, TeardownSteps, RestoreSteps
<1>4. CASE ConfigureBoot(a)
  <2>1. pc[a] \in SetupSteps
    BY <1>4 DEF ConfigureBoot, SetupSteps
  <2>2. result' \in [Actors -> Result]
    BY <1>4 DEF ConfigureBoot, Result
  <2>3. next' \in CoreLists \union {None}
    BY <1>0, <1>4, <2>1 DEF ConfigureBoot
  <2> QED
    BY <1>0, <1>4, <2>2, <2>3 DEF ConfigureBoot, Goto, SetupSteps, TuneSteps, TeardownSteps,
                                  RestoreSteps
<1>5. CASE Tune(a)
  <2>1. knob' \in Knobs
    BY <1>5 DEF Tune, Knobs, Values
  <2>2. Following[pc[a]] \in TuneSteps \union {"s_clean"}
    BY <1>5, FollowingSteps DEF Tune, TuneSteps
  <2>3. pc[a] \in SetupSteps
    BY <1>5 DEF Tune, SetupSteps
  <2> QED
    BY <1>0, <1>5, <2>1, <2>2, <2>3 DEF Tune, Goto, SetupSteps, TuneSteps, TeardownSteps,
                                        RestoreSteps
<1>6. CASE CleanNet(a)
  <2>1. pc[a] \in SetupSteps
    BY <1>6 DEF CleanNet, SetupSteps
  <2>2. CASE cfg[a].net = None
    BY <1>0, <1>6, <2>1, <2>2, FinishTypes
       DEF CleanNet, SetupSteps, TuneSteps, TeardownSteps, RestoreSteps
  <2>3. CASE cfg[a].net # None
    BY <1>0, <1>6, <2>1, <2>3
       DEF CleanNet, Goto, SetupSteps, TeardownSteps, RestoreSteps
  <2> QED
    BY <2>2, <2>3
<1>7. CASE CreateNet(a)
  <2>1. pc[a] \in SetupSteps
    BY <1>7 DEF CreateNet, SetupSteps
  <2>2. CASE named[cfg[a].net] # None
    BY <1>0, <1>7, <2>1, <2>2, FinishTypes
       DEF CreateNet, SetupSteps, TuneSteps, TeardownSteps, RestoreSteps
  <2>3. CASE named[cfg[a].net] = None
    BY <1>0, <1>7, <2>1, <2>3
       DEF CreateNet, Goto, SetupSteps, TeardownSteps, RestoreSteps
  <2> QED
    BY <2>2, <2>3
<1>8. CASE StartAnchor(a)
  <2>1. pc[a] \in SetupSteps
    BY <1>8 DEF StartAnchor, SetupSteps
  <2>2. anchors' \subseteq Nets
    BY <1>8 DEF StartAnchor
  <2> QED
    BY <1>0, <1>8, <2>1, <2>2, FinishTypes
       DEF StartAnchor, SetupSteps, TuneSteps, TeardownSteps, RestoreSteps
<1> QED
  BY <1>1, <1>2, <1>3, <1>4, <1>5, <1>6, <1>7, <1>8, <1>9 DEF SetupStep

LEMMA TeardownTypes ==
  ASSUME TypeInv, TeardownStep
  PROVE  TypeInv'
<1> USE DEF TypeInv, TypeOK, AnyConfig
<1>0. Tui \in Actors /\ Daemon \in Actors /\ Tui # Daemon /\ Actors = {Tui, Daemon}
  BY HostAssumption DEF Actors
<1>1. CASE RestoreBoot
  BY <1>0, <1>1 DEF RestoreBoot, Goto, SetupSteps, TeardownSteps, RestoreSteps, TuneSteps
<1>2. CASE RemoveNet
  BY <1>0, <1>2 DEF RemoveNet, Goto, SetupSteps, TeardownSteps, RestoreSteps, TuneSteps
<1>3. CASE RestoreSwap
  <2>1. knob' \in Knobs
    BY <1>3 DEF RestoreSwap, Knobs, Values, Settings
  <2> QED
    BY <1>0, <1>3, <2>1
       DEF RestoreSwap, Goto, SetupSteps, TeardownSteps, RestoreSteps, TuneSteps
<1>4. CASE ReadBaseline
  BY <1>0, <1>4 DEF ReadBaseline, Goto, SetupSteps, TeardownSteps, RestoreSteps, TuneSteps
<1>5. CASE Restore
  <2>1. \A s \in Restores(pc[Tui]) : Restored(s, mem[Tui]) \in Values
    BY <1>5 DEF Restore, RestoreSteps, Restores, Restored, Baseline, Knobs, Values, Captured,
                Written, Switches, Settings
  <2>2. knob' \in Knobs
    BY <1>5, <2>1 DEF Restore, Knobs
  <2>3. Following[pc[Tui]] \in RestoreSteps \union {"r_remove"}
    BY <1>5, FollowingSteps DEF Restore, RestoreSteps
  <2> QED
    BY <1>0, <1>5, <2>2, <2>3
       DEF Restore, Goto, SetupSteps, TeardownSteps, RestoreSteps, TuneSteps
<1>6. CASE RemoveBaseline
  BY <1>0, <1>6 DEF RemoveBaseline, Goto, SetupSteps, TeardownSteps, RestoreSteps, TuneSteps
<1>7. CASE WipeState
  <2>1. result' \in [Actors -> Result]
    BY <1>7 DEF WipeState, Result, Begun
  <2>2. /\ \/ pc' = [pc EXCEPT ![Tui] = "idle"] /\ UNCHANGED cfg
           \/ /\ pc' = [pc EXCEPT ![Tui] = "s_stat"]
              /\ after # None /\ cfg' = [cfg EXCEPT ![Tui] = after]
        /\ baseline' = NoFile /\ active' = NoFile /\ listed' = FALSE
        /\ pc[Tui] = "t_wipe"
        /\ UNCHANGED <<machine, boot, net, mem, after, history>>
    BY <1>7 DEF WipeState, Goto
  <2>3. TypeOK'
    <3>1. pc' \in [Actors -> {"idle"} \union SetupSteps \union TeardownSteps]
      BY <1>0, <2>2 DEF SetupSteps
    <3>2. cfg' \in [Actors -> Configs \union {Default, None}]
      BY <1>0, <2>2
    <3> QED
      BY <2>1, <2>2, <3>1, <3>2
  <2>4. /\ cfg'[Tui] \in Configs \/ pc'[Tui] = "idle"
        /\ pc'[Tui] \in {"idle", "s_stat"}
        /\ pc'[Daemon] = pc[Daemon] /\ cfg'[Daemon] = cfg[Daemon] /\ mem' = mem
    BY <1>0, <2>2
  <2> HIDE DEF TypeOK
  <2> QED
    BY <1>0, <2>3, <2>4 DEF SetupSteps, TeardownSteps, RestoreSteps, TuneSteps
<1> QED
  BY <1>1, <1>2, <1>3, <1>4, <1>5, <1>6, <1>7 DEF TeardownStep

LEMMA StartTypes ==
  ASSUME TypeInv, NEW a \in Actors, NEW c \in AnyConfig, a = Tui => c \in Configs, Start(a, c),
         listed' \in BOOLEAN
  PROVE  TypeInv'
<1> USE DEF TypeInv, TypeOK, AnyConfig
<1>0. Tui \in Actors /\ Daemon \in Actors /\ Tui # Daemon /\ Actors = {Tui, Daemon}
  BY HostAssumption DEF Actors
<1>1. result' \in [Actors -> Result]
  BY DEF Start, Result, Begun, NoResult
<1> QED
  BY <1>0, <1>1 DEF Start, Goto, SetupSteps, TeardownSteps, RestoreSteps, TuneSteps

LEMMA TypeInvStep == TypeInv /\ [Next]_vars => TypeInv'
<1> SUFFICES ASSUME TypeInv, [Next]_vars PROVE TypeInv'
  OBVIOUS
<1>0. Tui \in Actors /\ Daemon \in Actors /\ Tui # Daemon /\ Actors = {Tui, Daemon}
  BY HostAssumption DEF Actors
<1>1. ASSUME NEW c \in Configs, Apply(c) PROVE TypeInv'
  BY <1>0, <1>1, StartTypes DEF Apply, AnyConfig
<1>2. CASE StartDaemon
  BY <1>0, <1>2, StartTypes DEF StartDaemon, AnyConfig, TypeInv, TypeOK
<1>3. ASSUME NEW c \in Configs, NEW r \in Configs \union {None}, BeginTeardown(c, r)
      PROVE  TypeInv'
  BY <1>0, <1>3 DEF BeginTeardown, Goto, TypeInv, TypeOK, AnyConfig, Result, NoResult,
                    SetupSteps, TeardownSteps, RestoreSteps, TuneSteps
<1>4. ASSUME NEW a \in Actors, Kill(a) PROVE TypeInv'
  BY <1>0, <1>4 DEF Kill, Goto, TypeInv, TypeOK, AnyConfig, Result, NoResult,
                    SetupSteps, TeardownSteps, RestoreSteps, TuneSteps
<1>5. CASE Reboot
  <2>1. orig \in Knobs
    BY HostAssumption DEF TypeInv, TypeOK
  <2> QED
    BY <1>0, <1>5, <2>1 DEF Reboot, Forget, TypeInv, TypeOK, AnyConfig, Result, NoResult,
                            SetupSteps, TeardownSteps, RestoreSteps, TuneSteps
<1>6. CASE UNCHANGED vars
  BY <1>6 DEF vars, actor, TypeInv, TypeOK
<1> QED
  BY <1>1, <1>2, <1>3, <1>4, <1>5, <1>6, SetupTypes, TeardownTypes DEF Next

\* Every variable keeps its type for any machine and any configurations: no step
\* works with a configuration or with settings that are not there any more, in
\* spite of kills and overlapping setups.
THEOREM HostTypes == Spec => []TypeOK
<1>1. TypeInv => TypeOK
  BY DEF TypeInv
<1> QED
  BY <1>1, TypeInvInit, TypeInvStep, PTL DEF Spec

-------------------------------------------------------------------------------
\* The inductive invariant.

\* While the TUI tears down nobody sets up, and a step that must have a baseline
\* has one, good or bad.
Structure ==
  /\ pc[Tui] \in TeardownSteps => pc[Daemon] = "idle"
  /\ \A a \in Actors :
       pc[a] \in SetupSteps \ {"s_stat", "s_read", "s_open"} => baseline # NoFile
  /\ pc[Tui] \in RestoreSteps \union {"r_remove"} => baseline # NoFile
  /\ pc[Tui] = "t_wipe" => baseline = NoFile

Original == [s \in Captured |-> orig[s]]

\* What a setup knows of the baseline, and that one actor captures at a time.
CaptureProgress ==
  \A a \in Actors :
    /\ Capturing(a) => baseline = NoFile /\ \A b \in Actors \ {a} : ~Capturing(b)
    /\ pc[a] \in {"s_open", "s_write"} => mem[a] = Original

\* The settings that are back when a teardown is about to take a step.
BackBefore(step) ==
  CASE step = "r_sysctl"     -> {}
    [] step = "r_timesync"   -> {"aslr", "buffers"}
    [] step = "r_irqbalance" -> {"aslr", "buffers", "timesync"}
    [] step = "r_boost"      -> {"aslr", "buffers", "timesync", "irqbalance"}
    [] step = "r_governor"   -> {"aslr", "buffers", "timesync", "irqbalance", "boost"}
    [] step \in {"r_irq", "r_noisy"} -> Captured \ {"noisy"}
    [] step = "r_remove"     -> Captured

RestoreProgress ==
  /\ pc[Tui] \in RestoreSteps \union {"r_remove"} =>
       \A s \in BackBefore(pc[Tui]) : knob[s] = orig[s]
  /\ pc[Tui] \in RestoreSteps => mem[Tui] = Original

\* A switch is never at the default, so that it is "tuned" unless it is "own".
SwitchesSet == \A s \in Switches : orig[s] # "default" /\ knob[s] # "default"

\* A switch that was off stays off: nobody turns on what the baseline does not name.
OffStaysOff == \A s \in Switches : orig[s] = "tuned" => knob[s] = "tuned"

\* What holds while no capture has gone wrong.
Sound ==
  /\ CaptureProgress
  /\ RestoreProgress
  /\ OffStaysOff
  /\ RuntimeBaselineTrue
  /\ RuntimeNothingForgotten

BaselineInv == Structure /\ SwitchesSet /\ (~spoiled => Sound)

LEMMA BaselineInit == Init => BaselineInv
<1> SUFFICES ASSUME Init PROVE BaselineInv
  OBVIOUS
<1>1. \A a \in Actors : pc[a] = "idle"
  BY DEF Init
<1>2. Tui \in Actors /\ orig \in Knobs /\ Captured \subseteq Settings
  BY HostAssumption DEF Init, Actors, Captured, Settings
<1>3. SwitchesSet /\ OffStaysOff
  BY HostAssumption DEF Init, SwitchesSet, OffStaysOff
<1> QED
  BY <1>1, <1>2, <1>3 DEF Init, BaselineInv, Structure, Sound, CaptureProgress, Capturing,
     RestoreProgress, RuntimeBaselineTrue, RuntimeNothingForgotten, SetupSteps, TuneSteps, TeardownSteps, RestoreSteps

\* The baseline is the original one whenever no write of it is under way.
LEMMA BaselineIsOriginal ==
  ASSUME TypeInv, BaselineInv, ~spoiled, baseline # NoFile,
         \A a \in Actors : pc[a] # "s_write"
  PROVE  baseline = Original
BY DEF TypeInv, TypeOK, BaselineInv, Sound, RuntimeBaselineTrue, BaselineMatches, Original,
       Baseline

LEMMA SetupBaseline ==
  ASSUME TypeInv, BaselineInv, NEW a \in Actors, SetupStep(a)
  PROVE  BaselineInv'
<1>0. /\ Tui \in Actors /\ Daemon \in Actors /\ Tui # Daemon /\ Actors = {Tui, Daemon}
      /\ pc \in [Actors -> {"idle"} \union SetupSteps \union TeardownSteps]
      /\ mem \in [Actors -> Baseline \union {None}]
      /\ NoFile \notin Baseline
      /\ spoiled \in BOOLEAN
      /\ pc[a] \in SetupSteps
  BY HostAssumption DEF Actors, TypeInv, TypeOK, SetupStep, StatBaseline, ReadSettings,
     OpenBaseline, WriteBaseline, ConfigureBoot, Tune, CleanNet, CreateNet, StartAnchor,
     SetupSteps
<1>1. pc[Tui] \notin TeardownSteps
  BY <1>0 DEF SetupSteps, TuneSteps, TeardownSteps, RestoreSteps, BaselineInv, Structure
<1> USE DEF BaselineInv, Structure, Sound, CaptureProgress, Capturing, RestoreProgress,
            SwitchesSet, OffStaysOff, RuntimeBaselineTrue, BaselineMatches,
            RuntimeNothingForgotten
<1>2. CASE StatBaseline(a)
  <2>1. /\ pc[a] = "s_stat" /\ UNCHANGED <<machine, baseline, mem>>
        /\ ~spoiled' => ~spoiled
        /\ \/ baseline # NoFile /\ pc' = [pc EXCEPT ![a] = "s_grub"]
           \/ /\ baseline = NoFile /\ pc' = [pc EXCEPT ![a] = "s_read"]
              /\ ~spoiled' => \A b \in Actors \ {a} : ~Capturing(b)
    BY <1>2 DEF StatBaseline, Goto
  <2> QED
    BY <1>0, <1>1, <2>1 DEF SetupSteps, TuneSteps, TeardownSteps, RestoreSteps, Original
<1>8. CASE ReadSettings(a)
  <2>1. ~spoiled => [s \in Captured |-> knob[s]] = Original
    BY <1>8 DEF ReadSettings, Original
  <2> QED
    BY <1>0, <1>1, <1>8, <2>1 DEF ReadSettings, Goto, SetupSteps, TuneSteps, TeardownSteps,
                                  RestoreSteps, Original
<1>3. CASE OpenBaseline(a)
  <2>1. EmptyFile # NoFile
    BY <1>0 DEF EmptyFile, Baseline, Values
  <2> QED
    BY <1>0, <1>1, <1>3, <2>1 DEF OpenBaseline, Goto, SetupSteps, TuneSteps, TeardownSteps,
                                  RestoreSteps, Original
<1>4. CASE WriteBaseline(a)
  <2>1. mem[a] # NoFile /\ (~spoiled => mem[a] = Original)
    BY <1>0, <1>4 DEF WriteBaseline, TypeInv
  <2>2. ~spoiled => \A s \in Captured : baseline'[s] = orig'[s]
    BY <1>4, <2>1 DEF WriteBaseline, Original
  <2> QED
    BY <1>0, <1>1, <1>4, <2>1, <2>2 DEF WriteBaseline, Goto, SetupSteps, TuneSteps,
                                        TeardownSteps, RestoreSteps, Original
<1>5. CASE ConfigureBoot(a)
  BY <1>0, <1>1, <1>5 DEF ConfigureBoot, Goto, SetupSteps, TuneSteps, TeardownSteps,
                          RestoreSteps, Original
<1>6. CASE Tune(a)
  <2>1. Following[pc[a]] \in TuneSteps \union {"s_clean"}
    BY <1>6, FollowingSteps DEF Tune, TuneSteps
  <2>2. baseline # NoFile
    BY <1>0, <1>6 DEF Tune, TuneSteps
  <2>3. SwitchesSet' /\ (~spoiled => OffStaysOff')
    BY <1>6 DEF Tune, Switches, Captured, Settings
  <2>4. /\ pc' = [pc EXCEPT ![a] = Following[pc[a]]]
        /\ UNCHANGED <<orig, baseline, mem, spoiled>> /\ pc[a] # "s_write"
    BY <1>6 DEF Tune, Goto, TuneSteps
  <2> QED
    BY <1>0, <1>1, <2>1, <2>2, <2>3, <2>4
       DEF SetupSteps, TuneSteps, TeardownSteps, RestoreSteps, Original
<1>7. CASE CleanNet(a) \/ CreateNet(a) \/ StartAnchor(a)
  <2>1. pc'[a] \in {"idle", "s_create", "s_anchor"} /\ \A b \in Actors \ {a} : pc'[b] = pc[b]
    BY <1>0, <1>7 DEF CleanNet, CreateNet, StartAnchor, Finish, Goto
  <2>2. /\ pc[a] \in {"s_clean", "s_create", "s_anchor"}
        /\ UNCHANGED <<machine, baseline, mem, spoiled>>
    BY <1>7 DEF CleanNet, CreateNet, StartAnchor, Finish
  <2> QED
    BY <1>0, <1>1, <2>1, <2>2 DEF SetupSteps, TuneSteps, TeardownSteps, RestoreSteps, Original
<1> QED
  BY <1>2, <1>3, <1>4, <1>5, <1>6, <1>7, <1>8 DEF SetupStep

\* What a restoring step writes is what the machine had.
LEMMA RestoredIsOriginal ==
  ASSUME TypeInv, BaselineInv, ~spoiled, pc[Tui] \in RestoreSteps,
         NEW s \in Captured
  PROVE  Restored(s, mem[Tui]) = orig[s]
<1>1. mem[Tui][s] = orig[s]
  BY DEF BaselineInv, Sound, RestoreProgress, Original
<1>2. CASE s \in Written
  BY <1>1, <1>2 DEF Restored, Written, Switches
<1>3. CASE s \in Switches
  <2>1. s \notin Written /\ s # "irq" /\ s \in Settings
    BY <1>3 DEF Switches, Written, Settings, Captured
  <2>2. orig[s] \in {"own", "tuned"} /\ knob[s] \in {"own", "tuned"}
    BY <1>3, <2>1, HostAssumption
       DEF TypeInv, TypeOK, Knobs, Values, BaselineInv, SwitchesSet
  <2> QED
    BY <1>1, <1>3, <2>1, <2>2 DEF Restored, BaselineInv, Sound, OffStaysOff
<1> QED
  BY <1>2, <1>3 DEF Captured

\* No restoring step leaves a switch at the default.
LEMMA RestoreSwitches ==
  ASSUME TypeInv, BaselineInv, Restore
  PROVE  SwitchesSet'
<1>1. \A s \in Switches : s \in Settings /\ s \notin Written /\ s # "irq"
  BY DEF Switches, Settings, Captured, Written
<1>2. \A s \in Switches : Restored(s, mem[Tui]) \in {"own", knob[s]}
  BY <1>1 DEF Restored
<1> QED
  BY <1>1, <1>2 DEF Restore, BaselineInv, SwitchesSet

\* A restoring step brings back its own settings and leaves the others alone.
LEMMA RestoreProgresses ==
  ASSUME TypeInv, BaselineInv, ~spoiled, Restore
  PROVE  /\ \A s \in BackBefore(Following[pc[Tui]]) : knob'[s] = orig[s]
         /\ OffStaysOff'
<1>1. pc[Tui] \in RestoreSteps
  BY DEF Restore
<1>2. \A s \in Captured : knob'[s] = IF s \in Restores(pc[Tui]) THEN orig[s] ELSE knob[s]
  BY <1>1, RestoredIsOriginal DEF Restore, Captured, Settings
<1>3. OffStaysOff'
  BY <1>2 DEF OffStaysOff, BaselineInv, Sound, Captured, Restore
<1>4. \A s \in BackBefore(pc[Tui]) : knob[s] = orig[s]
  BY <1>1 DEF BaselineInv, Sound, RestoreProgress
<1>5. BackBefore(Following[pc[Tui]])
        \subseteq Captured \intersect (BackBefore(pc[Tui]) \union Restores(pc[Tui]))
  BY <1>1, FollowingSteps DEF RestoreSteps, BackBefore, Restores, Captured, Written, Switches
<1> QED
  BY <1>2, <1>3, <1>4, <1>5

LEMMA TeardownBaseline ==
  ASSUME TypeInv, BaselineInv, TeardownStep
  PROVE  BaselineInv'
<1>0. /\ Tui \in Actors /\ Daemon \in Actors /\ Tui # Daemon /\ Actors = {Tui, Daemon}
      /\ pc \in [Actors -> {"idle"} \union SetupSteps \union TeardownSteps]
      /\ mem \in [Actors -> Baseline \union {None}]
      /\ pc[Tui] \in TeardownSteps
      /\ spoiled' = spoiled
  BY HostAssumption DEF Actors, TypeInv, TypeOK, TeardownStep, RestoreBoot, RemoveNet, history,
     RestoreSwap, ReadBaseline, Restore, RemoveBaseline, WipeState, TeardownSteps
<1>1. pc[Daemon] = "idle" /\ pc[Tui] \notin SetupSteps
  BY <1>0 DEF SetupSteps, TuneSteps, TeardownSteps, RestoreSteps, BaselineInv, Structure
<1>2. ~spoiled /\ baseline # NoFile => baseline = Original
  <2>1. \A a \in Actors : pc[a] # "s_write"
    BY <1>0, <1>1 DEF SetupSteps
  <2> QED
    BY <2>1, BaselineIsOriginal
<1> USE DEF BaselineInv, Structure, Sound, CaptureProgress, Capturing, RestoreProgress,
            SwitchesSet, OffStaysOff, RuntimeBaselineTrue, BaselineMatches,
            RuntimeNothingForgotten
<1>3. CASE RestoreBoot \/ RemoveNet
  BY <1>0, <1>1, <1>3 DEF RestoreBoot, RemoveNet, Goto, SetupSteps, TuneSteps, TeardownSteps,
                          RestoreSteps, Original
<1>4. CASE RestoreSwap
  <2>1. \A s \in Captured : knob'[s] = knob[s]
    BY <1>4 DEF RestoreSwap, Captured, Written, Switches
  <2> QED
    BY <1>0, <1>1, <1>4, <2>1 DEF RestoreSwap, Goto, SetupSteps, TuneSteps, TeardownSteps,
                                  RestoreSteps, Original, Captured
<1>5. CASE ReadBaseline
  BY <1>0, <1>1, <1>2, <1>5 DEF ReadBaseline, Goto, SetupSteps, TuneSteps, TeardownSteps,
                                RestoreSteps, Original, BackBefore
<1>6. CASE Restore
  <2>1. Following[pc[Tui]] \in RestoreSteps \union {"r_remove"}
    BY <1>6, FollowingSteps DEF Restore, RestoreSteps
  <2>2. /\ pc' = [pc EXCEPT ![Tui] = Following[pc[Tui]]]
        /\ UNCHANGED <<orig, baseline, mem>>
    BY <1>6 DEF Restore, Goto
  <2>3. baseline # NoFile /\ (~spoiled => mem[Tui] = Original)
    BY <1>6 DEF Restore
  <2>4. Original' = Original
    BY <2>2 DEF Original
  <2>5. ~spoiled =>
          /\ \A s \in BackBefore(pc'[Tui]) : knob'[s] = orig'[s]
          /\ OffStaysOff'
    BY <1>0, <1>6, <2>2, RestoreProgresses
  <2>6. SwitchesSet'
    BY <1>6, RestoreSwitches
  <2> QED
    BY <1>0, <1>1, <2>1, <2>2, <2>3, <2>4, <2>5, <2>6
       DEF SetupSteps, TuneSteps, TeardownSteps, RestoreSteps
<1>7. CASE RemoveBaseline
  <2>1. ~spoiled => \A s \in Captured : knob[s] = orig[s]
    BY <1>7 DEF RemoveBaseline, BackBefore
  <2> QED
    BY <1>0, <1>1, <1>7, <2>1 DEF RemoveBaseline, Goto, SetupSteps, TuneSteps, TeardownSteps,
                                  RestoreSteps, Original
<1>8. CASE WipeState
  BY <1>0, <1>1, <1>8 DEF WipeState, Goto, SetupSteps, TuneSteps, TeardownSteps,
                          RestoreSteps, Original
<1> QED
  BY <1>3, <1>4, <1>5, <1>6, <1>7, <1>8 DEF TeardownStep

\* A process that is killed leaves an empty baseline only as a spoiled one, and a
\* reboot without a baseline brings every setting back.
LEMMA BaselineStep == TypeInv /\ BaselineInv /\ [Next]_vars => BaselineInv'
<1> SUFFICES ASSUME TypeInv, BaselineInv, [Next]_vars PROVE BaselineInv'
  OBVIOUS
<1>0. /\ Tui \in Actors /\ Daemon \in Actors /\ Tui # Daemon /\ Actors = {Tui, Daemon}
      /\ pc \in [Actors -> {"idle"} \union SetupSteps \union TeardownSteps]
      /\ mem \in [Actors -> Baseline \union {None}]
      /\ spoiled \in BOOLEAN
  BY HostAssumption DEF Actors, TypeInv, TypeOK
<1> USE DEF BaselineInv, Structure, Sound, CaptureProgress, Capturing, RestoreProgress,
            SwitchesSet, OffStaysOff, RuntimeBaselineTrue, BaselineMatches,
            RuntimeNothingForgotten
<1>1. ASSUME NEW a \in Actors, NEW c, Start(a, c) PROVE BaselineInv'
  <2>1. /\ pc[a] = "idle" /\ pc' = [pc EXCEPT ![a] = "s_stat"]
        /\ UNCHANGED <<machine, baseline, mem, spoiled>>
    BY <1>1 DEF Start, Goto, MayBegin
  <2>2. \A b \in Actors : b # a => pc[b] \in SetupSteps \union {"idle"}
    BY <1>1 DEF Start, MayBegin, AllIdle
  <2> QED
    BY <1>0, <2>1, <2>2 DEF SetupSteps, TuneSteps, TeardownSteps, RestoreSteps, Original
<1>2. ASSUME NEW c, NEW r, BeginTeardown(c, r) PROVE BaselineInv'
  BY <1>0, <1>2 DEF BeginTeardown, Goto, AllIdle, SetupSteps, TuneSteps,
                    TeardownSteps, RestoreSteps, Original
<1>3. ASSUME NEW a \in Actors, Kill(a) PROVE BaselineInv'
  <2>1. /\ pc' = [pc EXCEPT ![a] = "idle"] /\ mem' = [mem EXCEPT ![a] = None]
        /\ UNCHANGED <<machine, baseline>>
        /\ ~spoiled' => ~spoiled /\ pc[a] # "s_write"
    BY <1>3 DEF Kill, Goto
  <2> QED
    BY <1>0, <2>1 DEF SetupSteps, TuneSteps, TeardownSteps, RestoreSteps, Original
<1>4. CASE Reboot
  <2>1. Captured \subseteq Settings /\ Switches \subseteq Settings
    BY DEF Settings, Captured
  <2>2. /\ \A a \in Actors : pc[a] = "idle" /\ pc'[a] = "idle"
        /\ UNCHANGED <<orig, baseline>> /\ knob' = orig
        /\ spoiled' = (spoiled /\ baseline # NoFile)
    BY <1>4 DEF Reboot, Forget, AllIdle
  <2> QED
    BY <1>0, <2>1, <2>2 DEF SetupSteps, TuneSteps, TeardownSteps, RestoreSteps, Original
<1>5. CASE UNCHANGED vars
  BY <1>5 DEF vars, actor, history, Original
<1> QED
  BY <1>0, <1>1, <1>2, <1>3, <1>4, <1>5, SetupBaseline, TeardownBaseline
     DEF Next, Apply, StartDaemon

\* The baseline of the run-time settings holds what the machine had before
\* ubenchmon, for any settings, although setups overlap from the first one on and
\* actors die at any step, unless an actor died between creating the file and
\* writing it, or one found no baseline while the other was about to create it, and
\* again as soon as a teardown and a reboot followed.
THEOREM BaselineTrueAlways == Spec => []RuntimeBaselineTrue
<1>1. BaselineInv => RuntimeBaselineTrue
  BY DEF BaselineInv, Sound, RuntimeBaselineTrue
<1> QED
  BY <1>1, TypeInvInit, TypeInvStep, BaselineInit, BaselineStep, PTL DEF Spec

\* It is given up only when everything it holds is back, so that a teardown that
\* was killed half way can be run again; with the same two exceptions.
THEOREM NothingForgottenAlways == Spec => []RuntimeNothingForgotten
<1>1. BaselineInv => RuntimeNothingForgotten
  BY DEF BaselineInv, Sound, RuntimeNothingForgotten
<1> QED
  BY <1>1, TypeInvInit, TypeInvStep, BaselineInit, BaselineStep, PTL DEF Spec

-------------------------------------------------------------------------------
\* The namespace called n has a process in it, or will have one.
Anchored(n) ==
  \/ named[n] \in anchors
  \/ \E b \in Actors : pc[b] = "s_anchor" /\ cfg[b].net = n
  \/ \E b \in Actors : pc[b] = "s_create" /\ cfg[b].net = n /\ named[n] = None

\* The tuning steps a setup has behind it.
Done(step) ==
  CASE step \in {"s_stat", "s_read", "s_open", "s_write", "s_grub", "s_freq"} -> {}
    [] step = "s_irq"      -> {"s_freq"}
    [] step = "s_services" -> {"s_freq", "s_irq"}
    [] step = "s_swap"     -> {"s_freq", "s_irq", "s_services"}
    [] step = "s_sysctl"   -> TuneSteps \ {"s_sysctl"}
    [] step \in {"s_clean", "s_create", "s_anchor"} -> TuneSteps

InPlace(steps, c) ==
  \A step \in steps : \A s \in Tunes(step, c) : knob[s] = "tuned"

Faultless == ~({"kill", "overlap"} \subseteq world)

\* A setup knows what it works for, and has done what lies behind it.
SetupKnows ==
  \A a \in Actors : pc[a] \in SetupSteps =>
    /\ result[a].of = cfg[a] /\ result[a].rc \in {"running", "reboot"}
    /\ InPlace(Done(pc[a]), cfg[a])

TeardownClears == pc[Tui] \in TeardownSteps => \A a \in Actors : result[a] = NoResult

OkHolds ==
  \A a \in Actors : result[a].rc = "ok" =>
    /\ result[a].of \in AnyConfig
    /\ InPlace(TuneSteps, result[a].of)
    /\ Faultless /\ result[a].of.net # None => Anchored(result[a].of.net)

\* Without overlap nothing is claimed of an actor while the other one works.
Sole ==
  "overlap" \notin world =>
    \A a, b \in Actors : pc[a] # "idle" /\ b # a => pc[b] = "idle" /\ result[b] = NoResult

\* A name that went away before its process was started is created again by the
\* setup that took it away.
Replaced ==
  Faultless =>
    \A a \in Actors : pc[a] = "s_anchor" /\ named[cfg[a].net] = None =>
      \E b \in Actors : pc[b] = "s_create" /\ cfg[b].net = cfg[a].net

HoldInv == SetupKnows /\ TeardownClears /\ OkHolds /\ Sole /\ Replaced

LEMMA HoldInit == Init => HoldInv
<1> SUFFICES ASSUME Init PROVE HoldInv
  OBVIOUS
<1>1. \A a \in Actors : pc[a] = "idle" /\ result[a] = NoResult
  BY DEF Init
<1>2. Tui \in Actors /\ NoResult.rc = "none"
  BY DEF Actors, NoResult
<1> QED
  BY <1>1, <1>2 DEF HoldInv, SetupKnows, TeardownClears, OkHolds, Sole, Replaced, SetupSteps,
                    TuneSteps, TeardownSteps, RestoreSteps

\* What is tuned stays tuned while only setups run.
LEMMA TunesSettings ==
  ASSUME NEW c \in AnyConfig, NEW step \in TuneSteps
  PROVE  Tunes(step, c) \subseteq Settings
BY ConfigFields DEF Tunes, TuneSteps, Settings, Captured, Written, Switches, Flags

LEMMA DoneSteps ==
  /\ Done("s_stat") = {} /\ Done("s_read") = {} /\ Done("s_open") = {} /\ Done("s_write") = {}
  /\ Done("s_grub") = {} /\ Done("s_freq") = {}
  /\ Done("s_clean") = TuneSteps /\ Done("s_create") = TuneSteps
  /\ Done("s_anchor") = TuneSteps
  /\ \A step \in SetupSteps : Done(step) \subseteq TuneSteps
  /\ \A step \in TuneSteps : Done(Following[step]) \subseteq Done(step) \union {step}
BY FollowingSteps DEF Done, TuneSteps, SetupSteps

LEMMA TunedStays ==
  ASSUME TypeInv, NEW a \in Actors, SetupStep(a),
         NEW steps \in SUBSET TuneSteps, NEW c \in AnyConfig, InPlace(steps, c)
  PROVE  InPlace(steps, c)'
<1>1. \A step \in steps : Tunes(step, c) \subseteq Settings
  BY TunesSettings
<1>2. \A s \in Settings : knob[s] = "tuned" => knob'[s] = "tuned"
  BY DEF SetupStep, StatBaseline, ReadSettings, OpenBaseline, WriteBaseline, ConfigureBoot, Tune,
         CleanNet, CreateNet, StartAnchor, TypeInv, TypeOK, Knobs
<1> QED
  BY <1>1, <1>2 DEF InPlace

\* How a setup ends or goes on: only its own position, configuration and result
\* change, and what it reports has been done.
LEMMA SetupStepChanges ==
  ASSUME TypeInv, HoldInv, NEW a \in Actors, SetupStep(a)
  PROVE  /\ pc[a] \in SetupSteps /\ pc'[a] \in SetupSteps \union {"idle"}
         /\ world' = world
         /\ \A b \in Actors : b # a => /\ pc'[b] = pc[b] /\ cfg'[b] = cfg[b]
                                       /\ result'[b] = result[b]
         /\ pc'[a] # "idle" =>
              /\ cfg'[a] = cfg[a] /\ result'[a].of = result[a].of
              /\ result'[a].rc \in {"running", "reboot"}
              /\ Done(pc'[a]) \subseteq Done(pc[a])
                   \union (IF pc[a] \in TuneSteps THEN {pc[a]} ELSE {})
         /\ pc'[a] = "idle" =>
              /\ result'[a].of = cfg[a] /\ Done(pc[a]) = TuneSteps
              /\ UNCHANGED <<knob>>
<1> USE DEF TypeInv, TypeOK
<1>0. /\ pc[a] \in SetupSteps => /\ result[a].of = cfg[a]
                                 /\ result[a].rc \in {"running", "reboot"}
      /\ result[a] \in Result
  BY DEF HoldInv, SetupKnows
<1>1. CASE StatBaseline(a) \/ ReadSettings(a) \/ OpenBaseline(a) \/ WriteBaseline(a)
  BY <1>0, <1>1, DoneSteps DEF StatBaseline, ReadSettings, OpenBaseline, WriteBaseline, Goto, SetupSteps
<1>2. CASE ConfigureBoot(a)
  <2>1. pc[a] = "s_grub" /\ pc' = [pc EXCEPT ![a] = "s_freq"] /\ UNCHANGED <<cfg, world>>
    BY <1>2 DEF ConfigureBoot, Goto
  <2>2. /\ result'[a].of = result[a].of /\ result'[a].rc \in {"running", "reboot"}
        /\ \A b \in Actors : b # a => result'[b] = result[b]
    BY <1>0, <1>2 DEF ConfigureBoot, SetupSteps, Result
  <2> QED
    BY <2>1, <2>2, DoneSteps DEF SetupSteps, TuneSteps
<1>3. CASE Tune(a)
  <2>1. Following[pc[a]] \in TuneSteps \union {"s_clean"}
    BY <1>3, FollowingSteps DEF Tune, TuneSteps
  <2> QED
    BY <1>0, <1>3, <2>1, DoneSteps DEF Tune, Goto, SetupSteps, TuneSteps
<1>4. CASE CleanNet(a) \/ CreateNet(a) \/ StartAnchor(a)
  <2>1. /\ pc[a] \in {"s_clean", "s_create", "s_anchor"}
        /\ \/ /\ pc' = [pc EXCEPT ![a] = "s_create"] \/ pc' = [pc EXCEPT ![a] = "s_anchor"]
              /\ UNCHANGED <<cfg, result, knob, world>>
           \/ \E rc \in {"ok", "partial"} : Finish(a, rc) /\ UNCHANGED <<knob, world>>
    BY <1>4 DEF CleanNet, CreateNet, StartAnchor, Goto
  <2>2. CASE UNCHANGED <<cfg, result, knob, world>> /\ pc'[a] # "idle"
    BY <1>0, <2>1, <2>2, DoneSteps DEF SetupSteps, Finish, Goto
  <2>3. ASSUME NEW rc \in {"ok", "partial"}, Finish(a, rc), UNCHANGED <<knob, world>>
        PROVE  /\ pc' = [pc EXCEPT ![a] = "idle"] /\ cfg' = [cfg EXCEPT ![a] = None]
               /\ result'[a].of = result[a].of
               /\ \A b \in Actors : b # a => result'[b] = result[b]
    BY <1>0, <2>3 DEF Finish, Goto, Result
  <2> QED
    BY <1>0, <2>1, <2>2, <2>3, DoneSteps DEF SetupSteps
<1> QED
  BY <1>1, <1>2, <1>3, <1>4 DEF SetupStep

\* The steps of a setup that are not about its namespace.
LEMMA OtherStepsKeepNets ==
  ASSUME TypeInv, NEW a \in Actors, SetupStep(a),
         pc[a] \notin {"s_clean", "s_create", "s_anchor"}
  PROVE  /\ UNCHANGED <<named, anchors, cfg>>
         /\ pc'[a] \notin {"s_create", "s_anchor", "idle"}
         /\ \A b \in Actors : b # a => pc'[b] = pc[b]
<1> USE DEF TypeInv, TypeOK
<1>1. CASE Tune(a)
  <2>1. Following[pc[a]] \in TuneSteps \union {"s_clean"}
    BY <1>1, FollowingSteps DEF Tune, TuneSteps
  <2> QED
    BY <1>1, <2>1 DEF Tune, Goto, TuneSteps
<1>2. CASE StatBaseline(a) \/ ReadSettings(a) \/ OpenBaseline(a) \/ WriteBaseline(a) \/ ConfigureBoot(a)
  BY <1>2 DEF StatBaseline, ReadSettings, OpenBaseline, WriteBaseline, ConfigureBoot, Goto
<1> QED
  BY <1>1, <1>2 DEF SetupStep, CleanNet, CreateNet, StartAnchor

\* Those that are.
LEMMA NetSteps ==
  ASSUME TypeInv, NEW a \in Actors, SetupStep(a),
         pc[a] \in {"s_clean", "s_create", "s_anchor"}
  PROVE  /\ pc[a] = "s_clean" => CleanNet(a)
         /\ pc[a] = "s_create" => CreateNet(a)
         /\ pc[a] = "s_anchor" => StartAnchor(a)
         /\ \A b \in Actors : b # a => pc'[b] = pc[b] /\ cfg'[b] = cfg[b]
         /\ pc'[a] # "idle" => cfg' = cfg /\ result' = result
<1> USE DEF TypeInv, TypeOK
<1>1. CleanNet(a) \/ CreateNet(a) \/ StartAnchor(a)
  BY DEF SetupStep, StatBaseline, ReadSettings, OpenBaseline, WriteBaseline, ConfigureBoot, Tune, TuneSteps
<1> QED
  BY <1>1 DEF CleanNet, CreateNet, StartAnchor, Finish, Goto

LEMMA AnchoredStays ==
  ASSUME TypeInv, HoldInv, Faultless, NEW a \in Actors, SetupStep(a),
         NEW n \in Names, Anchored(n)
  PROVE  Anchored(n)'
<1> USE DEF TypeInv, TypeOK, Anchored
<1>0. None \notin Nets
  BY HostAssumption
<1>1. CASE pc[a] \notin {"s_clean", "s_create", "s_anchor"}
  BY <1>1, OtherStepsKeepNets
<1>2. CASE pc[a] = "s_clean"
  <2>1. CleanNet(a) /\ \A b \in Actors : b # a => pc'[b] = pc[b] /\ cfg'[b] = cfg[b]
    BY <1>2, NetSteps
  <2>2. CASE cfg[a].net = None
    BY <1>2, <2>1, <2>2 DEF CleanNet
  <2>3. CASE cfg[a].net = n /\ n # None
    BY <1>2, <2>1, <2>3 DEF CleanNet, Goto
  <2>4. CASE cfg[a].net # n /\ cfg[a].net # None
    <3>1. named'[n] = named[n] /\ anchors' = anchors
      BY <2>1, <2>4 DEF CleanNet
    <3> QED
      BY <1>2, <2>1, <2>4, <3>1
  <2> QED
    BY <2>2, <2>3, <2>4
<1>3. CASE pc[a] = "s_create"
  <2>1. CreateNet(a) /\ \A b \in Actors : b # a => pc'[b] = pc[b] /\ cfg'[b] = cfg[b]
    BY <1>3, NetSteps
  <2>2. CASE named[cfg[a].net] # None
    BY <1>3, <2>1, <2>2 DEF CreateNet
  <2>3. CASE named[cfg[a].net] = None /\ cfg[a].net = n
    BY <1>3, <2>1, <2>3 DEF CreateNet, Goto
  <2>4. CASE named[cfg[a].net] = None /\ cfg[a].net # n
    <3>1. named'[n] = named[n] /\ anchors' = anchors
      BY <2>1, <2>4 DEF CreateNet
    <3> QED
      BY <1>3, <2>1, <2>4, <3>1
  <2> QED
    BY <2>2, <2>3, <2>4
<1>4. CASE pc[a] = "s_anchor"
  <2>1. /\ StartAnchor(a) /\ \A b \in Actors : b # a => pc'[b] = pc[b] /\ cfg'[b] = cfg[b]
        /\ named' = named /\ anchors \subseteq anchors'
    BY <1>4, NetSteps DEF StartAnchor
  <2>2. CASE cfg[a].net = n /\ named[n] # None
    BY <2>1, <2>2 DEF StartAnchor
  <2>3. CASE cfg[a].net = n /\ named[n] = None
    <3>1. PICK b \in Actors : pc[b] = "s_create" /\ cfg[b].net = n
      BY <1>4, <2>3 DEF HoldInv, Replaced
    <3> QED
      BY <1>4, <2>1, <2>3, <3>1
  <2>4. CASE cfg[a].net # n
    BY <1>4, <2>1, <2>4
  <2> QED
    BY <2>2, <2>3, <2>4
<1> QED
  BY <1>1, <1>2, <1>3, <1>4

\* Of the two ways to report success one has no namespace, the other its process.
LEMMA OkIsAnchored ==
  ASSUME TypeInv, HoldInv, Faultless, NEW a \in Actors, SetupStep(a),
         result'[a].rc = "ok", NEW n \in Names, cfg[a].net = n
  PROVE  Anchored(n)'
<1> USE DEF TypeInv, TypeOK
<1>1. pc'[a] = "idle"
  BY SetupStepChanges
<1>2. pc[a] \in {"s_clean", "s_create", "s_anchor"}
  BY <1>1, OtherStepsKeepNets
<1>3. result[a].rc # "ok" /\ n # None /\ result[a] \in Result
  BY <1>2, HostAssumption DEF HoldInv, SetupKnows, SetupSteps
<1>4. CASE pc[a] \in {"s_clean", "s_create"}
  <2>1. CreateNet(a) /\ pc[a] = "s_create"
    BY <1>1, <1>2, <1>3, <1>4, NetSteps DEF CleanNet, Goto
  <2> QED
    BY <1>1, <1>3, <2>1 DEF CreateNet, Finish, Goto, Result
<1>5. CASE pc[a] = "s_anchor"
  <2>1. StartAnchor(a)
    BY <1>5, NetSteps
  <2>2. Anchored(n)
    BY <1>5 DEF Anchored
  <2> QED
    BY <2>2, AnchoredStays
<1> QED
  BY <1>2, <1>4, <1>5

LEMMA ReplacedStays ==
  ASSUME TypeInv, HoldInv, NEW a \in Actors, SetupStep(a)
  PROVE  Replaced'
<1> SUFFICES ASSUME Faultless, NEW b \in Actors, pc'[b] = "s_anchor", named'[cfg'[b].net] = None
             PROVE  \E d \in Actors : pc'[d] = "s_create" /\ cfg'[d].net = cfg'[b].net
  BY SetupStepChanges DEF Replaced, Faultless
<1> USE DEF TypeInv, TypeOK
<1>1. CASE pc[a] \notin {"s_clean", "s_create", "s_anchor"}
  BY <1>1, OtherStepsKeepNets DEF HoldInv, Replaced
<1>2. CASE pc[a] = "s_clean"
  <2>1. CleanNet(a) /\ \A d \in Actors : d # a => pc'[d] = pc[d] /\ cfg'[d] = cfg[d]
    BY <1>2, NetSteps
  <2>2. b # a /\ cfg[b].net \in Names
    BY <2>1 DEF CleanNet, Finish, Goto
  <2>3. CASE named[cfg[b].net] = None
    BY <1>2, <2>1, <2>2, <2>3 DEF HoldInv, Replaced
  <2>4. CASE named[cfg[b].net] # None
    BY <1>2, <2>1, <2>2, <2>4 DEF CleanNet, Goto
  <2> QED
    BY <2>3, <2>4
<1>3. CASE pc[a] = "s_create"
  <2>1. CreateNet(a) /\ \A d \in Actors : d # a => pc'[d] = pc[d] /\ cfg'[d] = cfg[d]
    BY <1>3, NetSteps
  <2>2. None \notin Nets
    BY HostAssumption
  <2>3. b # a /\ cfg[b].net \in Names /\ named[cfg[b].net] = None
    BY <1>3, <2>1, <2>2 DEF CreateNet, Finish, Goto
  <2>4. cfg[a].net # cfg[b].net
    BY <1>3, <2>1, <2>2, <2>3 DEF CreateNet, Finish, Goto
  <2>5. PICK d \in Actors : pc[d] = "s_create" /\ cfg[d].net = cfg[b].net
    BY <2>1, <2>3 DEF HoldInv, Replaced
  <2> QED
    BY <2>1, <2>3, <2>4, <2>5
<1>4. CASE pc[a] = "s_anchor"
  <2>1. /\ StartAnchor(a) /\ \A d \in Actors : d # a => pc'[d] = pc[d] /\ cfg'[d] = cfg[d]
    BY <1>4, NetSteps
  <2>2. b # a /\ named[cfg[b].net] = None
    BY <2>1 DEF StartAnchor, Finish, Goto
  <2>3. PICK d \in Actors : pc[d] = "s_create" /\ cfg[d].net = cfg[b].net
    BY <2>1, <2>2 DEF HoldInv, Replaced
  <2> QED
    BY <1>4, <2>1, <2>2, <2>3
<1> QED
  BY <1>1, <1>2, <1>3, <1>4

LEMMA SetupHolds ==
  ASSUME TypeInv, BaselineInv, HoldInv, NEW a \in Actors, SetupStep(a)
  PROVE  HoldInv'
<1>0. /\ Tui \in Actors /\ Daemon \in Actors /\ Tui # Daemon /\ Actors = {Tui, Daemon}
  BY HostAssumption DEF Actors
<1>1. /\ pc[a] \in SetupSteps /\ pc'[a] \in SetupSteps \union {"idle"}
      /\ world' = world
      /\ \A b \in Actors : b # a => /\ pc'[b] = pc[b] /\ cfg'[b] = cfg[b]
                                    /\ result'[b] = result[b]
  BY SetupStepChanges
<1>2. \A steps \in SUBSET TuneSteps, c \in AnyConfig :
        InPlace(steps, c) => InPlace(steps, c)'
  BY TunedStays
<1>3. \A b \in Actors : pc[b] \in SetupSteps =>
        /\ cfg[b] \in AnyConfig /\ Done(pc[b]) \in SUBSET TuneSteps
        /\ InPlace(Done(pc[b]), cfg[b])
  BY DoneSteps DEF HoldInv, SetupKnows, TypeInv
<1>4. SetupKnows'
  <2> SUFFICES ASSUME NEW b \in Actors, pc'[b] \in SetupSteps
               PROVE  /\ result'[b].of = cfg'[b] /\ result'[b].rc \in {"running", "reboot"}
                      /\ \A step \in Done(pc'[b]) :
                           \A s \in Tunes(step, cfg'[b]) : knob'[s] = "tuned"
    BY DEF SetupKnows, InPlace
  <2>1. CASE b # a
    <3>1. \A step \in Done(pc[b]) : \A s \in Tunes(step, cfg[b]) : knob'[s] = "tuned"
      BY <1>1, <1>2, <1>3, <2>1 DEF InPlace
    <3> QED
      BY <1>1, <2>1, <3>1 DEF HoldInv, SetupKnows
  <2>2. CASE b = a
    <3>1. /\ cfg'[a] = cfg[a] /\ result'[a].of = result[a].of
          /\ result'[a].rc \in {"running", "reboot"}
          /\ Done(pc'[a]) \subseteq Done(pc[a])
               \union (IF pc[a] \in TuneSteps THEN {pc[a]} ELSE {})
      <4>1. pc'[a] # "idle"
        BY <2>2 DEF SetupSteps, TuneSteps
      <4> QED
        BY <4>1, SetupStepChanges
    <3>2. \A step \in Done(pc[a]) : \A s \in Tunes(step, cfg[a]) : knob'[s] = "tuned"
      BY <1>1, <1>2, <1>3 DEF InPlace
    <3>3. pc[a] \in TuneSteps => \A s \in Tunes(pc[a], cfg[a]) : knob'[s] = "tuned"
      <4>1. pc[a] \in TuneSteps => Tune(a)
        BY DEF SetupStep, StatBaseline, ReadSettings, OpenBaseline, WriteBaseline, ConfigureBoot,
               CleanNet, CreateNet, StartAnchor, TuneSteps
      <4> QED
        BY <1>1, <1>3, <4>1, TunesSettings DEF Tune
    <3>4. \A step \in Done(pc'[a]) : \A s \in Tunes(step, cfg'[a]) : knob'[s] = "tuned"
      BY <3>1, <3>2, <3>3
    <3>5. result[a].of = cfg[a]
      BY <1>1 DEF HoldInv, SetupKnows
    <3> QED
      BY <2>2, <3>1, <3>4, <3>5
  <2> QED
    BY <2>1, <2>2
<1>5. TeardownClears'
  BY <1>0, <1>1 DEF TeardownClears, BaselineInv, Structure, SetupSteps, TuneSteps, TeardownSteps,
                    RestoreSteps
<1>6. OkHolds'
  <2> SUFFICES ASSUME NEW b \in Actors, NEW c, c = result'[b].of, result'[b].rc = "ok"
               PROVE  /\ c \in AnyConfig /\ InPlace(TuneSteps, c)'
                      /\ Faultless /\ c.net # None => Anchored(c.net)'
    BY <1>1 DEF OkHolds, Faultless, InPlace, Anchored
  <2>1. c \in AnyConfig /\ InPlace(TuneSteps, c)
    <3>1. CASE b # a
      BY <1>1, <3>1 DEF HoldInv, OkHolds
    <3>2. CASE b = a
      <4>1. c = cfg[a] /\ Done(pc[a]) = TuneSteps
        BY <1>1, <3>2, SetupStepChanges
      <4> QED
        BY <1>1, <1>3, <4>1
    <3> QED
      BY <3>1, <3>2
  <2>2. InPlace(TuneSteps, c)'
    BY <1>2, <2>1
  <2>3. ASSUME Faultless, c.net # None PROVE Anchored(c.net)'
    <3>1. c.net \in Names
      BY <2>1, <2>3, ConfigFields
    <3>2. PICK n \in Names : n = c.net
      BY <3>1
    <3>3. CASE b # a
      <4>1. Anchored(n)
        BY <1>1, <2>3, <3>2, <3>3 DEF HoldInv, OkHolds
      <4>2. Anchored(n)'
        BY <2>3, <4>1, AnchoredStays
      <4> QED
        BY <3>2, <4>2
    <3>4. CASE b = a
      <4>1. cfg[a].net = n
        BY <1>1, <3>2, <3>4, SetupStepChanges
      <4>2. Anchored(n)'
        BY <2>3, <3>4, <4>1, OkIsAnchored
      <4> QED
        BY <3>2, <4>2
    <3> QED
      BY <3>3, <3>4
  <2> QED
    BY <2>1, <2>2, <2>3
<1>7. Sole'
  BY <1>0, <1>1 DEF HoldInv, Sole, SetupSteps, TuneSteps
<1> QED
  BY <1>4, <1>5, <1>6, <1>7, ReplacedStays DEF HoldInv

\* A setup begins when nobody works, or next to another setup, whose result stays.
LEMMA StartHolds ==
  ASSUME TypeInv, HoldInv, NEW a \in Actors, NEW c \in AnyConfig, Start(a, c)
  PROVE  HoldInv'
<1>0. /\ Tui \in Actors /\ Daemon \in Actors /\ Tui # Daemon /\ Actors = {Tui, Daemon}
      /\ pc \in [Actors -> {"idle"} \union SetupSteps \union TeardownSteps]
      /\ cfg \in [Actors -> Configs \union {Default, None}]
  BY HostAssumption DEF Actors, TypeInv, TypeOK
<1>1. /\ pc[a] = "idle" /\ pc'[a] = "s_stat" /\ cfg'[a] = c /\ result'[a] = Begun(c)
      /\ UNCHANGED <<world, knob, named, anchors>>
  BY <1>0 DEF Start, Goto, MayBegin
<1>2. \A b \in Actors : b # a =>
        /\ pc'[b] = pc[b] /\ cfg'[b] = cfg[b]
        /\ IF AllIdle THEN pc[b] = "idle" /\ result'[b] = NoResult
           ELSE result'[b] = result[b] /\ pc[b] \in SetupSteps \union {"idle"}
  BY <1>0 DEF Start, Goto, MayBegin, AllIdle
<1>3. /\ Begun(c).rc = "running" /\ Begun(c).of = c /\ NoResult.rc = "none"
      /\ Done("s_stat") = {}
  BY DoneSteps DEF Begun, NoResult
<1>4. /\ "s_stat" \in SetupSteps /\ "s_stat" \notin TeardownSteps
      /\ "idle" \notin SetupSteps \union TeardownSteps
      /\ SetupSteps \intersect TeardownSteps = {}
  BY DEF SetupSteps, TuneSteps, TeardownSteps, RestoreSteps
<1>5. SetupKnows'
  BY <1>1, <1>2, <1>3, <1>4 DEF HoldInv, SetupKnows, InPlace
<1>6. TeardownClears'
  BY <1>0, <1>1, <1>2, <1>4 DEF TeardownClears
<1>7. \A n \in Names : Anchored(n) => Anchored(n)'
  BY <1>1, <1>2 DEF Anchored
<1>8. OkHolds'
  <2> SUFFICES ASSUME NEW b \in Actors, result'[b].rc = "ok"
               PROVE  /\ result'[b].of \in AnyConfig /\ InPlace(TuneSteps, result[b].of)'
                      /\ result'[b] = result[b]
                      /\ Faultless /\ result[b].of.net # None => Anchored(result[b].of.net)'
    BY <1>1 DEF OkHolds, Faultless, InPlace, Anchored
  <2>1. result'[b] = result[b] /\ result[b].rc = "ok"
    BY <1>1, <1>2, <1>3
  <2>2. result[b].of \in AnyConfig /\ InPlace(TuneSteps, result[b].of)
    BY <2>1 DEF HoldInv, OkHolds
  <2>3. Faultless /\ result[b].of.net # None => Anchored(result[b].of.net)'
    BY <1>7, <2>1, <2>2, ConfigFields DEF HoldInv, OkHolds
  <2> QED
    BY <1>1, <2>1, <2>2, <2>3 DEF InPlace
<1>9. Sole'
  <2>1. "overlap" \notin world => AllIdle
    BY DEF Start, MayBegin
  <2> QED
    BY <1>0, <1>1, <1>2, <2>1 DEF Sole
<1>10. Replaced'
  BY <1>1, <1>2 DEF HoldInv, Replaced, Faultless
<1> QED
  BY <1>5, <1>6, <1>8, <1>9, <1>10 DEF HoldInv

\* While a teardown runs nothing is claimed of any setup.
LEMMA TeardownHolds ==
  ASSUME TypeInv, BaselineInv, HoldInv, TeardownStep
  PROVE  HoldInv'
<1>0. /\ Tui \in Actors /\ Daemon \in Actors /\ Tui # Daemon /\ Actors = {Tui, Daemon}
      /\ pc \in [Actors -> {"idle"} \union SetupSteps \union TeardownSteps]
      /\ cfg \in [Actors -> Configs \union {Default, None}]
      /\ result \in [Actors -> Result]
      /\ after \in Configs \union {None}
      /\ pc[Tui] \in TeardownSteps
  BY HostAssumption DEF Actors, TypeInv, TypeOK, TeardownStep, RestoreBoot, RemoveNet,
     RestoreSwap, ReadBaseline, Restore, RemoveBaseline, WipeState, TeardownSteps
<1>1. pc[Daemon] = "idle" /\ result[Tui] = NoResult /\ result[Daemon] = NoResult
  BY <1>0 DEF BaselineInv, Structure, HoldInv, TeardownClears
<1>2. pc'[Daemon] = "idle" /\ result'[Daemon] = NoResult
  BY <1>0, <1>1 DEF TeardownStep, RestoreBoot, RemoveNet, RestoreSwap, ReadBaseline, Restore,
                    RemoveBaseline, WipeState, Goto
<1>3. \/ pc'[Tui] \in TeardownSteps \union {"idle"} /\ result'[Tui] = NoResult
      \/ /\ pc'[Tui] = "s_stat" /\ cfg'[Tui] = after
         /\ result'[Tui] = Begun(after)
  <2>1. CASE Restore
    <3>1. Following[pc[Tui]] \in TeardownSteps
      BY <2>1, FollowingSteps DEF Restore, RestoreSteps, TeardownSteps
    <3> QED
      BY <1>0, <1>1, <2>1, <3>1 DEF Restore, Goto
  <2>2. CASE TeardownStep /\ ~Restore
    BY <1>0, <1>1, <2>2 DEF TeardownStep, RestoreBoot, RemoveNet, RestoreSwap, ReadBaseline,
                            RemoveBaseline, WipeState, Goto, TeardownSteps, RestoreSteps
  <2> QED
    BY <2>1, <2>2
<1>4. /\ Begun(after).rc = "running" /\ Begun(after).of = after /\ NoResult.rc = "none"
      /\ Done("s_stat") = {}
  BY DoneSteps DEF Begun, NoResult
<1>5. /\ "s_stat" \in SetupSteps /\ "s_stat" \notin TeardownSteps
      /\ "idle" \notin SetupSteps \union TeardownSteps
      /\ SetupSteps \intersect TeardownSteps = {}
      /\ "s_anchor" \notin TeardownSteps
  BY DEF SetupSteps, TuneSteps, TeardownSteps, RestoreSteps
<1>6. SetupKnows'
  BY <1>0, <1>2, <1>3, <1>4, <1>5 DEF SetupKnows, InPlace
<1>7. TeardownClears' /\ OkHolds' /\ Sole' /\ Replaced'
  BY <1>0, <1>2, <1>3, <1>4, <1>5 DEF TeardownClears, OkHolds, Sole, Replaced
<1> QED
  BY <1>6, <1>7 DEF HoldInv

LEMMA KillHolds ==
  ASSUME TypeInv, BaselineInv, HoldInv, NEW a \in Actors, Kill(a)
  PROVE  HoldInv'
<1>0. /\ Tui \in Actors /\ Daemon \in Actors /\ Tui # Daemon /\ Actors = {Tui, Daemon}
      /\ pc \in [Actors -> {"idle"} \union SetupSteps \union TeardownSteps]
      /\ cfg \in [Actors -> Configs \union {Default, None}]
      /\ result \in [Actors -> Result]
  BY HostAssumption DEF Actors, TypeInv, TypeOK
<1>1. /\ pc[a] # "idle" /\ pc'[a] = "idle" /\ result'[a] = NoResult
      /\ "kill" \in world
      /\ UNCHANGED <<world, knob, named, anchors>>
      /\ \A b \in Actors : b # a => /\ pc'[b] = pc[b] /\ cfg'[b] = cfg[b]
                                    /\ result'[b] = result[b]
  BY <1>0 DEF Kill, Goto
<1>2. "idle" \notin SetupSteps \union TeardownSteps /\ NoResult.rc = "none"
  BY DEF SetupSteps, TuneSteps, TeardownSteps, RestoreSteps, NoResult
<1>3. Faultless => \A b \in Actors : b # a => pc[b] = "idle" /\ result[b] = NoResult
  BY <1>1 DEF Faultless, HoldInv, Sole
<1>4. SetupKnows'
  BY <1>1, <1>2 DEF HoldInv, SetupKnows, InPlace
<1>5. TeardownClears'
  BY <1>0, <1>1, <1>2 DEF HoldInv, TeardownClears
<1>6. OkHolds'
  BY <1>1, <1>2, <1>3 DEF HoldInv, OkHolds, InPlace, Faultless
<1>7. Sole' /\ Replaced'
  BY <1>1, <1>3 DEF HoldInv, Sole, Replaced, Faultless
<1> QED
  BY <1>4, <1>5, <1>6, <1>7 DEF HoldInv

LEMMA HoldStep == TypeInv /\ BaselineInv /\ HoldInv /\ [Next]_vars => HoldInv'
<1> SUFFICES ASSUME TypeInv, BaselineInv, HoldInv, [Next]_vars PROVE HoldInv'
  OBVIOUS
<1>0. /\ Tui \in Actors /\ Daemon \in Actors /\ Tui # Daemon /\ Actors = {Tui, Daemon}
      /\ pc \in [Actors -> {"idle"} \union SetupSteps \union TeardownSteps]
      /\ NoResult.rc = "none" /\ "t_grub" \notin SetupSteps
      /\ "idle" \notin SetupSteps \union TeardownSteps
  BY HostAssumption
     DEF Actors, TypeInv, TypeOK, NoResult, SetupSteps, TuneSteps, TeardownSteps, RestoreSteps
<1>1. ASSUME NEW c \in Configs, Apply(c) PROVE HoldInv'
  BY <1>0, <1>1, StartHolds DEF Apply, AnyConfig
<1>2. CASE StartDaemon
  <2>1. (IF active = NoFile THEN Default ELSE active) \in AnyConfig
    BY DEF TypeInv, TypeOK, AnyConfig
  <2> QED
    BY <1>0, <1>2, <2>1, StartHolds DEF StartDaemon
<1>3. ASSUME NEW c, NEW r, BeginTeardown(c, r) PROVE HoldInv'
  <2>1. /\ \A b \in Actors : result'[b] = NoResult
        /\ pc'[Tui] = "t_grub" /\ pc'[Daemon] = "idle"
    BY <1>0, <1>3 DEF BeginTeardown, Goto, AllIdle
  <2> QED
    BY <1>0, <2>1 DEF HoldInv, SetupKnows, TeardownClears, OkHolds, Sole, Replaced
<1>4. CASE Reboot
  <2>1. \A b \in Actors : result'[b] = NoResult /\ pc'[b] = "idle"
    BY <1>4 DEF Reboot, Forget
  <2> QED
    BY <1>0, <2>1 DEF HoldInv, SetupKnows, TeardownClears, OkHolds, Sole, Replaced
<1>5. CASE UNCHANGED vars
  BY <1>5 DEF HoldInv, SetupKnows, TeardownClears, OkHolds, Sole, Replaced, InPlace, Anchored,
              Faultless, vars, actor, history
<1> QED
  BY <1>1, <1>2, <1>3, <1>4, <1>5, SetupHolds, TeardownHolds, KillHolds DEF Next

\* A setup that reported success has its settings in place and a process in its
\* namespace, for any configurations and however a setup of the daemon overlapped
\* with it: once everyone is idle, a namespace that will have a process has it.
THEOREM SetupTakesHoldAlways == Spec => []SetupTakesHold
<1>1. HoldInv => SetupTakesHold
  BY DEF HoldInv, OkHolds, InPlace, Faultless, Anchored, SetupTakesHold, AllIdle
<1> QED
  BY <1>1, TypeInvInit, TypeInvStep, BaselineInit, BaselineStep, HoldInit, HoldStep, PTL
     DEF Spec

===============================================================================
