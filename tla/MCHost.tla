--------------------------------- MODULE MCHost -------------------------------
(***************************************************************************)
(* Instances of Host for TLC: two lists of cores, two names of namespaces, *)
(* and configurations that differ in all of their fields.                  *)
(***************************************************************************)
EXTENDS Host, TLC

\* Everything is as the owner likes it, all services run.
PlainMachine == [s \in Settings |-> IF s = "irq" THEN "default" ELSE "own"]

\* The owner has tuned some of it: no swap, no irqbalance, no boost, no ASLR.
TunedMachine ==
  [s \in Settings |->
     CASE s \in {"swap", "irqbalance", "boost", "aslr"} -> "tuned"
       [] s \in {"governor", "irq"} -> "default"
       [] OTHER -> "own"]

MCDefault ==
  [cores |-> "2-5", flags |-> Flags \ {"target"}, net |-> "ns"]

\* Other cores, the same namespace and little else.
Light == [cores |-> "3", flags |-> {"aslr", "target"}, net |-> "ns"]

\* No isolated cores, so that no reboot is asked for, and another namespace.
Coreless == [cores |-> None, flags |-> {"irqbalance", "swap"}, net |-> "lab"]

MCMachines == {TunedMachine}
JustPlain == {PlainMachine}

\* The default is what a daemon sets up where nothing was made active.
MCConfigs == {Light, Coreless}

MCWorlds == {{"kill"}, {"overlap"}, {"kill", "overlap"}}
Calm == {{}}

NetSymmetry == Permutations(Nets)
===============================================================================
