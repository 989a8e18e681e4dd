------------------------------- MODULE MCMonitor ------------------------------
(***************************************************************************)
(* Instances of Monitor for TLC.                                           *)
(***************************************************************************)
EXTENDS Monitor

\* With room for three, the veths find room beside one interface, not beside two.
MCHosts == {<<"eth0">>, <<"eth0", "eth1">>}

MCWorlds == {{}, {"hotplug"}, {"shell"}, {"cpu"}, {"cpu", "falls"}}
===============================================================================
