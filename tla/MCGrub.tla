-------------------------------- MODULE MCGrub --------------------------------
(***************************************************************************)
(* Instances of Grub for TLC.  The core lists are "2,3" and "3"; "3" occurs *)
(* in "2,3".                                                               *)
(***************************************************************************)
EXTENDS Grub

MCCoreLists == {"2,3", "3"}
MCCStates == {"0", "1"}

\* No parameter of ours in /etc/default/grub.
PlainHost == [form |-> "line", head |-> EmptyView, tail |-> EmptyView]

\* The owner of the machine limits C-states and the watchdog already.
OwnHost == [form |-> "line", head |-> EmptyView,
            tail |-> [EmptyView EXCEPT !["max_cstate"] = "1",
                                       !["nosoftlockup"] = "on"]]

\* The owner isolates cores already, and that is the first token of the line.
HeadHost == [form |-> "line",
             head |-> [EmptyView EXCEPT !["isolcpus"] = "3"],
             tail |-> [EmptyView EXCEPT !["rcu_nocbs"] = "3"]]

\* There is no /etc/default/grub.
NoGrubHost == [form |-> "missing", head |-> EmptyView, tail |-> EmptyView]

\* There is, but without a GRUB_CMDLINE_LINUX line.
NoLineHost == [form |-> "noline", head |-> EmptyView, tail |-> EmptyView]

\* A: everything on; B: isolation only, on other cores; AOff: A without nohz_full.
A == [cores |-> "2,3", nohz |-> TRUE, rcu |-> TRUE, cstate |-> "0"]
AOff == [A EXCEPT !.nohz = FALSE]
B == [cores |-> "3", nohz |-> FALSE, rcu |-> FALSE, cstate |-> "1"]

\* The snapshot of a machine without isolated cores.
NoCores == [cores |-> Absent, nohz |-> FALSE, rcu |-> FALSE, cstate |-> "0"]

AllHosts == {PlainHost, OwnHost, HeadHost, NoGrubHost, NoLineHost}
OnlyPlain == {PlainHost}
OnlyOwn == {OwnHost}

OnlyA == {A}
AllConfigs == {A, AOff, B, NoCores}

NoSnapshot == {None}
AnyRestore == {None, A, B, NoCores}
RestoreNoCores == {NoCores}

\* Careful behaviours, and all that can go wrong but a kernel update.
MCWorlds == {{"kill", "kernel"}, {"kill", "torn", "mkfail", "early", "restore"}}
PlainWorld == {{}}
RestoreWorld == {{"restore"}}

\* Substring relation of the core lists, on every value a command line can hold.
MCWithin == {<<"3", "3">>, <<"3", "2,3">>, <<"2,3", "2,3">>}
ExactWithin == {<<"3", "3">>, <<"2,3", "2,3">>}
===============================================================================
