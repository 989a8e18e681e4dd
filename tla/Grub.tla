--------------------------------- MODULE Grub ---------------------------------
(***************************************************************************)
(* The life of the kernel boot parameters: setup_grub, save_grub_preconfig *)
(* and restore_grub_cmdline of setup.c, the rest of ubenchmon_teardown as  *)
(* far as it touches the baseline, and the restore path of the TUI         *)
(* (run_teardown_inner).  Each external command the code runs is a step of *)
(* its own, so that a kill, a failing update-grub or a kernel update can   *)
(* fall between any two of them.                                           *)
(*                                                                         *)
(* One operator works at a time (two concurrent setups are not modelled).  *)
(* The variable world says what may happen in a behaviour:                 *)
(*   "kill"    the process dies between two steps                          *)
(*   "torn"    it may also die after the baseline file was created and     *)
(*             before it was written                                       *)
(*   "mkfail"  update-grub fails                                           *)
(*   "kernel"  a package update runs update-grub on its own                *)
(*   "early"   a setup may follow a teardown without a reboot in between   *)
(*   "restore" the user may choose a snapshot to restore at a teardown     *)
(***************************************************************************)
EXTENDS GrubParams

CONSTANTS
  Hosts,      \* possible /etc/default/grub files of the machine
  Configs,    \* the configurations the user applies
  Restores,   \* what the TUI restores after a teardown (NoRestore: nothing)
  Within,     \* <<v, w>>: string v occurs in string w
  Elsewhere,  \* core lists that occur in the rest of the command line
  Worlds,     \* the worlds explored, see above
  NoFile,     \* the baseline file does not exist
  None        \* no value

NoRestore == None
File == [form : {"line", "noline", "missing"}, head : View, tail : View]
Outcome == [cfg : Configs, rc : {"active", "reboot", "unbuilt"}]

ASSUME GrubAssumption ==
  /\ Hosts \subseteq File
  /\ Configs \subseteq Config
  /\ Restores \subseteq Config \union {None}
  /\ \A r \in Restores : r = None \/ r.cores = Absent \/ r \in Configs
  /\ Worlds \subseteq SUBSET {"kill", "torn", "mkfail", "kernel", "early", "restore"}
  /\ Absent \notin Values
  /\ NoFile \notin View
  /\ None \notin Config

VARIABLES
  world,     \* what may happen, see above
  orig,      \* history: /etc/default/grub before ubenchmon ever ran
  file,      \* /etc/default/grub
  boot,      \* the kernel command line in grub.cfg
  running,   \* /proc/cmdline
  baseline,  \* /var/lib/ubenchmon/grub_preconfig.json
  pc,        \* where the operator is
  cfg,       \* the configuration being applied
  snap,      \* the baseline values the operator holds in memory
  after,     \* what run_teardown_inner applies once the teardown is done
  listed,    \* the picker has a snapshot to offer (snapshot_store::list)
  last       \* history: the setup that completed last

given == <<world, orig>>
disk == <<file, boot, baseline>>
vars == <<given, file, boot, running, baseline, pc, cfg, snap, after, listed, last>>

SetupPcs == {"s_stat", "s_open", "s_write", "s_strip", "s_check", "s_clean",
             "s_append", "s_build"}
RestorePcs == {"r_read", "r_strip", "r_append", "r_build", "r_remove", "r_wipe",
               "t_strip", "t_build"}

TypeOK ==
  /\ world \in Worlds
  /\ orig \in Hosts
  /\ file \in File
  /\ boot \in CmdLine
  /\ running \in CmdLine
  /\ baseline \in View \union {NoFile}
  /\ pc \in {"idle"} \union SetupPcs \union RestorePcs
  /\ cfg \in Configs \union {None}
  /\ snap \in View \union {None}
  /\ after \in Restores \union {None}
  /\ listed \in BOOLEAN
  /\ last \in Outcome \union {None}

CmdLineOf(f) == [head |-> f.head, tail |-> f.tail]

Init ==
  /\ world \in Worlds
  /\ orig \in Hosts
  /\ file = orig
  /\ boot = CmdLineOf(orig)
  /\ running = CmdLineOf(orig)
  /\ baseline = NoFile
  /\ pc = "idle"
  /\ cfg = None /\ snap = None /\ after = None /\ last = None
  /\ listed = FALSE

-------------------------------------------------------------------------------
\* setup_grub

\* A teardown tells its user to reboot before the parameters are really gone.
RebootedSinceTeardown ==
  \/ "early" \in world
  \/ baseline # NoFile
  \/ Shown(running) = Shown(boot)

\* Leave the handler.  The locals die with it.
Finish(outcome) ==
  /\ pc' = "idle"
  /\ cfg' = None /\ snap' = None /\ after' = None
  /\ last' = outcome

\* An Apply, which saves snapshots first, or a daemon that starts, which saves none.
BeginSetup(c) ==
  /\ pc = "idle"
  /\ c.cores # Absent
  /\ RebootedSinceTeardown
  /\ pc' = "s_stat"
  /\ cfg' = c
  /\ listed' \in {TRUE, listed}
  /\ last' = None
  /\ UNCHANGED <<given, disk, running, snap, after>>

\* Without isolated cores setup_grub returns at once and touches nothing.
ApplyNoCores ==
  /\ pc = "idle"
  /\ \E c \in Configs : c.cores = Absent
  /\ listed' = TRUE
  /\ UNCHANGED <<given, disk, running, pc, cfg, snap, after, last>>

\* Mutants: a later setup captures again; the values are never read.
StatBaselineAgain ==
  /\ pc = "s_stat"
  /\ pc' = "s_open"
  /\ snap' = Shown(running)
  /\ UNCHANGED <<given, listed, disk, running, cfg, after, last>>

StatBaselineUnread ==
  /\ pc = "s_stat"
  /\ pc' = (IF baseline # NoFile THEN "s_strip" ELSE "s_open")
  /\ UNCHANGED <<given, listed, disk, running, cfg, snap, after, last>>

\* save_grub_preconfig: an existing baseline is kept, otherwise the parameters
\* of the running kernel are read.
StatBaseline ==
  /\ pc = "s_stat"
  /\ IF baseline # NoFile
       THEN pc' = "s_strip" /\ snap' = snap
       ELSE pc' = "s_open" /\ snap' = Shown(running)
  /\ UNCHANGED <<given, listed, disk, running, cfg, after, last>>

\* fopen(GRUB_PRECONFIG, "w"): an empty file reads as "every parameter absent".
OpenBaseline ==
  /\ pc = "s_open"
  /\ baseline' = EmptyView
  /\ pc' = "s_write"
  /\ UNCHANGED <<given, listed, file, boot, running, cfg, snap, after, last>>

WriteBaseline ==
  /\ pc = "s_write"
  /\ baseline' = snap
  /\ snap' = None
  /\ pc' = "s_strip"
  /\ UNCHANGED <<given, listed, file, boot, running, cfg, after, last>>

GrubMissing ==
  /\ pc = "s_strip"
  /\ file.form = "missing"
  /\ Finish(None)
  /\ UNCHANGED <<given, listed, disk, running>>

\* Mutant: rcu_nocbs is only added, never removed.
StripDynamicNohz ==
  /\ pc = "s_strip"
  /\ file.form # "missing"
  /\ file' = [file EXCEPT !.tail = Stripped(@, {"nohz_full"})]
  /\ pc' = "s_check"
  /\ UNCHANGED <<given, listed, boot, running, baseline, cfg, snap, after, last>>

\* nohz_full and rcu_nocbs go first, whatever is decided afterwards.
StripDynamic ==
  /\ pc = "s_strip"
  /\ file.form # "missing"
  /\ file' = [file EXCEPT !.tail = Stripped(@, {"nohz_full", "rcu_nocbs"})]
  /\ pc' = "s_check"
  /\ UNCHANGED <<given, listed, boot, running, baseline, cfg, snap, after, last>>

\* strstr(cmdline, cores) looks for the core list anywhere in /proc/cmdline.
Mentions(c) ==
  \/ c \in Elsewhere
  \/ \E p \in Params : \/ <<c, running.head[p]>> \in Within
                       \/ <<c, running.tail[p]>> \in Within

AlreadyActive ==
  /\ Shown(running)["isolcpus"] # Absent
  /\ cfg.nohz => Shown(running)["nohz_full"] # Absent
  /\ cfg.rcu => Shown(running)["rcu_nocbs"] # Absent
  /\ Mentions(cfg.cores)

ReportActive ==
  /\ pc = "s_check"
  /\ AlreadyActive
  /\ Finish([cfg |-> cfg, rc |-> "active"])
  /\ UNCHANGED <<given, listed, disk, running>>

FindInactive ==
  /\ pc = "s_check"
  /\ ~AlreadyActive
  /\ pc' = "s_clean"
  /\ UNCHANGED <<given, listed, disk, running, cfg, snap, after, last>>

\* Mutant: the C-state limit of the previous configuration stays.
StripStaticIsolcpus ==
  /\ pc = "s_clean"
  /\ file' = [file EXCEPT !.tail = Stripped(@, {"isolcpus"})]
  /\ pc' = "s_append"
  /\ UNCHANGED <<given, listed, boot, running, baseline, cfg, snap, after, last>>

StripStatic ==
  /\ pc = "s_clean"
  /\ file' = [file EXCEPT !.tail =
                Stripped(@, {"isolcpus", "max_cstate", "nosoftlockup"})]
  /\ pc' = "s_append"
  /\ UNCHANGED <<given, listed, boot, running, baseline, cfg, snap, after, last>>

\* sed appends to the GRUB_CMDLINE_LINUX line.  When there is none, echo adds a
\* line whose first token is isolcpus, with no blank in front.
NewLine(v) ==
  [form |-> "line",
   head |-> [EmptyView EXCEPT !["isolcpus"] = v["isolcpus"]],
   tail |-> Appended(file.tail, [v EXCEPT !["isolcpus"] = Absent])]

AppendParams ==
  /\ pc = "s_append"
  /\ file' = IF file.form = "line"
               THEN [file EXCEPT !.tail = Appended(@, Wanted(cfg))]
               ELSE NewLine(Wanted(cfg))
  /\ pc' = "s_build"
  /\ UNCHANGED <<given, listed, boot, running, baseline, cfg, snap, after, last>>

\* A failing update-grub only changes the message; the result is the same.
Build(fails) == boot' = IF fails THEN boot ELSE CmdLineOf(file)

BuildFails == IF "mkfail" \in world THEN BOOLEAN ELSE {FALSE}

BuildSetup ==
  /\ pc = "s_build"
  /\ \E fails \in BuildFails :
       /\ Build(fails)
       /\ Finish([cfg |-> cfg, rc |-> IF fails THEN "unbuilt" ELSE "reboot"])
  /\ UNCHANGED <<given, listed, file, running, baseline>>

-------------------------------------------------------------------------------
\* ubenchmon_teardown with restore_grub_cmdline, and what the TUI does after it

\* The picker does not open without a snapshot, so an Apply has come before.  With
\* r = None nothing comes after the library's part: the TUI dies right after it.
BeginTeardown(r) ==
  /\ pc = "idle"
  /\ listed
  /\ r # None => "restore" \in world
  /\ pc' = "r_read"
  /\ after' = r
  /\ last' = None
  /\ UNCHANGED <<given, listed, disk, running, cfg, snap>>

ReadBaseline ==
  /\ pc = "r_read"
  /\ \/ /\ baseline = NoFile
        /\ pc' = "r_wipe"
        /\ UNCHANGED <<baseline, snap>>
     \/ /\ baseline # NoFile /\ file.form = "missing"
        /\ baseline' = NoFile
        /\ pc' = "r_wipe"
        /\ snap' = snap
     \/ /\ baseline # NoFile /\ file.form # "missing"
        /\ snap' = baseline
        /\ pc' = "r_strip"
        /\ baseline' = baseline
  /\ UNCHANGED <<given, listed, file, boot, running, cfg, after, last>>

\* Mutant: the restore forgets a parameter setup_grub adds.
StripAllButFlag ==
  /\ pc = "r_strip"
  /\ file' = [file EXCEPT !.tail = Stripped(@, Params \ {"nosoftlockup"})]
  /\ pc' = "r_append"
  /\ UNCHANGED <<given, listed, boot, running, baseline, cfg, snap, after, last>>

StripAll ==
  /\ pc = "r_strip"
  /\ file' = [file EXCEPT !.tail = Stripped(@, Params)]
  /\ pc' = "r_append"
  /\ UNCHANGED <<given, listed, boot, running, baseline, cfg, snap, after, last>>

\* Mutant: the baseline is removed before grub.cfg is generated again.
AppendBaselineOnly ==
  /\ pc = "r_append"
  /\ file' = [file EXCEPT !.tail = Appended(@, snap)]
  /\ pc' = "r_remove"
  /\ UNCHANGED <<given, listed, boot, running, baseline, cfg, snap, after, last>>

\* Nothing is put back when the GRUB_CMDLINE_LINUX line does not exist.
AppendBaseline ==
  /\ pc = "r_append"
  /\ file' = IF file.form = "line"
               THEN [file EXCEPT !.tail = Appended(@, snap)]
               ELSE file
  /\ pc' = "r_build"
  /\ UNCHANGED <<given, listed, boot, running, baseline, cfg, snap, after, last>>

BuildRestore ==
  /\ pc = "r_build"
  /\ \E fails \in BuildFails : Build(fails)
  /\ pc' = "r_remove"
  /\ UNCHANGED <<given, listed, file, running, baseline, cfg, snap, after, last>>

RemoveBaseline ==
  /\ pc = "r_remove"
  /\ baseline' = NoFile
  /\ snap' = None
  /\ pc' = "r_wipe"
  /\ UNCHANGED <<given, listed, file, boot, running, cfg, after, last>>

\* rm -rf /var/lib/ubenchmon ends the teardown.  run_teardown_inner then strips
\* the parameters itself when the chosen snapshot isolates no core, and runs the
\* whole setup with the snapshot's configuration otherwise.
WipeState ==
  /\ pc = "r_wipe"
  /\ baseline' = NoFile
  /\ listed' = FALSE
  /\ \/ /\ after = None
        /\ Finish(None)
     \/ /\ after # None /\ after.cores = Absent
        /\ pc' = "t_strip"
        /\ UNCHANGED <<cfg, snap, after, last>>
     \/ /\ after # None /\ after.cores # Absent
        /\ pc' = "s_stat"
        /\ cfg' = after
        /\ UNCHANGED <<snap, after, last>>
  /\ UNCHANGED <<given, file, boot, running>>

StripSnapshot ==
  /\ pc = "t_strip"
  /\ IF file.form = "missing"
       THEN Finish(None) /\ file' = file
       ELSE /\ file' = [file EXCEPT !.tail = Stripped(@, Params)]
            /\ pc' = "t_build"
            /\ UNCHANGED <<cfg, snap, after, last>>
  /\ UNCHANGED <<given, listed, boot, running, baseline>>

BuildSnapshot ==
  /\ pc = "t_build"
  /\ \E fails \in BuildFails : Build(fails)
  /\ Finish(None)
  /\ UNCHANGED <<given, listed, file, running, baseline>>

-------------------------------------------------------------------------------
\* The machine

Reboot ==
  /\ pc = "idle"
  /\ running # boot
  /\ running' = boot
  /\ UNCHANGED <<given, listed, disk, pc, cfg, snap, after, last>>

Kill ==
  /\ "kill" \in world
  /\ pc # "idle"
  /\ pc = "s_write" => "torn" \in world
  /\ Finish(None)
  /\ UNCHANGED <<given, listed, disk, running>>

KernelUpdate ==
  /\ "kernel" \in world
  /\ file.form # "missing"
  /\ boot # CmdLineOf(file)
  /\ boot' = CmdLineOf(file)
  /\ UNCHANGED <<given, listed, file, running, baseline, pc, cfg, snap, after, last>>

SetupStep ==
  \/ StatBaseline \/ OpenBaseline \/ WriteBaseline \/ GrubMissing
  \/ StripDynamic \/ ReportActive \/ FindInactive \/ StripStatic
  \/ AppendParams \/ BuildSetup

RestoreStep ==
  \/ ReadBaseline \/ StripAll \/ AppendBaseline \/ BuildRestore
  \/ RemoveBaseline \/ WipeState \/ StripSnapshot \/ BuildSnapshot

Next ==
  \/ \E c \in Configs : BeginSetup(c)
  \/ ApplyNoCores
  \/ \E r \in Restores : BeginTeardown(r)
  \/ SetupStep
  \/ RestoreStep
  \/ Reboot
  \/ Kill
  \/ KernelUpdate

Spec == Init /\ [][Next]_vars

-------------------------------------------------------------------------------
\* Properties

Original == Shown(CmdLineOf(orig))

\* The careful behaviours: a teardown is followed by a reboot before the next
\* setup, update-grub works, a kill does not fall between the creation and the
\* writing of the baseline, the TUI restores no snapshot after the teardown, and
\* there is a GRUB_CMDLINE_LINUX line to put the parameters back into.
Careful ==
  /\ world \subseteq {"kill", "kernel"}
  /\ orig.form # "noline"

\* The baseline holds the parameters the machine had before ubenchmon, in spite
\* of kills, of setups that start over and of reboots: the "true pre-ubenchmon
\* baseline" save_grub_preconfig guards by saving exactly once.
BaselineTrue == Careful => baseline \in {NoFile, Original} \/ pc = "s_write"

\* The baseline is given up only when the next boot is the original one again.
\* With BaselineTrue: from every state, also one a kill left half way, a teardown
\* and a reboot lead back ("restores the exact original kernel cmdline").
NothingForgotten ==
  Careful /\ baseline = NoFile => Shown(file) = Original /\ Shown(boot) = Original

\* NothingForgotten of the next boot alone, whatever the behaviour.
NextBootOriginal == baseline = NoFile => Shown(boot) = Original

\* A parameter at the head of the line stays for ever.  The owner may have put one
\* there, and the first setup does where there is no line.
HeadIsFree == orig.head = EmptyView /\ orig.form # "noline"

\* The machine never boots half a configuration: the next boot has the original
\* parameters, none of them, or all those of one configuration, although a kill
\* can leave /etc/default/grub stripped and not yet refilled.  A package update can.
BootWhole ==
  "kernel" \notin world /\ HeadIsFree =>
    Shown(boot) \in {Original, EmptyView} \union {Wanted(c) : c \in Configs}

\* When a setup regenerated grub.cfg and asks for a reboot, that reboot brings
\* exactly its parameters, whatever earlier configuration the file still held.
RebootDelivers ==
  HeadIsFree /\ last # None /\ last.rc = "reboot" => Shown(boot) = Wanted(last.cfg)

\* A setup that completes leaves its own parameters in the file, also when it is
\* the second one with the same configuration ("Each sub-step is idempotent").
SetupConverges == last # None => Shown(file) = Wanted(last.cfg)

\* The abstract promise the boot parameters keep, in the careful behaviours; the
\* others are mapped to one in which nothing happens.
Contract == INSTANCE BootContract WITH
  Views <- View,
  next <- IF Careful THEN Shown(boot) ELSE EmptyView,
  active <- IF Careful THEN Shown(running) ELSE EmptyView,
  saved <- IF Careful /\ pc # "s_write" THEN baseline ELSE NoFile

\* setup and teardown implement it.
ContractSpec == Contract!Spec
===============================================================================
