------------------------------ MODULE GrubProofs ------------------------------
(***************************************************************************)
(* Theorems about Grub, for every machine, set of configurations, core     *)
(* list and set of worlds: type correctness in every behaviour, the safety *)
(* of the baseline in the careful ones (Careful in Grub), with kills and   *)
(* kernel updates at almost any moment, and in every behaviour what the    *)
(* next boot can be, where nothing of ours is at the head of the line.     *)
(***************************************************************************)
EXTENDS Grub, TLAPS

USE DEF given

\* What the text operations return is again a view.
LEMMA ViewOperators ==
  ASSUME NEW t \in View, NEW v \in View, NEW S
  PROVE  /\ EmptyView \in View
         /\ Stripped(t, S) \in View
         /\ Appended(t, v) \in View
         /\ [t EXCEPT !["isolcpus"] = Absent] \in View
         /\ [EmptyView EXCEPT !["isolcpus"] = t["isolcpus"]] \in View
BY DEF View, EmptyView, Stripped, Appended, Params

LEMMA ShownIsView ==
  ASSUME NEW c \in CmdLine
  PROVE  Shown(c) \in View
BY DEF CmdLine, View, Shown

LEMMA CmdLineOfFile ==
  ASSUME NEW f \in File
  PROVE  CmdLineOf(f) \in CmdLine
BY DEF File, CmdLine, CmdLineOf

LEMMA WantedIsView ==
  ASSUME NEW c \in Config
  PROVE  Wanted(c) \in View
BY DEF Config, View, Wanted, Params, Values

-------------------------------------------------------------------------------
\* TypeOK with the one fact about program counters that it depends on: the
\* values the code is about to write are in memory, and it has a configuration.
TypeInv ==
  /\ TypeOK
  /\ pc \in {"s_open", "s_write", "r_strip", "r_append"} => snap \in View
  /\ pc \in SetupPcs => cfg \in Configs

LEMMA TypeInvInit == Init => TypeInv
<1> SUFFICES ASSUME Init PROVE TypeInv
  OBVIOUS
<1>1. orig \in File
  BY GrubAssumption DEF Init
<1>2. CmdLineOf(orig) \in CmdLine
  BY <1>1, CmdLineOfFile
<1> QED
  BY <1>1, <1>2 DEF Init, TypeInv, TypeOK, SetupPcs

LEMMA TypeInvStep == TypeInv /\ [Next]_vars => TypeInv'
<1> SUFFICES ASSUME TypeInv, [Next]_vars PROVE TypeInv'
  OBVIOUS
<1> USE DEF TypeInv, TypeOK
<1>0. /\ EmptyView \in View
      /\ Shown(running) \in View
      /\ CmdLineOf(file) \in CmdLine
      /\ file.head \in View /\ file.tail \in View
      /\ file.form \in {"line", "noline", "missing"}
  BY ViewOperators, ShownIsView, CmdLineOfFile DEF File
<1>1. CASE (\E c \in Configs : BeginSetup(c)) \/ ApplyNoCores
  BY <1>1 DEF BeginSetup, ApplyNoCores, disk, SetupPcs, RestorePcs
<1>2. CASE \E r \in Restores : BeginTeardown(r)
  BY <1>2, GrubAssumption DEF BeginTeardown, disk, SetupPcs, RestorePcs
<1>3. CASE SetupStep
  <2>1. CASE StatBaseline
    BY <2>1, <1>0 DEF StatBaseline, disk, SetupPcs, RestorePcs
  <2>2. CASE OpenBaseline
    BY <2>2, <1>0 DEF OpenBaseline, SetupPcs, RestorePcs
  <2>3. CASE WriteBaseline
    BY <2>3 DEF WriteBaseline, SetupPcs, RestorePcs
  <2>4. CASE GrubMissing
    BY <2>4 DEF GrubMissing, Finish, disk, SetupPcs, RestorePcs
  <2>5. CASE StripDynamic
    <3>1. Stripped(file.tail, {"nohz_full", "rcu_nocbs"}) \in View
      BY <1>0, ViewOperators
    <3> QED
      BY <2>5, <3>1 DEF StripDynamic, File, SetupPcs, RestorePcs
  <2>6. CASE ReportActive
    BY <2>6 DEF ReportActive, Finish, Outcome, disk, SetupPcs, RestorePcs
  <2>7. CASE FindInactive
    BY <2>7 DEF FindInactive, disk, SetupPcs, RestorePcs
  <2>8. CASE StripStatic
    <3>1. Stripped(file.tail, {"isolcpus", "max_cstate", "nosoftlockup"}) \in View
      BY <1>0, ViewOperators
    <3> QED
      BY <2>8, <3>1 DEF StripStatic, File, SetupPcs, RestorePcs
  <2>9. CASE AppendParams
    <3>1. Wanted(cfg) \in View
      BY <2>9, GrubAssumption, WantedIsView DEF AppendParams, SetupPcs
    <3>2. Appended(file.tail, Wanted(cfg)) \in View
      BY <1>0, <3>1, ViewOperators
    <3>3. NewLine(Wanted(cfg)) \in File
      <4>1. [Wanted(cfg) EXCEPT !["isolcpus"] = Absent] \in View
        BY <1>0, <3>1, ViewOperators
      <4>2. Appended(file.tail, [Wanted(cfg) EXCEPT !["isolcpus"] = Absent]) \in View
        BY <1>0, <4>1, ViewOperators
      <4>3. [EmptyView EXCEPT !["isolcpus"] = Wanted(cfg)["isolcpus"]] \in View
        BY <3>1, ViewOperators
      <4> QED
        BY <4>2, <4>3 DEF NewLine, File
    <3>4. file' \in File
      BY <2>9, <3>2, <3>3 DEF AppendParams, File
    <3> QED
      BY <2>9, <3>4 DEF AppendParams, SetupPcs, RestorePcs
  <2>10. CASE BuildSetup
    BY <2>10, <1>0 DEF BuildSetup, Build, BuildFails, Finish, Outcome, SetupPcs,
                       RestorePcs
  <2> QED
    BY <1>3, <2>1, <2>2, <2>3, <2>4, <2>5, <2>6, <2>7, <2>8, <2>9, <2>10 DEF SetupStep
<1>4. CASE RestoreStep
  <2>1. CASE ReadBaseline
    BY <2>1 DEF ReadBaseline, SetupPcs, RestorePcs
  <2>2. CASE StripAll
    <3>1. Stripped(file.tail, Params) \in View
      BY <1>0, ViewOperators
    <3>2. file' \in File
      BY <2>2, <3>1 DEF StripAll, File
    <3> QED
      BY <2>2, <3>2 DEF StripAll, SetupPcs, RestorePcs
  <2>3. CASE AppendBaseline
    <3>1. Appended(file.tail, snap) \in View
      BY <2>3, <1>0, ViewOperators DEF AppendBaseline
    <3> QED
      BY <2>3, <3>1 DEF AppendBaseline, File, SetupPcs, RestorePcs
  <2>4. CASE BuildRestore
    BY <2>4, <1>0 DEF BuildRestore, Build, BuildFails, SetupPcs, RestorePcs
  <2>5. CASE RemoveBaseline
    BY <2>5 DEF RemoveBaseline, SetupPcs, RestorePcs
  <2>6. CASE WipeState
    BY <2>6, GrubAssumption DEF WipeState, Finish, SetupPcs, RestorePcs
  <2>7. CASE StripSnapshot
    <3>1. Stripped(file.tail, Params) \in View
      BY <1>0, ViewOperators
    <3> QED
      BY <2>7, <3>1 DEF StripSnapshot, Finish, File, SetupPcs, RestorePcs
  <2>8. CASE BuildSnapshot
    BY <2>8, <1>0 DEF BuildSnapshot, Build, BuildFails, Finish, SetupPcs, RestorePcs
  <2> QED
    BY <1>4, <2>1, <2>2, <2>3, <2>4, <2>5, <2>6, <2>7, <2>8 DEF RestoreStep
<1>5. CASE Reboot
  BY <1>5 DEF Reboot, disk
<1>6. CASE Kill
  BY <1>6 DEF Kill, Finish, disk, SetupPcs, RestorePcs
<1>7. CASE KernelUpdate
  BY <1>7, <1>0 DEF KernelUpdate
<1>8. CASE UNCHANGED vars
  BY <1>8 DEF vars, disk
<1> QED
  BY <1>1, <1>2, <1>3, <1>4, <1>5, <1>6, <1>7, <1>8 DEF Next

\* Every variable keeps its type, in every scenario: the locals a handler step
\* reads are always there, although a kill drops them.
THEOREM TypeCorrect == Spec => []TypeOK
<1>1. TypeInv => TypeOK
  BY DEF TypeInv
<1> QED
  BY <1>1, TypeInvInit, TypeInvStep, PTL DEF Spec

-------------------------------------------------------------------------------
\* The inductive invariant of the careful behaviours.  Two of its conjuncts are the
\* properties; the others say how far each handler has come, since a kill may end it anywhere.
Kept ==
  /\ file.form = orig.form
  /\ file.head = orig.head
  /\ file.form = "missing" => Shown(file) = Original /\ Shown(boot) = Original

SetupProgress ==
  /\ pc \in {"s_stat", "s_open"} /\ baseline = NoFile => Shown(running) = Original
  /\ pc = "s_open" => baseline = NoFile
  /\ pc \in {"s_open", "s_write"} => snap = Original
  /\ pc = "s_write" =>
       Shown(file) = Original /\ Shown(boot) = Original /\ Shown(running) = Original
  /\ pc \in SetupPcs \ {"s_stat", "s_open"} => baseline # NoFile
  /\ pc \in {"s_check", "s_clean", "s_append", "s_build"} => file.form # "missing"

RestoreProgress ==
  /\ pc \in {"r_strip", "r_append", "r_build", "r_remove"} =>
       baseline # NoFile /\ file.form # "missing"
  /\ pc \in {"r_strip", "r_append"} => snap = Original
  /\ pc = "r_append" => file.tail = EmptyView
  /\ pc \in {"r_build", "r_remove"} => Shown(file) = Original
  /\ pc = "r_remove" => Shown(boot) = Original
  /\ pc = "r_wipe" => baseline = NoFile
  /\ pc \notin {"t_strip", "t_build"}
  /\ after = None

IInv ==
  /\ TypeInv
  /\ BaselineTrue
  /\ NothingForgotten
  /\ Kept
  /\ SetupProgress
  /\ RestoreProgress

LEMMA ShownOfFile ==
  ASSUME NEW f \in File
  PROVE  Shown(CmdLineOf(f)) = Shown(f)
BY DEF Shown, CmdLineOf

\* Appending what another file shows to a stripped file with the same head makes
\* it show the same.
LEMMA RestoreShows ==
  ASSUME NEW f \in File, NEW g \in File, f.head = g.head, f.tail = EmptyView
  PROVE  Shown([f EXCEPT !.tail = Appended(@, Shown(g))]) = Shown(g)
BY DEF Shown, Appended, EmptyView, File

LEMMA StripAllEmpties ==
  ASSUME NEW t
  PROVE  Stripped(t, Params) = EmptyView
BY DEF Stripped, EmptyView

LEMMA IInvInit == Careful /\ Init => IInv
<1> SUFFICES ASSUME Init, Careful PROVE IInv
  OBVIOUS
<1>1. TypeInv
  BY TypeInvInit
<1>2. /\ Shown(file) = Original /\ Shown(boot) = Original /\ Shown(running) = Original
  BY GrubAssumption, ShownOfFile DEF Init, Original
<1> QED
  BY <1>1, <1>2 DEF Init, IInv, BaselineTrue, NothingForgotten, Kept,
                    SetupProgress, RestoreProgress, SetupPcs

\* No step changes what is given, nor whether the behaviour is careful.
LEMMA GivenStays == [Next]_vars => given' = given /\ Careful' = Careful
<1> SUFFICES ASSUME [Next]_vars PROVE given' = given /\ Careful' = Careful
  OBVIOUS
<1>1. given' = given
  BY DEF Next, SetupStep, RestoreStep, BeginSetup, ApplyNoCores, BeginTeardown, StatBaseline,
         OpenBaseline, WriteBaseline, GrubMissing, StripDynamic, ReportActive,
         FindInactive, StripStatic, AppendParams, BuildSetup, ReadBaseline,
         StripAll, AppendBaseline, BuildRestore, RemoveBaseline, WipeState,
         StripSnapshot, BuildSnapshot, Reboot, Kill, KernelUpdate, vars
<1> QED
  BY <1>1 DEF Careful

LEMMA IInvStep == Careful /\ IInv /\ [Next]_vars => IInv'
<1> SUFFICES ASSUME Careful, IInv, [Next]_vars PROVE IInv'
  OBVIOUS
<1>0. TypeInv'
  BY TypeInvStep DEF IInv
<1>1. orig' = orig /\ Original' = Original /\ orig \in File
  BY GivenStays, GrubAssumption DEF Original, IInv, TypeInv, TypeOK
<1>2. /\ file.form # "noline"
      /\ EmptyView # NoFile /\ Original # NoFile /\ Original \in View
      /\ BuildFails = {FALSE}
      /\ Shown(CmdLineOf(file)) = Shown(file)
      /\ file \in File
  <2>1. Original \in View
    BY <1>1, ShownIsView, CmdLineOfFile DEF Original
  <2> QED
    BY <1>1, <2>1, GrubAssumption, ShownOfFile, ViewOperators
       DEF Careful, IInv, Kept, TypeInv, TypeOK, BuildFails
<1>3. Original = Shown(orig)
  BY <1>1, ShownOfFile DEF Original
<1> USE DEF BaselineTrue, NothingForgotten, Kept, SetupProgress, RestoreProgress, SetupPcs
<1>4. CASE (\E c \in Configs : BeginSetup(c)) \/ ApplyNoCores
  BY <1>0, <1>1, <1>4 DEF IInv, BeginSetup, ApplyNoCores, RebootedSinceTeardown, disk, Careful
<1>5. CASE \E r \in Restores : BeginTeardown(r)
  BY <1>0, <1>1, <1>5 DEF IInv, BeginTeardown, disk, Careful
<1>6. CASE SetupStep
  <2>1. CASE StatBaseline
    BY <1>0, <1>1, <2>1 DEF IInv, StatBaseline, disk
  <2>2. CASE OpenBaseline
    BY <1>0, <1>1, <1>2, <2>2 DEF IInv, OpenBaseline
  <2>3. CASE WriteBaseline
    BY <1>0, <1>1, <1>2, <2>3 DEF IInv, WriteBaseline
  <2>4. CASE GrubMissing
    BY <1>0, <1>1, <2>4 DEF IInv, GrubMissing, Finish, disk
  <2>5. CASE StripDynamic
    BY <1>0, <1>1, <1>2, <2>5 DEF IInv, StripDynamic, File
  <2>6. CASE ReportActive
    BY <1>0, <1>1, <2>6 DEF IInv, ReportActive, Finish, disk
  <2>7. CASE FindInactive
    BY <1>0, <1>1, <2>7 DEF IInv, FindInactive, disk
  <2>8. CASE StripStatic
    BY <1>0, <1>1, <1>2, <2>8 DEF IInv, StripStatic, File
  <2>9. CASE AppendParams
    <3>1. file.form = "line"
      BY <1>2, <2>9 DEF IInv, AppendParams, File
    <3> QED
      BY <1>0, <1>1, <1>2, <2>9, <3>1 DEF IInv, AppendParams, File
  <2>10. CASE BuildSetup
    BY <1>0, <1>1, <1>2, <2>10 DEF IInv, BuildSetup, Build, Finish
  <2> QED
    BY <1>6, <2>1, <2>2, <2>3, <2>4, <2>5, <2>6, <2>7, <2>8, <2>9, <2>10 DEF SetupStep
<1>7. CASE RestoreStep
  <2>1. CASE ReadBaseline
    BY <1>0, <1>1, <2>1 DEF IInv, ReadBaseline
  <2>2. CASE StripAll
    <3>1. file'.tail = EmptyView /\ file'.head = file.head /\ file'.form = file.form
      BY <1>2, <2>2, StripAllEmpties DEF StripAll, File
    <3> QED
      BY <1>0, <1>1, <2>2, <3>1 DEF IInv, StripAll
  <2>3. CASE AppendBaseline
    <3>1. file.form = "line"
      BY <1>2, <2>3 DEF IInv, AppendBaseline, File
    <3>2. file' = [file EXCEPT !.tail = Appended(@, Shown(orig))]
      BY <1>3, <2>3, <3>1 DEF IInv, AppendBaseline
    <3>3. Shown(file') = Original
      BY <1>1, <1>2, <1>3, <2>3, <3>2, RestoreShows DEF IInv, AppendBaseline
    <3>4. file'.head = file.head /\ file'.form = file.form
      BY <1>2, <3>2 DEF File
    <3> QED
      BY <1>0, <1>1, <2>3, <3>1, <3>3, <3>4 DEF IInv, AppendBaseline
  <2>4. CASE BuildRestore
    BY <1>0, <1>1, <1>2, <2>4 DEF IInv, BuildRestore, Build
  <2>5. CASE RemoveBaseline
    BY <1>0, <1>1, <2>5 DEF IInv, RemoveBaseline
  <2>6. CASE WipeState
    BY <1>0, <1>1, <2>6 DEF IInv, WipeState, Finish
  <2>7. CASE StripSnapshot
    BY <2>7 DEF IInv, StripSnapshot
  <2>8. CASE BuildSnapshot
    BY <2>8 DEF IInv, BuildSnapshot
  <2> QED
    BY <1>7, <2>1, <2>2, <2>3, <2>4, <2>5, <2>6, <2>7, <2>8 DEF RestoreStep
<1>8. CASE Reboot
  BY <1>0, <1>1, <1>8 DEF IInv, Reboot, disk
<1>9. CASE Kill
  BY <1>0, <1>1, <1>9 DEF IInv, Kill, Finish, disk, Careful
<1>10. CASE KernelUpdate
  BY <1>0, <1>1, <1>2, <1>10 DEF IInv, KernelUpdate
<1>11. CASE UNCHANGED vars
  BY <1>0, <1>1, <1>11 DEF IInv, vars, disk
<1> QED
  BY <1>4, <1>5, <1>6, <1>7, <1>8, <1>9, <1>10, <1>11 DEF Next

\* What holds in all behaviours.
SafeInv == Careful => IInv

LEMMA SafeInvStep == SafeInv /\ [Next]_vars => SafeInv'
BY IInvStep, GivenStays DEF SafeInv

\* In a careful behaviour the baseline is the machine's original parameters, and
\* it is given up only when the next boot shows them again.
THEOREM BaselineSafe == Spec => [](BaselineTrue /\ NothingForgotten)
<1>1. Init => SafeInv
  BY IInvInit DEF SafeInv
<1>2. SafeInv => BaselineTrue /\ NothingForgotten
  BY DEF SafeInv, IInv, BaselineTrue, NothingForgotten
<1> QED
  BY <1>1, <1>2, SafeInvStep, PTL DEF Spec

\* What makes a teardown safe to interrupt: the values to go back to are kept in the
\* baseline until they are in the file and in the next boot.
COROLLARY NeverForgotten == Spec => []NothingForgotten
BY BaselineSafe, PTL

-------------------------------------------------------------------------------
\* Every step of a handler, of the machine or of a kernel update is a step of the
\* abstract contract or leaves its variables alone.
LEMMA StepContract ==
  ASSUME Careful, Careful', IInv, IInv', [Next]_vars
  PROVE  [Contract!Next]_(Contract!vars)
<1> USE DEF SetupPcs
<1>0. /\ Original \in View /\ Original # NoFile /\ EmptyView # NoFile
      /\ Shown(boot) \in View /\ Shown(boot') \in View
      /\ baseline # NoFile /\ pc # "s_write" => baseline = Original
      /\ Shown(CmdLineOf(file)) = Shown(file)
  <2>1. Original \in View
    BY GrubAssumption, CmdLineOfFile, ShownIsView
       DEF Original, IInv, TypeInv, TypeOK
  <2> QED
    BY <2>1, GrubAssumption, ShownIsView, ShownOfFile, ViewOperators
       DEF IInv, TypeInv, TypeOK, BaselineTrue
<1>1. CASE \/ (\E c \in Configs : BeginSetup(c)) \/ ApplyNoCores
         \/ \E r \in Restores : BeginTeardown(r)
  BY <1>1 DEF BeginSetup, ApplyNoCores, BeginTeardown, disk, Contract!vars
<1>2. CASE StatBaseline \/ OpenBaseline
  BY <1>2 DEF StatBaseline, OpenBaseline, disk, IInv, SetupProgress, Contract!vars
<1>3. CASE WriteBaseline
  BY <1>0, <1>3 DEF WriteBaseline, IInv, SetupProgress, Contract!Next, Contract!Capture
<1>4. CASE GrubMissing \/ StripDynamic \/ ReportActive \/ FindInactive
           \/ StripStatic \/ AppendParams
  BY <1>4 DEF GrubMissing, StripDynamic, ReportActive, FindInactive, StripStatic,
              AppendParams, Finish, disk, Contract!vars
<1>5. CASE BuildSetup
  BY <1>0, <1>5 DEF BuildSetup, Finish, IInv, SetupProgress, Contract!Next,
                    Contract!Configure
<1>6. CASE ReadBaseline
  <2>1. CASE baseline' = NoFile /\ baseline # NoFile
    BY <1>0, <1>6, <2>1 DEF ReadBaseline, IInv, Kept, Contract!Next, Contract!Forget
  <2>2. CASE baseline' = baseline
    BY <1>6, <2>2 DEF ReadBaseline, Contract!vars
  <2> QED
    BY <1>6, <2>1, <2>2 DEF ReadBaseline
<1>7. CASE StripAll \/ AppendBaseline
  BY <1>7 DEF StripAll, AppendBaseline, Contract!vars
<1>8. CASE BuildRestore
  BY <1>0, <1>8 DEF BuildRestore, IInv, RestoreProgress, Contract!Next,
                    Contract!Configure
<1>9. CASE RemoveBaseline
  BY <1>0, <1>9 DEF RemoveBaseline, IInv, RestoreProgress, Contract!Next,
                    Contract!Forget
<1>10. CASE WipeState
  BY <1>10 DEF WipeState, Finish, IInv, RestoreProgress, Contract!vars
<1>11. CASE StripSnapshot \/ BuildSnapshot
  BY <1>11 DEF StripSnapshot, BuildSnapshot, IInv, RestoreProgress
<1>12. CASE Reboot
  BY <1>12 DEF Reboot, disk, Contract!Next, Contract!Reboot
<1>13. CASE Kill
  BY <1>13 DEF Kill, Finish, disk, Careful, Contract!vars
<1>14. CASE KernelUpdate
  <2>1. CASE pc = "s_write" \/ baseline = NoFile
    BY <1>0, <1>14, <2>1 DEF KernelUpdate, IInv, SetupProgress, NothingForgotten,
                             Contract!vars
  <2>2. CASE pc # "s_write" /\ baseline # NoFile
    BY <1>0, <1>14, <2>2 DEF KernelUpdate, Contract!Next, Contract!Configure
  <2> QED
    BY <2>1, <2>2
<1>15. CASE UNCHANGED vars
  BY <1>15 DEF vars, disk, Contract!vars
<1> QED
  BY <1>1, <1>2, <1>3, <1>4, <1>5, <1>6, <1>7, <1>8, <1>9, <1>10, <1>11, <1>12,
     <1>13, <1>14, <1>15 DEF Next, SetupStep, RestoreStep

\* Setup, teardown, kills and reboots implement the contract of BootContract: in
\* a careful behaviour, that is, which is what ContractSpec is about.
THEOREM ImplementsContract == Spec => ContractSpec
<1>1. Init => SafeInv /\ Contract!Init
  <2> SUFFICES ASSUME Init PROVE SafeInv /\ Contract!Init
    OBVIOUS
  <2>1. SafeInv
    BY IInvInit DEF SafeInv
  <2>2. Shown(boot) \in View /\ EmptyView \in View
    BY TypeInvInit, ShownIsView, ViewOperators DEF TypeInv, TypeOK
  <2> QED
    BY <2>1, <2>2 DEF Init, Contract!Init
<1>2. SafeInv /\ SafeInv' /\ [Next]_vars => [Contract!Next]_(Contract!vars)
  <2> SUFFICES ASSUME SafeInv, SafeInv', [Next]_vars
               PROVE  [Contract!Next]_(Contract!vars)
    OBVIOUS
  <2>1. CASE Careful
    BY <2>1, GivenStays, StepContract DEF SafeInv
  <2>2. CASE ~Careful
    BY <2>2, GivenStays DEF Contract!vars
  <2> QED
    BY <2>1, <2>2
<1> QED
  BY <1>1, <1>2, SafeInvStep, PTL DEF Spec, ContractSpec, Contract!Spec

-------------------------------------------------------------------------------
\* In every world, also with torn baselines, failing builds, kernel updates and
\* snapshots restored: what the file shows at each position of a handler.
FileProgress ==
  /\ file.head = EmptyView /\ file.form = orig.form
  /\ pc \in {"s_check", "s_clean"} =>
       file.tail["nohz_full"] = Absent /\ file.tail["rcu_nocbs"] = Absent
  /\ pc \in {"s_append", "r_append"} => file.tail = EmptyView
  /\ pc \in {"s_check", "s_clean", "s_append", "s_build", "r_strip", "r_append", "r_build"} =>
       file.form = "line"
  /\ pc = "s_build" => Shown(file) = Wanted(cfg)
  /\ pc = "t_build" => Shown(file) = EmptyView

\* A setup that asks for a reboot is the last thing that happened to the file.
LastDelivers ==
  last # None =>
    /\ pc = "idle"
    /\ last.rc = "reboot" =>
         Shown(file) = Wanted(last.cfg) /\ Shown(boot) = Wanted(last.cfg)

Whole == {Original, EmptyView} \union {Wanted(c) : c \in Configs}

\* Without kernel updates everything that can get into grub.cfg is whole.
WholeProgress ==
  "kernel" \notin world =>
    /\ Shown(boot) \in Whole /\ Shown(running) \in Whole
    /\ baseline \in Whole \union {NoFile}
    /\ pc \in {"s_open", "s_write", "r_strip", "r_append"} => snap \in Whole
    /\ pc = "r_build" => Shown(file) \in Whole

BootInv == HeadIsFree => FileProgress /\ LastDelivers /\ WholeProgress

\* Where nothing is at the head, a file shows its tail.
LEMMA TailShows ==
  ASSUME NEW f \in File, f.head = EmptyView
  PROVE  Shown(f) = f.tail
BY DEF Shown, EmptyView, File, View

LEMMA AppendToNothing ==
  ASSUME NEW v \in View
  PROVE  Appended(EmptyView, v) = v
BY DEF Appended, EmptyView, View

\* Removing what a setup adds, in its two steps, removes everything.
LEMMA StripInTwoSteps ==
  ASSUME NEW t \in View, t["nohz_full"] = Absent, t["rcu_nocbs"] = Absent
  PROVE  Stripped(t, {"isolcpus", "max_cstate", "nosoftlockup"}) = EmptyView
BY DEF Stripped, EmptyView, View, Params

\* Which steps change the file: the others leave what it shows alone.
LEMMA FileSteps ==
  ASSUME Next, ~(StripDynamic \/ StripStatic \/ AppendParams \/ StripAll \/ AppendBaseline
                   \/ StripSnapshot)
  PROVE  file' = file
BY DEF Next, SetupStep, RestoreStep, BeginSetup, ApplyNoCores, BeginTeardown, StatBaseline,
       OpenBaseline, WriteBaseline, GrubMissing, ReportActive, FindInactive, BuildSetup, ReadBaseline,
       BuildRestore, RemoveBaseline, WipeState, BuildSnapshot, Reboot, Kill, KernelUpdate, disk

LEMMA BootInvInit == Init => BootInv
<1> SUFFICES ASSUME Init, HeadIsFree PROVE FileProgress /\ LastDelivers /\ WholeProgress
  BY DEF BootInv
<1>1. Shown(boot) = Original /\ Shown(running) = Original
  BY DEF Init, Original
<1> QED
  BY <1>1 DEF Init, HeadIsFree, FileProgress, LastDelivers, WholeProgress, Whole

LEMMA FileProgressStep ==
  ASSUME TypeInv, HeadIsFree, BootInv, Next
  PROVE  FileProgress'
<1>0. /\ file \in File /\ file.head = EmptyView /\ file.form = orig.form
      /\ orig.form # "noline" /\ orig' = orig
      /\ EmptyView \in View
  BY GivenStays, ViewOperators DEF TypeInv, TypeOK, HeadIsFree, BootInv, FileProgress, File
<1> USE DEF BootInv, FileProgress
<1>1. CASE StripDynamic
  <2>1. /\ file'.head = EmptyView /\ file'.form = file.form
        /\ file'.tail = Stripped(file.tail, {"nohz_full", "rcu_nocbs"})
    BY <1>0, <1>1 DEF StripDynamic, File
  <2>2. file'.tail["nohz_full"] = Absent /\ file'.tail["rcu_nocbs"] = Absent
    BY <2>1 DEF Stripped, Params
  <2> QED
    BY <1>0, <1>1, <2>1, <2>2 DEF StripDynamic, File
<1>2. CASE StripStatic
  <2>1. /\ file'.head = EmptyView /\ file'.form = file.form
        /\ file'.tail = Stripped(file.tail, {"isolcpus", "max_cstate", "nosoftlockup"})
    BY <1>0, <1>2 DEF StripStatic, File
  <2>2. file'.tail = EmptyView
    BY <1>0, <1>2, <2>1, StripInTwoSteps DEF StripStatic, File
  <2> QED
    BY <1>0, <1>2, <2>1, <2>2 DEF StripStatic
<1>3. CASE AppendParams
  <2>1. Wanted(cfg) \in View
    BY <1>3, GrubAssumption, WantedIsView DEF AppendParams, TypeInv, SetupPcs
  <2>2. file' = [file EXCEPT !.tail = Wanted(cfg)]
    BY <1>0, <1>3, <2>1, AppendToNothing DEF AppendParams
  <2>3. file' \in File /\ file'.head = EmptyView /\ file'.tail = Wanted(cfg)
    BY <1>0, <2>1, <2>2 DEF File
  <2>4. Shown(file') = Wanted(cfg)
    BY <2>3, TailShows
  <2> QED
    BY <1>0, <1>3, <2>2, <2>3, <2>4 DEF AppendParams, File
<1>4. CASE StripAll
  <2>1. file'.head = EmptyView /\ file'.form = file.form /\ file'.tail = EmptyView
    BY <1>0, <1>4, StripAllEmpties DEF StripAll, File
  <2> QED
    BY <1>0, <1>4, <2>1 DEF StripAll
<1>5. CASE AppendBaseline
  <2>1. file'.head = EmptyView /\ file'.form = file.form
    BY <1>0, <1>5 DEF AppendBaseline, File
  <2> QED
    BY <1>0, <1>5, <2>1 DEF AppendBaseline
<1>6. CASE StripSnapshot
  <2>1. CASE file.form = "missing"
    BY <1>0, <1>6, <2>1 DEF StripSnapshot, Finish
  <2>2. CASE file.form # "missing"
    <3>1. /\ file' \in File /\ file'.head = EmptyView /\ file'.form = file.form
          /\ file'.tail = EmptyView
      BY <1>0, <1>6, <2>2, StripAllEmpties DEF StripSnapshot, File
    <3>2. Shown(file') = EmptyView
      BY <3>1, TailShows
    <3> QED
      BY <1>0, <1>6, <2>2, <3>1, <3>2 DEF StripSnapshot
  <2> QED
    BY <2>1, <2>2
<1>7. CASE file' = file
  <2>1. file.form \in {"line", "missing"}
    BY <1>0 DEF File
  <2>2. CASE (\E c \in Configs : BeginSetup(c)) \/ ApplyNoCores
    BY <1>0, <1>7, <2>2 DEF BeginSetup, ApplyNoCores
  <2>3. CASE \E r \in Restores : BeginTeardown(r)
    BY <1>0, <1>7, <2>3 DEF BeginTeardown
  <2>4. CASE SetupStep
    BY <1>0, <1>1, <1>2, <1>3, <1>7, <2>1, <2>4
       DEF SetupStep, StatBaseline, OpenBaseline, WriteBaseline, GrubMissing, ReportActive,
           FindInactive, BuildSetup, Finish
  <2>5. CASE RestoreStep
    BY <1>0, <1>4, <1>5, <1>6, <1>7, <2>1, <2>5
       DEF RestoreStep, ReadBaseline, BuildRestore, RemoveBaseline, WipeState, BuildSnapshot,
           Finish
  <2>6. CASE Reboot \/ Kill \/ KernelUpdate
    BY <1>0, <1>7, <2>6 DEF Reboot, Kill, KernelUpdate, Finish
  <2> QED
    BY <2>2, <2>3, <2>4, <2>5, <2>6 DEF Next
<1> QED
  BY <1>1, <1>2, <1>3, <1>4, <1>5, <1>6, <1>7, FileSteps

LEMMA LastDeliversStep ==
  ASSUME TypeInv, HeadIsFree, BootInv, Next
  PROVE  LastDelivers'
<1>0. file \in File /\ Shown(CmdLineOf(file)) = Shown(file)
  BY ShownOfFile DEF TypeInv, TypeOK
<1> USE DEF BootInv, LastDelivers
<1>1. CASE \/ (\E c \in Configs : BeginSetup(c)) \/ ApplyNoCores
         \/ \E r \in Restores : BeginTeardown(r)
  BY <1>1 DEF BeginSetup, ApplyNoCores, BeginTeardown, disk
<1>2. CASE BuildSetup
  <2>1. Shown(file) = Wanted(cfg)
    BY <1>2 DEF BuildSetup, FileProgress
  <2>2. PICK fails \in BuildFails :
          /\ Build(fails)
          /\ Finish([cfg |-> cfg, rc |-> IF fails THEN "unbuilt" ELSE "reboot"])
    BY <1>2 DEF BuildSetup
  <2>3. CASE fails
    BY <2>2, <2>3 DEF Finish
  <2>4. CASE ~fails
    BY <1>0, <1>2, <2>1, <2>2, <2>4 DEF BuildSetup, Build, Finish
  <2> QED
    BY <2>3, <2>4
<1>3. CASE SetupStep /\ ~BuildSetup
  BY <1>3 DEF SetupStep, StatBaseline, OpenBaseline, WriteBaseline, GrubMissing, StripDynamic,
              ReportActive, FindInactive, StripStatic, AppendParams, Finish
<1>4. CASE RestoreStep
  BY <1>4 DEF RestoreStep, ReadBaseline, StripAll, AppendBaseline, BuildRestore, RemoveBaseline,
              WipeState, StripSnapshot, BuildSnapshot, Finish
<1>5. CASE Reboot \/ Kill
  BY <1>5 DEF Reboot, Kill, Finish, disk
<1>6. CASE KernelUpdate
  BY <1>0, <1>6 DEF KernelUpdate
<1> QED
  BY <1>1, <1>2, <1>3, <1>4, <1>5, <1>6 DEF Next

LEMMA WholeProgressStep ==
  ASSUME TypeInv, HeadIsFree, BootInv, Next
  PROVE  WholeProgress'
<1> SUFFICES ASSUME "kernel" \notin world
             PROVE  /\ Shown(boot') \in Whole /\ Shown(running') \in Whole
                    /\ baseline' \in Whole \union {NoFile}
                    /\ pc' \in {"s_open", "s_write", "r_strip", "r_append"} => snap' \in Whole
                    /\ pc' = "r_build" => Shown(file') \in Whole
  BY GivenStays DEF WholeProgress, Whole, Original
<1>0. /\ file \in File /\ Shown(CmdLineOf(file)) = Shown(file)
      /\ Shown(boot) \in Whole /\ Shown(running) \in Whole
      /\ baseline \in Whole \union {NoFile}
      /\ pc \in {"s_open", "s_write", "r_strip", "r_append"} => snap \in Whole
      /\ pc = "r_build" => Shown(file) \in Whole
      /\ EmptyView \in Whole
  BY ShownOfFile DEF TypeInv, TypeOK, BootInv, WholeProgress, Whole
<1>1. CASE \/ (\E c \in Configs : BeginSetup(c)) \/ ApplyNoCores
         \/ \E r \in Restores : BeginTeardown(r)
  BY <1>0, <1>1 DEF BeginSetup, ApplyNoCores, BeginTeardown, disk
<1>2. CASE BuildSetup
  <2>1. Shown(file) \in Whole
    BY <1>2 DEF BuildSetup, BootInv, FileProgress, Whole, TypeInv, SetupPcs
  <2> QED
    BY <1>0, <1>2, <2>1 DEF BuildSetup, Build, Finish
<1>3. CASE BuildSnapshot
  <2>1. Shown(file) \in Whole
    BY <1>0, <1>3 DEF BuildSnapshot, BootInv, FileProgress
  <2> QED
    BY <1>0, <1>3, <2>1 DEF BuildSnapshot, Build, Finish
<1>4. CASE AppendBaseline
  <2>1. snap \in View
    BY <1>4 DEF AppendBaseline, TypeInv
  <2>2. file.head = EmptyView /\ file.tail = EmptyView /\ file.form = "line"
    BY <1>4 DEF AppendBaseline, BootInv, FileProgress
  <2>3. file' \in File /\ file'.head = EmptyView /\ file'.tail = snap
    BY <1>0, <1>4, <2>1, <2>2, AppendToNothing DEF AppendBaseline, File
  <2>4. Shown(file') = snap
    BY <2>3, TailShows
  <2> QED
    BY <1>0, <1>4, <2>4 DEF AppendBaseline
<1>5. CASE BuildRestore
  BY <1>0, <1>5 DEF BuildRestore, Build
<1>6. CASE SetupStep /\ ~BuildSetup
  BY <1>0, <1>6 DEF SetupStep, StatBaseline, OpenBaseline, WriteBaseline, GrubMissing,
     StripDynamic, ReportActive, FindInactive, StripStatic, AppendParams, Finish, disk
<1>7. CASE RestoreStep /\ ~AppendBaseline /\ ~BuildRestore /\ ~BuildSnapshot
  BY <1>0, <1>7 DEF RestoreStep, ReadBaseline, StripAll, RemoveBaseline, WipeState,
     StripSnapshot, Finish
<1>8. CASE Reboot \/ Kill
  BY <1>0, <1>8 DEF Reboot, Kill, Finish, disk
<1>9. CASE KernelUpdate
  BY <1>9 DEF KernelUpdate
<1> QED
  BY <1>1, <1>2, <1>3, <1>4, <1>5, <1>6, <1>7, <1>8, <1>9 DEF Next

LEMMA BootInvStep == TypeInv /\ BootInv /\ [Next]_vars => BootInv'
<1> SUFFICES ASSUME TypeInv, BootInv, [Next]_vars, HeadIsFree, HeadIsFree' PROVE BootInv'
  BY GivenStays DEF HeadIsFree, BootInv
<1>1. CASE Next
  BY <1>1, FileProgressStep, LastDeliversStep, WholeProgressStep DEF BootInv
<1>2. CASE UNCHANGED vars
  BY <1>2 DEF vars, BootInv, HeadIsFree, FileProgress, LastDelivers, WholeProgress, Whole,
              Original
<1> QED
  BY <1>1, <1>2

\* The machine never boots half a configuration, with kills, torn baselines and
\* failing builds at any step and for any configurations and snapshots.
THEOREM BootWholeAlways == Spec => []BootWhole
<1>1. BootInv => BootWhole
  BY DEF BootInv, WholeProgress, Whole, BootWhole
<1> QED
  BY <1>1, TypeInvInit, TypeInvStep, BootInvInit, BootInvStep, PTL DEF Spec

\* The reboot a setup asks for brings exactly its parameters, whatever was in the
\* file and in the baseline before, and whoever runs update-grub in between.
THEOREM RebootDeliversAlways == Spec => []RebootDelivers
<1>1. BootInv => RebootDelivers
  BY DEF BootInv, LastDelivers, RebootDelivers
<1> QED
  BY <1>1, TypeInvInit, TypeInvStep, BootInvInit, BootInvStep, PTL DEF Spec
===============================================================================
