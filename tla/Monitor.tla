-------------------------------- MODULE Monitor -------------------------------
(***************************************************************************)
(* The monitor (monitor.c) of the TUI and that of the daemon, each with    *)
(* the descriptors it opened on the network counters when it was made, and *)
(* what the TUI makes of the snapshots: histories by position, labelled    *)
(* once (refresh_verify, tick and ingest_snapshot, app.rs).  A rebuild of  *)
(* the namespaces (setup_network, setup.c) leaves descriptors on the veths *)
(* of before.  And the utilisation of a core, from counters that the       *)
(* kernel adds to (update_core_usage).                                     *)
(*                                                                         *)
(* The variable world names what may happen in a behaviour:                *)
(*   "hotplug"  host interfaces come and go                                *)
(*   "shell"    somebody else, or systemd, starts and stops daemons        *)
(*   "cpu"      the core is looked at, and nothing else                    *)
(*   "falls"    its counters may go down: iowait does, and all of them do  *)
(*              when the core was offline                                  *)
(***************************************************************************)
EXTENDS Integers, Sequences, FiniteSets

CONSTANTS
  Hosts,       \* the host interfaces there may be at first, as sequences
  Cap,         \* contexts a monitor has room for: 8
  MaxBuilt,    \* bound on the rebuilds of the namespaces
  MaxPlugs,    \* bound on the host interfaces that come and go
  Wrap,        \* unsigned arithmetic is modulo 2^64
  MaxJiffies,  \* bound on the counters of the core
  MaxStep,     \* bound on what a counter gains between two samples
  Worlds,      \* the worlds explored
  None         \* no snapshot

Who == {"own", "daemon"}
Names == UNION {{h[i] : i \in DOMAIN h} : h \in Hosts}
Veths == {"s:veth-srv", "c:veth-cli"}

ASSUME MonitorAssumption ==
  /\ Cap \in Nat /\ MaxBuilt \in Nat \ {0} /\ MaxPlugs \in Nat /\ MaxStep \in Nat
  /\ Wrap \in Nat /\ MaxJiffies \in 0..Wrap - 1
  /\ \A h \in Hosts : h \in Seq(Names)
  /\ Names \cap Veths = {} /\ None \notin Seq(Names \cup Veths)
  /\ Worlds \subseteq SUBSET {"hotplug", "shell", "cpu", "falls"}

VARIABLES
  world,   \* what may happen, see above
  host,    \* the host interfaces, in the order of the directory
  plugs,   \* how often one came or went
  gen,     \* which namespaces there are, 0 for none
  built,   \* how often they were built
  pc,      \* how far a process has come
  todo,    \* directory entries that discover_net_interfaces has yet to try
  nets,    \* the contexts counted: the interface, and the namespaces it is of
  open,    \* contexts with open descriptors, counted or not
  since,   \* history: who rebuilt the namespaces since a monitor was begun
  piggy,   \* piggyback_mode
  latest,  \* the interfaces of latest_snapshot
  labels,  \* the labels of net_rx_history
  stat,    \* /proc/stat of the core: busy and idle jiffies
  prev,    \* prev_stat_busy, prev_stat_total
  usage,   \* last_usage_pct
  gained   \* history: what the counters gained since the last sample, if they only
           \* rose, and what busy and all of them gained before that

kernel == <<world, host, plugs>>
spaces == <<gen, built, since>>
monitors == <<pc, todo, nets, open>>
view == <<piggy, latest, labels>>
cpu == <<stat, prev, usage, gained>>
vars == <<kernel, spaces, monitors, view, cpu>>

-------------------------------------------------------------------------------
\* Making a monitor and giving it up

OwnDaemon(a, b) == [w \in Who |-> IF w = "own" THEN a ELSE b]

\* ubenchmon_monitor_destroy closes what is counted; then, unless the monitor is to
\* be "off", ubenchmon_monitor_init up to opendir.
RenewLeaks(w, to, rebuilders) ==  \* mutant: the old monitor is not destroyed
  /\ pc' = [pc EXCEPT ![w] = to]
  /\ todo' = [todo EXCEPT ![w] = IF to = "host" THEN host ELSE <<>>]
  /\ nets' = [nets EXCEPT ![w] = <<>>]
  /\ since' = [rebuilders EXCEPT ![w] = {}]
  /\ UNCHANGED open
Renew(w, to, rebuilders) ==
  /\ pc' = [pc EXCEPT ![w] = to]
  /\ todo' = [todo EXCEPT ![w] = IF to = "host" THEN host ELSE <<>>]
  /\ nets' = [nets EXCEPT ![w] = <<>>]
  /\ open' = [open EXCEPT ![w] = @ - Len(nets[w])]
  /\ since' = [rebuilders EXCEPT ![w] = {}]

RoomForOneMore(w) == Len(nets[w]) <= Cap  \* mutant: off by one
Room(w) == Len(nets[w]) < Cap

Count(w, name, g) ==
  /\ nets' = [nets EXCEPT ![w] = Append(@, <<name, g>>)]
  /\ open' = [open EXCEPT ![w] = @ + 1]

\* init_net_ctx: the context counts if rx_bytes can be opened.
OpenFirst(w) ==
  /\ pc[w] = "host" /\ todo[w] # <<>> /\ Room(w)
  /\ IF Head(todo[w]) \in {host[i] : i \in DOMAIN host}
       THEN /\ Count(w, Head(todo[w]), 0)
            /\ todo' = [todo EXCEPT ![w] = Tail(@)]
            /\ UNCHANGED pc
       ELSE pc' = [pc EXCEPT ![w] = "rest"] /\ UNCHANGED <<todo, nets, open>>
  /\ UNCHANGED <<kernel, spaces, view, cpu>>

\* The other seven are opened all the same; nobody will close them.
OpenRest(w) ==
  /\ pc[w] = "rest"
  /\ IF Head(todo[w]) \in {host[i] : i \in DOMAIN host}
       THEN open' = [open EXCEPT ![w] = @ + 1]
       ELSE UNCHANGED open
  /\ todo' = [todo EXCEPT ![w] = Tail(@)]
  /\ pc' = [pc EXCEPT ![w] = "host"]
  /\ UNCHANGED <<kernel, spaces, nets, view, cpu>>

\* discover_netns_interfaces: server, then client, if there is room and a process
\* in the namespace to get in by.
OpenVeth(w) ==
  /\ \/ pc[w] = "host" /\ (todo[w] = <<>> \/ ~Room(w))
     \/ pc[w] = "client"
  /\ IF Room(w) /\ gen > 0
       THEN Count(w, IF pc[w] = "host" THEN "s:veth-srv" ELSE "c:veth-cli", gen)
       ELSE UNCHANGED <<nets, open>>
  /\ pc' = [pc EXCEPT ![w] = IF @ = "host" THEN "client" ELSE "ready"]
  /\ UNCHANGED <<kernel, spaces, todo, view, cpu>>

-------------------------------------------------------------------------------
\* The TUI

\* It runs one handler at a time, and no tick while a monitor is made.
Idle == pc["own"] \in {"off", "ready"}

DaemonRuns == pc["daemon"] \notin {"off", "starting"}

\* refresh_verify, with those who rebuilt the namespaces: the own monitor is given
\* up, and made again unless there is a daemon to read from.
RefreshVerifyKeeps(rebuilders) ==  \* mutant: the histories are not cleared
  /\ latest' = None /\ UNCHANGED labels
  /\ piggy' = DaemonRuns
  /\ Renew("own", IF DaemonRuns THEN "off" ELSE "host", rebuilders)
RefreshVerify(rebuilders) ==
  /\ latest' = None /\ labels' = <<>>
  /\ piggy' = DaemonRuns
  /\ Renew("own", IF DaemonRuns THEN "off" ELSE "host", rebuilders)

Refresh ==
  /\ Idle
  /\ RefreshVerify(since)
  /\ UNCHANGED <<kernel, gen, built, cpu>>

\* The bound on the rebuilds, those under way included.
MayBuild == built + Cardinality({w \in Who : pc[w] = "setup"}) < MaxBuilt

\* setup_network first deletes the namespaces there are.
Apply ==
  /\ Idle /\ MayBuild
  /\ gen' = 0
  /\ pc' = [pc EXCEPT !["own"] = "setup"]
  /\ UNCHANGED <<kernel, built, since, todo, nets, open, view, cpu>>

Built ==
  /\ built' = built + 1
  /\ gen' = built'

RebuiltBy(who) == [w \in Who |-> since[w] \cup {who}]

\* The setup is done; when it asks for a reboot the monitor stays as it is.
AppliedStays ==  \* mutant: no refresh_verify after an Apply
  /\ pc["own"] = "setup" /\ Built
  /\ pc' = [pc EXCEPT !["own"] = IF piggy THEN "off" ELSE "ready"]
  /\ \E who \in {"reboot", "apply"} : since' = RebuiltBy(who)
  /\ UNCHANGED <<todo, nets, open, view>>
  /\ UNCHANGED <<kernel, cpu>>
Applied ==
  /\ pc["own"] = "setup" /\ Built
  /\ \/ /\ pc' = [pc EXCEPT !["own"] = IF piggy THEN "off" ELSE "ready"]
        /\ since' = RebuiltBy("reboot")
        /\ UNCHANGED <<todo, nets, open, view>>
     \/ RefreshVerify(RebuiltBy("apply"))
  /\ UNCHANGED <<kernel, cpu>>

\* c_snap_to_rust: the interfaces of a snapshot, in the order of the contexts.
Seen(w) == [i \in DOMAIN nets[w] |-> nets[w][i][1]]

\* tick and ingest_snapshot: a history for every interface that had none.
Tick ==
  /\ Idle
  /\ LET from == IF piggy THEN "daemon" ELSE "own"
         names == Seen(from)
     IN /\ pc[from] = "ready"
        /\ latest' = names
        /\ labels' = labels \o SubSeq(names, Len(labels) + 1, Len(names))
  /\ UNCHANGED <<kernel, spaces, monitors, piggy, cpu>>

-------------------------------------------------------------------------------
\* The daemon

\* service start and enable: until the PID file is there nobody finds it.
Start ==
  /\ pc["daemon"] = "off" /\ (Idle \/ "shell" \in world)
  /\ pc' = [pc EXCEPT !["daemon"] = "starting"]
  /\ UNCHANGED <<kernel, spaces, todo, nets, open, view, cpu>>

\* The PID file is written and run_setup begins.
DaemonSetup ==
  /\ pc["daemon"] = "starting" /\ MayBuild
  /\ gen' = 0
  /\ pc' = [pc EXCEPT !["daemon"] = "setup"]
  /\ UNCHANGED <<kernel, built, since, todo, nets, open, view, cpu>>

\* It ends, and Monitor::new begins.
DaemonInit ==
  /\ pc["daemon"] = "setup" /\ Built
  /\ Renew("daemon", "host", RebuiltBy("daemon"))
  /\ UNCHANGED <<kernel, view, cpu>>

Gone ==
  /\ nets' = [nets EXCEPT !["daemon"] = <<>>]
  /\ open' = [open EXCEPT !["daemon"] = 0]
  /\ todo' = [todo EXCEPT !["daemon"] = <<>>]
  /\ pc' = [pc EXCEPT !["daemon"] = "off"]

\* service stop and disable in the TUI, followed by refresh_verify.
Stop ==
  /\ Idle /\ DaemonRuns
  /\ latest' = None /\ labels' = <<>> /\ piggy' = FALSE
  /\ pc' = OwnDaemon("host", "off")
  /\ todo' = OwnDaemon(host, <<>>)
  /\ nets' = [w \in Who |-> <<>>]
  /\ open' = OwnDaemon(open["own"] - Len(nets["own"]), 0)
  /\ since' = [since EXCEPT !["own"] = {}]
  /\ UNCHANGED <<kernel, gen, built, cpu>>

\* The daemon dies, or is stopped by others.
Die ==
  /\ "shell" \in world /\ pc["daemon"] # "off"
  /\ Gone
  /\ UNCHANGED <<kernel, spaces, view, cpu>>

-------------------------------------------------------------------------------
\* The kernel

Plug ==
  /\ "hotplug" \in world
  /\ plugs < MaxPlugs /\ plugs' = plugs + 1
  /\ \/ \E n \in Names \ {host[i] : i \in DOMAIN host} : host' = Append(host, n)
     \/ \E i \in DOMAIN host :
          host' = SubSeq(host, 1, i - 1) \o SubSeq(host, i + 1, Len(host))
  /\ UNCHANGED <<world, spaces, monitors, view, cpu>>

\* Time passes on the core.
Run ==
  /\ \E b, i \in 0..MaxStep :
       /\ stat.busy + b + stat.idle + i <= MaxJiffies
       /\ stat' = [busy |-> stat.busy + b, idle |-> stat.idle + i]
       /\ gained' = IF gained.known THEN [gained EXCEPT !.busy = @ + b, !.idle = @ + i]
                                    ELSE gained
  /\ UNCHANGED <<prev, usage>>

Fall ==
  /\ "falls" \in world
  /\ \/ stat.idle > 0 /\ stat' = [stat EXCEPT !.idle = @ - 1]
     \/ stat' = [busy |-> 0, idle |-> 0]
  /\ gained' = [gained EXCEPT !.busy = 0, !.idle = 0, !.known = FALSE]
  /\ UNCHANGED <<prev, usage>>

\* The history after a sample with this total: the next one compares with it
\* unless it is 0, which the code takes for no sample.
Sampled(total) ==
  [busy |-> 0, idle |-> 0, known |-> total > 0,
   shown |-> <<gained.busy, gained.busy + gained.idle>>]

\* update_core_usage, with unsigned differences.
SampleWhenMore ==  \* mutant: the previous sample stays unless the total rose
  LET total == stat.busy + stat.idle
      dt == total - prev.total
      db == (stat.busy - prev.busy) % Wrap
  IN /\ usage' = IF prev.total # 0 /\ total > prev.total THEN (100 * db) \div dt ELSE usage
     /\ prev' = IF total > prev.total THEN [busy |-> stat.busy, total |-> total] ELSE prev
     /\ gained' = Sampled(total)
     /\ UNCHANGED stat
Sample ==
  LET total == stat.busy + stat.idle
      dt == total - prev.total
      db == (stat.busy - prev.busy) % Wrap
  IN /\ usage' = IF prev.total # 0 /\ total > prev.total THEN (100 * db) \div dt ELSE usage
     /\ prev' = [busy |-> stat.busy, total |-> total]
     /\ gained' = Sampled(total)
     /\ UNCHANGED stat

-------------------------------------------------------------------------------

Init ==
  /\ world \in Worlds
  /\ host \in Hosts /\ plugs = 0
  /\ built \in 0..1 /\ gen = built
  /\ pc = OwnDaemon("host", "off")
  /\ todo = OwnDaemon(host, <<>>)
  /\ nets = [w \in Who |-> <<>>] /\ open = [w \in Who |-> 0]
  /\ since = [w \in Who |-> {}]
  /\ piggy = FALSE /\ latest = None /\ labels = <<>>
  /\ stat = [busy |-> 0, idle |-> 0] /\ prev = [busy |-> 0, total |-> 0]
  /\ usage = 0
  /\ gained = [busy |-> 0, idle |-> 0, known |-> FALSE, shown |-> <<0, 0>>]

CpuNext == Run \/ Fall \/ Sample

NetNext ==
  \/ \E w \in Who : OpenFirst(w) \/ OpenRest(w) \/ OpenVeth(w)
  \/ Refresh \/ Apply \/ Applied \/ Tick
  \/ Start \/ DaemonSetup \/ DaemonInit \/ Stop \/ Die
  \/ Plug

Next ==
  \/ "cpu" \in world /\ CpuNext /\ UNCHANGED <<kernel, spaces, monitors, view>>
  \/ "cpu" \notin world /\ NetNext

Spec == Init /\ [][Next]_vars

-------------------------------------------------------------------------------
\* Properties

Contexts == (Names \X {0}) \cup (Veths \X Nat)

TypeOK ==
  /\ world \in Worlds
  /\ host \in Seq(Names) /\ plugs \in 0..MaxPlugs
  /\ gen \in Nat /\ built \in Nat
  /\ pc \in [Who -> {"off", "starting", "setup", "host", "rest", "client", "ready"}]
  /\ todo \in [Who -> Seq(Names)]
  /\ nets \in [Who -> Seq(Contexts)] /\ \A w \in Who : Len(nets[w]) <= Cap
  /\ open \in [Who -> Nat]
  /\ since \in [Who -> SUBSET {"reboot", "apply", "daemon"}]
  /\ piggy \in BOOLEAN
  /\ latest \in Seq(Names \cup Veths) \cup {None}
  /\ labels \in Seq(Names \cup Veths)
  /\ stat \in [busy : Nat, idle : Nat] /\ prev \in [busy : Nat, total : Nat]
  /\ usage \in Nat

\* Every history is of the interface its label names, as long as the daemon the
\* TUI reads from is not replaced by another behind its back: ingest_snapshot
\* pushes the values by position, and labels a history when it is new.
LabelsMatch ==
  "shell" \notin world /\ latest # None =>
    \A i \in DOMAIN latest : i \in DOMAIN labels /\ labels[i] = latest[i]

\* Monitors made and given up leave no descriptor behind, as long as no interface
\* appears while one is made.
NoLeak ==
  "hotplug" \notin world => \A w \in Who : open[w] = Len(nets[w])

\* The contexts s are of the host, and then of the first k veths of the namespaces g,
\* as far as there is room.
HostThenVeths(s, k, g) ==
  \E n \in 0..Len(s) :
    /\ \A i \in 1..n : s[i][2] = 0
    /\ Len(s) <= n + k /\ Len(s) \in {n + k, Cap}
    /\ n < Len(s) => s[n + 1] = <<"s:veth-srv", g>>
    /\ n + 1 < Len(s) => s[n + 2] = <<"c:veth-cli", g>>

\* A monitor that is ready reads the veths there are, if it has room for them and
\* nobody rebuilt them since it was begun; and the TUI's own Apply does not leave
\* its monitor with the ones it replaced, unless it asks for a reboot.
VethsCurrent ==
  /\ \A w \in Who :
       pc[w] = "ready" /\ gen > 0 /\ since[w] = {} => HostThenVeths(nets[w], 2, gen)
  /\ pc["own"] = "ready" => "apply" \notin since["own"]

\* The utilisation shown is the share of busy in the time between the last two
\* samples ("a true % since last sample figure", monitor.c:55-57), also after the
\* counters have fallen, once there are two samples without a fall between them.
UsageExact ==
  gained.shown[2] > 0 => usage = (100 * gained.shown[1]) \div gained.shown[2]
===============================================================================
