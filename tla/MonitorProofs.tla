----------------------------- MODULE MonitorProofs ----------------------------
(***************************************************************************)
(* Theorems about Monitor, for any number of interfaces, any room for      *)
(* contexts, and counters of any size below the modulus.                   *)
(***************************************************************************)
EXTENDS Monitor, SequenceTheorems, TLAPS

Pcs == {"off", "starting", "setup", "host", "rest", "client", "ready"}

\* TypeOK, and what keeps the number of descriptors a natural number and the
\* directory entries from running out.
TypeInv ==
  /\ TypeOK
  /\ \A w \in Who : Len(nets[w]) <= open[w]
  /\ \A w \in Who : pc[w] = "rest" => todo[w] # <<>>

Rebuilders == [Who -> SUBSET {"reboot", "apply", "daemon"}]

LEMMA TypeInvInit == Init => TypeInv
<1> SUFFICES ASSUME Init PROVE TypeInv
  OBVIOUS
<1>1. host \in Seq(Names) /\ <<>> \in Seq(Names) /\ <<>> \in Seq(Contexts)
      /\ <<>> \in Seq(Names \cup Veths)
  BY MonitorAssumption DEF Init
<1>2. todo \in [Who -> Seq(Names)] /\ nets \in [Who -> Seq(Contexts)]
      /\ open \in [Who -> Nat] /\ pc \in [Who -> Pcs]
      /\ since \in [Who -> SUBSET {"reboot", "apply", "daemon"}]
  BY <1>1 DEF Init, Who, Pcs, OwnDaemon
<1>3. \A w \in Who : Len(nets[w]) = 0 /\ open[w] = 0 /\ pc[w] # "rest"
  BY <1>1, EmptySeq DEF Init, Who, OwnDaemon
<1>4. stat \in [busy : Nat, idle : Nat] /\ prev \in [busy : Nat, total : Nat]
      /\ usage \in Nat
  BY DEF Init
<1>5. world \in Worlds /\ gen \in Nat /\ built \in Nat /\ plugs \in 0..MaxPlugs
  BY MonitorAssumption DEF Init
<1>6. piggy \in BOOLEAN /\ latest = None /\ labels \in Seq(Names \cup Veths)
  BY <1>1 DEF Init
<1> QED
  BY <1>1, <1>2, <1>3, <1>4, <1>5, <1>6, MonitorAssumption DEF TypeInv, TypeOK, Pcs

\* A monitor given up and begun again.
LEMMA RenewTypes ==
  ASSUME TypeInv, NEW w \in Who, NEW to \in {"off", "host"},
         NEW rebuilders \in Rebuilders, Renew(w, to, rebuilders)
  PROVE  /\ pc' \in [Who -> Pcs] /\ todo' \in [Who -> Seq(Names)]
         /\ nets' \in [Who -> Seq(Contexts)] /\ open' \in [Who -> Nat]
         /\ since' \in Rebuilders
         /\ \A v \in Who : /\ Len(nets'[v]) <= Cap /\ Len(nets'[v]) <= open'[v]
                           /\ pc'[v] = "rest" => todo'[v] # <<>>
<1> USE DEF TypeInv, TypeOK, Renew
<1>1. <<>> \in Seq(Names) /\ <<>> \in Seq(Contexts) /\ Len(<<>>) = 0
  OBVIOUS
<1>2. open[w] - Len(nets[w]) \in Nat
  <2>1. nets[w] \in Seq(Contexts) /\ Len(nets[w]) \in Nat /\ open[w] \in Nat
    BY LenProperties
  <2> QED
    BY <2>1
<1>3. pc' \in [Who -> Pcs] /\ todo' \in [Who -> Seq(Names)]
  BY <1>1 DEF Pcs
<1>4. nets' \in [Who -> Seq(Contexts)] /\ open' \in [Who -> Nat]
  BY <1>1, <1>2
<1>5. since' \in Rebuilders
  BY DEF Rebuilders
<1>6. ASSUME NEW v \in Who
      PROVE  /\ Len(nets'[v]) <= Cap /\ Len(nets'[v]) <= open'[v]
             /\ pc'[v] = "rest" => todo'[v] # <<>>
  <2>1. CASE v = w
    BY <1>1, <1>2, <2>1, MonitorAssumption
  <2>2. CASE v # w
    BY <2>2
  <2> QED
    BY <2>1, <2>2
<1> QED
  BY <1>3, <1>4, <1>5, <1>6

\* A context more.
LEMMA CountTypes ==
  ASSUME TypeInv, NEW w \in Who, Room(w), NEW name, NEW g,
         <<name, g>> \in Contexts, Count(w, name, g)
  PROVE  /\ nets' \in [Who -> Seq(Contexts)] /\ open' \in [Who -> Nat]
         /\ \A v \in Who : Len(nets'[v]) <= Cap /\ Len(nets'[v]) <= open'[v]
<1> USE DEF TypeInv, TypeOK, Count, Room
<1>1. /\ Append(nets[w], <<name, g>>) \in Seq(Contexts)
      /\ Len(Append(nets[w], <<name, g>>)) = Len(nets[w]) + 1
      /\ Len(nets[w]) \in Nat /\ open[w] \in Nat
  BY AppendProperties, LenProperties
<1>2. nets' \in [Who -> Seq(Contexts)] /\ open' \in [Who -> Nat]
  BY <1>1
<1>3. ASSUME NEW v \in Who
      PROVE  Len(nets'[v]) <= Cap /\ Len(nets'[v]) <= open'[v]
  <2>1. CASE v = w
    BY <1>1, <2>1, MonitorAssumption
  <2>2. CASE v # w
    BY <2>2
  <2> QED
    BY <2>1, <2>2
<1> QED
  BY <1>2, <1>3

LEMMA OpenTypes ==
  ASSUME TypeInv, NEW w \in Who, OpenFirst(w) \/ OpenRest(w) \/ OpenVeth(w)
  PROVE  TypeInv'
<1>0. /\ todo[w] \in Seq(Names)
      /\ todo[w] # <<>> => Head(todo[w]) \in Names /\ Tail(todo[w]) \in Seq(Names)
  BY HeadTailProperties DEF TypeInv, TypeOK
<1>1. CASE OpenFirst(w) /\ Head(todo[w]) \in {host[i] : i \in DOMAIN host}
  <2>1. <<Head(todo[w]), 0>> \in Contexts
    BY <1>0, <1>1 DEF OpenFirst, Contexts
  <2>2. /\ nets' \in [Who -> Seq(Contexts)] /\ open' \in [Who -> Nat]
        /\ \A v \in Who : Len(nets'[v]) <= Cap /\ Len(nets'[v]) <= open'[v]
    BY <1>1, <2>1, CountTypes DEF OpenFirst
  <2>3. /\ todo' \in [Who -> Seq(Names)] /\ pc' = pc
        /\ \A v \in Who : pc'[v] = "rest" => todo'[v] # <<>>
    BY <1>0, <1>1 DEF OpenFirst, TypeInv, TypeOK
  <2> QED
    BY <1>1, <2>2, <2>3 DEF OpenFirst, TypeInv, TypeOK, kernel, spaces, view, cpu
<1>2. CASE OpenFirst(w) /\ Head(todo[w]) \notin {host[i] : i \in DOMAIN host}
  <2>1. /\ pc' \in [Who -> Pcs]
        /\ \A v \in Who : pc'[v] = "rest" => todo'[v] # <<>>
    BY <1>2 DEF OpenFirst, TypeInv, TypeOK, Pcs
  <2> QED
    BY <1>2, <2>1 DEF OpenFirst, TypeInv, TypeOK, kernel, spaces, view, cpu, Pcs
<1>3. CASE OpenRest(w)
  <2>1. open' \in [Who -> Nat] /\ \A v \in Who : Len(nets'[v]) <= open'[v]
    <3>1. \A v \in Who : Len(nets[v]) \in Nat
      BY LenProperties DEF TypeInv, TypeOK
    <3>2. open' = open \/ open' = [open EXCEPT ![w] = @ + 1]
      BY <1>3 DEF OpenRest
    <3>3. nets' = nets
      BY <1>3 DEF OpenRest
    <3>4. open \in [Who -> Nat] /\ \A v \in Who : Len(nets[v]) <= open[v]
      BY DEF TypeInv, TypeOK
    <3>5. CASE open' = [open EXCEPT ![w] = @ + 1]
      <4>1. open' \in [Who -> Nat]
        BY <3>4, <3>5
      <4>2. \A v \in Who : open[v] <= open'[v] /\ open[v] \in Nat /\ open'[v] \in Nat
        BY <3>4, <3>5
      <4> QED
        BY <3>1, <3>3, <3>4, <4>1, <4>2
    <3> QED
      BY <3>2, <3>3, <3>4, <3>5
  <2>2. /\ pc' \in [Who -> Pcs] /\ todo' \in [Who -> Seq(Names)]
        /\ \A v \in Who : pc'[v] = "rest" => todo'[v] # <<>>
    BY <1>0, <1>3 DEF OpenRest, TypeInv, TypeOK, Pcs
  <2> QED
    BY <1>3, <2>1, <2>2 DEF OpenRest, TypeInv, TypeOK, kernel, spaces, view, cpu, Pcs
<1>4. CASE OpenVeth(w)
  <2>1. /\ nets' \in [Who -> Seq(Contexts)] /\ open' \in [Who -> Nat]
        /\ \A v \in Who : Len(nets'[v]) <= Cap /\ Len(nets'[v]) <= open'[v]
    <3>1. CASE Room(w) /\ gen > 0
      <4>1. /\ <<"s:veth-srv", gen>> \in Contexts /\ <<"c:veth-cli", gen>> \in Contexts
        BY DEF Contexts, Veths, TypeInv, TypeOK
      <4>2. PICK name : <<name, gen>> \in Contexts /\ Count(w, name, gen)
        BY <1>4, <3>1, <4>1 DEF OpenVeth
      <4> QED
        BY <3>1, <4>2, CountTypes
    <3>2. CASE ~(Room(w) /\ gen > 0)
      BY <1>4, <3>2 DEF OpenVeth, TypeInv, TypeOK
    <3> QED
      BY <3>1, <3>2
  <2>2. /\ pc' \in [Who -> Pcs] /\ todo' = todo
        /\ \A v \in Who : pc'[v] = "rest" => todo'[v] # <<>>
    BY <1>4 DEF OpenVeth, TypeInv, TypeOK, Pcs
  <2> QED
    BY <1>4, <2>1, <2>2 DEF OpenVeth, TypeInv, TypeOK, kernel, spaces, view, cpu, Pcs
<1> QED
  BY <1>1, <1>2, <1>3, <1>4

LEMMA RefreshTypes ==
  ASSUME TypeInv, NEW rebuilders \in Rebuilders, RefreshVerify(rebuilders),
         gen' \in Nat, built' \in Nat, UNCHANGED <<kernel, cpu>>
  PROVE  TypeInv'
<1>1. "own" \in Who /\ <<>> \in Seq(Names \cup Veths)
  BY DEF Who
<1>2. piggy' \in BOOLEAN /\ latest' = None /\ labels' \in Seq(Names \cup Veths)
  BY <1>1 DEF RefreshVerify, DaemonRuns
<1>3. PICK to \in {"off", "host"} : Renew("own", to, rebuilders)
  BY DEF RefreshVerify
<1> QED
  BY <1>1, <1>2, <1>3, RenewTypes
     DEF TypeInv, TypeOK, kernel, cpu, Pcs, Rebuilders

LEMMA TickTypes == TypeInv /\ Tick => TypeInv'
<1> SUFFICES ASSUME TypeInv, Tick PROVE TypeInv'
  OBVIOUS
<1> DEFINE from == IF piggy THEN "daemon" ELSE "own"
           names == Seen(from)
<1>1. from \in Who
  BY DEF Who
<1>2. names \in Seq(Names \cup Veths)
  <2>1. /\ nets[from] \in Seq(Contexts) /\ Len(nets[from]) \in Nat
        /\ DOMAIN nets[from] = 1..Len(nets[from])
    BY <1>1, LenProperties DEF TypeInv, TypeOK
  <2>2. \A i \in 1..Len(nets[from]) : nets[from][i][1] \in Names \cup Veths
    BY <2>1, ElementOfSeq DEF Contexts
  <2> QED
    BY <2>1, <2>2 DEF Seen
<1>3. SubSeq(names, Len(labels) + 1, Len(names)) \in Seq(Names \cup Veths)
  <2>1. labels \in Seq(Names \cup Veths) /\ Len(labels) \in Nat /\ Len(names) \in Nat
    BY <1>2, LenProperties DEF TypeInv, TypeOK
  <2>2. \A i \in Len(labels) + 1..Len(names) : i \in 1..Len(names)
    BY <2>1
  <2> HIDE DEF names
  <2> QED
    BY <1>2, <2>1, <2>2, SubSeqProperties
<1>4. latest' = names /\ labels' = labels \o SubSeq(names, Len(labels) + 1, Len(names))
  BY DEF Tick
<1>5. labels' \in Seq(Names \cup Veths)
  <2> HIDE DEF names
  <2> QED
    BY <1>3, <1>4, ConcatProperties DEF TypeInv, TypeOK
<1> HIDE DEF names
<1> QED
  BY <1>2, <1>4, <1>5 DEF Tick, TypeInv, TypeOK, kernel, spaces, monitors, cpu

LEMMA RebuiltTypes ==
  ASSUME TypeInv, NEW who \in {"reboot", "apply", "daemon"}
  PROVE  RebuiltBy(who) \in Rebuilders
BY DEF RebuiltBy, Rebuilders, TypeInv, TypeOK

\* A quotient of what is added is a natural number.
LEMMA Quotient ==
  ASSUME NEW a \in Nat, NEW b \in Nat \ {0}
  PROVE  a \div b \in Nat
OBVIOUS

LEMMA CpuTypes == TypeInv /\ CpuNext /\ UNCHANGED <<kernel, spaces, monitors, view>> => TypeInv'
<1> SUFFICES ASSUME TypeInv, CpuNext, UNCHANGED <<kernel, spaces, monitors, view>>
             PROVE  TypeInv'
  OBVIOUS
<1>0. stat.busy \in Nat /\ stat.idle \in Nat /\ prev.busy \in Nat /\ prev.total \in Nat
      /\ usage \in Nat
  BY DEF TypeInv, TypeOK
<1>1. /\ stat' \in [busy : Nat, idle : Nat] /\ prev' \in [busy : Nat, total : Nat]
      /\ usage' \in Nat
  <2>1. CASE Run
    <3>1. PICK b \in Nat, i \in Nat : stat' = [busy |-> stat.busy + b, idle |-> stat.idle + i]
      BY <2>1, MonitorAssumption DEF Run
    <3>2. stat' \in [busy : Nat, idle : Nat] /\ UNCHANGED <<prev, usage>>
      BY <1>0, <2>1, <3>1 DEF Run
    <3> QED
      BY <3>2 DEF TypeInv, TypeOK
  <2>2. CASE Fall
    BY <1>0, <2>2 DEF Fall, TypeInv, TypeOK
  <2>3. CASE Sample
    <3> DEFINE db == (stat.busy - prev.busy) % Wrap
    <3>1. db \in Nat
      BY <1>0, MonitorAssumption
    <3>2. usage' \in Nat
      <4>1. CASE prev.total # 0 /\ stat.busy + stat.idle > prev.total
        <5>1. stat.busy + stat.idle - prev.total \in Nat \ {0} /\ 100 * db \in Nat
          BY <1>0, <3>1, <4>1
        <5>2. usage' = (100 * db) \div (stat.busy + stat.idle - prev.total)
          BY <1>0, <2>3, <4>1, MonitorAssumption DEF Sample
        <5> HIDE DEF db
        <5> QED
          BY <5>1, <5>2, Quotient
      <4>2. CASE ~(prev.total # 0 /\ stat.busy + stat.idle > prev.total)
        BY <1>0, <2>3, <4>2 DEF Sample
      <4> QED
        BY <4>1, <4>2
    <3> QED
      BY <1>0, <2>3, <3>2 DEF Sample, TypeInv, TypeOK
  <2> QED
    BY <2>1, <2>2, <2>3 DEF CpuNext
<1> QED
  BY <1>1 DEF TypeInv, TypeOK, kernel, spaces, monitors, view

LEMMA TypeInvStep == TypeInv /\ [Next]_vars => TypeInv'
<1> SUFFICES ASSUME TypeInv, [Next]_vars PROVE TypeInv'
  OBVIOUS
<1>1. CASE "cpu" \in world /\ CpuNext /\ UNCHANGED <<kernel, spaces, monitors, view>>
  BY <1>1, CpuTypes
<1>2. CASE \E w \in Who : OpenFirst(w) \/ OpenRest(w) \/ OpenVeth(w)
  BY <1>2, OpenTypes
<1>3. CASE Refresh
  BY <1>3, RefreshTypes DEF Refresh, TypeInv, TypeOK, Rebuilders
<1>4. CASE Apply \/ Start \/ DaemonSetup
  <2>1. /\ pc' \in [Who -> Pcs] /\ gen' \in Nat /\ \A w \in Who : pc'[w] = "rest" => pc[w] = "rest"
    <3>1. PICK w \in Who, to \in Pcs \ {"rest"} : pc' = [pc EXCEPT ![w] = to]
      BY <1>4 DEF Apply, Start, DaemonSetup, Who, Pcs
    <3>2. gen' \in Nat
      BY <1>4 DEF Apply, Start, DaemonSetup, spaces, TypeInv, TypeOK
    <3> QED
      BY <3>1, <3>2 DEF TypeInv, TypeOK, Pcs
  <2>2. UNCHANGED <<kernel, built, since, todo, nets, open, view, cpu>>
    BY <1>4 DEF Apply, Start, DaemonSetup, spaces
  <2> QED
    BY <2>1, <2>2 DEF TypeInv, TypeOK, Pcs, kernel, view, cpu
<1>5. CASE Applied
  <2>1. built' \in Nat /\ gen' \in Nat
    BY <1>5 DEF Applied, Built, TypeInv, TypeOK
  <2>2. CASE RefreshVerify(RebuiltBy("apply"))
    BY <1>5, <2>1, <2>2, RebuiltTypes, RefreshTypes DEF Applied
  <2>3. CASE ~RefreshVerify(RebuiltBy("apply"))
    <3>1. /\ pc' = [pc EXCEPT !["own"] = IF piggy THEN "off" ELSE "ready"]
          /\ since' = RebuiltBy("reboot") /\ UNCHANGED <<todo, nets, open, view>>
      BY <1>5, <2>3 DEF Applied
    <3>2. since' \in Rebuilders
      BY <3>1, RebuiltTypes
    <3> QED
      BY <1>5, <2>1, <3>1, <3>2
         DEF Applied, TypeInv, TypeOK, kernel, view, cpu, Rebuilders
  <2> QED
    BY <2>2, <2>3
<1>6. CASE Tick
  BY <1>6, TickTypes
<1>7. CASE DaemonInit
  <2>1. built' \in Nat /\ gen' \in Nat /\ RebuiltBy("daemon") \in Rebuilders
    BY <1>7, RebuiltTypes DEF DaemonInit, Built, TypeInv, TypeOK
  <2>2. Renew("daemon", "host", RebuiltBy("daemon")) /\ "daemon" \in Who
    BY <1>7 DEF DaemonInit, Who
  <2> QED
    BY <1>7, <2>1, <2>2, RenewTypes
       DEF DaemonInit, TypeInv, TypeOK, kernel, view, cpu, Pcs, Rebuilders
<1>8. CASE Stop
  <2>1. /\ <<>> \in Seq(Names) /\ <<>> \in Seq(Contexts) /\ Len(<<>>) = 0
        /\ <<>> \in Seq(Names \cup Veths) /\ host \in Seq(Names)
    BY DEF TypeInv, TypeOK
  <2>2. open["own"] - Len(nets["own"]) \in Nat
    BY LenProperties DEF TypeInv, TypeOK, Who
  <2>3. /\ pc' \in [Who -> Pcs] /\ todo' \in [Who -> Seq(Names)]
        /\ nets' \in [Who -> Seq(Contexts)] /\ open' \in [Who -> Nat]
    BY <1>8, <2>1, <2>2 DEF Stop, OwnDaemon, Pcs
  <2>4. \A w \in Who : /\ Len(nets'[w]) = 0 /\ pc'[w] # "rest" /\ open'[w] \in Nat
    BY <1>8, <2>1, <2>3 DEF Stop, OwnDaemon
  <2>5. /\ piggy' \in BOOLEAN /\ latest' = None /\ labels' \in Seq(Names \cup Veths)
        /\ since' \in Rebuilders /\ UNCHANGED <<kernel, gen, built, cpu>>
    BY <1>8, <2>1 DEF Stop, TypeInv, TypeOK, Rebuilders
  <2>6. \A w \in Who : Len(nets'[w]) <= Cap /\ Len(nets'[w]) <= open'[w]
    BY <2>4, MonitorAssumption
  <2> QED
    BY <2>3, <2>4, <2>5, <2>6 DEF TypeInv, TypeOK, kernel, cpu, Pcs, Rebuilders
<1>9. CASE Die
  <2>1. <<>> \in Seq(Names) /\ <<>> \in Seq(Contexts) /\ Len(<<>>) = 0 /\ Cap \in Nat
    BY MonitorAssumption
  <2>2. /\ pc' \in [Who -> Pcs] /\ todo' \in [Who -> Seq(Names)]
        /\ nets' \in [Who -> Seq(Contexts)] /\ open' \in [Who -> Nat]
    BY <1>9, <2>1 DEF Die, Gone, TypeInv, TypeOK, Pcs
  <2>3. \A w \in Who : /\ Len(nets'[w]) <= Cap /\ Len(nets'[w]) <= open'[w]
                       /\ pc'[w] = "rest" => todo'[w] # <<>>
    BY <1>9, <2>1 DEF Die, Gone, TypeInv, TypeOK
  <2> QED
    BY <1>9, <2>2, <2>3 DEF Die, TypeInv, TypeOK, Pcs, kernel, spaces, view, cpu
<1>10. CASE Plug
  <2>1. host' \in Seq(Names)
    <3>0. host \in Seq(Names) /\ Len(host) \in Nat /\ DOMAIN host = 1..Len(host)
          /\ \A j \in 1..Len(host) : host[j] \in Names
      BY LenProperties, ElementOfSeq DEF TypeInv, TypeOK
    <3>1. CASE \E n \in Names : host' = Append(host, n)
      BY <3>0, <3>1, AppendProperties
    <3>2. ASSUME NEW i \in DOMAIN host,
                 host' = SubSeq(host, 1, i - 1) \o SubSeq(host, i + 1, Len(host))
          PROVE  host' \in Seq(Names)
      <4>1. i \in 1..Len(host) /\ i - 1 \in Int /\ i + 1 \in Int
        BY <3>0
      <4>2. SubSeq(host, 1, i - 1) \in Seq(Names)
        BY <3>0, <4>1, SubSeqProperties
      <4>3. SubSeq(host, i + 1, Len(host)) \in Seq(Names)
        BY <3>0, <4>1, SubSeqProperties
      <4> QED
        BY <3>2, <4>2, <4>3, ConcatProperties
    <3> QED
      BY <1>10, <3>1, <3>2 DEF Plug
  <2> QED
    <3>1. plugs' \in 0..MaxPlugs
      BY <1>10, MonitorAssumption DEF Plug, TypeInv, TypeOK
    <3>2. UNCHANGED <<world, spaces, monitors, view, cpu>>
      BY <1>10 DEF Plug
    <3> QED
      BY <2>1, <3>1, <3>2 DEF TypeInv, TypeOK, spaces, monitors, view, cpu
<1>11. CASE UNCHANGED vars
  BY <1>11 DEF vars, kernel, spaces, monitors, view, cpu, TypeInv, TypeOK
<1> QED
  BY <1>1, <1>2, <1>3, <1>4, <1>5, <1>6, <1>7, <1>8, <1>9, <1>10, <1>11 DEF Next, NetNext

\* Every variable keeps its type; a monitor never holds more contexts than there
\* is room for.
THEOREM MonitorTypes == Spec => []TypeOK
<1>1. TypeInv => TypeOK
  BY DEF TypeInv
<1> QED
  BY <1>1, TypeInvInit, TypeInvStep, PTL DEF Spec

-------------------------------------------------------------------------------
\* Descriptors.  While no interface comes or goes what a monitor has read from the
\* directory is there.
InHost(s) == \A i \in 1..Len(s) : \E j \in 1..Len(host) : s[i] = host[j]

LeakInv ==
  "hotplug" \notin world =>
    \A w \in Who : open[w] = Len(nets[w]) /\ InHost(todo[w]) /\ pc[w] # "rest"

LEMMA LeakInit == Init => LeakInv
BY EmptySeq DEF Init, LeakInv, InHost, Who, OwnDaemon

LEMMA LeakStep == TypeInv /\ LeakInv /\ [Next]_vars => LeakInv'
<1> SUFFICES ASSUME TypeInv, LeakInv, [Next]_vars, "hotplug" \notin world'
             PROVE  \A w \in Who : /\ open'[w] = Len(nets'[w])
                                  /\ InHost(todo[w])'
                                  /\ pc'[w] # "rest"
  BY DEF LeakInv
<1>0. /\ "hotplug" \notin world
      /\ \A w \in Who : open[w] = Len(nets[w]) /\ InHost(todo[w]) /\ pc[w] # "rest"
      /\ host' = host
  <2>1. world' = world
    BY DEF Next, NetNext, CpuNext, kernel, vars, OpenFirst, OpenRest, OpenVeth, Refresh,
           Apply, Applied, Tick, Start, DaemonSetup, DaemonInit, Stop, Die, Plug
  <2>2. ~Plug
    BY <2>1 DEF Plug
  <2>3. host' = host
    BY <2>2 DEF Next, NetNext, CpuNext, kernel, vars, OpenFirst, OpenRest, OpenVeth,
                Refresh, Apply, Applied, Tick, Start, DaemonSetup, DaemonInit, Stop, Die
  <2> QED
    BY <2>1, <2>3 DEF LeakInv
<1> SUFFICES \A w \in Who : /\ open'[w] = Len(nets'[w])
                             /\ InHost(todo'[w])
                             /\ pc'[w] # "rest"
  BY <1>0 DEF InHost
<1>1. /\ InHost(host) /\ InHost(<<>>) /\ Len(<<>>) = 0
      /\ "own" \in Who /\ "daemon" \in Who
  BY DEF InHost, Who
<1>2. ASSUME NEW w \in Who, NEW to \in {"off", "host"}, NEW rebuilders, Renew(w, to, rebuilders)
      PROVE  \A v \in Who : /\ open'[v] = Len(nets'[v])
                           /\ InHost(todo'[v])
                           /\ pc'[v] # "rest"
  <2>1. open'[w] = 0 /\ nets'[w] = <<>> /\ pc'[w] = to /\ todo'[w] \in {host, <<>>}
    <3>1. open[w] - Len(nets[w]) = 0
      BY <1>0 DEF TypeInv, TypeOK
    <3> QED
      BY <1>2, <3>1 DEF Renew, TypeInv, TypeOK
  <2>2. \A v \in Who \ {w} : /\ open'[v] = open[v] /\ nets'[v] = nets[v]
                             /\ pc'[v] = pc[v] /\ todo'[v] = todo[v]
    BY <1>2 DEF Renew, TypeInv, TypeOK
  <2> QED
    BY <1>0, <1>1, <2>1, <2>2
<1>3. ASSUME NEW w \in Who, OpenFirst(w) \/ OpenVeth(w)
      PROVE  \A v \in Who : /\ open'[v] = Len(nets'[v])
                           /\ InHost(todo'[v])
                           /\ pc'[v] # "rest"
  <2>1. ASSUME NEW name, NEW g, Count(w, name, g)
        PROVE  \A v \in Who : open'[v] = Len(nets'[v])
    <3>1. nets[w] \in Seq(Contexts) /\ Len(nets[w]) \in Nat
      BY LenProperties DEF TypeInv, TypeOK
    <3>2. Len(Append(nets[w], <<name, g>>)) = Len(nets[w]) + 1
      BY <3>1
    <3> QED
      BY <1>0, <2>1, <3>2 DEF Count, TypeInv, TypeOK
  <2>2. CASE OpenFirst(w)
    <3>1. /\ todo[w] \in Seq(Names) /\ todo[w] # <<>> /\ Len(todo[w]) \in Nat \ {0}
          /\ Head(todo[w]) = todo[w][1] /\ 1 \in 1..Len(todo[w])
      BY <2>2, EmptySeq, LenProperties DEF OpenFirst, TypeInv, TypeOK
    <3>2. Head(todo[w]) \in {host[i] : i \in DOMAIN host}
      <4>1. InHost(todo[w])
        BY <1>0
      <4>2. PICK j \in 1..Len(host) : todo[w][1] = host[j]
        BY <3>1, <4>1 DEF InHost
      <4>3. DOMAIN host = 1..Len(host)
        BY LenProperties DEF TypeInv, TypeOK
      <4> QED
        BY <3>1, <4>2, <4>3
    <3>3. /\ Count(w, Head(todo[w]), 0) /\ pc' = pc
          /\ todo' = [todo EXCEPT ![w] = Tail(@)]
      BY <2>2, <3>2 DEF OpenFirst
    <3>4. InHost(Tail(todo[w]))
      <4>1. /\ Len(Tail(todo[w])) = Len(todo[w]) - 1
            /\ \A i \in 1..Len(Tail(todo[w])) : Tail(todo[w])[i] = todo[w][i + 1]
        BY <3>1, HeadTailProperties
      <4>2. \A i \in 1..Len(Tail(todo[w])) : i + 1 \in 1..Len(todo[w])
        BY <3>1, <4>1
      <4> QED
        BY <1>0, <4>1, <4>2 DEF InHost
    <3>5. \A v \in Who : InHost(todo'[v])
      BY <1>0, <3>3, <3>4 DEF TypeInv, TypeOK
    <3> QED
      BY <1>0, <2>1, <3>3, <3>5
  <2>3. CASE OpenVeth(w)
    <3>1. \A v \in Who : open'[v] = Len(nets'[v])
      BY <1>0, <2>1, <2>3 DEF OpenVeth
    <3>2. todo' = todo /\ \A v \in Who : pc'[v] # "rest"
      BY <1>0, <2>3 DEF OpenVeth, TypeInv, TypeOK
    <3> QED
      BY <1>0, <3>1, <3>2
  <2> QED
    BY <1>3, <2>2, <2>3
<1>4. CASE UNCHANGED <<todo, nets, open>> /\ \A w \in Who : pc'[w] # "rest"
  BY <1>0, <1>4
<1>5. CASE \E w \in Who : OpenFirst(w) \/ OpenRest(w) \/ OpenVeth(w)
  <2>1. \A w \in Who : ~OpenRest(w)
    BY <1>0 DEF OpenRest
  <2> QED
    BY <1>3, <1>5, <2>1
<1>6. CASE \E r : RefreshVerify(r)
  BY <1>1, <1>2, <1>6 DEF RefreshVerify
<1>7. CASE DaemonInit
  BY <1>1, <1>2, <1>7 DEF DaemonInit
<1>8. CASE Stop
  <2>1. \A w \in Who : /\ open'[w] = 0 /\ nets'[w] = <<>> /\ pc'[w] # "rest"
                       /\ todo'[w] \in {host, <<>>}
    <3>1. open["own"] - Len(nets["own"]) = 0
      BY <1>0, <1>1 DEF TypeInv, TypeOK
    <3> QED
      BY <1>8, <3>1 DEF Stop, OwnDaemon, Who
  <2> QED
    BY <1>1, <2>1
<1>9. CASE Die
  <2>1. /\ open'["daemon"] = 0 /\ nets'["daemon"] = <<>> /\ pc'["daemon"] = "off"
        /\ todo'["daemon"] = <<>>
        /\ open'["own"] = open["own"] /\ nets'["own"] = nets["own"]
        /\ pc'["own"] = pc["own"] /\ todo'["own"] = todo["own"]
    BY <1>1, <1>9 DEF Die, Gone, TypeInv, TypeOK
  <2> QED
    BY <1>0, <1>1, <2>1 DEF Who
<1>10. CASE \/ "cpu" \in world /\ CpuNext /\ UNCHANGED <<kernel, spaces, monitors, view>>
            \/ UNCHANGED vars
  BY <1>0, <1>4, <1>10 DEF vars, monitors
<1>11. CASE Tick
  BY <1>0, <1>4, <1>11 DEF Tick, monitors
<1>12. CASE Apply \/ Start \/ DaemonSetup
  BY <1>0, <1>4, <1>12 DEF Apply, Start, DaemonSetup, TypeInv, TypeOK
<1>13. CASE Applied
  <2>1. CASE RefreshVerify(RebuiltBy("apply"))
    BY <1>6, <2>1
  <2>2. CASE ~RefreshVerify(RebuiltBy("apply"))
    BY <1>0, <1>4, <1>13, <2>2 DEF Applied, TypeInv, TypeOK
  <2> QED
    BY <2>1, <2>2
<1>14. CASE Plug
  BY <1>0, <1>14 DEF Plug, kernel
<1> QED
  BY <1>5, <1>6, <1>7, <1>8, <1>9, <1>10, <1>11, <1>12, <1>13, <1>14
     DEF Next, NetNext, Refresh

\* Monitors leave no descriptor behind unless an interface appears while one is
\* made: the number of open contexts is that of the contexts destroy will close.
THEOREM NothingLeaks == Spec => []NoLeak
<1>1. LeakInv => NoLeak
  BY DEF LeakInv, NoLeak
<1> QED
  BY <1>1, TypeInvInit, TypeInvStep, LeakInit, LeakStep, PTL DEF Spec

-------------------------------------------------------------------------------
\* The utilisation of a core.  While the gains are known they are what the counters
\* have more than the last sample, so no difference wraps.
CpuInv ==
  /\ gained \in [busy : Nat, idle : Nat, known : BOOLEAN, shown : Nat \X Nat]
  /\ stat.busy + stat.idle <= MaxJiffies
  /\ IF gained.known
       THEN /\ prev.total > 0
            /\ stat.busy = prev.busy + gained.busy
            /\ stat.busy + stat.idle = prev.total + gained.busy + gained.idle
       ELSE gained.busy = 0 /\ gained.idle = 0
  /\ UsageExact

LEMMA CpuInit == Init => CpuInv
<1> SUFFICES ASSUME Init PROVE CpuInv
  OBVIOUS
<1>1. gained \in [busy : Nat, idle : Nat, known : BOOLEAN, shown : Nat \X Nat]
  BY DEF Init
<1> QED
  BY <1>1, MonitorAssumption DEF Init, CpuInv, UsageExact

LEMMA SmallRemainder ==
  ASSUME NEW n \in Nat, NEW m \in Nat, n < m
  PROVE  n % m = n
OBVIOUS

LEMMA SampleStep == TypeInv /\ CpuInv /\ Sample => CpuInv'
<1> SUFFICES ASSUME TypeInv, CpuInv, Sample PROVE CpuInv'
  OBVIOUS
<1>0. /\ stat.busy \in Nat /\ stat.idle \in Nat /\ prev.busy \in Nat /\ prev.total \in Nat
      /\ gained.busy \in Nat /\ gained.idle \in Nat
      /\ stat.busy + stat.idle <= MaxJiffies /\ MaxJiffies \in Nat /\ Wrap \in Nat
      /\ MaxJiffies < Wrap
  BY MonitorAssumption DEF TypeInv, TypeOK, CpuInv
<1> DEFINE sum == stat.busy + stat.idle
<1>1. /\ gained' = Sampled(sum) /\ stat' = stat
      /\ prev' = [busy |-> stat.busy, total |-> sum]
  BY DEF Sample
<1>2. gained'.busy = 0 /\ gained'.idle = 0 /\ gained'.known = (sum > 0)
      /\ gained'.shown = <<gained.busy, gained.busy + gained.idle>>
  BY <1>1 DEF Sampled
<1>3. gained' \in [busy : Nat, idle : Nat, known : BOOLEAN, shown : Nat \X Nat]
  BY <1>0, <1>1 DEF Sampled
<1>4. UsageExact'
  <2> SUFFICES ASSUME gained.busy + gained.idle > 0
               PROVE  usage' = (100 * gained.busy) \div (gained.busy + gained.idle)
    BY <1>2 DEF UsageExact
  <2>1. gained.known
    BY <1>0 DEF CpuInv
  <2>2. /\ prev.total # 0 /\ sum > prev.total
        /\ stat.busy - prev.busy = gained.busy
        /\ sum - prev.total = gained.busy + gained.idle
    BY <1>0, <2>1 DEF CpuInv
  <2>3. (stat.busy - prev.busy) % Wrap = gained.busy
    <3>1. gained.busy < Wrap
      BY <1>0, <2>1 DEF CpuInv
    <3> QED
      BY <1>0, <2>2, <3>1, SmallRemainder
  <2>4. usage' = (100 * ((stat.busy - prev.busy) % Wrap)) \div (sum - prev.total)
    BY <1>0, <2>2 DEF Sample
  <2> QED
    BY <2>2, <2>3, <2>4
<1>5. stat'.busy + stat'.idle <= MaxJiffies
  BY <1>0, <1>1
<1>6. IF gained'.known
        THEN /\ prev'.total > 0
             /\ stat'.busy = prev'.busy + gained'.busy
             /\ stat'.busy + stat'.idle = prev'.total + gained'.busy + gained'.idle
        ELSE gained'.busy = 0 /\ gained'.idle = 0
  <2>1. CASE sum > 0
    <3>1. gained'.known
      BY <1>2, <2>1
    <3> QED
      BY <1>0, <1>1, <1>2, <2>1, <3>1
  <2>2. CASE ~(sum > 0)
    BY <1>2, <2>2
  <2> QED
    BY <2>1, <2>2
<1> QED
  BY <1>3, <1>4, <1>5, <1>6 DEF CpuInv

LEMMA CpuStep == TypeInv /\ CpuInv /\ [Next]_vars => CpuInv'
<1> SUFFICES ASSUME TypeInv, CpuInv, [Next]_vars PROVE CpuInv'
  OBVIOUS
<1>0. /\ stat.busy \in Nat /\ stat.idle \in Nat /\ prev.busy \in Nat /\ prev.total \in Nat
      /\ gained.busy \in Nat /\ gained.idle \in Nat /\ MaxJiffies \in Nat
      /\ stat \in [busy : Nat, idle : Nat]
      /\ gained \in [busy : Nat, idle : Nat, known : BOOLEAN, shown : Nat \X Nat]
  BY MonitorAssumption DEF TypeInv, TypeOK, CpuInv
<1>1. CASE Run
  <2>1. PICK b \in 0..MaxStep, i \in 0..MaxStep :
          /\ stat.busy + b + stat.idle + i <= MaxJiffies
          /\ stat' = [busy |-> stat.busy + b, idle |-> stat.idle + i]
          /\ gained' = IF gained.known THEN [gained EXCEPT !.busy = @ + b, !.idle = @ + i]
                                       ELSE gained
    BY <1>1 DEF Run
  <2>2. usage' = usage /\ prev' = prev /\ b \in Nat /\ i \in Nat
    BY <1>1, <2>1, MonitorAssumption DEF Run
  <2>3. gained' \in [busy : Nat, idle : Nat, known : BOOLEAN, shown : Nat \X Nat]
    <3>1. CASE gained.known
      <4>1. gained' = [gained EXCEPT !.busy = gained.busy + b, !.idle = gained.idle + i]
        BY <2>1, <3>1
      <4>2. gained.busy + b \in Nat /\ gained.idle + i \in Nat
        BY <1>0, <2>2
      <4> QED
        BY <1>0, <4>1, <4>2
    <3>2. CASE ~gained.known
      BY <1>0, <2>1, <3>2
    <3> QED
      BY <3>1, <3>2
  <2>4. gained'.shown = gained.shown /\ gained'.known = gained.known
    <3>1. CASE gained.known
      BY <1>0, <2>1, <3>1
    <3>2. CASE ~gained.known
      BY <2>1, <3>2
    <3> QED
      BY <3>1, <3>2
  <2>5. stat'.busy + stat'.idle <= MaxJiffies
    BY <1>0, <2>1, <2>2
  <2>6. IF gained'.known
          THEN /\ prev'.total > 0
               /\ stat'.busy = prev'.busy + gained'.busy
               /\ stat'.busy + stat'.idle = prev'.total + gained'.busy + gained'.idle
          ELSE gained'.busy = 0 /\ gained'.idle = 0
    <3>1. CASE gained.known
      BY <1>0, <2>1, <2>2, <2>4, <3>1 DEF CpuInv
    <3>2. CASE ~gained.known
      BY <2>1, <2>4, <3>2 DEF CpuInv
    <3> QED
      BY <3>1, <3>2
  <2> QED
    BY <2>2, <2>3, <2>4, <2>5, <2>6 DEF CpuInv, UsageExact
<1>2. CASE Fall
  <2>1. gained' = [gained EXCEPT !.busy = 0, !.idle = 0, !.known = FALSE]
        /\ usage' = usage
    BY <1>2 DEF Fall
  <2>2. /\ gained' \in [busy : Nat, idle : Nat, known : BOOLEAN, shown : Nat \X Nat]
        /\ gained'.shown = gained.shown /\ ~gained'.known
        /\ gained'.busy = 0 /\ gained'.idle = 0
    BY <1>0, <2>1
  <2>3. stat'.busy + stat'.idle <= MaxJiffies
    BY <1>0, <1>2 DEF Fall, CpuInv
  <2> QED
    BY <2>1, <2>2, <2>3 DEF CpuInv, UsageExact
<1>3. CASE Sample
  BY <1>3, SampleStep
<1>4. CASE UNCHANGED cpu
  BY <1>4 DEF cpu, CpuInv, UsageExact
<1>5. CASE NetNext \/ UNCHANGED vars
  BY <1>4, <1>5 DEF NetNext, vars, OpenFirst, OpenRest, OpenVeth, Refresh, Apply, Applied,
                    Tick, Start, DaemonSetup, DaemonInit, Stop, Die, Plug
<1> QED
  BY <1>1, <1>2, <1>3, <1>5 DEF Next, CpuNext

\* The utilisation is exact whenever two samples had no fall between them, for
\* counters of any size below the modulus.
THEOREM UsageIsExact == Spec => []UsageExact
<1>1. CpuInv => UsageExact
  BY DEF CpuInv
<1> QED
  BY <1>1, TypeInvInit, TypeInvStep, CpuInit, CpuStep, PTL DEF Spec

-------------------------------------------------------------------------------
\* Labels.  Once the TUI has a snapshot the monitor it came from stays as it is
\* until the TUI forgets the snapshot, and the labels are those of that monitor.
Source == IF piggy THEN "daemon" ELSE "own"
SourceNames == [i \in DOMAIN nets[Source] |-> nets[Source][i][1]]

LabelInv ==
  "shell" \notin world =>
    IF latest = None
      THEN labels = <<>>
      ELSE /\ pc[Source] = "ready" \/ (~piggy /\ pc["own"] = "setup")
           /\ latest = SourceNames /\ labels = SourceNames

LEMMA LabelInit == Init => LabelInv
BY DEF Init, LabelInv

\* What the source has read does not change while others work.
LEMMA LabelsStay ==
  ASSUME LabelInv, "shell" \notin world', world' = world, UNCHANGED view,
         latest # None => /\ nets'[Source] = nets[Source]
                          /\ \/ pc'[Source] = "ready"
                             \/ ~piggy /\ pc'["own"] = "setup"
  PROVE  LabelInv'
<1>1. Source' = Source
  BY DEF view, Source
<1>2. latest # None => SourceNames' = SourceNames
  BY <1>1 DEF SourceNames
<1> QED
  BY <1>1, <1>2 DEF LabelInv, view

LEMMA TickLabels == TypeInv /\ LabelInv /\ Tick => LabelInv'
<1> SUFFICES ASSUME TypeInv, LabelInv, Tick, "shell" \notin world' PROVE LabelInv'
  BY DEF LabelInv
<1>1. /\ latest' = SourceNames /\ pc[Source] = "ready"
      /\ labels' = labels \o SubSeq(SourceNames, Len(labels) + 1, Len(SourceNames))
      /\ UNCHANGED <<world, nets, pc, piggy>>
  BY DEF Tick, Seen, Source, SourceNames, kernel, monitors
<1>2. SourceNames \in Seq(Names \cup Veths)
  <2>0. Source \in Who
    BY DEF Source, Who
  <2>1. /\ nets[Source] \in Seq(Contexts) /\ Len(nets[Source]) \in Nat
        /\ DOMAIN nets[Source] = 1..Len(nets[Source])
    BY <2>0, LenProperties DEF TypeInv, TypeOK
  <2>2. \A i \in 1..Len(nets[Source]) : nets[Source][i][1] \in Names \cup Veths
    BY <2>1, ElementOfSeq DEF Contexts
  <2> QED
    BY <2>1, <2>2 DEF SourceNames
<1>3. labels' = SourceNames
  <2>1. Len(SourceNames) \in Nat /\ Len(<<>>) = 0
    BY <1>2, LenProperties
  <2>2. CASE latest = None
    <3>1. labels = <<>>
      BY <1>1, <2>2 DEF LabelInv
    <3>2. SubSeq(SourceNames, 1, Len(SourceNames)) = SourceNames
      <4>1. \A i \in 1..Len(SourceNames) : SourceNames[i] \in Names \cup Veths
        BY <1>2, ElementOfSeq
      <4>2. /\ SubSeq(SourceNames, 1, Len(SourceNames)) \in Seq(Names \cup Veths)
            /\ Len(SubSeq(SourceNames, 1, Len(SourceNames))) = Len(SourceNames)
            /\ \A i \in 1..Len(SourceNames) :
                 SubSeq(SourceNames, 1, Len(SourceNames))[i] = SourceNames[i]
        BY <2>1, <4>1, SubSeqProperties
      <4> QED
        BY <1>2, <4>2, SeqEqual
    <3> QED
      BY <1>1, <1>2, <2>1, <3>1, <3>2, ConcatEmptySeq
  <2>3. CASE latest # None
    <3>1. labels = SourceNames
      BY <1>1, <2>3 DEF LabelInv
    <3>2. SubSeq(SourceNames, Len(SourceNames) + 1, Len(SourceNames)) = <<>>
      BY <2>1, SubSeqEmpty
    <3> QED
      BY <1>1, <1>2, <3>1, <3>2, ConcatEmptySeq
  <2> QED
    BY <2>2, <2>3
<1>4. Source' = Source /\ SourceNames' = SourceNames
  BY <1>1 DEF Source, SourceNames
<1>5. latest' # None
  BY <1>1, <1>2, MonitorAssumption
<1> QED
  BY <1>1, <1>3, <1>4, <1>5 DEF LabelInv

LEMMA LabelStep == TypeInv /\ LabelInv /\ [Next]_vars => LabelInv'
<1> SUFFICES ASSUME TypeInv, LabelInv, [Next]_vars, "shell" \notin world'
             PROVE  LabelInv'
  BY DEF LabelInv
<1>0. world' = world
  BY DEF Next, NetNext, CpuNext, kernel, vars, OpenFirst, OpenRest, OpenVeth, Refresh,
         Apply, Applied, Tick, Start, DaemonSetup, DaemonInit, Stop, Die, Plug
<1>1. /\ latest # None => pc[Source] = "ready" \/ (~piggy /\ pc["own"] = "setup")
      /\ Source \in Who /\ (piggy <=> Source = "daemon") /\ (~piggy <=> Source = "own")
  BY <1>0 DEF LabelInv, Source, Who
<1>2. CASE \E w \in Who : OpenFirst(w) \/ OpenRest(w) \/ OpenVeth(w)
  <2>1. PICK w \in Who : OpenFirst(w) \/ OpenRest(w) \/ OpenVeth(w)
    BY <1>2
  <2>2. UNCHANGED view
    BY <2>1 DEF OpenFirst, OpenRest, OpenVeth
  <2>3. pc[w] \in {"host", "rest", "client"}
    BY <2>1 DEF OpenFirst, OpenRest, OpenVeth
  <2>4. \A v \in Who \ {w} : nets'[v] = nets[v] /\ pc'[v] = pc[v]
    BY <2>1 DEF OpenFirst, OpenRest, OpenVeth, Count, TypeInv, TypeOK
  <2>5. latest # None => Source # w
    BY <1>1, <2>3
  <2> QED
    BY <1>0, <1>1, <2>2, <2>4, <2>5, LabelsStay
<1>3. CASE latest' = None /\ labels' = <<>>
  BY <1>3 DEF LabelInv
<1>4. CASE Refresh
  BY <1>3, <1>4 DEF Refresh, RefreshVerify
<1>5. CASE Apply
  <2>1. UNCHANGED view /\ nets' = nets
    BY <1>5 DEF Apply
  <2>2. latest # None => \/ pc'[Source] = "ready"
                         \/ ~piggy /\ pc'["own"] = "setup"
    BY <1>1, <1>5 DEF Apply, TypeInv, TypeOK, Who
  <2> QED
    BY <1>0, <2>1, <2>2, LabelsStay
<1>6. CASE Applied
  <2>1. CASE RefreshVerify(RebuiltBy("apply"))
    BY <1>3, <2>1 DEF RefreshVerify
  <2>2. CASE ~RefreshVerify(RebuiltBy("apply"))
    <3>1. UNCHANGED view /\ nets' = nets
          /\ pc' = [pc EXCEPT !["own"] = IF piggy THEN "off" ELSE "ready"]
      BY <1>6, <2>2 DEF Applied
    <3>2. latest # None => pc'[Source] = "ready"
      BY <1>1, <3>1 DEF TypeInv, TypeOK, Who
    <3> QED
      BY <1>0, <3>1, <3>2, LabelsStay
  <2> QED
    BY <2>1, <2>2
<1>7. CASE Tick
  BY <1>7, TickLabels
<1>8. CASE Start \/ DaemonSetup
  <2>1. UNCHANGED view /\ nets' = nets /\ pc["daemon"] # "ready"
    BY <1>8 DEF Start, DaemonSetup
  <2>2. pc'["own"] = pc["own"]
    BY <1>8 DEF Start, DaemonSetup, TypeInv, TypeOK, Who
  <2> QED
    BY <1>0, <1>1, <2>1, <2>2, LabelsStay
<1>9. CASE DaemonInit
  <2>1. UNCHANGED view /\ pc["daemon"] # "ready"
    BY <1>9 DEF DaemonInit
  <2>2. pc'["own"] = pc["own"] /\ nets'["own"] = nets["own"]
    BY <1>9 DEF DaemonInit, Renew, TypeInv, TypeOK, Who
  <2> QED
    BY <1>0, <1>1, <2>1, <2>2, LabelsStay
<1>10. CASE Stop
  BY <1>3, <1>10 DEF Stop
<1>11. CASE Die
  BY <1>0, <1>11 DEF Die
<1>12. CASE UNCHANGED <<pc, nets, view>>
  BY <1>0, <1>1, <1>12, LabelsStay
<1>13. CASE Plug
  BY <1>12, <1>13 DEF Plug, monitors
<1>14. CASE \/ "cpu" \in world /\ CpuNext /\ UNCHANGED <<kernel, spaces, monitors, view>>
            \/ UNCHANGED vars
  BY <1>12, <1>14 DEF monitors, vars
<1> QED
  BY <1>2, <1>4, <1>5, <1>6, <1>7, <1>8, <1>9, <1>10, <1>11, <1>13, <1>14 DEF Next, NetNext

\* A history shows the interface its label names, as long as no daemon is replaced
\* behind the TUI's back.
THEOREM LabelsAlwaysMatch == Spec => []LabelsMatch
<1>1. TypeInv /\ LabelInv => LabelsMatch
  BY DEF LabelInv, LabelsMatch
<1> QED
  BY <1>1, TypeInvInit, TypeInvStep, LabelInit, LabelStep, PTL DEF Spec

-------------------------------------------------------------------------------
\* Veths.  Whoever rebuilds the namespaces is put down for every monitor that has
\* been begun; the others have read the host first and then what is there now.
VethOf(w) ==
  /\ pc[w] \in {"host", "rest"} => HostThenVeths(nets[w], 0, gen)
  /\ gen > 0 /\ since[w] = {} =>
       /\ pc[w] = "client" => HostThenVeths(nets[w], 1, gen)
       /\ pc[w] = "ready" => HostThenVeths(nets[w], 2, gen)

VethInv == (\A w \in Who : VethOf(w)) /\ "apply" \notin since["own"]

LEMMA EmptyReads == \A g : HostThenVeths(<<>>, 0, g)
BY DEF HostThenVeths

\* The contexts read next: another one of the host, or a veth if there is room.
LEMMA HostMore ==
  ASSUME NEW s \in Seq(Contexts), NEW name, NEW g, HostThenVeths(s, 0, g)
  PROVE  HostThenVeths(Append(s, <<name, 0>>), 0, g)
<1> DEFINE t == Append(s, <<name, 0>>)
<1>1. Len(s) \in Nat /\ Len(t) = Len(s) + 1
  BY LenProperties
<1>2. (\A i \in 1..Len(s) : t[i] = s[i]) /\ t[Len(s) + 1] = <<name, 0>>
  BY <1>1
<1>3. \A i \in 1..Len(s) : s[i][2] = 0
  BY <1>1 DEF HostThenVeths
<1>4. \A i \in 1..Len(t) : t[i][2] = 0
  BY <1>1, <1>2, <1>3
<1> HIDE DEF t
<1>5. HostThenVeths(t, 0, g)
  BY <1>1, <1>4 DEF HostThenVeths
<1> QED
  BY <1>5 DEF t

LEMMA VethMore ==
  ASSUME NEW s \in Seq(Contexts), NEW k \in {0, 1}, NEW g, HostThenVeths(s, k, g), Len(s) < Cap
  PROVE  HostThenVeths(Append(s, <<IF k = 0 THEN "s:veth-srv" ELSE "c:veth-cli", g>>), k + 1, g)
<1> DEFINE veth == <<IF k = 0 THEN "s:veth-srv" ELSE "c:veth-cli", g>>
           t == Append(s, veth)
<1>1. Len(s) \in Nat /\ Len(t) = Len(s) + 1
  BY LenProperties
<1>2. (\A i \in 1..Len(s) : t[i] = s[i]) /\ t[Len(s) + 1] = veth
  BY <1>1
<1>3. PICK n \in 0..Len(s) :
        /\ \A i \in 1..n : s[i][2] = 0
        /\ Len(s) = n + k
        /\ n < Len(s) => s[n + 1] = <<"s:veth-srv", g>>
  BY MonitorAssumption, <1>1 DEF HostThenVeths
<1>4. /\ n \in 0..Len(t) /\ \A i \in 1..n : t[i][2] = 0
  BY <1>1, <1>2, <1>3
<1>5. Len(t) = n + (k + 1)
  BY <1>1, <1>3
<1>6. t[n + 1] = <<"s:veth-srv", g>>
  BY <1>1, <1>2, <1>3
<1>7. n + 1 < Len(t) => t[n + 2] = <<"c:veth-cli", g>>
  BY <1>1, <1>2, <1>3
<1> HIDE DEF t, veth
<1>8. HostThenVeths(t, k + 1, g)
  BY <1>4, <1>5, <1>6, <1>7 DEF HostThenVeths
<1> QED
  BY <1>8 DEF t, veth

LEMMA NoVethMore ==
  ASSUME NEW s \in Seq(Contexts), NEW k \in {0, 1}, NEW g, HostThenVeths(s, k, g), Len(s) = Cap
  PROVE  HostThenVeths(s, k + 1, g)
BY LenProperties DEF HostThenVeths

\* While only the host was read it does not matter which namespaces there are.
LEMMA HostReads ==
  ASSUME NEW s, NEW g, NEW h, HostThenVeths(s, 0, g)
  PROVE  HostThenVeths(s, 0, h)
BY DEF HostThenVeths

LEMMA VethInit == Init => VethInv
BY EmptyReads DEF Init, VethInv, VethOf, Who, OwnDaemon

\* A step that does not touch a monitor, and builds nothing or leaves a note of it.
LEMMA VethsStay ==
  ASSUME VethInv, NEW w \in Who, nets'[w] = nets[w],
         pc'[w] = pc[w] \/ pc'[w] \notin {"host", "rest"},
         \/ pc'[w] = pc[w] /\ gen' \in {gen, 0} /\ since'[w] = since[w]
         \/ since'[w] # {}
         \/ pc'[w] \notin {"host", "rest", "client", "ready"}
  PROVE  VethOf(w)'
<1>1. pc'[w] \in {"host", "rest"} => HostThenVeths(nets'[w], 0, gen')
  BY HostReads DEF VethInv, VethOf
<1>2. CASE pc'[w] = pc[w] /\ gen' = gen /\ since'[w] = since[w]
  BY <1>1, <1>2 DEF VethInv, VethOf
<1>3. CASE gen' = 0 \/ since'[w] # {} \/ pc'[w] \notin {"host", "rest", "client", "ready"}
  BY <1>1, <1>3 DEF VethOf
<1> QED
  BY <1>2, <1>3

\* A monitor given up or begun again has read nothing.
LEMMA VethsRenewed ==
  ASSUME NEW w \in Who, nets'[w] = <<>>, pc'[w] \in {"host", "off"}
  PROVE  VethOf(w)'
BY EmptyReads DEF VethOf

LEMMA OpenVeths ==
  ASSUME TypeInv, VethInv, NEW w \in Who, OpenFirst(w) \/ OpenRest(w) \/ OpenVeth(w)
  PROVE  VethInv'
<1>1. /\ gen' = gen /\ since' = since
      /\ \A v \in Who \ {w} : pc'[v] = pc[v] /\ nets'[v] = nets[v]
  BY DEF OpenFirst, OpenRest, OpenVeth, Count, spaces, TypeInv, TypeOK
<1>2. \A v \in Who \ {w} : VethOf(v)'
  BY <1>1, VethsStay
<1>3. "apply" \notin since'["own"]
  BY <1>1 DEF VethInv
<1>4. /\ nets[w] \in Seq(Contexts) /\ Len(nets[w]) \in Nat /\ Len(nets[w]) <= Cap /\ gen \in Nat
      /\ VethOf(w)
  BY <1>1, LenProperties DEF TypeInv, TypeOK, VethInv
<1>5. CASE OpenFirst(w) \/ OpenRest(w)
  <2>1. HostThenVeths(nets[w], 0, gen)
    BY <1>4, <1>5 DEF OpenFirst, OpenRest, VethOf
  <2>2. pc'[w] \in {"host", "rest"}
    BY <1>5 DEF OpenFirst, OpenRest, TypeInv, TypeOK
  <2>3. nets'[w] \in {nets[w], Append(nets[w], <<Head(todo[w]), 0>>)}
    <3>1. nets' = nets \/ Count(w, Head(todo[w]), 0)
      BY <1>5 DEF OpenFirst, OpenRest
    <3> QED
      BY <3>1 DEF Count, TypeInv, TypeOK
  <2>4. HostThenVeths(nets'[w], 0, gen')
    <3>1. HostThenVeths(Append(nets[w], <<Head(todo[w]), 0>>), 0, gen)
      BY <1>4, <2>1, HostMore
    <3> QED
      BY <1>1, <2>1, <2>3, <3>1
  <2>5. VethOf(w)'
    BY <1>4, <2>2, <2>4 DEF VethOf
  <2> QED
    BY <1>2, <1>3, <2>5 DEF VethInv
<1>6. CASE OpenVeth(w)
  <2>1. PICK k \in {0, 1} : /\ pc[w] = (IF k = 0 THEN "host" ELSE "client")
                            /\ pc'[w] = (IF k = 0 THEN "client" ELSE "ready")
    <3>1. CASE pc[w] = "host"
      BY <1>6, <3>1 DEF OpenVeth, TypeInv, TypeOK
    <3>2. CASE pc[w] = "client"
      BY <1>6, <3>2 DEF OpenVeth, TypeInv, TypeOK
    <3> QED
      BY <1>6, <3>1, <3>2 DEF OpenVeth
  <2>2. ASSUME gen > 0, since[w] = {}
        PROVE  HostThenVeths(nets'[w], k + 1, gen')
    <3>1. HostThenVeths(nets[w], k, gen)
      BY <1>4, <2>1, <2>2 DEF VethOf
    <3>2. CASE Room(w)
      <4>1. nets'[w] = Append(nets[w], <<IF k = 0 THEN "s:veth-srv" ELSE "c:veth-cli", gen>>)
        BY <1>6, <2>1, <2>2, <3>2 DEF OpenVeth, Count, TypeInv, TypeOK
      <4>2. Len(nets[w]) < Cap
        BY <3>2 DEF Room
      <4> QED
        BY <1>1, <1>4, <3>1, <4>1, <4>2, VethMore
    <3>3. CASE ~Room(w)
      <4>1. nets'[w] = nets[w] /\ Len(nets[w]) = Cap
        BY <1>4, <1>6, <3>3, MonitorAssumption DEF OpenVeth, Room
      <4> QED
        BY <1>1, <1>4, <3>1, <4>1, NoVethMore
    <3> QED
      BY <3>2, <3>3
  <2>3. VethOf(w)'
    <3>1. CASE k = 0
      BY <1>1, <2>1, <2>2, <3>1 DEF VethOf
    <3>2. CASE k = 1
      BY <1>1, <2>1, <2>2, <3>2 DEF VethOf
    <3> QED
      BY <3>1, <3>2
  <2> QED
    BY <1>2, <1>3, <2>3 DEF VethInv
<1> QED
  BY <1>5, <1>6

LEMMA VethStep == TypeInv /\ VethInv /\ [Next]_vars => VethInv'
<1> SUFFICES ASSUME TypeInv, VethInv, [Next]_vars PROVE VethInv'
  OBVIOUS
<1>1. SUFFICES VethOf("own")' /\ VethOf("daemon")' /\ "apply" \notin since'["own"]
  BY DEF VethInv, Who
<1>2. "own" \in Who /\ "daemon" \in Who /\ "own" # "daemon" /\ "apply" \notin since["own"]
  BY DEF Who, VethInv
<1>3. CASE \E w \in Who : OpenFirst(w) \/ OpenRest(w) \/ OpenVeth(w)
  BY <1>2, <1>3, OpenVeths DEF VethInv
<1>4. CASE Refresh
  <2>1. /\ nets'["own"] = <<>> /\ pc'["own"] \in {"host", "off"} /\ since'["own"] = {}
        /\ nets'["daemon"] = nets["daemon"] /\ pc'["daemon"] = pc["daemon"]
        /\ since'["daemon"] = since["daemon"] /\ gen' = gen
    BY <1>2, <1>4 DEF Refresh, RefreshVerify, Renew, TypeInv, TypeOK
  <2> QED
    BY <1>2, <2>1, VethsRenewed, VethsStay
<1>5. CASE Apply
  <2>1. /\ nets' = nets /\ since' = since /\ gen' = 0
        /\ pc'["own"] = "setup" /\ pc'["daemon"] = pc["daemon"]
    BY <1>2, <1>5 DEF Apply, TypeInv, TypeOK
  <2> QED
    BY <1>2, <2>1, VethsStay
<1>6. CASE Applied
  <2>1. CASE RefreshVerify(RebuiltBy("apply"))
    <3>1. /\ nets'["own"] = <<>> /\ pc'["own"] \in {"host", "off"} /\ since'["own"] = {}
          /\ nets'["daemon"] = nets["daemon"] /\ pc'["daemon"] = pc["daemon"]
          /\ since'["daemon"] # {}
      BY <1>2, <2>1 DEF RefreshVerify, Renew, RebuiltBy, TypeInv, TypeOK
    <3> QED
      BY <1>2, <3>1, VethsRenewed, VethsStay
  <2>2. CASE since' = RebuiltBy("reboot") /\ nets' = nets
             /\ pc' = [pc EXCEPT !["own"] = IF piggy THEN "off" ELSE "ready"]
    <3>1. /\ pc'["daemon"] = pc["daemon"] /\ pc'["own"] \notin {"host", "rest"}
          /\ since'["own"] = since["own"] \cup {"reboot"} /\ since'["daemon"] # {}
      BY <1>2, <2>2 DEF RebuiltBy, TypeInv, TypeOK
    <3> QED
      BY <1>2, <2>2, <3>1, VethsStay
  <2> QED
    BY <1>6, <2>1, <2>2 DEF Applied
<1>7. CASE Start \/ DaemonSetup
  <2>1. /\ nets' = nets /\ since' = since /\ gen' \in {gen, 0}
        /\ pc'["daemon"] \in {"starting", "setup"} /\ pc'["own"] = pc["own"]
    BY <1>2, <1>7 DEF Start, DaemonSetup, spaces, TypeInv, TypeOK
  <2> QED
    BY <1>2, <2>1, VethsStay
<1>8. CASE DaemonInit
  <2>1. /\ nets'["daemon"] = <<>> /\ pc'["daemon"] = "host"
        /\ nets'["own"] = nets["own"] /\ pc'["own"] = pc["own"]
        /\ since'["own"] = since["own"] \cup {"daemon"}
    BY <1>2, <1>8 DEF DaemonInit, Renew, RebuiltBy, TypeInv, TypeOK
  <2> QED
    BY <1>2, <2>1, VethsRenewed, VethsStay
<1>9. CASE Stop
  <2>1. /\ nets'["daemon"] = <<>> /\ pc'["daemon"] = "off"
        /\ nets'["own"] = <<>> /\ pc'["own"] = "host" /\ since'["own"] = {}
    BY <1>2, <1>9 DEF Stop, OwnDaemon, TypeInv, TypeOK
  <2> QED
    BY <1>2, <2>1, VethsRenewed
<1>10. CASE Die
  <2>1. /\ nets'["daemon"] = <<>> /\ pc'["daemon"] = "off"
        /\ nets'["own"] = nets["own"] /\ pc'["own"] = pc["own"]
        /\ since' = since /\ gen' = gen
    BY <1>2, <1>10 DEF Die, Gone, spaces, TypeInv, TypeOK
  <2> QED
    BY <1>2, <2>1, VethsRenewed, VethsStay
<1>11. CASE UNCHANGED <<spaces, monitors>>
  BY <1>2, <1>11, VethsStay DEF spaces, monitors
<1>12. CASE \/ Tick \/ Plug \/ UNCHANGED vars
            \/ "cpu" \in world /\ CpuNext /\ UNCHANGED <<kernel, spaces, monitors, view>>
  BY <1>11, <1>12 DEF Tick, Plug, vars
<1> QED
  BY <1>3, <1>4, <1>5, <1>6, <1>7, <1>8, <1>9, <1>10, <1>12 DEF Next, NetNext

\* A monitor nobody has rebuilt the namespaces under reads what is there now, and an
\* Apply of the TUI never leaves the TUI's own monitor behind.
THEOREM VethsAlwaysCurrent == Spec => []VethsCurrent
<1>1. VethInv => VethsCurrent
  BY DEF VethInv, VethOf, VethsCurrent
<1> QED
  BY <1>1, TypeInvInit, TypeInvStep, VethInit, VethStep, PTL DEF Spec
===============================================================================
