------------------------------ MODULE SnapProofs ------------------------------
(***************************************************************************)
(* Proofs about SnapIpc: with one daemon at a time, the TUI reads whole    *)
(* snapshots that are recent enough, and snap.bin is an atomic register.   *)
(*                                                                         *)
(* The argument is about which file is whose.  The file that snap.tmp      *)
(* names is the daemon's alone: nobody opens it by that name for reading,  *)
(* and when the rename gives it to the readers the daemon's descriptor is  *)
(* closed (Apart, WritesTmp).  So a file the readers can reach is complete *)
(* and does not change any more (SnapWhole, ReadsWhole).                   *)
(***************************************************************************)
EXTENDS SnapIpc, TLAPS

\* There is never more than one daemon.
Single == \A v, w \in Writers : v = w

\* A writer has a next block, and who writes or reads has a descriptor.
TypeInv ==
  /\ TypeOK
  /\ \A w \in Writers : /\ wpc[w] = "write" => wpos[w] <= Size
                        /\ wpc[w] # "idle" => wfd[w] \in Files
  /\ \A r \in Readers : rpc[r] = "read" => rfd[r] \in Files

Apart ==
  /\ snap # NoFile => tmp # snap
  /\ \A r \in Readers : rpc[r] = "read" => rfd[r] # tmp

\* The writer's file, with the blocks written so far.
WritesTmp ==
  \A w \in Writers : wpc[w] # "idle" =>
    /\ wfd[w] = tmp
    /\ wval[w] \in Snaps
    /\ \A b \in Blocks : b < wpos[w] => data[tmp][b] = wval[w]
    /\ wpc[w] = "rename" => wpos[w] = Size + 1

Whole(f) == \E s \in Snaps : \A b \in Blocks : data[f][b] = s

SnapWhole == snap # NoFile => Whole(snap)

ReadsWhole ==
  \A r \in Readers :
    /\ rpc[r] = "read" =>
         /\ Whole(rfd[r])
         /\ \A b \in Blocks : b < rpos[r] => got[r][b] = data[rfd[r]][b]
    /\ rpc[r] = "open" => got[r] = Empty
    /\ rpc[r] # "read" => rpos[r] = 1

\* No file is younger than the clock, snap.tmp is at least as young as snap.bin, and
\* so is whatever a reader may open after its age check.
Recent ==
  /\ \A f \in Files : mtime[f] <= now
  /\ snap # NoFile /\ tmp # NoFile => mtime[snap] <= mtime[tmp]
  /\ \A r \in Readers :
       /\ at[r] <= now
       /\ rpc[r] = "open" =>
            \A f \in Files : f = snap \/ f = tmp => at[r] - mtime[f] < MaxAge
       /\ rpc[r] = "read" => at[r] - mtime[rfd[r]] < MaxAge

IInv == TypeInv /\ Apart /\ WritesTmp /\ SnapWhole /\ ReadsWhole /\ Recent /\ WholeReads

-------------------------------------------------------------------------------
\* Type correctness

LEMMA TypeInit == Init => TypeInv
  BY SnapAssumption, SMT DEF Init, TypeInv, TypeOK, Empty, Blocks, Snaps

LEMMA TypeStep == TypeInv /\ [Next]_vars => TypeInv'
<1> SUFFICES ASSUME TypeInv, [Next]_vars PROVE TypeInv'
  OBVIOUS
<1> USE SnapAssumption DEF TypeInv, TypeOK, Blocks, Snaps, fs, writer, reader
<1>1. ASSUME NEW w \in Writers, NEW f \in Files, OpenTmp(w, f) PROVE TypeInv'
  <2>1. data' \in [Files -> [Blocks -> Snaps \union {Nothing}]]
    BY <1>1, SMT DEF OpenTmp, OpenAs, Empty
  <2> QED
    BY <1>1, <2>1, SMT DEF OpenTmp, OpenAs
<1>2. ASSUME NEW w \in Writers, WriteBlock(w) PROVE TypeInv'
  <2>1. data' \in [Files -> [Blocks -> Snaps \union {Nothing}]]
    BY <1>2, SMT DEF WriteBlock
  <2> QED
    BY <1>2, <2>1, SMT DEF WriteBlock
<1>3. ASSUME NEW w \in Writers, AbandonWrite(w) \/ Rename(w) PROVE TypeInv'
  <2>1. UNCHANGED <<now, taken, data, mtime, rpc, at, rfd, rpos, got>>
    BY <1>3 DEF AbandonWrite, Rename
  <2>2. tmp' \in Files \union {NoFile} /\ snap' \in Files \union {NoFile}
    BY <1>3, SMT DEF AbandonWrite, Rename
  <2>3. Close(w)
    BY <1>3 DEF AbandonWrite, Rename
  <2> QED
    BY <2>1, <2>2, <2>3, SMT DEF Close
<1>4. CASE RemoveSnap
  BY <1>4, SMT DEF RemoveSnap
<1>5. ASSUME NEW r \in Readers, CheckAge(r) \/ Reject(r) PROVE TypeInv'
  <2>1. CASE CheckAge(r)
    BY <2>1, SMT DEF CheckAge, Empty
  <2>2. CASE Reject(r)
    BY <2>2, SMT DEF Reject, Empty
  <2> QED
    BY <1>5, <2>1, <2>2
<1>6. ASSUME NEW r \in Readers, OpenSnap(r) PROVE TypeInv'
  BY <1>6, SMT DEF OpenSnap
<1>7. ASSUME NEW r \in Readers, ReadBlock(r) PROVE TypeInv'
  <2>1. data[rfd[r]][rpos[r]] \in Snaps \union {Nothing}
    BY <1>7, SMT DEF ReadBlock
  <2>2. got' \in [Readers -> [Blocks -> Snaps \union {Nothing}]]
    BY <1>7, <2>1, SMT DEF ReadBlock
  <2>3. rpos' \in [Readers -> 1..(Size + 1)]
    BY <1>7, SMT DEF ReadBlock
  <2>4. UNCHANGED <<now, taken, data, mtime, tmp, snap, wpc, wfd, wval, wpos, rpc, at, rfd>>
    BY <1>7 DEF ReadBlock
  <2> QED
    BY <2>2, <2>3, <2>4
<1>8. ASSUME NEW r \in Readers, Deliver(r) PROVE TypeInv'
  <2>1. got' \in [Readers -> [Blocks -> Snaps \union {Nothing}]]
    BY <1>8, SMT DEF Deliver, Empty
  <2>2. rpos' \in [Readers -> 1..(Size + 1)] /\ rfd' \in [Readers -> Files \union {NoFile}]
    BY <1>8, SMT DEF Deliver
  <2>3. /\ rpc' \in [Readers -> {"idle", "open", "read"}]
        /\ \A q \in Readers : rpc'[q] = "read" => rpc[q] = "read" /\ rfd'[q] = rfd[q]
    BY <1>8, SMT DEF Deliver
  <2>4. UNCHANGED <<now, taken, data, mtime, tmp, snap, wpc, wfd, wval, wpos, at>>
    BY <1>8 DEF Deliver
  <2> QED
    BY <2>1, <2>2, <2>3, <2>4
<1>9. CASE Tick
  BY <1>9, SMT DEF Tick
<1>10. CASE UNCHANGED vars
  BY <1>10, SMT DEF vars
<1> QED
  BY <1>1, <1>2, <1>3, <1>4, <1>5, <1>6, <1>7, <1>8, <1>9, <1>10
  DEF Next, WriterStep, ReaderStep

\* The file names, descriptors and blocks of every reachable state have their
\* types, whatever the number of daemons.
THEOREM TypeCorrect == Spec => []TypeOK
<1>1. Init => TypeInv
  BY TypeInit
<1>2. TypeInv /\ [Next]_vars => TypeInv'
  BY TypeStep
<1>3. TypeInv => TypeOK
  BY DEF TypeInv
<1> QED
  BY <1>1, <1>2, <1>3, PTL DEF Spec
-------------------------------------------------------------------------------
\* One daemon

LEMMA InvInit == Init => IInv
<1> SUFFICES ASSUME Init PROVE IInv
  OBVIOUS
<1>1. TypeInv
  BY TypeInit
<1>2. Apart /\ WritesTmp /\ SnapWhole /\ ReadsWhole /\ Recent
  BY SnapAssumption, SMT DEF Init, Apart, WritesTmp, SnapWhole, ReadsWhole, Recent
<1>3. WholeReads
  BY Zenon DEF Init, WholeReads, Empty, Full
<1> QED
  BY <1>1, <1>2, <1>3 DEF IInv

LEMMA InvStep == Single /\ IInv /\ [Next]_vars => IInv'
<1> SUFFICES ASSUME Single, IInv, [Next]_vars PROVE IInv'
  OBVIOUS
<1>0. TypeInv /\ TypeInv'
  BY TypeStep DEF IInv
<1> USE SnapAssumption, <1>0 DEF TypeInv, TypeOK, fs, writer, reader
<1>1. ASSUME NEW w \in Writers, NEW f \in Files, OpenTmp(w, f) PROVE IInv'
  <2>1. f # snap /\ \A r \in Readers : rpc[r] = "read" => rfd[r] # f
    BY <1>1, SMT DEF OpenTmp, InUse, IInv, Apart
  <2>2. \A v \in Writers : v = w
    BY DEF Single
  <2>3. \A g \in Files : g # f => data'[g] = data[g] /\ mtime'[g] = mtime[g]
    BY <1>1, SMT DEF OpenTmp, OpenAs
  <2>4. mtime'[f] = now /\ tmp' = f /\ UNCHANGED <<now, snap, reader>>
    BY <1>1, SMT DEF OpenTmp, OpenAs
  <2>5. Apart'
    BY <2>1, <2>4, SMT DEF Apart
  <2>6. WritesTmp'
    BY <1>1, <2>2, <2>4, SMT DEF WritesTmp, OpenTmp, OpenAs, Snaps, Blocks
  <2>7. SnapWhole'
    BY <2>1, <2>3, <2>4, SMT DEF IInv, SnapWhole, Whole
  <2>8. ReadsWhole'
    BY <2>1, <2>3, <2>4, SMT DEF IInv, ReadsWhole, Whole
  <2>9. Recent'
    BY <2>1, <2>3, <2>4, SMT DEF IInv, Recent
  <2>10. WholeReads'
    BY <2>4 DEF IInv, WholeReads
  <2> QED
    BY <1>0, <2>5, <2>6, <2>7, <2>8, <2>9, <2>10 DEF IInv
<1>2. ASSUME NEW w \in Writers, WriteBlock(w) PROVE IInv'
  <2>1. wfd[w] = tmp /\ tmp \in Files /\ tmp # snap
    BY <1>2, SMT DEF WriteBlock, IInv, WritesTmp, Apart
  <2>2. \A v \in Writers : v = w
    BY DEF Single
  <2>3. \A g \in Files : g # tmp => data'[g] = data[g] /\ mtime'[g] = mtime[g]
    BY <1>2, <2>1, SMT DEF WriteBlock
  <2>4. mtime'[tmp] = now /\ UNCHANGED <<now, tmp, snap, reader>>
    BY <1>2, <2>1, SMT DEF WriteBlock
  <2>5. Apart'
    BY <2>4 DEF IInv, Apart
  <2>6. WritesTmp'
    <3>1. \A b \in Blocks : data'[tmp][b] = IF b = wpos[w] THEN wval[w] ELSE data[tmp][b]
      BY <1>2, <2>1, SMT DEF WriteBlock
    <3> QED
      BY <1>2, <2>1, <2>2, <2>4, <3>1, SMT DEF WriteBlock, IInv, WritesTmp, Blocks
  <2>7. SnapWhole'
    BY <2>1, <2>3, <2>4, SMT DEF IInv, SnapWhole, Whole
  <2>8. ReadsWhole'
    BY <2>3, <2>4, SMT DEF IInv, ReadsWhole, Whole, Apart
  <2>9. Recent'
    <3>1. \A f \in Files : mtime'[f] <= now
      <4> SUFFICES ASSUME NEW f \in Files PROVE mtime'[f] <= now
        OBVIOUS
      <4>1. CASE f = tmp
        BY <2>4, <4>1, SMT
      <4>2. CASE f # tmp
        BY <2>3, <4>2 DEF IInv, Recent
      <4> QED
        BY <4>1, <4>2
    <3>2. \A r \in Readers : rpc[r] = "read" => mtime'[rfd[r]] = mtime[rfd[r]]
      BY <2>3 DEF IInv, Apart
    <3>3. \A r \in Readers : rpc[r] = "open" =>
             \A f \in Files : f = snap \/ f = tmp => at[r] - mtime'[f] < MaxAge
      BY <2>1, <2>3, <2>4, SMT DEF IInv, Recent
    <3> QED
      BY <2>1, <2>4, <3>1, <3>2, <3>3, SMT DEF IInv, Recent
  <2>10. WholeReads'
    BY <2>4 DEF IInv, WholeReads
  <2> QED
    BY <1>0, <2>5, <2>6, <2>7, <2>8, <2>9, <2>10 DEF IInv
<1>3. ASSUME NEW w \in Writers, AbandonWrite(w) PROVE IInv'
  <2>1. UNCHANGED <<now, fs, reader>> /\ wpc'[w] = "idle" /\ \A v \in Writers : v = w
    BY <1>3, SMT DEF AbandonWrite, Close, Single
  <2>2. Apart' /\ SnapWhole' /\ ReadsWhole' /\ WholeReads' /\ Recent'
    BY <2>1 DEF IInv, Apart, SnapWhole, ReadsWhole, WholeReads, Recent, Whole
  <2>3. WritesTmp'
    BY <2>1 DEF WritesTmp
  <2> QED
    BY <1>0, <2>2, <2>3 DEF IInv
<1>4. ASSUME NEW w \in Writers, Rename(w) PROVE IInv'
  <2>1. wpc'[w] = "idle" /\ \A v \in Writers : v = w
    BY <1>4, SMT DEF Rename, Close, Single
  <2>2. tmp \in Files /\ Whole(tmp)
    <3>1. wfd[w] = tmp /\ wfd[w] \in Files /\ wval[w] \in Snaps /\ wpos[w] = Size + 1
      BY <1>4 DEF Rename, IInv, WritesTmp
    <3>2. \A b \in Blocks : b < Size + 1 => data[tmp][b] = wval[w]
      BY <1>4, <3>1 DEF Rename, IInv, WritesTmp
    <3>3. \A b \in Blocks : data[tmp][b] = wval[w]
      BY <3>2, SMT DEF Blocks
    <3> QED
      BY <3>1, <3>3 DEF Whole
  <2>3. UNCHANGED <<now, data, mtime, reader>> /\ snap' = tmp /\ tmp' = NoFile
    BY <1>4, <2>2, SMT DEF Rename
  <2>4. Apart' /\ SnapWhole'
    BY <2>2, <2>3, SMT DEF Apart, SnapWhole, Whole
  <2>5. ReadsWhole' /\ WholeReads'
    BY <2>3 DEF IInv, ReadsWhole, WholeReads, Whole
  <2>6. Recent'
    BY <2>2, <2>3, SMT DEF IInv, Recent
  <2>7. WritesTmp'
    BY <2>1 DEF WritesTmp
  <2> QED
    BY <1>0, <2>4, <2>5, <2>6, <2>7 DEF IInv
<1>5. CASE RemoveSnap
  <2>1. UNCHANGED <<now, data, mtime, tmp, writer, reader>> /\ snap' = NoFile
    BY <1>5 DEF RemoveSnap
  <2>2. Apart' /\ SnapWhole' /\ ReadsWhole' /\ WholeReads' /\ WritesTmp'
    BY <2>1 DEF IInv, Apart, SnapWhole, ReadsWhole, WholeReads, WritesTmp, Whole
  <2>3. Recent'
    BY <2>1, SMT DEF IInv, Recent
  <2> QED
    BY <1>0, <2>2, <2>3 DEF IInv
<1>6. ASSUME NEW r \in Readers, CheckAge(r) PROVE IInv'
  <2>1. UNCHANGED <<now, fs, writer, rfd, rpos>>
    BY <1>6 DEF CheckAge
  <2>2. WritesTmp' /\ SnapWhole'
    BY <2>1 DEF IInv, WritesTmp, SnapWhole, Whole
  <2>3. Apart' /\ ReadsWhole' /\ WholeReads'
    BY <1>6, SMT DEF CheckAge, IInv, Apart, ReadsWhole, WholeReads, Whole
  <2>4. Recent'
    BY <1>6, SMT DEF CheckAge, Young, IInv, Recent
  <2> QED
    BY <1>0, <2>2, <2>3, <2>4 DEF IInv
<1>7. ASSUME NEW r \in Readers, Reject(r) PROVE IInv'
  <2>1. UNCHANGED <<now, fs, writer, rpc, at, rfd, rpos>>
    BY <1>7 DEF Reject
  <2>2. Apart' /\ WritesTmp' /\ SnapWhole' /\ Recent'
    BY <2>1 DEF IInv, Apart, WritesTmp, SnapWhole, Whole, Recent
  <2>3. ReadsWhole'
    BY <1>7, <2>1, SMT DEF Reject, IInv, ReadsWhole, Whole
  <2>4. WholeReads'
    <3> SUFFICES ASSUME NEW q \in Readers, rpc[q] = "idle"
                 PROVE  \E s \in Snaps \union {Nothing} : got'[q] = Full(s)
      BY <2>1 DEF WholeReads
    <3>1. CASE q = r
      <4>1. got'[q] = Full(Nothing)
        BY <1>7, <3>1 DEF Reject, Empty, Full
      <4> QED
        BY <4>1
    <3>2. CASE q # r
      <4>1. got'[q] = got[q]
        BY <1>7, <3>2 DEF Reject
      <4> QED
        BY <4>1 DEF IInv, WholeReads
    <3> QED
      BY <3>1, <3>2
  <2> QED
    BY <1>0, <2>2, <2>3, <2>4 DEF IInv
<1>8. ASSUME NEW r \in Readers, OpenSnap(r) PROVE IInv'
  <2>1. UNCHANGED <<now, fs, writer, at, rpos, got>>
    BY <1>8 DEF OpenSnap
  <2>2. WritesTmp' /\ SnapWhole'
    BY <2>1 DEF IInv, WritesTmp, SnapWhole, Whole
  <2>3. Apart' /\ Recent'
    BY <1>8, <2>1, SMT DEF OpenSnap, IInv, Apart, Recent
  <2>4. ReadsWhole'
    BY <1>8, <2>1, SMT DEF OpenSnap, IInv, ReadsWhole, SnapWhole, Whole, Blocks
  <2>5. ASSUME rpc[r] = "open" PROVE got[r] = Full(Nothing)
    BY <2>5 DEF IInv, ReadsWhole, Empty, Full
  <2>6. \A q \in Readers : rpc'[q] = "idle" => rpc[q] = "idle" \/ got[q] = Full(Nothing)
    BY <1>8, <2>5, SMT DEF OpenSnap
  <2>7. WholeReads'
    <3> SUFFICES ASSUME NEW q \in Readers, rpc'[q] = "idle"
                 PROVE  \E s \in Snaps \union {Nothing} : got[q] = Full(s)
      BY <2>1 DEF WholeReads
    <3>1. CASE rpc[q] = "idle"
      BY <3>1 DEF IInv, WholeReads
    <3>2. CASE got[q] = Full(Nothing)
      <4> WITNESS Nothing \in Snaps \union {Nothing}
      <4> QED
        BY <3>2
    <3> QED
      BY <2>6, <3>1, <3>2
  <2> QED
    BY <1>0, <2>2, <2>3, <2>4, <2>7 DEF IInv
<1>9. ASSUME NEW r \in Readers, ReadBlock(r) PROVE IInv'
  <2>1. UNCHANGED <<now, fs, writer, rpc, at, rfd>>
    BY <1>9 DEF ReadBlock
  <2>2. Apart' /\ WritesTmp' /\ SnapWhole' /\ Recent'
    BY <2>1 DEF IInv, Apart, WritesTmp, SnapWhole, Whole, Recent
  <2>3. ReadsWhole'
    BY <1>9, <2>1, SMT DEF ReadBlock, IInv, ReadsWhole, Whole, Blocks
  <2>4. WholeReads'
    BY <1>9, <2>1, SMT DEF ReadBlock, IInv, WholeReads
  <2> QED
    BY <1>0, <2>2, <2>3, <2>4 DEF IInv
<1>10. ASSUME NEW r \in Readers, Deliver(r) PROVE IInv'
  <2>1. UNCHANGED <<now, fs, writer, at>>
    BY <1>10 DEF Deliver
  <2>2. WritesTmp' /\ SnapWhole'
    BY <2>1 DEF IInv, WritesTmp, SnapWhole, Whole
  <2>3. Apart' /\ Recent'
    BY <1>10, <2>1, SMT DEF Deliver, IInv, Apart, Recent
  <2>4. ReadsWhole'
    BY <1>10, <2>1, SMT DEF Deliver, IInv, ReadsWhole, Whole
  <2>5. WholeReads'
    <3>1. PICK s \in Snaps : \A b \in Blocks : data[rfd[r]][b] = s
      BY <1>10 DEF Deliver, IInv, ReadsWhole, Whole
    <3>2. \A b \in Blocks : b < rpos[r] => got[r][b] = s
      BY <1>10, <3>1 DEF Deliver, IInv, ReadsWhole
    <3>3. \A b \in Blocks : got[r][b] = s
      BY <1>10, <3>2, SMT DEF Deliver, Blocks
    <3>4. got[r] = Full(s) /\ Empty = Full(Nothing)
      BY <3>3, SMT DEF Full, Empty
    <3>5. got'[r] = Full(s) \/ got'[r] = Full(Nothing)
      BY <1>10, <3>4 DEF Deliver
    <3> QED
      BY <1>10, <3>5, SMT DEF Deliver, IInv, WholeReads
  <2> QED
    BY <1>0, <2>2, <2>3, <2>4, <2>5 DEF IInv
<1>11. CASE Tick
  <2>1. UNCHANGED <<fs, writer, reader>> /\ now' = now + 1
    BY <1>11 DEF Tick
  <2>2. Apart' /\ SnapWhole' /\ ReadsWhole' /\ WholeReads' /\ WritesTmp'
    BY <2>1 DEF IInv, Apart, SnapWhole, ReadsWhole, WholeReads, WritesTmp, Whole
  <2>3. Recent'
    BY <2>1, SMT DEF IInv, Recent
  <2> QED
    BY <1>0, <2>2, <2>3 DEF IInv
<1>12. CASE UNCHANGED vars
  BY <1>0, <1>12
  DEF vars, IInv, Apart, SnapWhole, ReadsWhole, WholeReads, WritesTmp, Whole, Recent
<1> QED
  BY <1>1, <1>2, <1>3, <1>4, <1>5, <1>6, <1>7, <1>8, <1>9, <1>10, <1>11, <1>12
  DEF Next, WriterStep, ReaderStep
\* With one daemon at a time the TUI never gets parts of two snapshots, although the
\* file is written and read in pieces and the daemon may die between any two steps;
\* and it never reads a file older than the age it checked.
THEOREM OneWriterSafe == Single /\ Spec => [](WholeReads /\ FreshReads)
<1> SUFFICES ASSUME Single PROVE Spec => [](WholeReads /\ FreshReads)
  OBVIOUS
<1>1. Init => IInv
  BY InvInit
<1>2. IInv /\ [Next]_vars => IInv'
  BY InvStep
<1>3. IInv => WholeReads /\ FreshReads
  BY DEF IInv, Recent, FreshReads
<1> QED
  BY <1>1, <1>2, <1>3, PTL DEF Spec

\* read_latest_snapshot checks the age by name and opens the file by name again: what
\* it reads is as young as what it checked.
COROLLARY ReadsFresh == Single /\ Spec => []FreshReads
BY OneWriterSafe, PTL

-------------------------------------------------------------------------------
\* The register

LEMMA RegisterInit == Init => Register!Init
  BY SnapAssumption, SMT DEF Init, Register!Init, SeenBy, Empty, Blocks

\* What the register holds and what a reader saw there depend on the files the readers
\* can reach.
LEMMA Unseen ==
  ASSUME snap' = snap, UNCHANGED reader, SnapWhole,
         snap # NoFile => data'[snap] = data[snap],
         \A r \in Readers : rpc[r] = "read" => data'[rfd[r]] = data[rfd[r]]
  PROVE  UNCHANGED Register!vars
  BY SMT DEF Register!vars, SeenBy, reader

LEMMA RegisterStep ==
  ASSUME Single, IInv, [Next]_vars
  PROVE  [Register!Next]_(Register!vars)
<1>0. TypeInv /\ 1 \in Blocks
  BY SnapAssumption, SMT DEF IInv, Blocks
<1> USE <1>0 DEF fs, writer
<1>1. ASSUME NEW w \in Writers, NEW f \in Files, OpenTmp(w, f)
      PROVE  UNCHANGED Register!vars
  <2>1. f # snap /\ \A r \in Readers : rpc[r] = "read" => rfd[r] # f
    BY <1>1, SMT DEF OpenTmp, InUse, IInv, Apart, TypeInv, TypeOK
  <2>2. snap' = snap /\ UNCHANGED reader
    BY <1>1 DEF OpenTmp, OpenAs
  <2>3. \A g \in Files : g # f => data'[g] = data[g]
    BY <1>1, SMT DEF OpenTmp, OpenAs, TypeInv, TypeOK
  <2> QED
    BY <2>1, <2>2, <2>3, Unseen, SMT DEF IInv, TypeInv, TypeOK
<1>2. ASSUME NEW w \in Writers, WriteBlock(w) PROVE UNCHANGED Register!vars
  <2>1. wfd[w] = tmp /\ tmp # snap
    <3>1. wpc[w] # "idle"
      BY <1>2, SMT DEF WriteBlock
    <3>2. wfd[w] = tmp /\ wfd[w] \in Files
      BY <3>1 DEF IInv, TypeInv, WritesTmp
    <3> QED
      BY <3>2, SnapAssumption DEF IInv, Apart
  <2>2. snap' = snap /\ UNCHANGED reader
    BY <1>2 DEF WriteBlock
  <2>3. \A g \in Files : g # tmp => data'[g] = data[g]
    BY <1>2, <2>1, SMT DEF WriteBlock, TypeInv, TypeOK
  <2> QED
    BY <2>1, <2>2, <2>3, Unseen, SMT DEF IInv, Apart, TypeInv, TypeOK
<1>3. ASSUME NEW w \in Writers, AbandonWrite(w) PROVE UNCHANGED Register!vars
  BY <1>3, Unseen DEF AbandonWrite, IInv
<1>4. ASSUME NEW w \in Writers, Rename(w) PROVE Register!Publish
  <2>1. wfd[w] = tmp /\ tmp \in Files /\ wval[w] \in Snaps /\ wpos[w] = Size + 1
    BY <1>4, SMT DEF Rename, IInv, TypeInv, WritesTmp
  <2>2. data[tmp][1] = wval[w]
    BY <1>4, <2>1, SnapAssumption, SMT DEF Rename, IInv, WritesTmp
  <2>3. snap' = tmp /\ tmp # NoFile /\ data' = data /\ UNCHANGED reader
    BY <1>4, <2>1, SnapAssumption, SMT DEF Rename
  <2> QED
    BY <2>1, <2>2, <2>3, SMT DEF Register!Publish, SeenBy, reader
<1>5. CASE RemoveSnap
  BY <1>5, SMT DEF RemoveSnap, Register!Next, Register!Remove, SeenBy, reader
<1>6. ASSUME NEW r \in Readers, CheckAge(r) \/ Reject(r) PROVE Register!LookAway(r)
  <2>1. UNCHANGED <<data, snap, rfd>> /\ got' = [got EXCEPT ![r] = Empty]
    BY <1>6 DEF CheckAge, Reject
  <2>2. \A q \in Readers : rpc[q] = "read" <=> rpc'[q] = "read"
    BY <1>6, SMT DEF CheckAge, Reject, TypeInv, TypeOK
  <2>3. rpc[r] = "idle" /\ Empty[1] = Nothing
    BY <1>6 DEF CheckAge, Reject, Empty
  <2>4. \A q \in Readers : SeenBy(q)' = IF q = r THEN Nothing ELSE SeenBy(q)
    BY <2>1, <2>2, <2>3, SMT DEF SeenBy, TypeInv, TypeOK
  <2>5. [q \in Readers |-> SeenBy(q)]' = [[q \in Readers |-> SeenBy(q)] EXCEPT ![r] = Nothing]
    BY <2>4, Zenon
  <2>6. UNCHANGED (IF snap = NoFile THEN Nothing ELSE data[snap][1])
    BY <2>1
  <2> QED
    BY <2>5, <2>6 DEF Register!LookAway
<1>7. ASSUME NEW r \in Readers, OpenSnap(r) PROVE Register!Look(r)
  <2>1. got[r][1] = Nothing
    BY <1>7 DEF OpenSnap, IInv, ReadsWhole, Empty
  <2>2. UNCHANGED <<data, snap, got>> /\ rpc[r] = "open"
    BY <1>7 DEF OpenSnap
  <2>3. \A q \in Readers : q # r => rpc'[q] = rpc[q] /\ rfd'[q] = rfd[q]
    BY <1>7, SMT DEF OpenSnap, TypeInv, TypeOK
  <2>4. \A q \in Readers : q # r => SeenBy(q)' = SeenBy(q)
    BY <2>2, <2>3 DEF SeenBy
  <2>5. SeenBy(r)' = IF snap = NoFile THEN Nothing ELSE data[snap][1]
    BY <1>7, <2>1, <2>2, SMT DEF OpenSnap, SeenBy, TypeInv, TypeOK
  <2>6. [q \in Readers |-> SeenBy(q)]' =
          [[q \in Readers |-> SeenBy(q)]
             EXCEPT ![r] = IF snap = NoFile THEN Nothing ELSE data[snap][1]]
    BY <2>4, <2>5, Zenon
  <2>7. UNCHANGED (IF snap = NoFile THEN Nothing ELSE data[snap][1])
    BY <2>2
  <2> QED
    BY <2>6, <2>7 DEF Register!Look
<1>8. ASSUME NEW r \in Readers, ReadBlock(r) PROVE UNCHANGED Register!vars
  BY <1>8, SMT DEF ReadBlock, Register!vars, SeenBy, TypeInv, TypeOK
<1>9. ASSUME NEW r \in Readers, Deliver(r) PROVE UNCHANGED Register!vars
  <2>1. PICK s \in Snaps : \A b \in Blocks : data[rfd[r]][b] = s
    BY <1>9 DEF Deliver, IInv, ReadsWhole, Whole
  <2>2. \A b \in Blocks : b < rpos[r] => got[r][b] = s
    BY <1>9, <2>1 DEF Deliver, IInv, ReadsWhole
  <2>3. \A b \in Blocks : got[r][b] = s
    BY <1>9, <2>2, SnapAssumption, SMT DEF Deliver, Blocks, TypeInv, TypeOK
  <2>4. got[r][Size] # Nothing
    BY <2>3, SnapAssumption, SMT DEF Blocks
  <2>5. SeenBy(r) = s /\ got'[r] = got[r] /\ got[r][1] = s
    BY <1>9, <2>1, <2>3, <2>4, SMT DEF Deliver, SeenBy, TypeInv, TypeOK
  <2> QED
    BY <1>9, <2>5, SMT DEF Deliver, Register!vars, SeenBy, TypeInv, TypeOK
<1>10. CASE Tick \/ UNCHANGED vars
  BY <1>10 DEF Tick, vars, Register!vars, SeenBy, reader
<1> QED
  BY <1>1, <1>2, <1>3, <1>4, <1>5, <1>6, <1>7, <1>8, <1>9, <1>10
  DEF Next, WriterStep, ReaderStep, Register!Next

\* With one daemon at a time snap.bin behaves like a register that is written and read
\* in one step.
THEOREM ImplementsRegister == Single /\ Spec => RegisterSpec
<1> SUFFICES ASSUME Single PROVE Spec => RegisterSpec
  OBVIOUS
<1>1. Init => IInv /\ Register!Init
  BY InvInit, RegisterInit
<1>2. IInv /\ [Next]_vars => IInv'
  BY InvStep
<1>3. IInv /\ [Next]_vars => [Register!Next]_(Register!vars)
  BY RegisterStep
<1> QED
  BY <1>1, <1>2, <1>3, PTL DEF Spec, RegisterSpec, Register!Spec
===============================================================================
