-------------------------------- MODULE SnapIpc -------------------------------
(***************************************************************************)
(* How a daemon hands its snapshots to the TUI: run_daemon's loop writes   *)
(* the raw bytes to snap.tmp and renames it to snap.bin; read_latest_      *)
(* snapshot checks the age of snap.bin, reads it and checks the length.    *)
(*                                                                         *)
(* A name refers to a file (an inode), and so does an open descriptor; a   *)
(* rename or a removal changes names only.  A file has Size blocks, which  *)
(* are written and read one by one; a block holds the snapshot it is from. *)
(* Opening snap.tmp for writing truncates the file it names, whoever else  *)
(* has it open.                                                            *)
(***************************************************************************)
EXTENDS Integers

CONSTANTS
  Writers,    \* daemons that run at the same time
  Readers,    \* TUIs in piggyback mode
  Files,      \* inodes
  Size,       \* blocks of a snapshot
  MaxAge,     \* an older file is rejected: 2 s
  MaxSnaps,   \* bound on the snapshots taken
  MaxNow,     \* bound on the clock
  NoFile,     \* a name that refers to no file, a closed descriptor
  Nothing     \* no snapshot; a block that is not there

Snaps == 1..MaxSnaps
Blocks == 1..Size

ASSUME SnapAssumption ==
  /\ Size \in Nat \ {0} /\ MaxAge \in Nat \ {0}
  /\ MaxSnaps \in Nat /\ MaxNow \in Nat
  /\ NoFile \notin Files
  /\ Nothing \notin Snaps

VARIABLES
  now,    \* the clock, in seconds
  taken,  \* how many snapshots were taken
  data,   \* the blocks of each file
  mtime,  \* when it was written last
  tmp,    \* the file snap.tmp names
  snap,   \* the file snap.bin names
  wpc,    \* what each writer does next
  wfd,    \* its descriptor
  wval,   \* the snapshot it writes
  wpos,   \* the next block
  rpc,    \* what each reader does next
  at,     \* when it checked the age
  rfd,    \* its descriptor
  rpos,   \* the next block
  got     \* the blocks it read

fs == <<data, mtime, tmp, snap>>
writer == <<wpc, wfd, wval, wpos>>
reader == <<rpc, at, rfd, rpos, got>>
vars == <<now, taken, fs, writer, reader>>

Empty == [b \in Blocks |-> Nothing]
Full(s) == [b \in Blocks |-> s]

TypeOK ==
  /\ now \in 0..MaxNow
  /\ taken \in 0..MaxSnaps
  /\ data \in [Files -> [Blocks -> Snaps \union {Nothing}]]
  /\ mtime \in [Files -> 0..MaxNow]
  /\ tmp \in Files \union {NoFile}
  /\ snap \in Files \union {NoFile}
  /\ wpc \in [Writers -> {"idle", "write", "rename"}]
  /\ wfd \in [Writers -> Files \union {NoFile}]
  /\ wval \in [Writers -> Snaps \union {Nothing}]
  /\ wpos \in [Writers -> 1..(Size + 1)]
  /\ rpc \in [Readers -> {"idle", "open", "read"}]
  /\ at \in [Readers -> 0..MaxNow]
  /\ rfd \in [Readers -> Files \union {NoFile}]
  /\ rpos \in [Readers -> 1..(Size + 1)]
  /\ got \in [Readers -> [Blocks -> Snaps \union {Nothing}]]

Init ==
  /\ now = 0
  /\ taken = 0
  /\ data = [f \in Files |-> Empty]
  /\ mtime = [f \in Files |-> 0]
  /\ tmp = NoFile
  /\ snap = NoFile
  /\ wpc = [w \in Writers |-> "idle"]
  /\ wfd = [w \in Writers |-> NoFile]
  /\ wval = [w \in Writers |-> Nothing]
  /\ wpos = [w \in Writers |-> 1]
  /\ rpc = [r \in Readers |-> "idle"]
  /\ at = [r \in Readers |-> 0]
  /\ rfd = [r \in Readers |-> NoFile]
  /\ rpos = [r \in Readers |-> 1]
  /\ got = [r \in Readers |-> Empty]

\* The files something still refers to.
InUse == {tmp, snap} \union {wfd[w] : w \in Writers} \union {rfd[r] : r \in Readers}

-------------------------------------------------------------------------------
\* The daemon's loop

\* A snapshot is taken and f, snap.tmp or the file created for it, is truncated.
OpenAs(w, f) ==
  /\ wpc[w] = "idle"
  /\ taken < MaxSnaps
  /\ taken' = taken + 1
  /\ data' = [data EXCEPT ![f] = Empty]
  /\ mtime' = [mtime EXCEPT ![f] = now]
  /\ wpc' = [wpc EXCEPT ![w] = "write"]
  /\ wfd' = [wfd EXCEPT ![w] = f]
  /\ wval' = [wval EXCEPT ![w] = taken + 1]
  /\ wpos' = [wpos EXCEPT ![w] = 1]
  /\ UNCHANGED <<now, reader>>

OpenTmpInPlace(w, f) ==  \* mutant: snap.bin itself is opened for writing
  /\ f \in IF snap = NoFile THEN Files \ InUse ELSE {snap}
  /\ tmp' = f
  /\ UNCHANGED snap
  /\ OpenAs(w, f)
OpenTmp(w, f) ==
  /\ f \in IF tmp = NoFile THEN Files \ InUse ELSE {tmp}
  /\ tmp' = f
  /\ UNCHANGED snap
  /\ OpenAs(w, f)

WriteBlockBeyond(w) ==  \* mutant: one block too many
  /\ wpc[w] = "write"
  /\ data' = [data EXCEPT ![wfd[w]][wpos[w]] = wval[w]]
  /\ mtime' = [mtime EXCEPT ![wfd[w]] = now]
  /\ wpos' = [wpos EXCEPT ![w] = @ + 1]
  /\ wpc' = [wpc EXCEPT ![w] = IF wpos[w] > Size THEN "rename" ELSE "write"]
  /\ UNCHANGED <<now, taken, tmp, snap, wfd, wval, reader>>
WriteBlock(w) ==
  /\ wpc[w] = "write"
  /\ data' = [data EXCEPT ![wfd[w]][wpos[w]] = wval[w]]
  /\ mtime' = [mtime EXCEPT ![wfd[w]] = now]
  /\ wpos' = [wpos EXCEPT ![w] = @ + 1]
  /\ wpc' = [wpc EXCEPT ![w] = IF wpos[w] = Size THEN "rename" ELSE "write"]
  /\ UNCHANGED <<now, taken, tmp, snap, wfd, wval, reader>>

Close(w) ==
  /\ wpc' = [wpc EXCEPT ![w] = "idle"]
  /\ wfd' = [wfd EXCEPT ![w] = NoFile]
  /\ wval' = [wval EXCEPT ![w] = Nothing]
  /\ wpos' = [wpos EXCEPT ![w] = 1]

\* fs::write failed: no rename, and the part written stays in snap.tmp.  The same
\* is left behind when the daemon is killed.
AbandonWrite(w) ==
  /\ wpc[w] # "idle"
  /\ Close(w)
  /\ UNCHANGED <<now, taken, fs, reader>>

\* fs::rename; when snap.tmp is not there any more it fails and nobody minds.
RenameCopied(w) ==  \* mutant: a second link instead of a new name
  /\ wpc[w] = "rename"
  /\ snap' = IF tmp = NoFile THEN snap ELSE tmp
  /\ Close(w)
  /\ UNCHANGED <<now, taken, data, mtime, tmp, reader>>
Rename(w) ==
  /\ wpc[w] = "rename"
  /\ snap' = IF tmp = NoFile THEN snap ELSE tmp
  /\ tmp' = NoFile
  /\ Close(w)
  /\ UNCHANGED <<now, taken, data, mtime, reader>>

\* service stop and service disable remove snap.bin.
RemoveSnap ==
  /\ snap # NoFile
  /\ snap' = NoFile
  /\ UNCHANGED <<now, taken, data, mtime, tmp, writer, reader>>

-------------------------------------------------------------------------------
\* read_latest_snapshot

YoungAny == snap # NoFile  \* mutant: any age will do
Young == snap # NoFile /\ now - mtime[snap] < MaxAge

CheckAge(r) ==
  /\ rpc[r] = "idle"
  /\ Young
  /\ rpc' = [rpc EXCEPT ![r] = "open"]
  /\ at' = [at EXCEPT ![r] = now]
  /\ got' = [got EXCEPT ![r] = Empty]
  /\ UNCHANGED <<now, taken, fs, writer, rfd, rpos>>

\* No file, or one that is too old: the TUI shows no snapshot.
Reject(r) ==
  /\ rpc[r] = "idle"
  /\ ~Young
  /\ got' = [got EXCEPT ![r] = Empty]
  /\ UNCHANGED <<now, taken, fs, writer, rpc, at, rfd, rpos>>

\* fs::read opens whatever snap.bin names by now.
OpenSnap(r) ==
  /\ rpc[r] = "open"
  /\ rpc' = [rpc EXCEPT ![r] = IF snap = NoFile THEN "idle" ELSE "read"]
  /\ rfd' = [rfd EXCEPT ![r] = snap]
  /\ UNCHANGED <<now, taken, fs, writer, at, rpos, got>>

ReadBlock(r) ==
  /\ rpc[r] = "read"
  /\ rpos[r] <= Size
  /\ got' = [got EXCEPT ![r][rpos[r]] = data[rfd[r]][rpos[r]]]
  /\ rpos' = [rpos EXCEPT ![r] = @ + 1]
  /\ UNCHANGED <<now, taken, fs, writer, rpc, at, rfd>>

\* snapshot_from_bytes rejects a file that is too short.
Deliver(r) ==
  /\ rpc[r] = "read"
  /\ rpos[r] > Size
  /\ got' = [got EXCEPT ![r] = IF @[Size] = Nothing THEN Empty ELSE @]
  /\ rpc' = [rpc EXCEPT ![r] = "idle"]
  /\ rfd' = [rfd EXCEPT ![r] = NoFile]
  /\ rpos' = [rpos EXCEPT ![r] = 1]
  /\ UNCHANGED <<now, taken, fs, writer, at>>

Tick ==
  /\ now < MaxNow
  /\ now' = now + 1
  /\ UNCHANGED <<taken, fs, writer, reader>>

WriterStep(w) ==
  \/ \E f \in Files : OpenTmp(w, f)
  \/ WriteBlock(w) \/ AbandonWrite(w) \/ Rename(w)

ReaderStep(r) ==
  CheckAge(r) \/ Reject(r) \/ OpenSnap(r) \/ ReadBlock(r) \/ Deliver(r)

Next ==
  \/ \E w \in Writers : WriterStep(w)
  \/ \E r \in Readers : ReaderStep(r)
  \/ RemoveSnap
  \/ Tick

Spec == Init /\ [][Next]_vars

-------------------------------------------------------------------------------
\* Properties

\* "so TUI never reads a partial struct": what read_latest_snapshot returned is one
\* snapshot, whole, or nothing.
WholeReads ==
  \A r \in Readers : rpc[r] = "idle" => \E s \in Snaps \union {Nothing} : got[r] = Full(s)

\* "Reject if file is older than 2s": what is read is no older than the file whose
\* age was checked, although snap.bin may be replaced between the two.
FreshReads ==
  \A r \in Readers : rpc[r] = "read" => at[r] - mtime[rfd[r]] < MaxAge

\* The abstract register: it holds what is in the file named snap.bin, and a reader
\* saw what was in the file it opened.
SeenBy(r) ==
  IF rpc[r] = "read" THEN data[rfd[r]][1] ELSE got[r][1]

Register == INSTANCE SnapRegister WITH
  reg <- IF snap = NoFile THEN Nothing ELSE data[snap][1],
  seen <- [r \in Readers |-> SeenBy(r)]

\* Although it is read and written in blocks, the file behaves like the register.
RegisterSpec == Register!Spec
===============================================================================
