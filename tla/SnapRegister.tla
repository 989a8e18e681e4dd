----------------------------- MODULE SnapRegister -----------------------------
(***************************************************************************)
(* What the snapshot file promises: a register that holds the last         *)
(* published snapshot as a whole.  A look at it gives what it holds at one *)
(* moment, or nothing.                                                     *)
(***************************************************************************)
CONSTANTS
  Snaps,    \* the snapshots a daemon can take
  Readers,  \* who looks
  Nothing   \* no snapshot

VARIABLES
  reg,   \* the last snapshot published
  seen   \* what each reader found when it looked last

vars == <<reg, seen>>

Init ==
  /\ reg = Nothing
  /\ seen = [r \in Readers |-> Nothing]

Publish ==
  /\ reg' \in Snaps
  /\ UNCHANGED seen

Remove ==
  /\ reg' = Nothing
  /\ UNCHANGED seen

Look(r) ==
  /\ seen' = [seen EXCEPT ![r] = reg]
  /\ UNCHANGED reg

LookAway(r) ==
  /\ seen' = [seen EXCEPT ![r] = Nothing]
  /\ UNCHANGED reg

Next == Publish \/ Remove \/ \E r \in Readers : Look(r) \/ LookAway(r)

Spec == Init /\ [][Next]_vars
===============================================================================
