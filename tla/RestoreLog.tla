------------------------------ MODULE RestoreLog ------------------------------
(***************************************************************************)
(* What the config store promises while no write fails, every value has a  *)
(* text of its own and every Apply a second of its own: an Apply puts away *)
(* the state it finds and the configuration it applies, each at a place    *)
(* that was free; until a teardown these stay as they are, and a teardown  *)
(* restores one of them.  What was applied is settled before anything else *)
(* is applied, edited or restored, unless a reboot was asked for, and a    *)
(* daemon sets up the configuration settled last, or the default.          *)
(***************************************************************************)
EXTENDS FiniteSets

CONSTANTS Places, Configs, Default, None

VARIABLES
  promised,  \* the promise is made
  stage,     \* how far an Apply has come: "idle", "state", "kept", "owed"
  wish,      \* the configuration in the form
  now,       \* the state of the machine, as a configuration
  points,    \* what was put away, by place
  base,      \* what a daemon would set up
  due,       \* what is to be restored
  handed     \* what the last step gave the library

vars == <<promised, stage, wish, now, points, base, due, handed>>

Init ==
  /\ promised \in BOOLEAN
  /\ stage = "idle"
  /\ wish = Default /\ now \in Configs
  /\ points = [p \in Places |-> None]
  /\ base = Default /\ due = None /\ handed = None

\* Somebody changes the machine, or, between two Applies, the form.
Change ==
  /\ wish' \in Configs /\ (stage # "idle" => wish' = wish)
  /\ now' \in Configs
  /\ handed' = None /\ UNCHANGED <<stage, points, base, due>>

Keep(p, c) ==
  /\ points[p] = None /\ points' = [points EXCEPT ![p] = c]
  /\ handed' = None /\ UNCHANGED <<wish, now, base, due>>

KeepState(p) ==
  /\ stage = "idle" /\ due = None /\ stage' = "state"
  /\ Keep(p, now)

KeepWish(p) ==
  /\ stage = "state" /\ stage' = "kept"
  /\ Keep(p, wish)

SetUp(c) ==
  /\ handed' = c /\ now' \in Configs
  /\ UNCHANGED <<wish, points, base>>

\* The library is given what was kept; it asks for a reboot, or what was applied
\* is to be settled.
Apply ==
  /\ stage = "kept" /\ stage' \in {"idle", "owed"}
  /\ SetUp(wish) /\ due' = due

\* For a moment the default is settled.
Blank ==
  /\ stage = "owed" /\ stage' = stage
  /\ base' = Default /\ now' \in Configs
  /\ handed' = None /\ UNCHANGED <<wish, points, due>>

Settle ==
  /\ stage = "owed" /\ stage' = "idle"
  /\ base' = wish /\ now' \in Configs
  /\ handed' = None /\ UNCHANGED <<wish, points, due>>

Daemon == SetUp(base) /\ UNCHANGED <<stage, due>>

Wipe(p) ==
  /\ stage = "idle" /\ due = None
  /\ points[p] # None /\ due' = points[p]
  /\ points' = [q \in Places |-> None]
  /\ base' = Default /\ now' \in Configs
  /\ handed' = None /\ UNCHANGED <<stage, wish>>

Restore ==
  /\ due # None /\ due' = None
  /\ SetUp(due) /\ stage' = stage

Next ==
  /\ promised' = promised
  /\ promised =>
       \/ Change \/ Apply \/ Blank \/ Settle \/ Daemon \/ Restore
       \/ \E p \in Places : KeepState(p) \/ KeepWish(p) \/ Wipe(p)

Spec == Init /\ [][Next]_vars
===============================================================================
