----------------------------- MODULE BootContract -----------------------------
(***************************************************************************)
(* What ubenchmon promises about the boot parameters, whatever the number  *)
(* of commands it takes: the parameters of the next boot change only while *)
(* a baseline is saved, the baseline is taken when no change is pending,   *)
(* and it is given up only when the next boot is the baseline again.       *)
(*                                                                         *)
(* A package update may rebuild grub.cfg from a half-edited file, so while *)
(* a baseline is saved the next boot is not constrained further here.      *)
(***************************************************************************)
CONSTANTS
  Views,   \* what a boot can show
  NoFile   \* no baseline

VARIABLES
  next,    \* the parameters of the next boot
  active,  \* the parameters of the running kernel
  saved    \* the baseline

vars == <<next, active, saved>>

Init ==
  /\ next \in Views
  /\ active = next
  /\ saved = NoFile

Capture ==
  /\ saved = NoFile
  /\ next = active
  /\ saved' = active
  /\ UNCHANGED <<next, active>>

Configure ==
  /\ saved # NoFile
  /\ next' \in Views
  /\ UNCHANGED <<active, saved>>

Forget ==
  /\ saved # NoFile
  /\ next = saved
  /\ saved' = NoFile
  /\ UNCHANGED <<next, active>>

Reboot ==
  /\ active' = next
  /\ UNCHANGED <<next, saved>>

Next == Capture \/ Configure \/ Forget \/ Reboot

Spec == Init /\ [][Next]_vars
===============================================================================
