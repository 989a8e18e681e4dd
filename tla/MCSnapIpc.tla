------------------------------- MODULE MCSnapIpc ------------------------------
(***************************************************************************)
(* Instances of SnapIpc for TLC: one daemon and one TUI, and two daemons,  *)
(* which the service commands do not exclude (see Service).                *)
(***************************************************************************)
EXTENDS SnapIpc
===============================================================================
