-------------------------------- MODULE MCPanes -------------------------------
(***************************************************************************)
(* Instances of Panes for TLC.                                             *)
(***************************************************************************)
EXTENDS Panes

MCClear == <<"c">>
===============================================================================
