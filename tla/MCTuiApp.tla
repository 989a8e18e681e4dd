-------------------------------- MODULE MCTuiApp ------------------------------
(***************************************************************************)
(* Instances of TuiApp for TLC.                                            *)
(***************************************************************************)
EXTENDS TuiApp

MCForm == <<"edit", "toggle", "separator", "apply", "teardown", "refresh">>

MCWorlds == {{}, {"user"}, {"fail"}, {"crash"}, {"cli"}}
===============================================================================
