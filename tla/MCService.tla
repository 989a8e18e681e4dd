------------------------------- MODULE MCService ------------------------------
(***************************************************************************)
(* Instances of Service for TLC: a TUI and a command-line call.            *)
(***************************************************************************)
EXTENDS Service

Transient == {"crash", "fail"}
UnitOnly == {"crash", "unit"}
Contended == {"overlap"}
Unsettled == {"slow", "teardown", "fail"}

MCWorlds == {Transient, UnitOnly, Contended, Unsettled}
===============================================================================
