------------------------------ MODULE GrubParams ------------------------------
(***************************************************************************)
(* The kernel boot parameters ubenchmon touches and the text operations    *)
(* setup.c performs on them with sed.  A command line is abstracted to     *)
(* what those operations can tell apart:                                   *)
(*                                                                         *)
(*   head[p]  the value of p when p is the first token of the quoted       *)
(*            GRUB_CMDLINE_LINUX string.  Every sed pattern of the code    *)
(*            starts with a blank, so this occurrence is never removed.    *)
(*   tail[p]  the value of p when a blank precedes it.                     *)
(*                                                                         *)
(* The code strips a parameter before it appends it, so a parameter has at *)
(* most one occurrence of each kind.  A flag without a value               *)
(* (nosoftlockup) has the value "on".                                      *)
(***************************************************************************)
EXTENDS Naturals

CONSTANTS
  CoreLists,  \* core lists as written on a command line, such as "2,3"
  CStates     \* values of processor.max_cstate

Params == {"isolcpus", "nohz_full", "rcu_nocbs", "max_cstate", "nosoftlockup"}

\* The parameter does not occur (extract_cmdline_param leaves out[0] = '\0').
Absent == "absent"

Values == CoreLists \union CStates \union {"on"}
View == [Params -> Values \union {Absent}]
CmdLine == [head : View, tail : View]

\* The configuration fields setup_grub reads.  No isolated cores is Absent.
Config == [cores : CoreLists \union {Absent}, nohz : BOOLEAN, rcu : BOOLEAN,
           cstate : CStates]

EmptyView == [p \in Params |-> Absent]

\* The value of a parameter in a command line: the first occurrence, which is
\* what extract_cmdline_param and strstr find.
Shown(c) == [p \in Params |-> IF c.head[p] # Absent THEN c.head[p] ELSE c.tail[p]]

\* sed 's/ p=[^ "]*//g' for every p of S.
Stripped(t, S) == [p \in Params |-> IF p \in S THEN Absent ELSE t[p]]

\* Append the tokens of view v at the end of the quoted string.  An occurrence
\* that is still there comes first and keeps deciding what the line shows.
Appended(t, v) == [p \in Params |-> IF t[p] # Absent THEN t[p] ELSE v[p]]

\* The parameter string setup_grub builds from a configuration.
Wanted(cfg) ==
  [p \in Params |->
     CASE p = "isolcpus"     -> cfg.cores
       [] p = "nohz_full"    -> IF cfg.nohz THEN cfg.cores ELSE Absent
       [] p = "rcu_nocbs"    -> IF cfg.rcu THEN cfg.cores ELSE Absent
       [] p = "max_cstate"   -> cfg.cstate
       [] p = "nosoftlockup" -> "on"]
===============================================================================
