----------------------------- MODULE MCConfigStore ----------------------------
(***************************************************************************)
(* Instances of ConfigStore for TLC.                                       *)
(***************************************************************************)
EXTENDS ConfigStore

MCDefault ==
  [isolated_cores |-> <<2, 3>>, ns_server |-> <<"ns_server">>,
   netem_loss_pct |-> 100, rt_priority |-> 50, apply_nohz_full |-> TRUE]

MCTyped ==
  [isolated_cores |-> {<<4, Junk>>, <<Junk>>},
   ns_server |-> {<<"a", Quote, "b">>},
   netem_loss_pct |-> {128, Infinite},
   rt_priority |-> {7, Junk}]

MCWords == {"ns_server", "a", "b"}

MCLives ==
  {[isolcpus |-> None, nohz_full |-> FALSE, netns |-> FALSE],
   [isolcpus |-> <<Junk, 5>>, nohz_full |-> TRUE, netns |-> TRUE]}

MCWorlds ==
  {{}, {"odd"}, {"quick"}, {"slow"}, {"back"}, {"full"}, {"crash"}}
===============================================================================
