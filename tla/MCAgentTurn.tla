---- MODULE MCAgentTurn ----
(***************************************************************************)
(* No cap and room for a question beside the one being asked, or a cap of  *)
(* two completions and no room beside.                                     *)
(***************************************************************************)
EXTENDS AgentTurn

MCSettings == {[room |-> 1, cap |-> 0], [room |-> 0, cap |-> 2]}
Uncapped == {[room |-> 1, cap |-> 0]}
====
