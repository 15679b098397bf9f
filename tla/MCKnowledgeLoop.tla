---- MODULE MCKnowledgeLoop ----
(***************************************************************************)
(* Callers are alike.  The event route is asked for a start, an ending of  *)
(* either kind and an event that decides nothing.                          *)
(***************************************************************************)
EXTENDS KnowledgeLoop, TLC

MCPosts == {"ACTION_STARTED", "ACTION_COMPLETED", "ACTION_FAILED", "LEARNING_CAPTURED"}
Alike == Permutations(Callers)
====
