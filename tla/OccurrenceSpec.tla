----------------------------- MODULE OccurrenceSpec -----------------------------
(***************************************************************************)
(* What a recorded goal may live through.  A goal is recorded, started as  *)
(* exactly one task or never, settled by that task's outcome, and called   *)
(* off at any time before it completed; a goal that is called off or       *)
(* completed stays so.  Who runs it, and when, is in Schedules.            *)
(***************************************************************************)
EXTENDS Naturals

CONSTANT Goals      \* schedule ids

VARIABLES
    fate,   \* how far each goal has come
    made    \* how many tasks it was turned into

avars == <<fate, made>>

Fates == {"absent", "open", "started", "failed", "done", "off"}
Moves == {<<"absent", "open">>, <<"open", "started">>, <<"started", "done">>,
          <<"started", "failed">>, <<"failed", "done">>,
          <<"open", "off">>, <<"started", "off">>, <<"failed", "off">>}

AInit ==
    /\ fate = [g \in Goals |-> "absent"]
    /\ made = [g \in Goals |-> 0]

\* One transaction may move several goals, each along one edge; only the edge
\* from open to started makes a task.
ANext ==
    /\ fate' \in [Goals -> Fates]
    /\ \A g \in Goals : fate'[g] = fate[g] \/ <<fate[g], fate'[g]>> \in Moves
    /\ made' = [g \in Goals |->
                   IF fate[g] = "open" /\ fate'[g] = "started" THEN made[g] + 1 ELSE made[g]]

ASpec == AInit /\ [][ANext]_avars
=============================================================================
