---- MODULE MCSchedules ----
(***************************************************************************)
(* Two goals, of one owner or of two; goal 2 must not run late.            *)
(***************************************************************************)
EXTENDS Schedules

MCPolicy == [g \in Goals |-> IF g = 2 THEN "skip" ELSE "catch_up"]
AnyCatchesUp == [g \in Goals |-> "catch_up"]
\* Each goal its own owner, or both the second one's.
Apart == [g \in Goals |-> g]
ApartOrTogether == {Apart, [g \in Goals |-> 2]}
OnlyApart == {Apart}
OnlyTogether == {[g \in Goals |-> 2]}
====
