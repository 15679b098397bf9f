------------------------------- MODULE FiringSpec -------------------------------
(***************************************************************************)
(* What scheduled dispatch promises: a slot of a workflow is started as    *)
(* one run or never, and no slot is started before its time.               *)
(***************************************************************************)
EXTENDS Naturals

CONSTANTS Workflows, Slots

VARIABLES
    fired,      \* runs committed for each slot of each workflow
    now

avars == <<fired, now>>

AInit ==
    /\ fired = [w \in Workflows |-> [s \in Slots |-> 0]]
    /\ now = 0

\* One batch may start a slot of several workflows at once.
AFire ==
    /\ fired' \in [Workflows -> [Slots -> Nat]]
    /\ \A w \in Workflows, s \in Slots :
          fired'[w][s] # fired[w][s] => fired[w][s] = 0 /\ fired'[w][s] = 1 /\ s <= now
    /\ \A w \in Workflows : \A s, t \in Slots :
          fired'[w][s] # fired[w][s] /\ fired'[w][t] # fired[w][t] => s = t
    /\ UNCHANGED now

ATick ==
    /\ now' = now + 1
    /\ UNCHANGED fired

ASpec == AInit /\ [][AFire \/ ATick]_avars
=============================================================================
