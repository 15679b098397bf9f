------------------------------ MODULE ApprovalSpec ------------------------------
(***************************************************************************)
(* What the approval gate promises.  A card is raised pending; at most one *)
(* ruling or one expiry takes it out of pending; an approval is spent at   *)
(* most once, before its deadline, and only for the effect the card was    *)
(* raised for.  The callers and their stale reads are in ApprovalGate.     *)
(***************************************************************************)
EXTENDS Naturals

CONSTANTS
    Cards,      \* approval requests
    Effects,    \* what a card may be bound to: task, step, tool and arguments
    Nothing     \* no effect: a card not yet raised, an approval not yet spent

ASSUME NothingAssumption == Nothing \notin Effects

VARIABLES
    state,      \* the state of each card
    bound,      \* the effect a card authorises
    overdue,    \* the cards whose expires_at has passed
    spent       \* the effect each card's approval was spent on

avars == <<state, bound, overdue, spent>>

CardStates == {"none", "pending", "approved", "refused", "expired", "consumed"}

AInit ==
    /\ state = [c \in Cards |-> "none"]
    /\ bound = [c \in Cards |-> Nothing]
    /\ overdue = {}
    /\ spent = [c \in Cards |-> Nothing]

ARaise(c, e) ==
    /\ state[c] = "none"
    /\ state' = [state EXCEPT ![c] = "pending"]
    /\ bound' = [bound EXCEPT ![c] = e]
    /\ UNCHANGED <<overdue, spent>>

ASettle(C, s) ==
    /\ \A c \in C : state[c] = "pending"
    /\ state' = [c \in Cards |-> IF c \in C THEN s ELSE state[c]]
    /\ UNCHANGED <<bound, overdue, spent>>

ASpend(c) ==
    /\ state[c] = "approved"
    /\ c \notin overdue
    /\ state' = [state EXCEPT ![c] = "consumed"]
    /\ UNCHANGED <<bound, overdue, spent>>

\* The approved effect is performed once, after its card was spent.
APerform(c) ==
    /\ state[c] = "consumed"
    /\ spent[c] = Nothing
    /\ spent' = [spent EXCEPT ![c] = bound[c]]
    /\ UNCHANGED <<state, bound, overdue>>

ALapse(c) ==
    /\ state[c] # "none"
    /\ overdue' = overdue \union {c}
    /\ UNCHANGED <<state, bound, spent>>

ANext ==
    \/ \E c \in Cards : \/ \E e \in Effects : ARaise(c, e)
                        \/ ASpend(c)
                        \/ APerform(c)
                        \/ ALapse(c)
    \/ \E C \in SUBSET Cards, s \in {"approved", "refused", "expired"} : ASettle(C, s)

ASpec == AInit /\ [][ANext]_avars
=============================================================================
