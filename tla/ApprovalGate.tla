------------------------------ MODULE ApprovalGate ------------------------------
(***************************************************************************)
(* ApprovalQueue over the shared store, call by call.  Every caller reads  *)
(* a snapshot of the card, judges it by its own clock, and only then       *)
(* writes with a compare-and-set; other callers, the deadline, a lost      *)
(* connection or a crash may come between.  local[p].answer is what the    *)
(* last call told p.                                                       *)
(***************************************************************************)
EXTENDS ApprovalSpec

CONSTANTS
    Clients,    \* processes that share the store
    Skewed      \* those whose clock may disagree with the database's

ASSUME ClientAssumption == Skewed \subseteq Clients

VARIABLE local

vars == <<avars, local>>

NoCall == [pc |-> "idle", card |-> Nothing, want |-> Nothing, target |-> "none",
           answer |-> "none"]

Init == AInit /\ local = [p \in Clients |-> NoCall]

\* Does p's clock put c past its deadline?
Overdue(p, c) == IF p \in Skewed THEN BOOLEAN ELSE {c \in overdue}

Call(p, c, pc, want, target) ==
    local' = [local EXCEPT ![p] = [pc |-> pc, card |-> c, want |-> want,
                                   target |-> target, answer |-> "none"]]
Goto(p, pc) == local' = [local EXCEPT ![p].pc = pc]
Answer(p, a) == local' = [local EXCEPT ![p] = [@ EXCEPT !.pc = "idle", !.answer = a]]

\* Mutant: the update keeps only the row it names.
MoveAlone(c, s) == state' = [d \in {c} |-> s]
Move(c, s) == state' = [state EXCEPT ![c] = s]

-----------------------------------------------------------------------------
(* request *)

Raise(c, e) == ARaise(c, e) /\ UNCHANGED local

(* decide: a call with the card's token *)

\* The card is read; one that is no longer pending ends the call here.
DecideRead(p, c, ruling) ==
    /\ local[p].pc = "idle"
    /\ state[c] # "none"
    /\ \/ /\ state[c] = "pending"
          /\ \E late \in Overdue(p, c) :
                Call(p, c, "decide", Nothing, IF late THEN "expired" ELSE ruling)
       \/ /\ state[c] # "pending"
          /\ local' = [local EXCEPT ![p] = [NoCall EXCEPT !.card = c, !.answer = state[c]]]
    /\ UNCHANGED avars

\* Mutant: the ruling is written without comparing the state.
DecideWriteBlind(p) ==
    /\ local[p].pc = "decide"
    /\ Move(local[p].card, local[p].target)
    /\ Answer(p, "ruled")
    /\ UNCHANGED <<bound, overdue, spent>>

\* transition_pending: UPDATE .. WHERE state = 'pending'.
DecideWrite(p) ==
    /\ local[p].pc = "decide"
    /\ LET c == local[p].card
       IN  IF state[c] = "pending"
           THEN Move(c, local[p].target) /\ Answer(p, "ruled")
           ELSE UNCHANGED state /\ Goto(p, "lost")
    /\ UNCHANGED <<bound, overdue, spent>>

\* Mutant: the loser of the race tries again.
DecideAgain(p) ==
    /\ local[p].pc = "lost"
    /\ Goto(p, "decide")
    /\ UNCHANGED avars

\* _race_lost re-reads, so that the loser hears the winner's ruling.
DecideLost(p) ==
    /\ local[p].pc = "lost"
    /\ Answer(p, state[local[p].card])
    /\ UNCHANGED avars

-----------------------------------------------------------------------------
(* require_approved_runtime_binding and consume *)

\* The record the capability boundary read: approved, and raised for this effect?
Judge(p, c, e) ==
    IF state[c] = "approved" /\ bound[c] = e
    THEN Call(p, c, "consume", e, "consumed")
    ELSE local' = [local EXCEPT ![p] = [NoCall EXCEPT !.card = c, !.answer = "denied"]]

\* ApprovalQueue.get: an overdue pending card is expired on the way.
GateRead(p, c, e) ==
    /\ local[p].pc = "idle"
    /\ state[c] # "none"
    /\ \E late \in Overdue(p, c) :
          IF state[c] = "pending" /\ late
          THEN Call(p, c, "expire", e, "expired")
          ELSE Judge(p, c, e)
    /\ UNCHANGED avars

GateExpire(p) ==
    /\ local[p].pc = "expire"
    /\ LET c == local[p].card
       IN  IF state[c] = "pending"
           THEN Move(c, "expired") /\ Answer(p, "denied")
           ELSE UNCHANGED state /\ Goto(p, "reread")
    /\ UNCHANGED <<bound, overdue, spent>>

GateReread(p) ==
    /\ local[p].pc = "reread"
    /\ Judge(p, local[p].card, local[p].want)
    /\ UNCHANGED avars

\* consume reads the card again, and refuses a spent or overdue one.
ConsumeRead(p) ==
    /\ local[p].pc = "consume"
    /\ LET c == local[p].card
       IN  \/ state[c] = "consumed" /\ Answer(p, "consumed")
           \/ /\ state[c] = "approved"
              /\ \E late \in Overdue(p, c) : IF late THEN Answer(p, "overdue") ELSE Goto(p, "spend")
    /\ UNCHANGED avars

\* Mutant: the expiry is checked by the caller only.
SpendableLate(c) == state[c] = "approved"
\* Mutant: an approval is a standing permission.
SpendableForever(c) == state[c] \in {"approved", "consumed"} /\ c \notin overdue
\* transition_approved: row lock, then state = 'approved' AND expires_at > now.
Spendable(c) == state[c] = "approved" /\ c \notin overdue

ConsumeWrite(p) ==
    /\ local[p].pc = "spend"
    /\ LET c == local[p].card
       IN  IF Spendable(c)
           THEN Move(c, "consumed") /\ Goto(p, "perform")
           ELSE UNCHANGED state /\ Goto(p, "unspent")
    /\ UNCHANGED <<bound, overdue, spent>>

\* The loser re-reads to tell an expiry from another worker's spending.
ConsumeLost(p) ==
    /\ local[p].pc = "unspent"
    /\ Answer(p, IF state[local[p].card] = "approved" THEN "overdue" ELSE "consumed")
    /\ UNCHANGED avars

\* Only now does the capability run its handler.
Perform(p) ==
    /\ local[p].pc = "perform"
    /\ spent' = [spent EXCEPT ![local[p].card] = local[p].want]
    /\ Answer(p, "performed")
    /\ UNCHANGED <<state, bound, overdue>>

-----------------------------------------------------------------------------
(* The inbox, the clock, and what can go wrong *)

\* pending(): one UPDATE expires every overdue pending card.
Sweep ==
    /\ \E c \in overdue : state[c] = "pending"
    /\ state' = [c \in Cards |-> IF c \in overdue /\ state[c] = "pending" THEN "expired" ELSE state[c]]
    /\ UNCHANGED <<bound, overdue, spent, local>>

Lapse(c) == c \notin overdue /\ ALapse(c) /\ UNCHANGED local

\* A store call raises ApprovalStoreUnavailable: before the write, or after it.
Unavailable(p) ==
    /\ local[p].pc \notin {"idle", "perform"}
    /\ Answer(p, "unavailable")
    /\ UNCHANGED avars

AckLost(p) ==
    /\ LET c == local[p].card
       IN  \/ local[p].pc \in {"decide", "expire"} /\ state[c] = "pending"
           \/ local[p].pc = "spend" /\ Spendable(c)
    /\ Move(local[p].card, local[p].target)
    /\ Answer(p, "unavailable")
    /\ UNCHANGED <<bound, overdue, spent>>

Crash(p) ==
    /\ local[p].pc # "idle"
    /\ local' = [local EXCEPT ![p] = NoCall]
    /\ UNCHANGED avars

CallStep(p) ==
    \/ DecideWrite(p) \/ DecideLost(p)
    \/ GateExpire(p) \/ GateReread(p)
    \/ ConsumeRead(p) \/ ConsumeWrite(p) \/ ConsumeLost(p)
    \/ Perform(p)
    \/ Unavailable(p) \/ AckLost(p)

Next ==
    \/ \E c \in Cards, e \in Effects : Raise(c, e)
    \/ \E p \in Clients :
          \/ \E c \in Cards : \/ \E r \in {"approved", "refused"} : DecideRead(p, c, r)
                              \/ \E e \in Effects : GateRead(p, c, e)
          \/ CallStep(p)
          \/ Crash(p)
    \/ Sweep
    \/ \E c \in Cards : Lapse(c)

Spec == Init /\ [][Next]_vars
\* Every call runs to its answer: store calls time out, handlers return.
FairSpec == Spec /\ \A p \in Clients : WF_vars(CallStep(p))

-----------------------------------------------------------------------------
(* Properties *)

Pcs == {"idle", "decide", "lost", "expire", "reread", "consume", "spend", "unspent", "perform"}
Answers == CardStates \union {"ruled", "denied", "overdue", "performed", "unavailable"}
Local == [pc : Pcs, card : Cards \union {Nothing}, want : Effects \union {Nothing},
          target : CardStates, answer : Answers]

\* Every variable keeps its type.
TypeOK ==
    /\ state \in [Cards -> CardStates]
    /\ bound \in [Cards -> Effects \union {Nothing}]
    /\ overdue \subseteq Cards
    /\ spent \in [Cards -> Effects \union {Nothing}]
    /\ local \in [Clients -> Local]

\* The queue implements the abstract gate, whatever the interleaving of reads,
\* writes, lapses, lost acknowledgements and crashes: one ruling, one spending
\* before the deadline, one performance of the effect that was approved.
Promise == ASpec

\* Of all the callers that hold a snapshot of an approved card, one gets to run
\* its handler, on the effect the approval names.
OnePerformer ==
    \A p \in Clients : local[p].pc = "perform" =>
        LET c == local[p].card
        IN  /\ state[c] = "consumed"
            /\ spent[c] = Nothing
            /\ bound[c] = local[p].want
            /\ \A q \in Clients \ {p} : ~(local[q].pc = "perform" /\ local[q].card = c)

\* What a caller was told is still so: a refusal heard is the card's fate, and
\* "this approval was spent" is never said of one that was not.
AnswersStayTrue ==
    \A p \in Clients :
        LET c == local[p].card
            a == local[p].answer
        IN  /\ a = "consumed" => state[c] = "consumed"
            /\ a = "refused" => state[c] = "refused"
            /\ a = "expired" => state[c] = "expired"
            /\ a = "approved" => state[c] \in {"approved", "consumed"}
            /\ a = "performed" => state[c] = "consumed" /\ spent[c] = bound[c]
            /\ a = "ruled" => \/ state[c] = local[p].target
                              \/ local[p].target = "approved" /\ state[c] = "consumed"

\* A caller told that its approval expired unspent can rely on it: nobody spends
\* that approval later.  Only a caller whose clock is right hears this.
OverdueMeansUnspent ==
    \A p \in Clients \ Skewed :
        local[p].answer = "overdue" => state[local[p].card] = "approved"

\* Every call is answered.
CallsEnd == \A p \in Clients : local[p].pc # "idle" ~> local[p].pc = "idle"
=============================================================================
