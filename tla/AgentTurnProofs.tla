----------------------------- MODULE AgentTurnProofs -----------------------------
(***************************************************************************)
(* For every number of requests, turns and steps: a yes is used once, a    *)
(* turn stays within its allowance however often it is resumed, and a halt *)
(* that was heard holds until the person answers.  All three rest on one   *)
(* fact: a turn is in one place, in a leg that runs or in a question on    *)
(* the shelf, and that place knows what has happened in the turn.          *)
(***************************************************************************)
EXTENDS AgentTurn, FiniteSetTheorems, TLAPS

Running == {"setup", "ask", "wait", "call", "run"}
Ended == {"asked", "close", "done"}
\* A leg whose yes is still to be used.
Holds(l) == leg[l].pc \in {"setup", "call"} /\ leg[l].sure = TRUE

LegType == [pc : Pcs, turn : Turns \union {NoLeg}, sig : Legs \union {NoLeg},
            yes : Legs \union {NoLeg}, sure : BOOLEAN, tool : Tools, spare : Int,
            used : Nat, council : Nat, seen : Nat]
Types ==
    /\ leg \in [Legs -> LegType]
    /\ brake \in [Turns -> Legs \union {NoLeg}]
    /\ \A q \in shelf : /\ q.id \in Legs /\ q.turn \in Turns
                        /\ q.used \in Nat /\ q.council \in Nat /\ q.seen \in Nat
    /\ calls \in [Turns -> Nat] /\ councils \in [Turns -> Nat]
    /\ stamps \in [Turns -> SUBSET Nat]
    /\ acted \in [Legs -> Nat]
    /\ told \in [Turns -> Hears]

\* A turn is in one place: in a running leg or in a question on the shelf, and the
\* leg that asked has come to its end.
OnePlace ==
    /\ \A l \in Legs : leg[l].pc \in Running => leg[l].turn \in Turns
    /\ \A l, k \in Legs :
          leg[l].pc \in Running /\ leg[k].pc \in Running /\ leg[l].turn = leg[k].turn => l = k
    /\ \A l \in Legs, q \in shelf : leg[l].pc \in Running => leg[l].turn # q.turn
    /\ \A q, r \in shelf : q.turn = r.turn \/ q.id = r.id => q = r
    /\ \A q \in shelf : leg[q.id].pc \in Ended

\* Nothing has happened in a turn that has not started.
Unstarted ==
    \A t \in Turns : leg[t].pc = "new" =>
        /\ \A l \in Legs : leg[l].pc \in Running => leg[l].turn # t
        /\ \A q \in shelf : q.turn # t
        /\ brake[t] = NoLeg /\ told[t] = "nothing"
        /\ calls[t] = 0 /\ councils[t] = 0 /\ stamps[t] = {}

\* A yes is unused as long as its question is on the shelf or a leg holds it.
Held(l) ==
    /\ leg[l].yes \in Legs /\ acted[leg[l].yes] = 0
    /\ leg[leg[l].yes].pc \in Ended
    /\ leg[l].tool = "final"
    /\ \A q \in shelf : q.id # leg[l].yes
YesUnused ==
    /\ \A l \in Legs : Holds(l) => Held(l)
    /\ \A l, k \in Legs : Holds(l) /\ Holds(k) /\ leg[l].yes = leg[k].yes => l = k
    /\ \A l \in Legs : leg[l].pc \in {"ask", "wait"} => leg[l].sure = FALSE
    /\ \A q \in shelf : acted[q.id] = 0
    /\ \A h \in Legs : leg[h].pc \notin Ended => acted[h] = 0
    /\ \A h \in Legs : acted[h] <= 1

\* The locals of the leg that runs, or the question that waits, bound what has
\* happened in its turn.
LegCalls(l) ==
    leg[l].pc \in Running =>
        /\ calls[leg[l].turn] <= IF leg[l].pc = "call" \/ Holds(l) THEN leg[l].used - 1 ELSE leg[l].used
        /\ leg[l].spare >= 0
        /\ leg[l].used + leg[l].spare <= IF leg[l].pc = "wait" THEN MaxSteps - 1 ELSE MaxSteps
CallsCounted ==
    /\ \A t \in Turns : calls[t] <= MaxSteps
    /\ \A l \in Legs : LegCalls(l)
    /\ \A q \in shelf : calls[q.turn] <= q.used - 1 /\ q.used <= MaxSteps

LegCouncils(l) ==
    leg[l].pc \in Running =>
        /\ leg[l].council <= CouncilBudget
        /\ councils[leg[l].turn] <= IF leg[l].pc = "call" /\ leg[l].tool = "council"
                                    THEN leg[l].council - 1 ELSE leg[l].council
CouncilsCounted ==
    /\ \A t \in Turns : councils[t] <= CouncilBudget
    /\ \A l \in Legs : LegCouncils(l)
    /\ \A q \in shelf : councils[q.turn] <= q.council /\ q.council <= CouncilBudget

LegStamps(l) ==
    leg[l].pc \in Running =>
        \A n \in stamps[leg[l].turn] : n <= IF leg[l].pc = "run" THEN leg[l].seen + 1 ELSE leg[l].seen
StampsCounted ==
    /\ \A t \in Turns : IsFiniteSet(stamps[t]) /\ Cardinality(stamps[t]) = calls[t]
    /\ \A l \in Legs : LegStamps(l)
    /\ \A q \in shelf : \A n \in stamps[q.turn] : n <= q.seen

\* A turn that was halted and not answered since runs under a signal that is set.
HaltKnown ==
    \A l \in Legs : leg[l].pc \in Running =>
        /\ brake[leg[l].turn] # NoLeg => leg[l].sig = brake[leg[l].turn]
        /\ told[leg[l].turn] = "stopped" => leg[l].sig \in stopped

Rest == OnePlace /\ Unstarted /\ YesUnused /\ CallsCounted /\ CouncilsCounted /\ StampsCounted /\ HaltKnown
IInv == Types /\ Rest

-----------------------------------------------------------------------------
(* What an update of leg does *)

\* Only the leg of l changes.
Only(l) == \A k \in Legs : k # l => leg'[k] = leg[k]
\* Its turn, its signal and its yes stay.
SameTurn(l) == leg'[l].turn = leg[l].turn /\ leg'[l].sig = leg[l].sig /\ leg'[l].yes = leg[l].yes

LEMMA SetEffect ==
    ASSUME leg \in [Legs -> LegType], NEW l \in Legs, NEW r \in LegType,
           leg' = [leg EXCEPT ![l] = r]
    PROVE  leg' \in [Legs -> LegType] /\ leg'[l] = r /\ Only(l)
BY DEF Only

LEMMA GotoEffect ==
    ASSUME leg \in [Legs -> LegType], NEW l \in Legs, NEW pc \in Pcs, Goto(l, pc)
    PROVE  /\ leg' \in [Legs -> LegType] /\ Only(l) /\ SameTurn(l)
           /\ leg'[l].pc = pc /\ leg'[l].sure = leg[l].sure /\ leg'[l].tool = leg[l].tool
           /\ leg'[l].spare = leg[l].spare /\ leg'[l].used = leg[l].used
           /\ leg'[l].council = leg[l].council /\ leg'[l].seen = leg[l].seen
BY DEF Goto, LegType, Only, SameTurn

LEMMA WaitEffect ==
    ASSUME leg \in [Legs -> LegType], NEW l \in Legs,
           leg' = [leg EXCEPT ![l].pc = "wait", ![l].spare = @ - 1]
    PROVE  /\ leg' \in [Legs -> LegType] /\ Only(l) /\ SameTurn(l)
           /\ leg'[l].pc = "wait" /\ leg'[l].sure = leg[l].sure /\ leg'[l].tool = leg[l].tool
           /\ leg'[l].spare = leg[l].spare - 1 /\ leg'[l].used = leg[l].used
           /\ leg'[l].council = leg[l].council /\ leg'[l].seen = leg[l].seen
BY DEF LegType, Pcs, Only, SameTurn

LEMMA ObserveEffect ==
    ASSUME leg \in [Legs -> LegType], NEW l \in Legs,
           leg' = [leg EXCEPT ![l].pc = "ask", ![l].seen = @ + 1]
    PROVE  /\ leg' \in [Legs -> LegType] /\ Only(l) /\ SameTurn(l)
           /\ leg'[l].pc = "ask" /\ leg'[l].sure = leg[l].sure /\ leg'[l].tool = leg[l].tool
           /\ leg'[l].spare = leg[l].spare /\ leg'[l].used = leg[l].used
           /\ leg'[l].council = leg[l].council /\ leg'[l].seen = leg[l].seen + 1
BY DEF LegType, Pcs, Only, SameTurn

LEMMA ReturnEffect ==
    ASSUME leg \in [Legs -> LegType], NEW l \in Legs,
           leg' = [leg EXCEPT ![l].pc = "ask", ![l].seen = @ + 1, ![l].sure = FALSE]
    PROVE  /\ leg' \in [Legs -> LegType] /\ Only(l) /\ SameTurn(l)
           /\ leg'[l].pc = "ask" /\ leg'[l].sure = FALSE /\ leg'[l].tool = leg[l].tool
           /\ leg'[l].spare = leg[l].spare /\ leg'[l].used = leg[l].used
           /\ leg'[l].council = leg[l].council /\ leg'[l].seen = leg[l].seen + 1
BY DEF LegType, Pcs, Only, SameTurn

LEMMA ToolEffect ==
    ASSUME leg \in [Legs -> LegType], NEW l \in Legs, NEW k \in Tools, ReplyTool(l, k)
    PROVE  /\ leg' \in [Legs -> LegType] /\ Only(l) /\ SameTurn(l)
           /\ leg'[l].pc = "call" /\ leg'[l].sure = leg[l].sure /\ leg'[l].tool = k
           /\ leg'[l].spare = leg[l].spare /\ leg'[l].used = leg[l].used + 1
           /\ leg'[l].council = IF k = "council" THEN leg[l].council + 1 ELSE leg[l].council
           /\ leg'[l].seen = leg[l].seen
<1> DEFINE n == IF k = "council" THEN leg[l].council + 1 ELSE leg[l].council
           r1 == [leg[l] EXCEPT !.pc = "call", !.tool = k]
           r2 == [r1 EXCEPT !.used = @ + 1]
           r3 == [r2 EXCEPT !.council = n]
<1>1. leg' = [leg EXCEPT ![l] = r3]
    BY DEF ReplyTool
<1>2. leg[l] \in LegType /\ n \in Nat
    BY DEF LegType
<1> HIDE DEF n
<1>3. /\ r1 \in LegType
      /\ r1.turn = leg[l].turn /\ r1.sig = leg[l].sig /\ r1.yes = leg[l].yes
      /\ r1.pc = "call" /\ r1.sure = leg[l].sure /\ r1.tool = k
      /\ r1.spare = leg[l].spare /\ r1.used = leg[l].used /\ r1.seen = leg[l].seen
    BY <1>2 DEF LegType, Pcs
<1> HIDE DEF r1
<1>4. /\ r2 \in LegType
      /\ r2.turn = r1.turn /\ r2.sig = r1.sig /\ r2.yes = r1.yes
      /\ r2.pc = r1.pc /\ r2.sure = r1.sure /\ r2.tool = r1.tool
      /\ r2.spare = r1.spare /\ r2.used = r1.used + 1 /\ r2.seen = r1.seen
    BY <1>3 DEF LegType
<1> HIDE DEF r2
<1>5. /\ r3 \in LegType
      /\ r3.turn = r2.turn /\ r3.sig = r2.sig /\ r3.yes = r2.yes
      /\ r3.pc = r2.pc /\ r3.sure = r2.sure /\ r3.tool = r2.tool
      /\ r3.spare = r2.spare /\ r3.used = r2.used /\ r3.council = n /\ r3.seen = r2.seen
    BY <1>2, <1>4 DEF LegType
<1> HIDE DEF r3
<1>6. leg' \in [Legs -> LegType] /\ leg'[l] = r3 /\ Only(l)
    BY <1>1, <1>5, SetEffect
<1> QED BY <1>3, <1>4, <1>5, <1>6 DEF SameTurn, n

-----------------------------------------------------------------------------
(* A leg that moves on, and a leg that ends *)

\* A running leg that stays in its turn, while nothing happens in the turn.
LEMMA LegMovesOn ==
    ASSUME IInv, NEW l \in Legs, Only(l), SameTurn(l), UNCHANGED <<registries, history>>,
           leg[l].pc \in Running, leg'[l].pc \in Running,
           LegCalls(l)', LegCouncils(l)', LegStamps(l)',
           Holds(l)' => Holds(l) /\ leg'[l].tool = leg[l].tool,
           leg'[l].pc \in {"ask", "wait"} => leg'[l].sure = FALSE
    PROVE  Rest'
<1> USE DEF IInv, Rest, Only, SameTurn, registries, history
<1>1. leg'[l].pc # "new" /\ leg'[l].pc \notin Ended /\ leg[l].pc # "new" /\ leg[l].pc \notin Ended
    BY DEF Running, Ended
<1>2. OnePlace'
    BY <1>1 DEF OnePlace, Types
<1>3. Unstarted'
    BY <1>1, TurnAssumption DEF Unstarted, TurnAssumption
<1>4. YesUnused'
    <2>1. \A k \in Legs : Holds(k)' => Holds(k) /\ leg'[k].yes = leg[k].yes /\ leg'[k].tool = leg[k].tool
        BY DEF Holds
    <2>2. \A k \in Legs : leg'[k].pc \in Ended <=> leg[k].pc \in Ended
        BY <1>1
    <2>3. \A k \in Legs : Holds(k)' => Held(k)'
        BY <2>1, <2>2 DEF YesUnused, Held
    <2> QED BY <2>1, <2>2, <2>3 DEF YesUnused
<1>5. CallsCounted'
    BY DEF CallsCounted, LegCalls, Holds
<1>6. CouncilsCounted'
    BY DEF CouncilsCounted, LegCouncils
<1>7. StampsCounted'
    BY DEF StampsCounted, LegStamps
<1>8. HaltKnown'
    BY DEF HaltKnown
<1> QED BY <1>2, <1>3, <1>4, <1>5, <1>6, <1>7, <1>8

\* A leg that ends: the brake of a turn may be forgotten with it.
LEMMA LegEnds ==
    ASSUME IInv, NEW l \in Legs, Only(l), UNCHANGED <<stopped, shelf, history>>,
           leg[l].pc # "new", leg'[l].pc \in {"close", "done"},
           \A t \in Turns : brake'[t] = brake[t] \/ brake'[t] = NoLeg
    PROVE  Rest'
<1> USE DEF IInv, Rest, Only, history
<1>1. leg'[l].pc # "new" /\ leg'[l].pc \notin Running /\ leg'[l].pc \in Ended
    BY DEF Running, Ended
<1>2. OnePlace'
    BY <1>1 DEF OnePlace, Types
<1>3. Unstarted'
    BY <1>1, TurnAssumption DEF Unstarted, TurnAssumption
<1>4. YesUnused'
    <2>1. \A k \in Legs : Holds(k)' => Holds(k) /\ leg'[k] = leg[k]
        BY DEF Holds
    <2>2. \A k \in Legs : leg[k].pc \in Ended => leg'[k].pc \in Ended
        BY <1>1
    <2>3. \A k \in Legs : Holds(k)' => Held(k)'
        BY <2>1, <2>2 DEF YesUnused, Held
    <2> QED BY <2>1, <2>2, <2>3 DEF YesUnused
<1>5. CallsCounted'
    BY <1>1 DEF CallsCounted, LegCalls, Holds
<1>6. CouncilsCounted'
    BY <1>1 DEF CouncilsCounted, LegCouncils
<1>7. StampsCounted'
    BY <1>1 DEF StampsCounted, LegStamps
<1>8. HaltKnown'
    BY <1>1 DEF HaltKnown, OnePlace
<1> QED BY <1>2, <1>3, <1>4, <1>5, <1>6, <1>7, <1>8

-----------------------------------------------------------------------------
(* The steps of a leg in which nothing happens in its turn *)

LEMMA GoneStep ==
    ASSUME IInv, NEW l \in Legs, Goto(l, "close"), leg[l].pc # "new",
           UNCHANGED <<registries, history>>
    PROVE  IInv'
<1>1. leg' \in [Legs -> LegType] /\ Only(l) /\ leg'[l].pc = "close"
    BY GotoEffect DEF IInv, Types, Pcs
<1>2. Types'
    BY <1>1 DEF IInv, Types, registries, history
<1>3. Rest'
    BY <1>1, LegEnds DEF registries
<1> QED BY <1>2, <1>3 DEF IInv

LEMMA NewLegType == NewLeg \in LegType
BY DEF NewLeg, LegType, Pcs, Tools

LEMMA OverStep ==
    ASSUME IInv, NEW l \in Legs, leg' = [leg EXCEPT ![l] = Over], leg[l].pc # "new",
           UNCHANGED <<stopped, shelf, history>>,
           brake' = brake \/ brake' = [brake EXCEPT ![leg[l].turn] = NoLeg]
    PROVE  IInv'
<1>1. Over \in LegType /\ Over.pc = "done"
    BY NewLegType DEF Over, LegType, Pcs
<1>2. leg' \in [Legs -> LegType] /\ Only(l) /\ leg'[l].pc = "done"
    BY <1>1, SetEffect DEF IInv, Types
<1>3. /\ brake' \in [Turns -> Legs \union {NoLeg}]
      /\ \A t \in Turns : brake'[t] = brake[t] \/ brake'[t] = NoLeg
    BY DEF IInv, Types
<1>4. Types'
    BY <1>2, <1>3 DEF IInv, Types, history
<1>5. Rest'
    BY <1>2, <1>3, LegEnds
<1> QED BY <1>4, <1>5 DEF IInv

LEMMA StreamStep ==
    ASSUME IInv, NEW l \in Legs, Stream(l)
    PROVE  IInv'
<1>1. /\ leg[l].pc = "setup" /\ UNCHANGED <<registries, history>>
      /\ \/ leg[l].sure = TRUE /\ Goto(l, "call")
         \/ leg[l].sure = FALSE /\ Goto(l, "ask")
    BY DEF Stream, At, IInv, Types, LegType
<1>2. Types'
    BY <1>1, GotoEffect DEF IInv, Types, Pcs, registries, history
<1>3. Rest'
    <2>1. CASE leg[l].sure = TRUE /\ Goto(l, "call")
        <3>1. /\ Only(l) /\ SameTurn(l) /\ leg'[l].pc = "call" /\ leg'[l].sure = TRUE
              /\ leg'[l].tool = leg[l].tool /\ leg'[l].spare = leg[l].spare /\ leg'[l].used = leg[l].used
              /\ leg'[l].council = leg[l].council /\ leg'[l].seen = leg[l].seen
            BY <2>1, GotoEffect DEF IInv, Types, Pcs
        <3>2. Holds(l)
            BY <1>1, <2>1 DEF Holds
        <3>3. LegCalls(l)' /\ LegCouncils(l)' /\ LegStamps(l)'
            <4>1. leg[l].tool = "final"
                BY <3>2 DEF IInv, Rest, YesUnused, Held
            <4> QED BY <1>1, <3>1, <3>2, <4>1
                    DEF IInv, Rest, CallsCounted, CouncilsCounted, StampsCounted, LegCalls, LegCouncils,
                        LegStamps, SameTurn, Running, history
        <3> QED BY <1>1, <3>1, <3>2, <3>3, LegMovesOn DEF Running
    <2>2. CASE leg[l].sure = FALSE /\ Goto(l, "ask")
        <3>1. /\ Only(l) /\ SameTurn(l) /\ leg'[l].pc = "ask" /\ leg'[l].sure = FALSE
              /\ leg'[l].tool = leg[l].tool /\ leg'[l].spare = leg[l].spare /\ leg'[l].used = leg[l].used
              /\ leg'[l].council = leg[l].council /\ leg'[l].seen = leg[l].seen
            BY <2>2, GotoEffect DEF IInv, Types, Pcs
        <3>2. ~Holds(l) /\ ~Holds(l)'
            BY <2>2, <3>1 DEF Holds
        <3>3. LegCalls(l)' /\ LegCouncils(l)' /\ LegStamps(l)'
            BY <1>1, <3>1, <3>2
               DEF IInv, Rest, CallsCounted, CouncilsCounted, StampsCounted, LegCalls, LegCouncils,
                   LegStamps, SameTurn, Running, history
        <3> QED BY <1>1, <3>1, <3>2, <3>3, LegMovesOn DEF Running
    <2> QED BY <1>1, <2>1, <2>2
<1> QED BY <1>2, <1>3 DEF IInv

LEMMA WaitStep ==
    ASSUME IInv, NEW l \in Legs, leg[l].pc = "ask", leg[l].spare # 0,
           leg' = [leg EXCEPT ![l].pc = "wait", ![l].spare = @ - 1], UNCHANGED <<registries, history>>
    PROVE  IInv'
<1>1. /\ leg' \in [Legs -> LegType] /\ Only(l) /\ SameTurn(l) /\ leg'[l].pc = "wait"
      /\ leg'[l].sure = leg[l].sure /\ leg'[l].tool = leg[l].tool
      /\ leg'[l].spare = leg[l].spare - 1 /\ leg'[l].used = leg[l].used
      /\ leg'[l].council = leg[l].council /\ leg'[l].seen = leg[l].seen
    BY WaitEffect DEF IInv, Types
<1>2. Types'
    BY <1>1 DEF IInv, Types, registries, history
<1>3. leg[l].sure = FALSE /\ ~Holds(l) /\ ~Holds(l)'
    BY <1>1 DEF IInv, Rest, YesUnused, Holds
<1>4. leg[l].spare \in Int /\ leg[l].used \in Nat /\ leg[l].turn \in Turns /\ MaxSteps \in Nat
    BY TurnAssumption DEF TurnAssumption, IInv, Types, LegType, Rest, OnePlace, Running
<1>5. LegCalls(l)' /\ LegCouncils(l)' /\ LegStamps(l)'
    BY <1>1, <1>3, <1>4
       DEF IInv, Rest, CallsCounted, CouncilsCounted, StampsCounted, LegCalls, LegCouncils,
           LegStamps, SameTurn, Running, history
<1>6. Rest'
    BY <1>1, <1>3, <1>5, LegMovesOn DEF Running
<1> QED BY <1>2, <1>6 DEF IInv

LEMMA AskOrEndStep ==
    ASSUME IInv, NEW l \in Legs, AskOrEnd(l)
    PROVE  IInv'
<1>1. CASE Goto(l, "close")
    BY <1>1, GoneStep DEF AskOrEnd, At
<1>2. CASE leg[l].spare # 0 /\ leg' = [leg EXCEPT ![l].pc = "wait", ![l].spare = @ - 1]
    BY <1>2, WaitStep DEF AskOrEnd, At
<1> QED BY <1>1, <1>2 DEF AskOrEnd

\* An observation: the answer to a council that is capped, a refusal, an error, a result.
LEMMA ObserveStep ==
    ASSUME IInv, NEW l \in Legs, leg[l].pc \in {"wait", "call", "run"},
           \/ leg' = [leg EXCEPT ![l].pc = "ask", ![l].seen = @ + 1] /\ leg[l].sure = FALSE
           \/ leg' = [leg EXCEPT ![l].pc = "ask", ![l].seen = @ + 1, ![l].sure = FALSE],
           UNCHANGED <<registries, history>>
    PROVE  IInv'
<1>1. /\ leg' \in [Legs -> LegType] /\ Only(l) /\ SameTurn(l) /\ leg'[l].pc = "ask"
      /\ leg'[l].sure = FALSE /\ leg'[l].tool = leg[l].tool
      /\ leg'[l].spare = leg[l].spare /\ leg'[l].used = leg[l].used
      /\ leg'[l].council = leg[l].council /\ leg'[l].seen = leg[l].seen + 1
    BY ObserveEffect, ReturnEffect DEF IInv, Types
<1>2. Types'
    BY <1>1 DEF IInv, Types, registries, history
<1>3. ~Holds(l)'
    BY <1>1 DEF Holds
<1>4. /\ leg[l].spare \in Int /\ leg[l].used \in Nat /\ leg[l].council \in Nat /\ leg[l].seen \in Nat
      /\ leg[l].turn \in Turns /\ MaxSteps \in Nat
      /\ calls[leg[l].turn] \in Nat /\ councils[leg[l].turn] \in Nat /\ stamps[leg[l].turn] \subseteq Nat
    BY TurnAssumption DEF TurnAssumption, IInv, Types, LegType, Rest, OnePlace, Running
<1>5. LegCalls(l)' /\ LegCouncils(l)' /\ LegStamps(l)'
    <2>1. LegCalls(l)'
        BY <1>1, <1>3, <1>4 DEF IInv, Rest, CallsCounted, LegCalls, SameTurn, Running, history
    <2>2. LegCouncils(l)'
        BY <1>1, <1>4 DEF IInv, Rest, CouncilsCounted, LegCouncils, SameTurn, Running, history
    <2>3. LegStamps(l)'
        BY <1>1, <1>4 DEF IInv, Rest, StampsCounted, LegStamps, SameTurn, Running, history
    <2> QED BY <2>1, <2>2, <2>3
<1>6. Rest'
    BY <1>1, <1>3, <1>5, LegMovesOn DEF Running
<1> QED BY <1>2, <1>6 DEF IInv

LEMMA ReplyToolStep ==
    ASSUME IInv, NEW l \in Legs, NEW k \in Tools, ReplyTool(l, k)
    PROVE  IInv'
<1>1. /\ leg' \in [Legs -> LegType] /\ Only(l) /\ SameTurn(l) /\ leg'[l].pc = "call"
      /\ leg'[l].sure = leg[l].sure /\ leg'[l].tool = k
      /\ leg'[l].spare = leg[l].spare /\ leg'[l].used = leg[l].used + 1
      /\ leg'[l].council = IF k = "council" THEN leg[l].council + 1 ELSE leg[l].council
      /\ leg'[l].seen = leg[l].seen
    BY ToolEffect DEF IInv, Types
<1>2. leg[l].pc = "wait" /\ UNCHANGED <<registries, history>> /\ (k = "council" => leg[l].council < CouncilBudget)
    BY DEF ReplyTool, At
<1>3. Types'
    BY <1>1, <1>2 DEF IInv, Types, registries, history
<1>4. ~Holds(l)' /\ ~Holds(l)
    BY <1>1, <1>2 DEF Holds, IInv, Rest, YesUnused
<1>5. /\ leg[l].spare \in Int /\ leg[l].used \in Nat /\ leg[l].council \in Nat /\ leg[l].seen \in Nat
      /\ leg[l].turn \in Turns /\ MaxSteps \in Nat /\ CouncilBudget \in Nat
      /\ calls[leg[l].turn] \in Nat /\ councils[leg[l].turn] \in Nat
    BY <1>2, TurnAssumption DEF TurnAssumption, IInv, Types, LegType, Rest, OnePlace, Running
<1>6. LegCalls(l)'
    BY <1>1, <1>2, <1>4, <1>5 DEF IInv, Rest, CallsCounted, LegCalls, SameTurn, Running, history
<1>7. LegCouncils(l)'
    BY <1>1, <1>2, <1>5 DEF IInv, Rest, CouncilsCounted, LegCouncils, SameTurn, Running, history
<1>8. LegStamps(l)'
    BY <1>1, <1>2, <1>5 DEF IInv, Rest, StampsCounted, LegStamps, SameTurn, Running, history
<1>9. Rest'
    BY <1>1, <1>2, <1>4, <1>6, <1>7, <1>8, LegMovesOn DEF Running
<1> QED BY <1>3, <1>9 DEF IInv

\* The steps of a leg that leave the history alone, but for the question.
LEMMA QuietStep ==
    ASSUME IInv, NEW l \in Legs,
           \/ Stream(l) \/ AskOrEnd(l) \/ ReplyEnds(l) \/ ReplyCapped(l) \/ ProviderFails(l)
           \/ \E k \in Tools : ReplyTool(l, k)
           \/ Refuse(l) \/ StopHere(l) \/ Return(l) \/ Close(l)
           \/ SetupFails(l) \/ AskFails(l) \/ AuthoriseFails(l) \/ CouncilBreaks(l) \/ Disconnect(l)
    PROVE  IInv'
<1>1. ASSUME leg[l].pc \in {"wait", "call"}, leg[l].pc = "call" => leg[l].tool # "final"
      PROVE  leg[l].sure = FALSE
    BY <1>1 DEF IInv, Types, LegType, Rest, YesUnused, Holds, Held
<1>2. CASE Stream(l) BY <1>2, StreamStep
<1>3. CASE AskOrEnd(l) BY <1>3, AskOrEndStep
<1>4. CASE ReplyEnds(l) BY <1>4, GoneStep DEF ReplyEnds, At
<1>5. CASE ReplyCapped(l) BY <1>1, <1>5, ObserveStep DEF ReplyCapped, At
<1>6. CASE ProviderFails(l) BY <1>6, GoneStep DEF ProviderFails, At
<1>7. CASE \E k \in Tools : ReplyTool(l, k) BY <1>7, ReplyToolStep
<1>8. CASE Refuse(l) BY <1>1, <1>8, ObserveStep DEF Refuse, At
<1>9. CASE StopHere(l) BY <1>9, GoneStep DEF StopHere, Ready, At
<1>10. CASE Return(l) BY <1>10, ObserveStep DEF Return, At
<1>11. CASE Close(l) BY <1>11, OverStep DEF Close, history
<1>12. CASE SetupFails(l) BY <1>12, OverStep DEF SetupFails, At, registries
<1>13. CASE AuthoriseFails(l) BY <1>13, ObserveStep DEF AuthoriseFails, Ready, At
<1>14. CASE Disconnect(l) BY <1>14, GoneStep DEF Disconnect
<1>15. CASE AskFails(l) BY <1>15, GoneStep DEF AskFails, At
<1>16. CASE CouncilBreaks(l) BY <1>16, ObserveStep DEF CouncilBreaks, Sits, At
<1> QED BY <1>2, <1>3, <1>4, <1>5, <1>6, <1>7, <1>8, <1>9, <1>10, <1>11, <1>12, <1>13, <1>14, <1>15, <1>16

-----------------------------------------------------------------------------
(* The registries *)

LEMMA ShelfShrinks ==
    ASSUME IInv, shelf' \subseteq shelf, UNCHANGED <<leg, brake, stopped, history>>
    PROVE  IInv'
<1> USE DEF IInv, Rest, history
<1>1. Types' BY DEF Types
<1>2. OnePlace' BY DEF OnePlace
<1>3. Unstarted' BY DEF Unstarted
<1>4. YesUnused' BY DEF YesUnused, Holds, Held
<1>5. CallsCounted' BY DEF CallsCounted, LegCalls, Holds
<1>6. CouncilsCounted' BY DEF CouncilsCounted, LegCouncils
<1>7. StampsCounted' BY DEF StampsCounted, LegStamps
<1>8. HaltKnown' BY DEF HaltKnown
<1> QED BY <1>1, <1>2, <1>3, <1>4, <1>5, <1>6, <1>7, <1>8

LEMMA StartStep ==
    ASSUME IInv, NEW l \in Legs, Start(l)
    PROVE  IInv'
<1> USE DEF IInv, Rest
<1> DEFINE r == [NewLeg EXCEPT !.pc = "setup", !.turn = l, !.sig = l, !.spare = MaxSteps]
<1>1. /\ l \in Turns /\ leg[l].pc = "new" /\ leg' = [leg EXCEPT ![l] = r]
      /\ brake' = [brake EXCEPT ![l] = l] /\ UNCHANGED <<stopped, shelf, history>>
    BY DEF Start, Arrives, At
<1>2. /\ r \in LegType /\ r.pc = "setup" /\ r.turn = l /\ r.sig = l /\ r.sure = FALSE
      /\ r.tool = "plain" /\ r.spare = MaxSteps /\ r.used = 0 /\ r.council = 0 /\ r.seen = 0
    <2> DEFINE s == [NewLeg EXCEPT !.pc = "setup", !.turn = l, !.sig = l]
    <2>1. s \in LegType
        BY <1>1, NewLegType DEF LegType, Pcs
    <2>2. /\ s.pc = "setup" /\ s.turn = l /\ s.sig = l /\ s.sure = FALSE
          /\ s.tool = "plain" /\ s.used = 0 /\ s.council = 0 /\ s.seen = 0
        BY DEF NewLeg
    <2> HIDE DEF s
    <2>3. r = [s EXCEPT !.spare = MaxSteps] /\ MaxSteps \in Int
        BY TurnAssumption DEF s, TurnAssumption
    <2> HIDE DEF r
    <2> QED BY <2>1, <2>2, <2>3 DEF LegType
<1> HIDE DEF r
<1>3. leg' \in [Legs -> LegType] /\ leg'[l] = r /\ Only(l)
    BY <1>1, <1>2, SetEffect DEF Types
<1>4. Types'
    BY <1>1, <1>3 DEF Types, history
<1>5. /\ \A k \in Legs : leg[k].pc \in Running => leg[k].turn # l
      /\ \A q \in shelf : q.turn # l
      /\ told[l] = "nothing" /\ calls[l] = 0 /\ councils[l] = 0 /\ stamps[l] = {}
      /\ leg[l].pc \notin Running /\ leg[l].pc \notin Ended
    BY <1>1 DEF Unstarted, Running, Ended
<1>6. OnePlace'
    BY <1>1, <1>2, <1>3, <1>5 DEF OnePlace, Types, Only
<1>7. Unstarted'
    BY <1>1, <1>2, <1>3, <1>5, TurnAssumption DEF Unstarted, Only, history, Types, TurnAssumption
<1>8. YesUnused'
    <2>1. ~Holds(l)' /\ \A k \in Legs : k # l => Holds(k)' = Holds(k)
        BY <1>2, <1>3 DEF Holds, Only
    <2>2. \A k \in Legs : Holds(k)' => Held(k)'
        BY <1>1, <1>3, <1>5, <2>1 DEF YesUnused, Held, Only, history
    <2> QED BY <1>1, <1>2, <1>3, <1>5, <2>1, <2>2 DEF YesUnused, Only, history, Types
<1>9. CallsCounted'
    <2>1. LegCalls(l)'
        BY <1>1, <1>2, <1>3, <1>5, TurnAssumption DEF LegCalls, Holds, TurnAssumption, history
    <2> QED BY <1>1, <1>3, <2>1 DEF CallsCounted, LegCalls, Holds, Only, history
<1>10. CouncilsCounted'
    <2>1. LegCouncils(l)'
        BY <1>1, <1>2, <1>3, <1>5, TurnAssumption DEF LegCouncils, TurnAssumption, history
    <2> QED BY <1>1, <1>3, <2>1 DEF CouncilsCounted, LegCouncils, Only, history
<1>11. StampsCounted'
    <2>1. LegStamps(l)'
        BY <1>1, <1>2, <1>3, <1>5 DEF LegStamps, history
    <2> QED BY <1>1, <1>3, <2>1 DEF StampsCounted, LegStamps, Only, history
<1>12. HaltKnown'
    BY <1>1, <1>2, <1>3, <1>5 DEF HaltKnown, Only, history, Types, OnePlace
<1> QED BY <1>4, <1>6, <1>7, <1>8, <1>9, <1>10, <1>11, <1>12

LEMMA ConfirmStep ==
    ASSUME IInv, NEW l \in Legs, NEW q \in shelf, Confirm(l, q)
    PROVE  IInv'
<1> USE DEF IInv, Rest
<1>1. CASE q.id \in lapsed
    BY <1>1, ShelfShrinks DEF Confirm, Spent, history
<1>2. CASE q.id \notin lapsed
    <2> DEFINE r == Resumed(l, q)
               t == q.turn
    <2>1. /\ leg[l].pc = "new" /\ leg' = [leg EXCEPT ![l] = r]
          /\ shelf' = shelf \ {q} /\ brake' = [brake EXCEPT ![t] = Opened(t, l)]
          /\ told' = [told EXCEPT ![t] = IF @ = "stopped" THEN "answered since" ELSE @]
          /\ UNCHANGED <<stopped, calls, councils, stamps, acted>>
        BY <1>2 DEF Confirm, Arrives, At, Spent
    <2>2. /\ q.id \in Legs /\ t \in Turns /\ q.used \in Nat /\ q.council \in Nat /\ q.seen \in Nat
          /\ MaxSteps \in Nat /\ brake \in [Turns -> Legs \union {NoLeg}] /\ Opened(t, l) \in Legs
        BY TurnAssumption DEF TurnAssumption, Types, Opened
    <2>3. /\ r \in LegType /\ r.pc = "setup" /\ r.turn = t /\ r.sig = Opened(t, l) /\ r.yes = q.id
          /\ r.sure = TRUE /\ r.tool = "final" /\ r.spare = MaxSteps - q.used /\ r.used = q.used
          /\ r.council = q.council /\ r.seen = q.seen
        BY <2>2 DEF Resumed, NewLeg, LegType, Pcs, Tools
    <2> HIDE DEF r
    <2>4. leg' \in [Legs -> LegType] /\ leg'[l] = r /\ \A k \in Legs : k # l => leg'[k] = leg[k]
        BY <2>1, <2>3, SetEffect DEF Types, Only
    <2>5. Types'
        BY <2>1, <2>2, <2>4 DEF Types, Hears
    <2>6. /\ \A k \in Legs : leg[k].pc \in Running => leg[k].turn # t
          /\ \A p \in shelf' : p.turn # t /\ p.id # q.id /\ p \in shelf
          /\ leg[l].pc \notin Running /\ leg[l].pc \notin Ended /\ l # q.id /\ leg[q.id].pc \in Ended
        BY <2>1 DEF OnePlace, Running, Ended
    <2>7. OnePlace'
        <3>1. \A k \in Legs : leg'[k].pc \in Running => leg'[k].turn \in Turns
            BY <2>2, <2>3, <2>4 DEF OnePlace
        <3>2. \A k, m \in Legs :
                 leg'[k].pc \in Running /\ leg'[m].pc \in Running /\ leg'[k].turn = leg'[m].turn => k = m
            BY <2>3, <2>4, <2>6 DEF OnePlace
        <3>3. \A k \in Legs, p \in shelf' : leg'[k].pc \in Running => leg'[k].turn # p.turn
            BY <2>3, <2>4, <2>6 DEF OnePlace
        <3>4. \A p \in shelf' : leg'[p.id].pc \in Ended
            BY <2>4, <2>6 DEF OnePlace, Types
        <3> QED BY <2>6, <3>1, <3>2, <3>3, <3>4 DEF OnePlace
    <2>8. Unstarted'
        <3> SUFFICES ASSUME NEW u \in Turns, leg'[u].pc = "new"
                     PROVE  /\ \A k \in Legs : leg'[k].pc \in Running => leg'[k].turn # u
                            /\ \A p \in shelf' : p.turn # u
                            /\ brake'[u] = NoLeg /\ told'[u] = "nothing"
                            /\ calls'[u] = 0 /\ councils'[u] = 0 /\ stamps'[u] = {}
            BY DEF Unstarted
        <3>1. leg[u].pc = "new" /\ u # t
            BY <2>3, <2>4, TurnAssumption DEF TurnAssumption, Unstarted
        <3>2. brake'[u] = brake[u] /\ told'[u] = told[u]
            BY <2>1, <2>2, <3>1 DEF Types
        <3>3. /\ \A k \in Legs : leg[k].pc \in Running => leg[k].turn # u
              /\ \A p \in shelf : p.turn # u
              /\ brake[u] = NoLeg /\ told[u] = "nothing"
              /\ calls[u] = 0 /\ councils[u] = 0 /\ stamps[u] = {}
            BY <3>1 DEF Unstarted
        <3>4. \A k \in Legs : leg'[k].pc \in Running => leg'[k].turn # u
            BY <2>3, <2>4, <3>1, <3>3
        <3> QED BY <2>1, <2>6, <3>2, <3>3, <3>4
    <2>9. YesUnused'
        <3>1. \A k \in Legs : k # l => Holds(k)' = Holds(k)
            BY <2>4 DEF Holds
        <3>2. \A k \in Legs : k # l /\ Holds(k)' => Held(k)' /\ leg'[k].yes # q.id
            BY <2>1, <2>4, <2>6, <3>1, ZenonT(30) DEF YesUnused, Held
        <3>3. Held(l)'
            <4>1. leg'[q.id] = leg[q.id] /\ acted'[q.id] = 0
                BY <2>1, <2>2, <2>4, <2>6 DEF YesUnused
            <4> QED BY <2>2, <2>3, <2>4, <2>6, <4>1 DEF Held
        <3>4. \A k, m \in Legs : Holds(k)' /\ Holds(m)' /\ leg'[k].yes = leg'[m].yes => k = m
            BY <2>3, <2>4, <3>1, <3>2 DEF YesUnused
        <3>5. /\ \A p \in shelf' : acted'[p.id] = 0
              /\ \A h \in Legs : leg'[h].pc \notin Ended => acted'[h] = 0
              /\ \A h \in Legs : acted'[h] <= 1
            BY <2>1, <2>4, <2>6 DEF YesUnused
        <3>6. \A k \in Legs : leg'[k].pc \in {"ask", "wait"} => leg'[k].sure = FALSE
            BY <2>3, <2>4 DEF YesUnused
        <3> QED BY <3>2, <3>3, <3>4, <3>5, <3>6 DEF YesUnused
    <2>10. CallsCounted'
        <3>1. LegCalls(l)'
            <4>1. calls[t] <= q.used - 1 /\ q.used <= MaxSteps /\ calls[t] \in Nat
                BY <2>2 DEF CallsCounted, Types
            <4>2. /\ leg'[l].pc = "setup" /\ leg'[l].turn = t /\ leg'[l].used = q.used
                  /\ leg'[l].spare = MaxSteps - q.used /\ calls'[t] = calls[t]
                BY <2>1, <2>3, <2>4
            <4> QED BY <2>2, <4>1, <4>2 DEF LegCalls
        <3> QED BY <2>1, <2>4, <2>6, <3>1 DEF CallsCounted, LegCalls, Holds
    <2>11. CouncilsCounted'
        <3>1. LegCouncils(l)'
            BY <2>1, <2>2, <2>3, <2>4 DEF CouncilsCounted, LegCouncils
        <3> QED BY <2>1, <2>4, <2>6, <3>1 DEF CouncilsCounted, LegCouncils
    <2>12. StampsCounted'
        <3>1. LegStamps(l)'
            BY <2>1, <2>2, <2>3, <2>4 DEF StampsCounted, LegStamps
        <3> QED BY <2>1, <2>4, <2>6, <3>1 DEF StampsCounted, LegStamps
    <2>13. HaltKnown'
        <3>1. brake'[t] = Opened(t, l) /\ told'[t] # "stopped"
            BY <2>1, <2>2 DEF Types
        <3>2. \A u \in Turns : u # t => brake'[u] = brake[u] /\ told'[u] = told[u]
            BY <2>1, <2>2 DEF Types
        <3>3. ASSUME NEW k \in Legs, leg'[k].pc \in Running
              PROVE  /\ brake'[leg'[k].turn] # NoLeg => leg'[k].sig = brake'[leg'[k].turn]
                     /\ told'[leg'[k].turn] = "stopped" => leg'[k].sig \in stopped'
            <4>1. CASE k = l
                BY <2>3, <2>4, <3>1, <4>1
            <4>2. CASE k # l
                <5>1. leg'[k] = leg[k] /\ leg[k].pc \in Running
                    BY <2>4, <3>3, <4>2
                <5>2. leg[k].turn \in Turns /\ leg[k].turn # t
                    BY <2>2, <2>6, <4>2, <5>1 DEF OnePlace
                <5>3. /\ brake[leg[k].turn] # NoLeg => leg[k].sig = brake[leg[k].turn]
                      /\ told[leg[k].turn] = "stopped" => leg[k].sig \in stopped
                    BY <5>1 DEF HaltKnown
                <5>4. brake'[leg[k].turn] = brake[leg[k].turn] /\ told'[leg[k].turn] = told[leg[k].turn]
                    BY <3>2, <5>2
                <5>5. stopped' = stopped
                    BY <2>1
                <5> QED BY <5>1, <5>3, <5>4, <5>5
            <4> QED BY <4>1, <4>2
        <3> QED BY <3>3 DEF HaltKnown
    <2> QED BY <2>5, <2>7, <2>8, <2>9, <2>10, <2>11, <2>12, <2>13
<1> QED BY <1>1, <1>2

LEMMA HaltStep ==
    ASSUME IInv, NEW t \in Turns, Halt(t)
    PROVE  IInv'
<1> USE DEF IInv, Rest, Halt
<1>1. Types'
    BY DEF Types, Hears
<1>2. /\ \A u \in Turns : u # t => told'[u] = told[u]
      /\ brake[t] \in stopped' /\ stopped \subseteq stopped'
    BY DEF Types
<1>3. OnePlace' BY DEF OnePlace
<1>4. Unstarted' BY <1>2 DEF Unstarted
<1>5. YesUnused' BY DEF YesUnused, Holds, Held
<1>6. CallsCounted' BY DEF CallsCounted, LegCalls, Holds
<1>7. CouncilsCounted' BY DEF CouncilsCounted, LegCouncils
<1>8. StampsCounted' BY DEF StampsCounted, LegStamps
<1>9. HaltKnown' BY <1>2 DEF HaltKnown, OnePlace
<1> QED BY <1>1, <1>3, <1>4, <1>5, <1>6, <1>7, <1>8, <1>9

LEMMA RestartStep ==
    ASSUME IInv, Restart
    PROVE  IInv'
<1> USE DEF IInv, Rest
<1>1. Over \in LegType /\ Over.pc = "done"
    BY NewLegType DEF Over, LegType, Pcs
<1>2. /\ leg' \in [Legs -> LegType]
      /\ \A k \in Legs : \/ leg[k].pc = "new" /\ leg'[k] = leg[k]
                         \/ leg[k].pc # "new" /\ leg'[k].pc = "done"
      /\ brake' = [t \in Turns |-> NoLeg] /\ stopped' = {} /\ shelf' = {} /\ UNCHANGED history
    BY <1>1 DEF Restart, At, Types
<1>3. \A k \in Legs : leg'[k].pc \notin Running /\ ~Holds(k)' /\ leg'[k].pc \notin {"ask", "wait"}
    BY <1>2 DEF Running, Holds
<1>4. Types' BY <1>2 DEF Types, history
<1>5. OnePlace' BY <1>2, <1>3 DEF OnePlace
<1>6. Unstarted' BY <1>2, <1>3, TurnAssumption DEF TurnAssumption, Unstarted, history
<1>7. YesUnused'
    <2>1. \A h \in Legs : leg'[h].pc \notin Ended => leg[h].pc \notin Ended
        BY <1>2 DEF Ended
    <2> QED BY <1>2, <1>3, <2>1 DEF YesUnused, history
<1>8. CallsCounted' BY <1>2, <1>3 DEF CallsCounted, LegCalls, history
<1>9. CouncilsCounted' BY <1>2, <1>3 DEF CouncilsCounted, LegCouncils, history
<1>10. StampsCounted' BY <1>2, <1>3 DEF StampsCounted, LegStamps, history
<1>11. HaltKnown' BY <1>3 DEF HaltKnown
<1> QED BY <1>4, <1>5, <1>6, <1>7, <1>8, <1>9, <1>10, <1>11

LEMMA OfferStep ==
    ASSUME IInv, NEW l \in Legs, Offer(l)
    PROVE  IInv'
<1> USE DEF IInv, Rest
<1>1. PICK n : shelf' = Kept \union {Asked(l, n)}
    BY DEF Offer
<1> DEFINE q == Asked(l, n)
           t == leg[l].turn
<1>2. /\ leg[l].pc = "call" /\ leg[l].tool = "final" /\ leg[l].sure = FALSE
      /\ Goto(l, "asked") /\ UNCHANGED <<brake, stopped, history>>
    BY DEF Offer, At, Types, LegType
<1>3. /\ q.id = l /\ q.turn = t /\ q.used = leg[l].used /\ q.council = leg[l].council
      /\ q.seen = leg[l].seen
    BY DEF Asked
<1> HIDE DEF q
<1>4. shelf' = Kept \union {q} /\ Kept \subseteq shelf /\ \A p \in shelf' : p = q \/ p \in shelf
    BY <1>1 DEF Kept, q
<1>5. /\ leg' \in [Legs -> LegType] /\ leg'[l].pc = "asked"
      /\ \A k \in Legs : k # l => leg'[k] = leg[k]
    BY <1>2, GotoEffect DEF Types, Pcs, Only
<1>6. /\ leg[l].pc \in Running /\ leg[l].pc \notin Ended /\ leg'[l].pc \notin Running /\ leg'[l].pc \in Ended
      /\ leg'[l].pc # "new" /\ leg[l].pc # "new" /\ ~Holds(l)
    BY <1>2, <1>5 DEF Running, Ended, Holds
<1>7. /\ t \in Turns /\ leg[l].used \in Nat /\ leg[l].council \in Nat /\ leg[l].seen \in Nat
      /\ leg[l].spare \in Int /\ MaxSteps \in Nat
    BY <1>6, TurnAssumption DEF TurnAssumption, Types, LegType, OnePlace
<1>8. Types'
    BY <1>2, <1>3, <1>4, <1>5, <1>7 DEF Types, history
<1>9. \A p \in shelf : p.turn # t /\ p.id # l
    BY <1>6 DEF OnePlace
<1>10. OnePlace'
    <2>1. /\ \A k \in Legs : leg'[k].pc \in Running => leg'[k].turn \in Turns
          /\ \A k, m \in Legs :
                leg'[k].pc \in Running /\ leg'[m].pc \in Running /\ leg'[k].turn = leg'[m].turn => k = m
        BY <1>5, <1>6 DEF OnePlace
    <2>2. \A k \in Legs, p \in shelf' : leg'[k].pc \in Running => leg'[k].turn # p.turn
        BY <1>3, <1>4, <1>5, <1>6 DEF OnePlace
    <2>3. \A p, r \in shelf' : p.turn = r.turn \/ p.id = r.id => p = r
        BY <1>3, <1>4, <1>9 DEF OnePlace
    <2>4. \A p \in shelf' : leg'[p.id].pc \in Ended
        BY <1>3, <1>4, <1>5, <1>6, <1>9 DEF OnePlace, Types
    <2> QED BY <2>1, <2>2, <2>3, <2>4 DEF OnePlace
<1>11. Unstarted'
    <2>1. \A u \in Turns : leg'[u].pc = "new" => leg[u].pc = "new" /\ u # t
        BY <1>5, <1>6, TurnAssumption DEF TurnAssumption, Unstarted
    <2> QED BY <1>2, <1>3, <1>4, <1>5, <1>6, <2>1 DEF Unstarted, history
<1>12. YesUnused'
    <2>1. \A k \in Legs : Holds(k)' => k # l /\ Holds(k) /\ leg'[k] = leg[k]
        BY <1>5 DEF Holds
    <2>2. \A k \in Legs : Holds(k)' => Held(k)'
        BY <1>2, <1>3, <1>4, <1>5, <1>6, <2>1 DEF YesUnused, Held, history
    <2>3. \A p \in shelf' : acted'[p.id] = 0
        BY <1>2, <1>3, <1>4, <1>6 DEF YesUnused, history
    <2>4. \A h \in Legs : leg'[h].pc \notin Ended => leg[h].pc \notin Ended
        BY <1>5, <1>6
    <2>5. \A k \in Legs : leg'[k].pc \in {"ask", "wait"} => leg'[k].sure = FALSE
        BY <1>5 DEF YesUnused
    <2> QED BY <1>2, <2>1, <2>2, <2>3, <2>4, <2>5 DEF YesUnused, history
<1>13. CallsCounted'
    <2>1. calls[t] <= q.used - 1 /\ q.used <= MaxSteps
        BY <1>2, <1>3, <1>6, <1>7 DEF CallsCounted, LegCalls
    <2> QED BY <1>2, <1>3, <1>4, <1>5, <1>6, <2>1 DEF CallsCounted, LegCalls, Holds, history
<1>14. CouncilsCounted'
    <2>1. councils[t] <= q.council /\ q.council <= CouncilBudget
        BY <1>2, <1>3, <1>6 DEF CouncilsCounted, LegCouncils
    <2> QED BY <1>2, <1>3, <1>4, <1>5, <1>6, <2>1 DEF CouncilsCounted, LegCouncils, history
<1>15. StampsCounted'
    <2>1. \A m \in stamps[t] : m <= q.seen
        BY <1>2, <1>3, <1>6 DEF StampsCounted, LegStamps
    <2> QED BY <1>2, <1>3, <1>4, <1>5, <1>6, <2>1 DEF StampsCounted, LegStamps, history
<1>16. HaltKnown'
    BY <1>2, <1>5, <1>6 DEF HaltKnown, history
<1> QED BY <1>8, <1>10, <1>11, <1>12, <1>13, <1>14, <1>15, <1>16

-----------------------------------------------------------------------------
(* A tool runs *)

LEMMA InvokeFacts ==
    ASSUME IInv, NEW l \in Legs, Invoke(l)
    PROVE  /\ leg[l].pc = "call" /\ leg[l].sig \notin stopped /\ leg[l].turn \in Turns
           /\ leg[l].tool = "final" => leg[l].sure = TRUE
           /\ Goto(l, "run") /\ UNCHANGED <<registries, told>>
           /\ calls' = [calls EXCEPT ![leg[l].turn] = @ + 1]
           /\ stamps' = [stamps EXCEPT ![leg[l].turn] = @ \union {leg[l].seen + 1}]
BY DEF Invoke, Ready, At, Braked, Halted, IInv, Types, LegType, Rest, OnePlace, Running

LEMMA InvokeStep ==
    ASSUME IInv, NEW l \in Legs, Invoke(l)
    PROVE  IInv'
<1> USE DEF IInv, Rest
<1> DEFINE t == leg[l].turn
<1>1. /\ leg[l].pc = "call" /\ t \in Turns /\ UNCHANGED <<registries, told>>
      /\ calls' = [calls EXCEPT ![t] = @ + 1]
      /\ councils' = [councils EXCEPT ![t] = IF leg[l].tool = "council" THEN @ + 1 ELSE @]
      /\ stamps' = [stamps EXCEPT ![t] = @ \union {leg[l].seen + 1}]
      /\ acted' = IF leg[l].sure = TRUE THEN [acted EXCEPT ![leg[l].yes] = @ + 1] ELSE acted
    BY InvokeFacts DEF Invoke, Types, LegType
<1>2. /\ leg' \in [Legs -> LegType] /\ SameTurn(l) /\ leg'[l].pc = "run"
      /\ leg'[l].spare = leg[l].spare /\ leg'[l].used = leg[l].used
      /\ leg'[l].council = leg[l].council /\ leg'[l].seen = leg[l].seen
      /\ \A k \in Legs : k # l => leg'[k] = leg[k]
    BY InvokeFacts, GotoEffect DEF Types, Pcs, Only
<1>3. /\ leg[l].pc \in Running /\ leg'[l].pc \in Running /\ leg[l].pc \notin Ended /\ leg'[l].pc \notin Ended
      /\ leg[l].pc # "new" /\ leg'[l].pc # "new" /\ ~Holds(l)' /\ leg'[l].turn = t /\ leg'[l].sig = leg[l].sig
    BY <1>1, <1>2 DEF Running, Ended, Holds, SameTurn
<1>4. /\ leg[l].used \in Nat /\ leg[l].council \in Nat /\ leg[l].seen \in Nat /\ leg[l].spare \in Int
      /\ calls[t] \in Nat /\ councils[t] \in Nat /\ stamps[t] \subseteq Nat
      /\ MaxSteps \in Nat /\ CouncilBudget \in Nat
    BY <1>1, TurnAssumption DEF TurnAssumption, Types, LegType
<1>5. leg[l].sure = TRUE => leg[l].yes \in Legs /\ acted[leg[l].yes] = 0 /\ leg[leg[l].yes].pc \in Ended
    BY <1>1 DEF YesUnused, Held, Holds
<1>6. /\ calls'[t] = calls[t] + 1 /\ stamps'[t] = stamps[t] \union {leg[l].seen + 1}
      /\ councils'[t] = IF leg[l].tool = "council" THEN councils[t] + 1 ELSE councils[t]
      /\ \A u \in Turns : u # t => calls'[u] = calls[u] /\ councils'[u] = councils[u] /\ stamps'[u] = stamps[u]
    BY <1>1 DEF Types
<1>7. /\ \A k \in Legs : k # l /\ leg[k].pc \in Running => leg[k].turn \in Turns /\ leg[k].turn # t
      /\ \A q \in shelf : q.turn \in Turns /\ q.turn # t
    BY <1>3 DEF OnePlace, Types
<1>8. Types'
    BY <1>1, <1>2, <1>4, <1>5 DEF Types, registries
<1>9. OnePlace'
    <2>1. \A k \in Legs : leg'[k].turn = leg[k].turn /\ (leg'[k].pc \in Running <=> leg[k].pc \in Running)
        BY <1>2, <1>3
    <2>2. \A k \in Legs : leg'[k].pc \in Ended <=> leg[k].pc \in Ended
        BY <1>2, <1>3
    <2> QED BY <1>1, <2>1, <2>2 DEF OnePlace, Types, registries
<1>10. Unstarted'
    <2>1. \A u \in Turns : leg'[u].pc = "new" => leg[u].pc = "new" /\ u # t
        BY <1>2, <1>3, TurnAssumption DEF TurnAssumption, Unstarted
    <2>2. \A k \in Legs : leg'[k].turn = leg[k].turn /\ (leg'[k].pc \in Running <=> leg[k].pc \in Running)
        BY <1>2, <1>3
    <2> QED BY <1>1, <1>6, <2>1, <2>2 DEF Unstarted, registries
<1>11. YesUnused'
    <2>1. \A k \in Legs : Holds(k)' => k # l /\ Holds(k) /\ leg'[k] = leg[k]
        BY <1>2, <1>3 DEF Holds
    <2>2. \A h \in Legs : acted'[h] = acted[h] \/ (leg[l].sure = TRUE /\ h = leg[l].yes /\ acted'[h] = 1)
        BY <1>1, <1>5 DEF Types
    <2>3. leg[l].sure = TRUE => Holds(l)
        BY <1>1 DEF Holds
    <2>4. \A k \in Legs : leg'[k].pc \in Ended <=> leg[k].pc \in Ended
        BY <1>2, <1>3
    <2>5. \A k \in Legs : Holds(k)' => Held(k)'
        <3>1. \A k \in Legs : Holds(k)' => acted'[leg[k].yes] = 0
            BY <2>1, <2>2, <2>3 DEF YesUnused, Held
        <3> QED BY <1>1, <2>1, <2>4, <3>1 DEF YesUnused, Held, registries
    <2>6. \A q \in shelf : acted'[q.id] = 0
        BY <2>2, <2>3 DEF YesUnused, Held, Types
    <2>7. \A h \in Legs : leg'[h].pc \notin Ended => acted'[h] = 0
        BY <1>5, <2>2, <2>4 DEF YesUnused
    <2>8. \A h \in Legs : acted'[h] <= 1
        BY <2>2 DEF YesUnused
    <2>9. \A k \in Legs : leg'[k].pc \in {"ask", "wait"} => leg'[k].sure = FALSE
        BY <1>2 DEF YesUnused
    <2> QED BY <1>1, <2>1, <2>5, <2>6, <2>7, <2>8, <2>9 DEF YesUnused, registries
<1>12. CallsCounted'
    <2>1. calls[t] <= leg[l].used - 1 /\ leg[l].spare >= 0 /\ leg[l].used + leg[l].spare <= MaxSteps
        BY <1>1, <1>3 DEF CallsCounted, LegCalls
    <2>2. calls'[t] <= MaxSteps
        BY <1>4, <1>6, <2>1
    <2>3. LegCalls(l)'
        BY <1>2, <1>3, <1>4, <1>6, <2>1 DEF LegCalls
    <2>4. \A k \in Legs : k # l => LegCalls(k)'
        BY <1>2, <1>6, <1>7 DEF CallsCounted, LegCalls, Holds
    <2> QED BY <1>1, <1>6, <1>7, <2>2, <2>3, <2>4 DEF CallsCounted, registries
<1>13. CouncilsCounted'
    <2>1. councils'[t] <= leg[l].council /\ leg[l].council <= CouncilBudget
        BY <1>1, <1>3, <1>4, <1>6 DEF CouncilsCounted, LegCouncils
    <2>2. councils'[t] <= CouncilBudget
        BY <1>4, <1>6, <2>1
    <2>3. LegCouncils(l)'
        BY <1>2, <1>3, <2>1 DEF LegCouncils
    <2>4. \A k \in Legs : k # l => LegCouncils(k)'
        BY <1>2, <1>6, <1>7 DEF CouncilsCounted, LegCouncils
    <2> QED BY <1>1, <1>6, <1>7, <2>2, <2>3, <2>4 DEF CouncilsCounted, registries
<1>14. StampsCounted'
    <2>1. \A n \in stamps[t] : n <= leg[l].seen
        BY <1>1, <1>3 DEF StampsCounted, LegStamps
    <2>2. IsFiniteSet(stamps[t]) /\ Cardinality(stamps[t]) = calls[t] /\ leg[l].seen + 1 \notin stamps[t]
        BY <1>1, <1>4, <2>1 DEF StampsCounted
    <2>3. IsFiniteSet(stamps'[t]) /\ Cardinality(stamps'[t]) = calls'[t]
        <3> DEFINE S == stamps[t]
                   n == leg[l].seen + 1
        <3>1. IsFiniteSet(S) /\ n \notin S
            BY <2>2
        <3> HIDE DEF S, n
        <3>2. IsFiniteSet(S \union {n}) /\ Cardinality(S \union {n}) = Cardinality(S) + 1
            BY <3>1, FS_AddElement
        <3> QED BY <1>6, <2>2, <3>2 DEF S, n
    <2>4. LegStamps(l)'
        BY <1>2, <1>3, <1>4, <1>6, <2>1 DEF LegStamps
    <2>5. \A k \in Legs : k # l => LegStamps(k)'
        BY <1>2, <1>6, <1>7 DEF StampsCounted, LegStamps
    <2> QED BY <1>1, <1>6, <1>7, <2>3, <2>4, <2>5 DEF StampsCounted, registries
<1>15. HaltKnown'
    BY <1>1, <1>2, <1>3 DEF HaltKnown, registries
<1> QED BY <1>8, <1>9, <1>10, <1>11, <1>12, <1>13, <1>14, <1>15

-----------------------------------------------------------------------------
(* The invariant *)

\* The steps of completions: no leg and no registry moves.
FlightStep ==
    \/ \E l \in Legs : ToolAsks(l)
    \/ \E c \in Councils, s \in 1 .. Seats : CouncilAsks(c, s)
    \/ \E x \in flight : Lands(x)

LEMMA FlightMovesNothing ==
    ASSUME FlightStep
    PROVE  UNCHANGED <<leg, registries, settings, history>>
BY DEF FlightStep, ToolAsks, CouncilAsks, Lands

LEMMA InitIInv == Init => IInv
<1> SUFFICES ASSUME Init PROVE IInv
    OBVIOUS
<1> USE DEF Init
<1>1. \A l \in Legs : leg[l] = NewLeg /\ leg[l].pc = "new"
    BY DEF NewLeg
<1>2. Types BY <1>1, NewLegType DEF Types, Hears
<1>3. \A l \in Legs : leg[l].pc \notin Running /\ ~Holds(l) /\ leg[l].pc \notin {"ask", "wait"}
    BY <1>1 DEF Running, Holds
<1>4. OnePlace /\ Unstarted /\ YesUnused /\ HaltKnown
    BY <1>1, <1>3 DEF OnePlace, Unstarted, YesUnused, HaltKnown
<1>5. CallsCounted /\ CouncilsCounted
    BY <1>3, TurnAssumption DEF TurnAssumption, CallsCounted, CouncilsCounted, LegCalls, LegCouncils
<1>6. StampsCounted
    BY <1>3, FS_EmptySet DEF StampsCounted, LegStamps
<1> QED BY <1>2, <1>4, <1>5, <1>6 DEF IInv, Rest

LEMMA NextIInv == IInv /\ [Next]_vars => IInv'
<1> SUFFICES ASSUME IInv, [Next]_vars PROVE IInv'
    OBVIOUS
<1>1. CASE \E l \in Legs : \/ LegStep(l) /\ ~ToolAsks(l)
                           \/ SetupFails(l) \/ AskFails(l) \/ AuthoriseFails(l) \/ CouncilBreaks(l) \/ Disconnect(l)
    BY <1>1, QuietStep, OfferStep, InvokeStep DEF LegStep
<1>2. CASE \E l \in Legs : Start(l)
    BY <1>2, StartStep
<1>3. CASE \E l \in Legs : Lapse(l)
    BY <1>3, ShelfShrinks DEF Lapse
<1>4. CASE \E l \in Legs : \E q \in shelf : Confirm(l, q)
    BY <1>4, ConfirmStep
<1>5. CASE \E t \in Turns : Halt(t)
    BY <1>5, HaltStep
<1>6. CASE Restart
    BY <1>6, RestartStep
<1>7. CASE UNCHANGED vars
    BY <1>7, ShelfShrinks DEF vars, registries
<1>8. CASE FlightStep
    BY <1>8, FlightMovesNothing, ShelfShrinks DEF registries
<1> QED BY <1>1, <1>2, <1>3, <1>4, <1>5, <1>6, <1>7, <1>8 DEF Next, FlightStep

\* The invariant holds in every state: Init gives it and every step keeps it.
THEOREM Invariance == Spec => []IInv
BY InitIInv, NextIInv, PTL DEF Spec

-----------------------------------------------------------------------------
(* What follows *)

\* A yes runs its irreversible call at most once (pending.py's claim), for every
\* number of requests, restarts and disconnects.
THEOREM YesIsUsedOnce == Spec => []OneEffectPerYes
<1>1. IInv => OneEffectPerYes
    BY DEF IInv, Rest, YesUnused, OneEffectPerYes
<1> QED BY <1>1, Invariance, PTL

\* A turn makes at most MAX_TURN_STEPS calls and one council, each under a step
\* number of its own, over all its legs.
THEOREM TurnStaysInAllowance == Spec => []TurnAllowance
<1>1. IInv => TurnAllowance
    BY DEF IInv, Rest, CallsCounted, CouncilsCounted, StampsCounted, TurnAllowance
<1> QED BY <1>1, Invariance, PTL

\* What no step of a leg changes but the one it is for.
LEMMA LegKeeps ==
    ASSUME NEW l \in Legs,
           \/ Start(l) \/ LegStep(l) \/ SetupFails(l) \/ AskFails(l) \/ AuthoriseFails(l)
           \/ CouncilBreaks(l) \/ Disconnect(l)
    PROVE  /\ stopped' = stopped /\ settings' = settings /\ (faults' = faults \/ Fault)
           /\ Offer(l) \/ (shelf' = shelf /\ lapsed' = lapsed)
           /\ Invoke(l) \/ calls' = calls
<1> DEFINE Keeps == /\ stopped' = stopped /\ settings' = settings /\ (faults' = faults \/ Fault)
                    /\ Offer(l) \/ (shelf' = shelf /\ lapsed' = lapsed)
                    /\ Invoke(l) \/ calls' = calls
<1>1. CASE Start(l) \/ SetupFails(l) \/ AskFails(l) \/ AuthoriseFails(l)
    BY <1>1 DEF Start, SetupFails, AskFails, AuthoriseFails, registries, history
<1>2. CASE CouncilBreaks(l) \/ Disconnect(l) \/ Stream(l) \/ AskOrEnd(l)
    BY <1>2 DEF CouncilBreaks, Disconnect, Stream, AskOrEnd, registries, history
<1>3. CASE ReplyEnds(l) \/ ReplyCapped(l) \/ ProviderFails(l) \/ \E k \in Tools : ReplyTool(l, k)
    <2>1. CASE Book
        <3>1. faults' = faults \/ Fault
            BY <2>1 DEF Book
        <3> QED BY <1>3, <3>1 DEF ReplyEnds, ReplyCapped, ProviderFails, ReplyTool, registries, history
    <2>2. CASE ProviderFails(l)
        BY <2>2 DEF ProviderFails, registries, history
    <2> QED BY <1>3, <2>1, <2>2 DEF ReplyEnds, ReplyCapped, ReplyTool
<1>4. CASE Refuse(l) \/ Offer(l) \/ StopHere(l)
    BY <1>4 DEF Refuse, Offer, StopHere, registries, history
<1>5. CASE Invoke(l) \/ ToolAsks(l) \/ Return(l) \/ Close(l)
    BY <1>5 DEF Invoke, ToolAsks, Return, Close, registries, history
<1> QED BY <1>1, <1>2, <1>3, <1>4, <1>5 DEF LegStep

\* Only Invoke counts a call, and it looks at the signal of its leg.
LEMMA CallIsInvoked ==
    ASSUME IInv, Next, NEW t \in Turns, calls'[t] # calls[t]
    PROVE  \E l \in Legs : Invoke(l) /\ leg[l].turn = t
<1>1. PICK l \in Legs : Invoke(l)
    <2>1. ~FlightStep
        BY FlightMovesNothing DEF history
    <2>2. ASSUME NEW l \in Legs, (\E q \in shelf : Confirm(l, q)) \/ Lapse(l) PROVE FALSE
        BY <2>2 DEF Confirm, Lapse, history
    <2>3. ~Restart /\ \A s \in Turns : ~Halt(s)
        BY DEF Halt, Restart, history
    <2> QED BY <2>1, <2>2, <2>3, LegKeeps DEF Next, FlightStep
<1>2. calls \in [Turns -> Nat] /\ calls' = [calls EXCEPT ![leg[l].turn] = @ + 1]
    BY <1>1, InvokeFacts DEF IInv, Types
<1>3. leg[l].turn = t
    BY <1>2
<1> QED BY <1>1, <1>3

\* After a halt that was heard nothing runs in the turn until a question of it is
\* answered.
THEOREM HaltIsKept == Spec => HaltHolds
<1>1. IInv /\ [Next]_vars => [\A t \in Turns : told[t] = "stopped" => calls'[t] = calls[t]]_vars
    <2> SUFFICES ASSUME IInv, Next, NEW t \in Turns, told[t] = "stopped", calls'[t] # calls[t]
                 PROVE  FALSE
        OBVIOUS
    <2>1. PICK l \in Legs : Invoke(l) /\ leg[l].turn = t
        BY CallIsInvoked
    <2>2. leg[l].pc \in Running /\ leg[l].sig \notin stopped
        BY <2>1, InvokeFacts DEF Running
    <2> QED BY <2>1, <2>2 DEF IInv, Rest, HaltKnown
<1> QED BY <1>1, Invariance, PTL DEF Spec, HaltHolds

-----------------------------------------------------------------------------
(* What is in flight *)

\* A council that a leg convened has a number of its own in its turn.
Numbered(r) == r.tool = "council" => r.council >= 1

LEMMA NumberedStep ==
    ASSUME IInv, [Next]_vars, NEW l \in Legs, Numbered(leg[l])
    PROVE  Numbered(leg'[l])
<1>1. leg \in [Legs -> LegType]
    BY DEF IInv, Types
<1>2. ASSUME NEW k \in Legs, Only(k), k = l => leg'[l].tool = leg[l].tool /\ leg'[l].council = leg[l].council
      PROVE  Numbered(leg'[l])
    BY <1>2 DEF Only, Numbered
<1>3. ASSUME NEW k \in Legs, NEW pc \in Pcs, Goto(k, pc) PROVE Numbered(leg'[l])
    BY <1>1, <1>2, <1>3, GotoEffect
<1>4. ASSUME NEW k \in Legs, NEW r, leg' = [leg EXCEPT ![k] = r], r.tool # "council"
      PROVE  Numbered(leg'[l])
    BY <1>1, <1>4 DEF Numbered
<1>5. ASSUME NEW k \in Legs, Start(k) PROVE Numbered(leg'[l])
    <2>1. [NewLeg EXCEPT !.pc = "setup", !.turn = k, !.sig = k, !.spare = MaxSteps].tool = "plain"
        BY DEF NewLeg
    <2> QED BY <1>4, <1>5, <2>1 DEF Start
<1>6. ASSUME NEW k \in Legs, NEW q \in shelf, Confirm(k, q) PROVE Numbered(leg'[l])
    <2>1. Resumed(k, q).tool = "final"
        BY DEF Resumed
    <2> QED BY <1>4, <1>6, <2>1 DEF Confirm
<1>7. Over.tool = "plain"
    BY DEF Over, NewLeg
<1>8. ASSUME NEW k \in Legs, SetupFails(k) \/ Close(k) PROVE Numbered(leg'[l])
    BY <1>4, <1>7, <1>8 DEF SetupFails, Close
<1>9. ASSUME NEW k \in Legs,
             \/ Stream(k) \/ ReplyEnds(k) \/ ProviderFails(k) \/ Offer(k) \/ StopHere(k) \/ Invoke(k)
             \/ AskFails(k) \/ Disconnect(k)
      PROVE  Numbered(leg'[l])
    BY <1>3, <1>9 DEF Stream, ReplyEnds, ProviderFails, Offer, StopHere, Invoke, AskFails, Disconnect, Pcs
<1>10. ASSUME NEW k \in Legs, ReplyCapped(k) \/ AuthoriseFails(k) \/ CouncilBreaks(k) \/ Refuse(k) \/ Return(k)
       PROVE  Numbered(leg'[l])
    <2>1. Only(k) /\ leg'[k].tool = leg[k].tool /\ leg'[k].council = leg[k].council
        BY <1>1, <1>10, ObserveEffect, ReturnEffect DEF ReplyCapped, AuthoriseFails, CouncilBreaks, Refuse, Return
    <2> QED BY <1>2, <2>1
<1>11. ASSUME NEW k \in Legs, NEW t \in Tools, ReplyTool(k, t) PROVE Numbered(leg'[l])
    <2>1. Only(k) /\ leg'[k].tool = t /\ leg[k].council \in Nat
          /\ leg'[k].council = IF t = "council" THEN leg[k].council + 1 ELSE leg[k].council
        BY <1>1, <1>11, ToolEffect DEF LegType
    <2>2. CASE k = l
        BY <2>1, <2>2 DEF Numbered
    <2>3. CASE k # l
        BY <1>2, <2>1, <2>3
    <2> QED BY <2>2, <2>3
<1>12. ASSUME NEW k \in Legs, AskOrEnd(k) PROVE Numbered(leg'[l])
    <2>1. CASE Goto(k, "close")
        BY <1>3, <2>1 DEF Pcs
    <2>2. CASE leg' = [leg EXCEPT ![k].pc = "wait", ![k].spare = @ - 1]
        BY <1>1, <1>2, <2>2, WaitEffect
    <2> QED BY <1>12, <2>1, <2>2 DEF AskOrEnd
<1>13. CASE Restart
    BY <1>7, <1>13 DEF Restart, Numbered
<1>14. CASE leg' = leg
    BY <1>14
<1>15. CASE FlightStep
    BY <1>14, <1>15, FlightMovesNothing
<1> QED
    BY <1>5, <1>6, <1>8, <1>9, <1>10, <1>11, <1>12, <1>13, <1>14, <1>15
       DEF Next, LegStep, FlightStep, Halt, Lapse, vars

\* What is in flight and what goes on by itself; under a cap the completion a leg waits
\* for is among it.
Flown ==
    /\ \A l \in Legs : Numbered(leg[l])
    /\ flight \subseteq Completions /\ loose \subseteq Councils
    /\ Metered => \A l \in Legs : leg[l].pc = "wait" => Own(l) \in flight

LEMMA OwnsApart ==
    /\ \A l, k \in Legs : Own(l) = Own(k) => l = k
    /\ \A l \in Legs : Own(l) \in Completions
    /\ \A c \in Councils, s \in 1 .. Seats : <<c, s>> \in Completions
    /\ \A l \in Legs : \A c : Own(l) \notin OfCouncil(c)
<1>1. \A l \in Legs : Own(l) \in (Legs \X {0}) \X {0}
    BY DEF Own
<1>2. ASSUME NEW l \in Legs, NEW c, NEW s \in 1 .. Seats, Own(l) = <<c, s>> PROVE FALSE
    BY <1>2 DEF Own
<1> QED BY <1>1, <1>2 DEF Own, Completions, OfCouncil

LEMMA ConvenedIsCouncil ==
    ASSUME IInv, Flown, NEW l \in Legs, Sits(l)
    PROVE  Convened(l) \in Councils
<1>1. leg[l].turn \in Turns /\ leg[l].council \in Nat /\ leg[l].council <= CouncilBudget
    BY DEF Sits, At, IInv, Types, LegType, Rest, OnePlace, Running, CouncilsCounted, LegCouncils
<1>2. leg[l].council >= 1
    BY DEF Flown, Numbered, Sits
<1>3. leg[l].council \in 1 .. CouncilBudget
    BY <1>1, <1>2, TurnAssumption DEF TurnAssumption
<1> QED BY <1>1, <1>3 DEF Convened, Councils

-----------------------------------------------------------------------------
(* The account's cap *)

\* A step ends completions and books nothing, or ends one and books at most its price,
\* or sends one below the cap.
Books ==
    /\ settings' = settings /\ booked' \in Nat
    /\ \/ peak' = peak /\ flight' \subseteq flight /\ booked' = booked
       \/ peak' = peak /\ \E x \in flight : flight' = flight \ {x} /\ booked' <= booked + Cost
       \/ booked' = booked /\ MayAsk /\ \E x \in Completions : Sends(x)
\* Councils that go on are councils, and who waits under a cap has asked.
Flies ==
    /\ loose' \subseteq Councils
    /\ Metered => \A l \in Legs : leg'[l].pc = "wait" => Own(l) \in flight'

\* No leg begins to wait, and k waits no more.
Rests(k) == \A l \in Legs : leg'[l].pc = "wait" => l # k /\ leg[l].pc = "wait"

LEMMA OnlyRests ==
    ASSUME NEW k \in Legs, Only(k), leg'[k].pc # "wait"
    PROVE  Rests(k)
BY DEF Only, Rests

\* The step of a leg that ends what it waited for, or part of what its council asked.
LEMMA LegFlies ==
    ASSUME Flown, NEW k \in Legs, Rests(k), loose' \subseteq Councils, NEW S, flight' = flight \ S,
           \A x \in S : x = Own(k) \/ \E c : x \in OfCouncil(c)
    PROVE  Flies
<1> SUFFICES ASSUME Metered, NEW l \in Legs, leg'[l].pc = "wait" PROVE Own(l) \in flight'
    BY DEF Flies
<1>1. l # k /\ leg[l].pc = "wait"
    BY DEF Rests
<1>2. Own(l) \in flight
    BY <1>1 DEF Flown
<1>3. Own(l) \notin S
    BY <1>1, OwnsApart
<1> QED BY <1>2, <1>3

LEMMA KeptFlies ==
    ASSUME Flown, NEW k \in Legs, Rests(k), loose' \subseteq Councils, flight' = flight
    PROVE  Flies
BY DEF Flown, Rests, Flies

LEMMA QuietBooks ==
    ASSUME Flown, booked \in Nat, NEW k \in Legs, Rests(k), UNCHANGED <<settings, booked, asking>>
    PROVE  Books /\ Flies
<1>1. flight' = flight /\ loose' \subseteq Councils
    BY DEF asking, Flown
<1>2. Flies
    BY <1>1, KeptFlies
<1> QED BY <1>2 DEF Books, asking

LEMMA ReplyBooks ==
    ASSUME Flown, settings \in [room : Nat, cap : Nat], booked \in Nat, NEW k \in Legs, Rests(k),
           leg[k].pc = "wait", Book, Ends(Own(k)), settings' = settings
    PROVE  Books /\ Flies
<1>1. flight' = flight \ {Own(k)} /\ loose' \subseteq Councils /\ peak' = peak
    BY DEF Ends, Flown
<1>2. Flies
    BY <1>1, LegFlies
<1>3. CASE Metered
    <2>1. Own(k) \in flight
        BY <1>3 DEF Flown
    <2>2. booked' \in Nat /\ booked' <= booked + Cost
        BY TurnAssumption DEF Book, TurnAssumption
    <2> QED BY <1>1, <1>2, <2>1, <2>2 DEF Books
<1>4. CASE ~Metered
    <2>1. booked' = booked
        BY <1>4 DEF Book, Metered
    <2> QED BY <1>1, <1>2, <2>1 DEF Books
<1> QED BY <1>3, <1>4

LEMMA EndBooks ==
    ASSUME Flown, booked \in Nat, NEW k \in Legs, ProviderFails(k) \/ Disconnect(k), Rests(k)
    PROVE  Books /\ Flies
<1>1. PICK S : flight' = flight \ S /\ S \subseteq {Own(k)} \union OfCouncil(Convened(k))
    <2>1. CASE ProviderFails(k)
        BY <2>1 DEF ProviderFails, Ends
    <2>2. CASE Disconnect(k)
        BY <2>2 DEF Disconnect, Awaited
    <2> QED BY <2>1, <2>2
<1>2. UNCHANGED <<settings, booked, loose, peak>>
    BY DEF ProviderFails, Disconnect, Ends
<1>3. Flies
    BY <1>1, <1>2, LegFlies DEF Flown
<1> QED BY <1>1, <1>2, <1>3 DEF Books

\* The steps that send one more, below the cap.
LEMMA SendBooks ==
    ASSUME Flown, booked \in Nat, NEW x \in Completions, MayAsk, Sends(x), UNCHANGED <<settings, booked>>,
           \A l \in Legs : leg'[l].pc = "wait" => leg[l].pc = "wait" \/ x = Own(l)
    PROVE  Books /\ Flies
<1>1. flight' = flight \union {x} /\ loose' = loose
    BY DEF Sends
<1>2. Flies
    BY <1>1 DEF Flies, Flown
<1> QED BY <1>2 DEF Books

LEMMA AskBooks ==
    ASSUME IInv, Flown, booked \in Nat, NEW k \in Legs, AskOrEnd(k)
    PROVE  Books /\ Flies
<1>1. leg \in [Legs -> LegType]
    BY DEF IInv, Types
<1>2. CASE Goto(k, "close") /\ UNCHANGED asking
    <2>1. Rests(k)
        BY <1>1, <1>2, GotoEffect, OnlyRests DEF Pcs
    <2> QED BY <1>2, <2>1, QuietBooks DEF AskOrEnd
<1>3. CASE ~Capped /\ leg' = [leg EXCEPT ![k].pc = "wait", ![k].spare = @ - 1]
           /\ IF Metered THEN Sends(Own(k)) ELSE UNCHANGED asking
    <2>1. \A l \in Legs : leg'[l].pc = "wait" => leg[l].pc = "wait" \/ l = k
        BY <1>1, <1>3, WaitEffect DEF Only
    <2>2. CASE Metered
        BY <1>3, <2>1, <2>2, OwnsApart, SendBooks DEF MayAsk, AskOrEnd
    <2>3. CASE ~Metered
        BY <1>3, <2>3 DEF AskOrEnd, asking, Books, Flies, Flown
    <2> QED BY <2>2, <2>3
<1> QED BY <1>2, <1>3 DEF AskOrEnd

\* The steps of completions.
LEMMA FlightBooks ==
    ASSUME Flown, settings \in [room : Nat, cap : Nat], booked \in Nat, IInv, FlightStep
    PROVE  Books /\ Flies
<1>1. UNCHANGED <<leg, settings>>
    BY FlightMovesNothing
<1>2. ASSUME NEW l \in Legs, ToolAsks(l) PROVE Books /\ Flies
    BY <1>1, <1>2, OwnsApart, SendBooks DEF ToolAsks
<1>3. ASSUME NEW c \in Councils, NEW s \in 1 .. Seats, CouncilAsks(c, s) PROVE Books /\ Flies
    BY <1>1, <1>3, OwnsApart, SendBooks DEF CouncilAsks
<1>4. ASSUME NEW x \in flight, Lands(x) PROVE Books /\ Flies
    <2>1. flight' = flight \ {x} /\ loose' = loose /\ peak' = peak
        BY <1>4 DEF Lands, Ends
    <2>2. \A l \in Legs : leg[l].pc = "wait" => x # Own(l)
        BY <1>4 DEF Lands, At
    <2>3. Flies
        BY <1>1, <2>1, <2>2 DEF Flies, Flown
    <2>4. booked' \in Nat /\ booked' <= booked + Cost
        BY <1>4, TurnAssumption DEF Lands, Book, TurnAssumption
    <2> QED BY <1>1, <2>1, <2>3, <2>4 DEF Books
<1> QED BY <1>2, <1>3, <1>4 DEF FlightStep

LEMMA BreakBooks ==
    ASSUME IInv, Flown, booked \in Nat, NEW k \in Legs, CouncilBreaks(k)
    PROVE  Books /\ Flies
<1>1. Only(k) /\ leg'[k].pc = "ask"
    BY ReturnEffect DEF CouncilBreaks, IInv, Types
<1>2. Rests(k)
    BY <1>1, OnlyRests
<1>3. loose' \subseteq Councils
    BY ConvenedIsCouncil DEF CouncilBreaks, Flown
<1>4. flight' = flight
    BY DEF CouncilBreaks
<1>5. Flies
    BY <1>2, <1>3, <1>4, KeptFlies
<1> QED BY <1>5 DEF Books, CouncilBreaks

LEMMA BookingStep ==
    ASSUME IInv, Flown, settings \in [room : Nat, cap : Nat], booked \in Nat, [Next]_vars
    PROVE  Books /\ Flies
<1> DEFINE Good == Books /\ Flies
<1>1. leg \in [Legs -> LegType]
    BY DEF IInv, Types
<1>2. ASSUME NEW l \in Legs, NEW pc \in Pcs \ {"wait"}, Goto(l, pc) PROVE Rests(l)
    BY <1>1, <1>2, GotoEffect, OnlyRests
<1>3. ASSUME NEW l \in Legs, ReplyEnds(l) PROVE Good
    <2>1. Rests(l)
        BY <1>2, <1>3 DEF ReplyEnds, Pcs
    <2> QED BY <1>3, <2>1, ReplyBooks DEF ReplyEnds, At
<1>4. ASSUME NEW l \in Legs, ReplyCapped(l) PROVE Good
    <2>1. Only(l) /\ leg'[l].pc = "ask"
        BY <1>1, <1>4, ObserveEffect DEF ReplyCapped
    <2>2. Rests(l)
        BY <2>1, OnlyRests
    <2> QED BY <1>4, <2>2, ReplyBooks DEF ReplyCapped, At
<1>5. ASSUME NEW l \in Legs, NEW k \in Tools, ReplyTool(l, k) PROVE Good
    <2>1. Only(l) /\ leg'[l].pc = "call"
        BY <1>1, <1>5, ToolEffect
    <2>2. Rests(l)
        BY <2>1, OnlyRests
    <2> QED BY <1>5, <2>2, ReplyBooks DEF ReplyTool, At
<1>6. ASSUME NEW l \in Legs, ProviderFails(l) \/ Disconnect(l) PROVE Good
    <2>1. Rests(l)
        BY <1>2, <1>6 DEF ProviderFails, Disconnect, Pcs
    <2> QED BY <1>6, <2>1, EndBooks
<1>7. ASSUME NEW l \in Legs, Stream(l) \/ AskFails(l) \/ Offer(l) \/ StopHere(l) \/ Invoke(l) PROVE Good
    <2>1. Rests(l)
        BY <1>2, <1>7 DEF Stream, AskFails, Offer, StopHere, Invoke, Pcs
    <2> QED BY <1>7, <2>1, QuietBooks DEF Stream, AskFails, Offer, StopHere, Invoke
<1>8. ASSUME NEW l \in Legs, Refuse(l) \/ Return(l) \/ AuthoriseFails(l) PROVE Good
    <2>1. Only(l) /\ leg'[l].pc = "ask"
        BY <1>1, <1>8, ObserveEffect, ReturnEffect DEF Refuse, Return, AuthoriseFails
    <2>2. Rests(l)
        BY <2>1, OnlyRests
    <2> QED BY <1>8, <2>2, QuietBooks DEF Refuse, Return, AuthoriseFails
<1>9. ASSUME NEW l \in Legs, NEW r, r.pc # "wait", leg' = [leg EXCEPT ![l] = r]
      PROVE  Rests(l)
    BY <1>1, <1>9 DEF Rests
<1>10. Over.pc = "done"
    BY DEF Over, NewLeg
<1>11. ASSUME NEW l \in Legs, Close(l) \/ SetupFails(l) PROVE Good
    <2>1. Rests(l)
        BY <1>9, <1>10, <1>11 DEF Close, SetupFails
    <2> QED BY <1>11, <2>1, QuietBooks DEF Close, SetupFails
<1>12. ASSUME NEW l \in Legs, Start(l) PROVE Good
    <2>1. [NewLeg EXCEPT !.pc = "setup", !.turn = l, !.sig = l, !.spare = MaxSteps].pc = "setup"
        BY DEF NewLeg
    <2>2. Rests(l)
        BY <1>9, <1>12, <2>1 DEF Start
    <2> QED BY <1>12, <2>2, QuietBooks DEF Start
<1>13. CASE leg' = leg /\ UNCHANGED <<settings, booked, asking>>
    BY <1>13 DEF Books, Flies, Flown, asking
<1>14. ASSUME NEW l \in Legs, NEW q \in shelf, Confirm(l, q) PROVE Good
    <2>1. CASE leg' = [leg EXCEPT ![l] = Resumed(l, q)]
        <3>1. Resumed(l, q).pc = "setup"
            BY DEF Resumed
        <3>2. Rests(l)
            BY <1>9, <2>1, <3>1
        <3> QED BY <1>14, <3>2, QuietBooks DEF Confirm
    <2>2. CASE leg' = leg
        BY <1>13, <1>14, <2>2 DEF Confirm
    <2> QED BY <1>14, <2>1, <2>2 DEF Confirm
<1>15. CASE Restart
    <2>1. \A l \in Legs : leg'[l].pc # "wait"
        BY <1>10, <1>15 DEF Restart, At
    <2> QED BY <1>15, <2>1 DEF Books, Flies, Restart
<1>16. CASE (\E l \in Legs : Lapse(l)) \/ (\E t \in Turns : Halt(t)) \/ UNCHANGED vars
    BY <1>13, <1>16 DEF Lapse, Halt, vars
<1> QED
    BY <1>3, <1>4, <1>5, <1>6, <1>7, <1>8, <1>11, <1>12, <1>14, <1>15, <1>16, AskBooks, BreakBooks, FlightBooks
       DEF Next, LegStep, FlightStep

LEMMA FlownStart == Init => Flown
<1> SUFFICES ASSUME Init PROVE Flown
    OBVIOUS
<1>1. NewLeg.pc = "new" /\ NewLeg.tool = "plain"
    BY DEF NewLeg
<1> QED BY <1>1 DEF Init, Flown, Numbered

LEMMA FlownStep ==
    ASSUME IInv, Flown, settings \in [room : Nat, cap : Nat], booked \in Nat, [Next]_vars
    PROVE  Flown'
<1>1. Books /\ Flies
    BY BookingStep
<1>2. \A l \in Legs : Numbered(leg'[l])
    BY NumberedStep DEF Flown
<1>3. flight' \subseteq Completions
    BY <1>1 DEF Books, Sends, Flown
<1>4. Metered' => Metered
    BY <1>1 DEF Books, Metered
<1> QED BY <1>1, <1>2, <1>3, <1>4 DEF Flown, Flies, Numbered, Own

LEMMA Times ==
    /\ \A a, b, c \in Nat : b <= c => a * b <= a * c
    /\ \A a, b \in Nat : a * (b + 1) = a * b + a
    /\ \A a, b \in Nat : a * b \in Nat
OBVIOUS

\* Legs and seats bound what may ever be in flight.
Room == Cardinality(Legs) + Cardinality(Turns) * CouncilBudget * Seats

LEMMA RoomType ==
    ASSUME IsFiniteSet(Legs)
    PROVE  Room \in Nat
<1>1. /\ Cardinality(Legs) \in Nat /\ Cardinality(Turns) \in Nat
      /\ CouncilBudget \in Nat /\ Seats \in Nat
    BY FS_Subset, FS_CardinalityType, TurnAssumption DEF TurnAssumption
<1>2. Cardinality(Turns) * CouncilBudget * Seats \in Nat
    BY <1>1, Times
<1> QED BY <1>1, <1>2 DEF Room

LEMMA CompletionsFit ==
    ASSUME IsFiniteSet(Legs)
    PROVE  IsFiniteSet(Completions) /\ Cardinality(Completions) \in Nat /\ Cardinality(Completions) <= Room
<1> DEFINE own == (Legs \X {0}) \X {0}
           council == Councils \X (1 .. Seats)
<1>1. IsFiniteSet({0}) /\ Cardinality({0}) = 1
    BY FS_Singleton
<1>2. IsFiniteSet(Turns) /\ Cardinality(Turns) \in Nat /\ Cardinality(Legs) \in Nat
    BY FS_Subset, FS_CardinalityType, TurnAssumption DEF TurnAssumption
<1>3. IsFiniteSet(own) /\ Cardinality(own) = Cardinality(Legs)
    <2>1. IsFiniteSet(Legs \X {0}) /\ Cardinality(Legs \X {0}) = Cardinality(Legs) * 1
        BY <1>1, FS_Product
    <2>2. IsFiniteSet(own) /\ Cardinality(own) = Cardinality(Legs \X {0}) * 1
        BY <1>1, <2>1, FS_Product
    <2> QED BY <1>2, <2>1, <2>2
<1>4. IsFiniteSet(council) /\ Cardinality(council) = Cardinality(Turns) * CouncilBudget * Seats
    <2>1. CouncilBudget \in Nat /\ Seats \in Nat
        BY TurnAssumption DEF TurnAssumption
    <2>2. /\ IsFiniteSet(1 .. CouncilBudget) /\ Cardinality(1 .. CouncilBudget) = CouncilBudget
          /\ IsFiniteSet(1 .. Seats) /\ Cardinality(1 .. Seats) = Seats
        BY <2>1, FS_Interval
    <2>3. IsFiniteSet(Councils) /\ Cardinality(Councils) = Cardinality(Turns) * CouncilBudget
        BY <1>2, <2>2, FS_Product DEF Councils
    <2>4. IsFiniteSet(council) /\ Cardinality(council) = Cardinality(Councils) * Seats
        BY <2>2, <2>3, FS_Product
    <2> QED BY <2>3, <2>4
<1> HIDE DEF own, council
<1>5. Completions = own \union council
    BY DEF Completions, own, council
<1>6. /\ IsFiniteSet(own \union council)
      /\ Cardinality(own \union council) = Cardinality(own) + Cardinality(council) - Cardinality(own \intersect council)
    BY <1>3, <1>4, FS_Union
<1>7. Cardinality(own \intersect council) \in Nat /\ Cardinality(own) \in Nat /\ Cardinality(council) \in Nat
    BY <1>3, <1>4, FS_Subset, FS_CardinalityType
<1>8. Cardinality(own \union council) \in Nat
    BY <1>6, FS_CardinalityType
<1>9. Cardinality(own) + Cardinality(council) = Room
    BY <1>3, <1>4 DEF Room
<1> QED BY <1>5, <1>6, <1>7, <1>8, <1>9

\* What is booked and what the completions in flight may still be charged.
Committed ==
    /\ settings \in [room : Nat, cap : Nat] /\ booked \in Nat
    /\ IsFiniteSet(flight) /\ peak \in Nat
    /\ Cardinality(flight) <= peak /\ peak <= Room
    /\ Metered => booked + Cost * Cardinality(flight) <= settings.cap - 1 + Cost * peak

\* What a step leaves in flight, and the most there ever was.
LEMMA PeakStep ==
    ASSUME IsFiniteSet(Legs), Flown, Committed, Books
    PROVE  LET n == Cardinality(flight)
               m == Cardinality(flight')
           IN  /\ IsFiniteSet(flight') /\ n \in Nat /\ m \in Nat /\ peak' \in Nat /\ m <= peak' /\ peak' <= Room
               /\ \/ peak' = peak /\ m <= n /\ booked' = booked
                  \/ peak' = peak /\ m + 1 = n /\ booked' <= booked + Cost
                  \/ booked' = booked /\ MayAsk
<1> DEFINE n == Cardinality(flight)
           m == Cardinality(flight')
<1>1. IsFiniteSet(flight) /\ n \in Nat /\ peak \in Nat /\ n <= peak /\ peak <= Room
    BY FS_CardinalityType DEF Committed
<1>2. CASE peak' = peak /\ flight' \subseteq flight /\ booked' = booked
    <2>1. IsFiniteSet(flight') /\ m \in Nat /\ m <= n
        BY <1>1, <1>2, FS_Subset, FS_CardinalityType
    <2> HIDE DEF m, n
    <2> QED BY <1>1, <1>2, <2>1 DEF m, n
<1>3. ASSUME NEW x \in flight, peak' = peak, flight' = flight \ {x}, booked' <= booked + Cost
      PROVE  IsFiniteSet(flight') /\ m \in Nat /\ m + 1 = n
    <2>1. IsFiniteSet(flight') /\ m = n - 1
        BY <1>1, <1>3, FS_RemoveElement
    <2>2. m \in Nat
        BY <2>1, FS_CardinalityType
    <2> QED BY <1>1, <2>1, <2>2
<1>4. ASSUME NEW x \in Completions, Sends(x)
      PROVE  IsFiniteSet(flight') /\ m \in Nat /\ peak' \in Nat /\ m <= peak' /\ peak' <= Room
    <2>1. flight' = flight \union {x} /\ peak' = IF m > peak THEN m ELSE peak
        BY <1>4 DEF Sends
    <2>2. flight' \in SUBSET Completions
        BY <2>1 DEF Flown
    <2>3. IsFiniteSet(flight') /\ m \in Nat /\ m <= Cardinality(Completions)
        BY <2>2, CompletionsFit, FS_Subset, FS_CardinalityType
    <2>4. Cardinality(Completions) \in Nat /\ Cardinality(Completions) <= Room /\ Room \in Nat
        BY RoomType, CompletionsFit
    <2> HIDE DEF m
    <2> QED BY <1>1, <2>1, <2>3, <2>4
<1> QED BY <1>1, <1>2, <1>3, <1>4 DEF Books

LEMMA BooksKeepsCommitted ==
    ASSUME IsFiniteSet(Legs), Flown, Committed, Books
    PROVE  Committed'
<1> DEFINE n == Cardinality(flight)
           m == Cardinality(flight')
<1>1. /\ IsFiniteSet(flight') /\ n \in Nat /\ m \in Nat /\ peak' \in Nat /\ m <= peak' /\ peak' <= Room
      /\ \/ peak' = peak /\ m <= n /\ booked' = booked
         \/ peak' = peak /\ m + 1 = n /\ booked' <= booked + Cost
         \/ booked' = booked /\ MayAsk
    BY PeakStep
<1>2. /\ settings' = settings /\ settings.cap \in Nat /\ booked \in Nat /\ booked' \in Nat
      /\ peak \in Nat /\ Cost \in Nat
      /\ Metered => booked + Cost * n <= settings.cap - 1 + Cost * peak
    BY TurnAssumption DEF Books, Committed, TurnAssumption
<1> HIDE DEF n, m
<1>3. /\ Cost * n \in Nat /\ Cost * m \in Nat /\ Cost * peak \in Nat /\ Cost * peak' \in Nat
      /\ m <= n => Cost * m <= Cost * n
      /\ m + 1 = n => Cost * m + Cost = Cost * n
      /\ Cost * m <= Cost * peak'
    BY <1>1, <1>2, Times
<1>4. Metered => booked' + Cost * m <= settings.cap - 1 + Cost * peak'
    <2>1. CASE peak' = peak /\ m <= n /\ booked' = booked
        BY <1>2, <1>3, <2>1
    <2>2. CASE peak' = peak /\ m + 1 = n /\ booked' <= booked + Cost
        BY <1>2, <1>3, <2>2
    <2>3. CASE booked' = booked /\ MayAsk
        <3>1. booked < settings.cap
            BY <1>2, <2>3 DEF MayAsk, Capped
        <3> QED BY <1>2, <1>3, <2>3, <3>1
    <2> QED BY <1>1, <2>1, <2>2, <2>3
<1>5. Room' = Room /\ (Metered' <=> Metered)
    BY <1>2 DEF Room, Metered
<1>6. settings' \in [room : Nat, cap : Nat]
    BY <1>2 DEF Committed
<1> QED BY <1>1, <1>2, <1>4, <1>5, <1>6 DEF Committed, m

\* The account's cap is overrun by one completion each of those in flight at once and by
\* no more (provider_usage.py compares before the call and records after it), and these
\* are as many at most as legs and council seats, for any finite number of requests.
THEOREM SpendIsBounded ==
    ASSUME IsFiniteSet(Legs)
    PROVE  Spec => []SpendOvershoot
<1>1. Init => Flown /\ Committed
    <2> SUFFICES ASSUME Init PROVE Committed
        BY FlownStart
    <2>1. flight = {} /\ peak = 0 /\ booked = 0 /\ settings \in [room : Nat, cap : Nat] /\ Cost \in Nat
        BY TurnAssumption DEF TurnAssumption, Init
    <2>2. IsFiniteSet(flight) /\ Cardinality(flight) = 0 /\ 0 <= Room
        BY <2>1, FS_EmptySet, RoomType
    <2>3. Cost * 0 = 0
        BY <2>1
    <2> QED BY <2>1, <2>2, <2>3 DEF Committed, Metered
<1>2. IInv /\ Flown /\ Committed /\ [Next]_vars => Flown' /\ Committed'
    BY BookingStep, FlownStep, BooksKeepsCommitted DEF Committed
<1>3. Committed => SpendOvershoot
    <2> SUFFICES ASSUME Committed, Metered
                 PROVE  booked <= settings.cap - 1 + Cost * peak /\ peak <= Room
        BY DEF SpendOvershoot, Room
    <2>1. Cardinality(flight) \in Nat /\ Cost \in Nat /\ peak \in Nat
        BY FS_CardinalityType, TurnAssumption DEF TurnAssumption, Committed
    <2>2. Cost * Cardinality(flight) \in Nat /\ Cost * peak \in Nat
        BY <2>1, Times
    <2> QED BY <2>1, <2>2 DEF Committed
<1> QED BY <1>1, <1>2, <1>3, Invariance, PTL DEF Spec

-----------------------------------------------------------------------------
(* The shelf of questions *)

LEMMA SmallestOf ==
    ASSUME NEW T, T \subseteq Nat, T # {}
    PROVE  \E i \in T : \A j \in T : i <= j
<1> DEFINE Less == OpToRel(<, Nat)
<1>1. IsWellFoundedOn(Less, Nat)
    BY NatLessThanWellFounded, Zenon
<1>2. \A x, y \in Nat : y < x => <<y, x>> \in Less
    BY DEF OpToRel
<1> HIDE DEF Less
<1>3. PICK i \in T : \A j \in T : ~(<<j, i>> \in Less)
    BY <1>1, WFMin, Zenon
<1>4. \A j \in T : ~(j < i)
    BY <1>2, <1>3, Zenon
<1> QED BY <1>4

\* A finite set of numbers has a greatest: the one with the fewest above it.
LEMMA GreatestOf ==
    ASSUME NEW S \in SUBSET Nat, IsFiniteSet(S), S # {}
    PROVE  \E x \in S : \A y \in S : x >= y
<1> DEFINE Above(x) == {y \in S : y > x}
           Sizes == {Cardinality(Above(x)) : x \in S}
<1>1. \A x \in S : IsFiniteSet(Above(x)) /\ Cardinality(Above(x)) \in Nat
    BY FS_Subset, FS_CardinalityType
<1>2. Sizes \subseteq Nat /\ Sizes # {}
    BY <1>1
<1>3. PICK x \in S : \A z \in S : Cardinality(Above(x)) <= Cardinality(Above(z))
    <2>1. \E i \in Sizes : \A j \in Sizes : i <= j
        BY <1>2, SmallestOf
    <2> QED BY <2>1
<1>4. ASSUME NEW y \in S, y > x PROVE FALSE
    <2>1. x \in Nat /\ y \in Nat /\ \A z \in S : z \in Nat /\ (z > y => z > x)
        BY <1>4
    <2>2. Above(y) \subseteq Above(x) /\ y \in Above(x) /\ y \notin Above(y)
        <3>1. ~(y > y)
            BY <2>1
        <3>2. \A z \in Above(y) : z \in Above(x)
            BY <2>1, Zenon
        <3>3. y \in Above(x)
            BY <1>4, Zenon
        <3>4. y \notin Above(y)
            BY <3>1, Zenon
        <3> QED BY <3>2, <3>3, <3>4, Zenon
    <2>3. Cardinality(Above(y)) <= Cardinality(Above(x)) /\ Cardinality(Above(y)) # Cardinality(Above(x))
        BY <1>1, <2>2, FS_Subset
    <2> QED BY <1>1, <1>3, <2>3
<1> QED BY <1>4

\* The ranks of the questions tell them apart.
Tidy(s) ==
    /\ IsFiniteSet(s)
    /\ \A q \in s : q.at \in Nat
    /\ \A q, r \in s : q.at = r.at => q = r

LEMMA TidyPart ==
    ASSUME NEW s, Tidy(s), NEW p \in SUBSET s
    PROVE  Tidy(p) /\ Cardinality(p) \in Nat /\ Cardinality(p) <= Cardinality(s)
BY FS_Subset, FS_CardinalityType DEF Tidy

\* What is kept has room: the oldest question that is kept has fewer than that many
\* younger ones.
LEMMA KeptFits ==
    ASSUME Tidy(shelf), settings.room \in Nat
    PROVE  Kept \subseteq shelf /\ Tidy(Kept) /\ Cardinality(Kept) <= settings.room
<1> DEFINE live == {q \in shelf : q.id \notin lapsed}
           younger(m) == {r \in live : r.at > m.at}
<1>1. Kept = {q \in live : Cardinality(younger(q)) < settings.room} /\ live \in SUBSET shelf
    BY DEF Kept
<1> HIDE DEF live
<1>2. Kept \subseteq shelf /\ Tidy(Kept) /\ Tidy(live) /\ Cardinality(Kept) \in Nat
    BY <1>1, TidyPart
<1>3. CASE Kept = {}
    BY <1>2, <1>3, FS_EmptySet
<1>4. CASE Kept # {}
    <2> DEFINE ranks == {q.at : q \in Kept}
    <2>1. ranks \subseteq Nat /\ ranks # {}
        BY <1>2, <1>4 DEF Tidy
    <2>2. PICK i \in ranks : \A j \in ranks : i <= j
        BY <2>1, SmallestOf
    <2>3. PICK m \in Kept : m.at = i
        OBVIOUS
    <2>4. \A r \in Kept \ {m} : r.at \in Nat /\ m.at \in Nat /\ m.at <= r.at /\ m.at # r.at
        BY <1>2, <2>2, <2>3 DEF Tidy
    <2>5. Kept \ {m} \subseteq younger(m) /\ younger(m) \subseteq live
        BY <1>1, <2>4
    <2>6. IsFiniteSet(younger(m)) /\ Cardinality(younger(m)) \in Nat
        BY <1>2, <2>5, FS_Subset, FS_CardinalityType DEF Tidy
    <2>7. Cardinality(younger(m)) < settings.room
        BY <1>1, <2>3
    <2> HIDE DEF younger
    <2>8. Cardinality(Kept \ {m}) = Cardinality(Kept) - 1
        BY <1>2, <2>3, FS_RemoveElement DEF Tidy
    <2>9. Cardinality(Kept \ {m}) <= Cardinality(younger(m))
        BY <2>5, <2>6, FS_Subset
    <2> QED BY <1>2, <2>6, <2>7, <2>8, <2>9
<1> QED BY <1>2, <1>3, <1>4

\* A new question is younger than every one that is kept.
LEMMA NewRank ==
    ASSUME NEW s, Tidy(s)
    PROVE  LET n == 1 + Max({0} \union {q.at : q \in s})
           IN  n \in Nat /\ \A q \in s : q.at < n
<1> DEFINE ranks == {q.at : q \in s}
           all == {0} \union ranks
<1>1. IsFiniteSet(ranks)
    <2>1. [q \in s |-> q.at] \in Surjection(s, ranks)
        BY DEF Surjection
    <2> QED BY <2>1, FS_Surjection DEF Tidy
<1>2. IsFiniteSet(all) /\ all # {} /\ all \in SUBSET Nat
    <2>1. IsFiniteSet({0})
        BY FS_Singleton
    <2>2. IsFiniteSet(all)
        BY <1>1, <2>1, FS_Union
    <2> QED BY <2>2 DEF Tidy
<1>3. \E x \in all : \A y \in all : x >= y
    BY <1>2, GreatestOf
<1>4. Max(all) \in all /\ \A y \in all : Max(all) >= y
    BY <1>3 DEF Max
<1> DEFINE m == Max(all)
<1>5. m \in Nat /\ \A q \in s : q.at \in Nat /\ m >= q.at
    BY <1>2, <1>4 DEF Tidy
<1> HIDE DEF m
<1>6. 1 + m \in Nat /\ \A q \in s : q.at < 1 + m
    BY <1>5
<1> QED BY <1>6, Zenon DEF m

Shelved ==
    /\ Tidy(shelf)
    /\ Cardinality(shelf) <= settings.room + 1
    /\ lapsed \subseteq OnShelf
Counted ==
    /\ peak \in Nat /\ IsFiniteSet(flight)
    /\ settings \in [room : Nat, cap : Nat] /\ booked \in Nat /\ faults \in 0 .. MaxFaults
    /\ stopped \subseteq Legs

LEMMA OfferShelves ==
    ASSUME Shelved, settings \in [room : Nat, cap : Nat], NEW l \in Legs, Offer(l)
    PROVE  Shelved'
<1> DEFINE n == 1 + Max({0} \union {q.at : q \in Kept})
           q == Asked(l, n)
<1>1. Kept \subseteq shelf /\ Tidy(Kept) /\ Cardinality(Kept) <= settings.room /\ settings.room \in Nat
    BY KeptFits DEF Shelved
<1>2. n \in Nat /\ \A r \in Kept : r.at < n
    BY <1>1, NewRank
<1>3. shelf' = Kept \union {q} /\ lapsed' = lapsed \intersect {r.id : r \in Kept} /\ settings' = settings
    BY DEF Offer
<1> HIDE DEF n
<1>4. q.at = n
    BY DEF Asked
<1> HIDE DEF q
<1>5. IsFiniteSet(shelf') /\ Cardinality(shelf') <= settings.room + 1
    <2>1. IsFiniteSet(Kept) /\ Cardinality(Kept) \in Nat
        BY <1>1, FS_CardinalityType DEF Tidy
    <2>2. /\ IsFiniteSet(Kept \union {q})
          /\ Cardinality(Kept \union {q}) = Cardinality(Kept) \/ Cardinality(Kept \union {q}) = Cardinality(Kept) + 1
        BY <2>1, FS_AddElement
    <2> QED BY <1>1, <1>3, <2>1, <2>2
<1>6. Tidy(shelf')
    BY <1>1, <1>2, <1>3, <1>4, <1>5 DEF Tidy
<1>7. lapsed' \subseteq {r.id : r \in shelf'}
    BY <1>3
<1> QED BY <1>3, <1>5, <1>6, <1>7 DEF Shelved, OnShelf

LEMMA NextShelves ==
    ASSUME Shelved, Counted, [Next]_vars
    PROVE  Shelved'
<1> USE DEF Shelved
<1>1. CASE UNCHANGED <<shelf, lapsed, settings>>
    BY <1>1 DEF OnShelf
<1>2. ASSUME NEW l \in Legs, Offer(l) PROVE Shelved'
    BY <1>2, OfferShelves DEF Counted
<1>3. ASSUME NEW l \in Legs, NEW q \in shelf, Confirm(l, q) PROVE Shelved'
    <2>1. shelf' = shelf \ {q} /\ lapsed' = lapsed \ {q.id} /\ settings' = settings
        BY <1>3 DEF Confirm, Spent
    <2>2. Tidy(shelf') /\ Cardinality(shelf') \in Nat /\ Cardinality(shelf') <= Cardinality(shelf)
          /\ Cardinality(shelf) \in Nat /\ settings.room \in Nat
        BY <2>1, TidyPart DEF Counted
    <2>3. lapsed' \subseteq {r.id : r \in shelf'}
        BY <2>1 DEF OnShelf
    <2> QED BY <2>1, <2>2, <2>3 DEF OnShelf
<1>4. ASSUME NEW h \in Legs, Lapse(h) PROVE Shelved'
    BY <1>4 DEF Lapse, OnShelf
<1>5. CASE Restart
    <2>1. shelf' = {} /\ lapsed' = {} /\ settings' = settings /\ settings.room \in Nat
        BY <1>5 DEF Restart, Counted
    <2> QED BY <2>1, FS_EmptySet DEF Tidy
<1>6. CASE FlightStep
    BY <1>1, <1>6, FlightMovesNothing DEF registries
<1>7. ASSUME NEW t \in Turns, Halt(t) PROVE Shelved'
    BY <1>1, <1>7 DEF Halt
<1>8. CASE UNCHANGED vars
    BY <1>1, <1>8 DEF vars, registries
<1>9. ASSUME NEW l \in Legs,
             \/ Start(l) \/ LegStep(l) \/ SetupFails(l) \/ AskFails(l) \/ AuthoriseFails(l)
             \/ CouncilBreaks(l) \/ Disconnect(l)
      PROVE  Shelved'
    BY <1>1, <1>2, <1>9, LegKeeps
<1> QED BY <1>3, <1>4, <1>5, <1>6, <1>7, <1>8, <1>9 DEF Next, FlightStep

LEMMA NextCounts ==
    ASSUME IInv, Flown, Counted, [Next]_vars
    PROVE  Counted'
<1>1. settings' = settings /\ booked' \in Nat
    BY BookingStep DEF Books, Counted
<1>2. UNCHANGED faults \/ Fault
    <2>1. CASE FlightStep
        BY <2>1 DEF FlightStep, ToolAsks, CouncilAsks, Lands, Book
    <2>2. ASSUME NEW l \in Legs, (\E q \in shelf : Confirm(l, q)) \/ Lapse(l) PROVE UNCHANGED faults
        BY <2>2 DEF Confirm, Lapse
    <2>3. ASSUME NEW t \in Turns, Halt(t) PROVE UNCHANGED faults
        BY <2>3 DEF Halt
    <2> QED BY <2>1, <2>2, <2>3, LegKeeps DEF Next, FlightStep, Restart, vars
<1>3. faults' \in 0 .. MaxFaults
    BY <1>2, TurnAssumption DEF TurnAssumption, Counted, Fault
<1>4. stopped' = stopped \/ stopped' = {} \/ \E t \in Turns : brake[t] # NoLeg /\ stopped' = stopped \union {brake[t]}
    <2>1. CASE FlightStep
        BY <2>1, FlightMovesNothing DEF registries
    <2>2. ASSUME NEW l \in Legs, (\E q \in shelf : Confirm(l, q)) \/ Lapse(l) PROVE stopped' = stopped
        BY <2>2 DEF Confirm, Lapse
    <2>3. ASSUME NEW t \in Turns, Halt(t) PROVE brake[t] # NoLeg /\ stopped' = stopped \union {brake[t]}
        BY <2>3 DEF Halt
    <2>4. CASE Restart
        BY <2>4 DEF Restart
    <2>5. CASE UNCHANGED vars
        BY <2>5 DEF vars, registries
    <2> QED BY <2>1, <2>2, <2>3, <2>4, <2>5, LegKeeps DEF Next, FlightStep
<1>5. stopped' \subseteq Legs
    BY <1>4 DEF IInv, Types, Counted
<1>6. Books
    BY BookingStep DEF Counted
<1>7. IsFiniteSet(flight') /\ peak' \in Nat
    <2>1. CASE peak' = peak /\ flight' \subseteq flight
        BY <2>1, FS_Subset DEF Counted
    <2>2. ASSUME NEW x, Sends(x) PROVE IsFiniteSet(flight') /\ peak' \in Nat
        <3>1. IsFiniteSet(flight \union {x}) /\ Cardinality(flight \union {x}) \in Nat
            BY FS_AddElement, FS_CardinalityType DEF Counted
        <3> DEFINE n == Cardinality(flight \union {x})
        <3>2. flight' = flight \union {x} /\ peak' = IF n > peak THEN n ELSE peak
            BY <2>2 DEF Sends
        <3> HIDE DEF n
        <3> QED BY <3>1, <3>2 DEF Counted, n
    <2> QED BY <1>6, <2>1, <2>2 DEF Books
<1> QED BY <1>1, <1>3, <1>5, <1>7 DEF Counted

-----------------------------------------------------------------------------
(* The range of the counts *)

Small(r) == r.spare \in 0 .. MaxSteps /\ r.used \in 0 .. MaxSteps /\ r.council \in 0 .. CouncilBudget

\* While a leg runs its counts are bounded by its turn's allowance; once it is over
\* they are what they were, or nothing.
LegsSmall == \A l \in Legs : leg[l].pc \in Running => Small(leg[l])

LEMMA RunningSmall == IInv => LegsSmall
<1> SUFFICES ASSUME IInv, NEW l \in Legs, leg[l].pc \in Running PROVE Small(leg[l])
    BY DEF LegsSmall
<1>1. /\ leg[l].spare \in Int /\ leg[l].used \in Nat /\ leg[l].council \in Nat
      /\ MaxSteps \in Nat /\ CouncilBudget \in Nat
    BY TurnAssumption DEF TurnAssumption, IInv, Types, LegType
<1>2. leg[l].spare >= 0 /\ leg[l].used + leg[l].spare <= MaxSteps
    BY <1>1 DEF IInv, Rest, CallsCounted, LegCalls
<1>3. leg[l].council <= CouncilBudget
    BY DEF IInv, Rest, CouncilsCounted, LegCouncils
<1> QED BY <1>1, <1>2, <1>3 DEF Small

LEMMA LegsMove ==
    ASSUME IInv, [Next]_vars, NEW l \in Legs
    PROVE  \/ leg'[l].pc \in Running
           \/ leg'[l].spare = leg[l].spare /\ leg'[l].used = leg[l].used /\ leg'[l].council = leg[l].council
           \/ leg'[l] = Over
<1> DEFINE Moves == \/ leg'[l].pc \in Running
                    \/ /\ leg'[l].spare = leg[l].spare /\ leg'[l].used = leg[l].used
                       /\ leg'[l].council = leg[l].council
                    \/ leg'[l] = Over
<1>1. leg \in [Legs -> LegType]
    BY DEF IInv, Types
<1>2. ASSUME NEW k \in Legs, NEW pc \in Pcs, Goto(k, pc) PROVE Moves
    <2>1. CASE k = l
        BY <1>1, <1>2, <2>1, GotoEffect
    <2>2. CASE k # l
        BY <1>1, <1>2, <2>2, GotoEffect DEF Only
    <2> QED BY <2>1, <2>2
<1>3. ASSUME NEW k \in Legs, NEW r, leg' = [leg EXCEPT ![k] = r], r.pc \in Running \/ r = Over
      PROVE  Moves
    BY <1>1, <1>3
<1>4. ASSUME NEW k \in Legs, Start(k) PROVE Moves
    <2>1. [NewLeg EXCEPT !.pc = "setup", !.turn = k, !.sig = k, !.spare = MaxSteps].pc = "setup"
        BY DEF NewLeg
    <2> QED BY <1>3, <1>4, <2>1 DEF Start, Running
<1>5. ASSUME NEW k \in Legs, NEW q \in shelf, Confirm(k, q) PROVE Moves
    <2>1. Resumed(k, q).pc = "setup"
        BY DEF Resumed
    <2> QED BY <1>3, <1>5, <2>1 DEF Confirm, Running
<1>6. ASSUME NEW k \in Legs, SetupFails(k) \/ Close(k) PROVE Moves
    BY <1>3, <1>6 DEF SetupFails, Close
<1>7. ASSUME NEW k \in Legs,
             \/ Stream(k) \/ ReplyEnds(k) \/ ProviderFails(k) \/ Offer(k) \/ StopHere(k) \/ Invoke(k)
             \/ AskFails(k) \/ Disconnect(k)
      PROVE  Moves
    BY <1>2, <1>7 DEF Stream, ReplyEnds, ProviderFails, Offer, StopHere, Invoke, AskFails, Disconnect, Pcs
<1>8. ASSUME NEW k \in Legs, leg'[k].pc \in Running, Only(k) PROVE Moves
    BY <1>8 DEF Only
<1>9. ASSUME NEW k \in Legs, ReplyCapped(k) \/ AuthoriseFails(k) \/ CouncilBreaks(k) \/ Refuse(k) \/ Return(k)
      PROVE  Moves
    <2>1. leg'[k].pc = "ask" /\ Only(k)
        BY <1>1, <1>9, ObserveEffect, ReturnEffect DEF ReplyCapped, AuthoriseFails, CouncilBreaks, Refuse, Return
    <2> QED BY <1>8, <2>1 DEF Running
<1>10. ASSUME NEW k \in Legs, NEW t \in Tools, ReplyTool(k, t) PROVE Moves
    <2>1. leg'[k].pc = "call" /\ Only(k)
        BY <1>1, <1>10, ToolEffect
    <2> QED BY <1>8, <2>1 DEF Running
<1>11. ASSUME NEW k \in Legs, AskOrEnd(k) PROVE Moves
    <2>1. CASE Goto(k, "close")
        BY <1>2, <2>1 DEF Pcs
    <2>2. CASE leg' = [leg EXCEPT ![k].pc = "wait", ![k].spare = @ - 1]
        <3>1. leg'[k].pc = "wait" /\ Only(k)
            BY <1>1, <2>2, WaitEffect
        <3> QED BY <1>8, <3>1 DEF Running
    <2> QED BY <1>11, <2>1, <2>2 DEF AskOrEnd
<1>12. CASE Restart
    BY <1>12 DEF Restart
<1>13. CASE leg' = leg
    BY <1>13
<1>14. CASE FlightStep
    BY <1>13, <1>14, FlightMovesNothing
<1> QED
    BY <1>4, <1>5, <1>6, <1>7, <1>9, <1>10, <1>11, <1>12, <1>13, <1>14 DEF Next, LegStep, FlightStep, Halt, Lapse, vars

LEMMA NextSmall ==
    ASSUME IInv, IInv', [Next]_vars, \A l \in Legs : Small(leg[l])
    PROVE  \A l \in Legs : Small(leg'[l])
<1> SUFFICES ASSUME NEW l \in Legs PROVE Small(leg'[l])
    OBVIOUS
<1>1. Small(Over)
    BY TurnAssumption DEF TurnAssumption, Small, Over, NewLeg
<1>2. IInv' => LegsSmall'
    BY RunningSmall, PTL
<1>3. leg'[l].pc \in Running => Small(leg'[l])
    BY <1>2 DEF LegsSmall, Small
<1> QED BY <1>1, <1>3, LegsMove DEF Small

\* The shelf holds a question once.
LEMMA QuestionsOnce ==
    ASSUME IInv, Tidy(shelf)
    PROVE  OnShelf \subseteq Legs /\ Cardinality(OnShelf) = Cardinality(shelf)
<1> DEFINE f == [q \in shelf |-> q.id]
<1>1. OnShelf \subseteq Legs
    BY DEF OnShelf, IInv, Types
<1>2. \A q, r \in shelf : q.id = r.id => q = r
    BY DEF IInv, Rest, OnePlace
<1>3. f \in Bijection(shelf, OnShelf)
    BY <1>2 DEF Bijection, Injection, IsInjective, Surjection, OnShelf
<1>4. Cardinality(OnShelf) = Cardinality(shelf)
    BY <1>3, FS_Bijection DEF ExistsBijection, Tidy
<1> QED BY <1>1, <1>4

TypeInv == IInv /\ Flown /\ Shelved /\ Counted /\ \A l \in Legs : Small(leg[l])

LEMMA TypeInvSuffices == TypeInv => TypesAndShelf
<1> SUFFICES ASSUME TypeInv PROVE TypesAndShelf
    OBVIOUS
<1>1. leg \in [Legs -> [pc : Pcs, turn : Turns \union {NoLeg}, sig : Legs \union {NoLeg},
                        yes : Legs \union {NoLeg}, sure : BOOLEAN, tool : Tools, spare : 0 .. MaxSteps,
                        used : 0 .. MaxSteps, council : 0 .. CouncilBudget, seen : Nat]]
    BY DEF TypeInv, IInv, Types, LegType, Small
<1>2. OnShelf \subseteq Legs /\ Cardinality(OnShelf) = Cardinality(shelf)
    BY QuestionsOnce DEF TypeInv, Shelved
<1> QED BY <1>1, <1>2 DEF TypesAndShelf, TypeInv, IInv, Types, Flown, Shelved, Counted

\* Every variable keeps its type; the shelf holds a question once, and at most one more
\* than MAX_PENDING: a prune leaves room for the insert that follows it, whatever has
\* lapsed, was answered or is asked again.
THEOREM TypeCorrect == Spec => []TypesAndShelf
<1>1. Init => TypeInv
    <2> SUFFICES ASSUME Init PROVE TypeInv
        OBVIOUS
    <2>1. Shelved /\ Counted
        BY FS_EmptySet, TurnAssumption DEF TurnAssumption, Init, Shelved, Counted, Tidy
    <2>2. Small(NewLeg)
        BY TurnAssumption DEF TurnAssumption, Small, NewLeg
    <2> QED BY <2>1, <2>2, InitIInv, FlownStart DEF TypeInv, Init
<1>2. TypeInv /\ [Next]_vars => TypeInv'
    <2> SUFFICES ASSUME TypeInv, [Next]_vars PROVE TypeInv'
        OBVIOUS
    <2>1. IInv'
        BY NextIInv DEF TypeInv
    <2>2. Flown'
        BY FlownStep DEF TypeInv, Counted
    <2>3. Shelved' /\ Counted'
        BY NextShelves, NextCounts DEF TypeInv
    <2>4. \A l \in Legs : Small(leg'[l])
        BY <2>1, NextSmall DEF TypeInv
    <2> QED BY <2>1, <2>2, <2>3, <2>4 DEF TypeInv, Small
<1> QED BY <1>1, <1>2, TypeInvSuffices, PTL DEF Spec
=============================================================================
