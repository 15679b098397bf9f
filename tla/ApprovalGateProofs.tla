--------------------------- MODULE ApprovalGateProofs ---------------------------
(***************************************************************************)
(* The approval queue implements the abstract gate, for every set of cards,*)
(* effects and clients and every choice of the clients with a wrong clock. *)
(* The proof needs one fact the queue's callers rely on without saying so: *)
(* a card that a snapshot showed approved is approved or spent ever after. *)
(***************************************************************************)
EXTENDS ApprovalGate, TLAPS

Rulings == {"approved", "refused", "expired"}

\* What a call in progress still knows of the card it read.
CallInv(p) ==
    LET c == local[p].card
        pc == local[p].pc
    IN  /\ pc # "idle" => c \in Cards
        /\ pc = "decide" => local[p].target \in Rulings
        /\ pc = "expire" => local[p].target = "expired"
        /\ pc = "spend" => local[p].target = "consumed"
        /\ pc \in {"consume", "spend", "unspent"} =>
              /\ state[c] \in {"approved", "consumed"}
              /\ bound[c] = local[p].want
              /\ local[p].target = "consumed"
        /\ pc = "perform" =>
              /\ state[c] = "consumed"
              /\ bound[c] = local[p].want
              /\ spent[c] = Nothing

OnePerformerEach ==
    \A p, q \in Clients :
        local[p].pc = "perform" /\ local[q].pc = "perform" /\ local[p].card = local[q].card
            => p = q

SpentIsConsumed == \A c \in Cards : spent[c] # Nothing => state[c] = "consumed"

IInv == TypeOK /\ (\A p \in Clients : CallInv(p)) /\ OnePerformerEach /\ SpentIsConsumed

-----------------------------------------------------------------------------
(* Types *)

\* Moving on inside a call, answering it and starting one keep local's type.
LEMMA GotoType ==
    ASSUME local \in [Clients -> Local], NEW p \in Clients, NEW pc \in Pcs, Goto(p, pc)
    PROVE  local' \in [Clients -> Local]
BY DEF Goto, Local

LEMMA AnswerType ==
    ASSUME local \in [Clients -> Local], NEW p \in Clients, NEW a \in Answers, Answer(p, a)
    PROVE  local' \in [Clients -> Local]
BY DEF Answer, Local, Pcs

LEMMA CallType ==
    ASSUME local \in [Clients -> Local], NEW p \in Clients, NEW c \in Cards, NEW pc \in Pcs,
           NEW e \in Effects \union {Nothing}, NEW s \in CardStates, Call(p, c, pc, e, s)
    PROVE  local' \in [Clients -> Local]
BY DEF Call, Local, Answers, CardStates

LEMMA EndType ==
    ASSUME local \in [Clients -> Local], NEW p \in Clients, NEW c \in Cards, NEW a \in Answers,
           local' = [local EXCEPT ![p] = [NoCall EXCEPT !.card = c, !.answer = a]]
    PROVE  local' \in [Clients -> Local]
BY DEF NoCall, Local, Pcs, CardStates

LEMMA JudgeType ==
    ASSUME local \in [Clients -> Local], NEW p \in Clients, NEW c \in Cards,
           NEW e \in Effects \union {Nothing}, Judge(p, c, e)
    PROVE  local' \in [Clients -> Local]
BY CallType, EndType DEF Judge, Pcs, CardStates, Answers

LEMMA MoveType ==
    ASSUME state \in [Cards -> CardStates], NEW c \in Cards, NEW s \in CardStates, Move(c, s)
    PROVE  state' \in [Cards -> CardStates]
BY DEF Move

-----------------------------------------------------------------------------
(* What an update of local does *)

\* The others stay where they are; the caller keeps its snapshot as it moves on.
LEMMA GotoEffect ==
    ASSUME local \in [Clients -> Local], NEW p \in Clients, NEW pc, Goto(p, pc)
    PROVE  /\ local'[p].pc = pc
           /\ local'[p].card = local[p].card
           /\ local'[p].want = local[p].want
           /\ local'[p].target = local[p].target
           /\ \A q \in Clients \ {p} : local'[q] = local[q]
BY DEF Goto, Local

LEMMA AnswerEffect ==
    ASSUME local \in [Clients -> Local], NEW p \in Clients, NEW a, Answer(p, a)
    PROVE  /\ local'[p].pc = "idle"
           /\ \A q \in Clients \ {p} : local'[q] = local[q]
BY DEF Answer, Local

LEMMA CallEffect ==
    ASSUME local \in [Clients -> Local], NEW p \in Clients, NEW c, NEW pc, NEW e, NEW s,
           Call(p, c, pc, e, s)
    PROVE  /\ local'[p].pc = pc
           /\ local'[p].card = c
           /\ local'[p].want = e
           /\ local'[p].target = s
           /\ \A q \in Clients \ {p} : local'[q] = local[q]
BY DEF Call

LEMMA EndEffect ==
    ASSUME local \in [Clients -> Local], NEW p \in Clients, NEW c, NEW a,
           local' = [local EXCEPT ![p] = [NoCall EXCEPT !.card = c, !.answer = a]]
    PROVE  /\ local'[p].pc = "idle"
           /\ \A q \in Clients \ {p} : local'[q] = local[q]
BY DEF NoCall

\* A judged card is either approved and bound to the effect, or the call ends.
LEMMA JudgeEffect ==
    ASSUME local \in [Clients -> Local], NEW p \in Clients, NEW c, NEW e, Judge(p, c, e)
    PROVE  /\ \/ local'[p].pc = "idle"
              \/ /\ state[c] = "approved" /\ bound[c] = e
                 /\ local'[p].pc = "consume" /\ local'[p].card = c
                 /\ local'[p].want = e /\ local'[p].target = "consumed"
           /\ \A q \in Clients \ {p} : local'[q] = local[q]
<1>1. CASE state[c] = "approved" /\ bound[c] = e
    <2>1. Call(p, c, "consume", e, "consumed")
        BY <1>1 DEF Judge
    <2>2. QED BY <1>1, <2>1, CallEffect
<1>2. CASE ~(state[c] = "approved" /\ bound[c] = e)
    <2>1. local' = [local EXCEPT ![p] = [NoCall EXCEPT !.card = c, !.answer = "denied"]]
        BY <1>2 DEF Judge
    <2>2. QED BY <2>1, EndEffect
<1>3. QED BY <1>1, <1>2

\* The invariant holds initially.
LEMMA InitInv == Init => IInv
<1> SUFFICES ASSUME Init PROVE IInv
    OBVIOUS
<1>1. TypeOK
    BY DEF Init, AInit, TypeOK, Local, NoCall, CardStates, Pcs, Answers
<1>2. ASSUME NEW p \in Clients PROVE local[p].pc = "idle"
    BY DEF Init, NoCall
<1>3. \A p \in Clients : CallInv(p)
    BY <1>2 DEF CallInv
<1>4. OnePerformerEach /\ SpentIsConsumed
    BY <1>2 DEF OnePerformerEach, SpentIsConsumed, Init, AInit
<1>5. QED BY <1>1, <1>3, <1>4 DEF IInv

\* Every step keeps the types.
LEMMA TypeStep == TypeOK /\ (\A p \in Clients : CallInv(p)) /\ [Next]_vars => TypeOK'
<1> SUFFICES ASSUME TypeOK, \A p \in Clients : CallInv(p), [Next]_vars PROVE TypeOK'
    OBVIOUS
<1> USE DEF TypeOK
<1>a. ASSUME NEW p \in Clients
      PROVE  /\ local[p].pc # "idle" => local[p].card \in Cards
             /\ local[p].target \in CardStates
             /\ local[p].want \in Effects \union {Nothing}
    BY DEF CallInv, Local
<1>b. \A c \in Cards : state[c] \in CardStates /\ state[c] \in Answers
    BY DEF Answers
<1>1. ASSUME NEW c \in Cards, NEW e \in Effects, Raise(c, e) PROVE TypeOK'
    BY <1>1 DEF Raise, ARaise, CardStates
<1>2. ASSUME NEW p \in Clients, NEW c \in Cards, NEW r \in {"approved", "refused"},
             DecideRead(p, c, r) PROVE TypeOK'
    <2>1. local' \in [Clients -> Local]
        <3>1. ASSUME NEW t \in CardStates, Call(p, c, "decide", Nothing, t)
              PROVE  local' \in [Clients -> Local]
            BY <3>1, CallType DEF Pcs
        <3>2. CASE local' = [local EXCEPT ![p] = [NoCall EXCEPT !.card = c, !.answer = state[c]]]
            BY <3>2, <1>b, EndType
        <3>3. QED BY <1>2, <3>1, <3>2 DEF DecideRead, CardStates
    <2>2. QED BY <1>2, <2>1 DEF DecideRead, avars
<1>3. ASSUME NEW p \in Clients, NEW c \in Cards, NEW e \in Effects, GateRead(p, c, e) PROVE TypeOK'
    <2>1. local' \in [Clients -> Local]
        BY <1>3, CallType, JudgeType DEF GateRead, Pcs, CardStates
    <2>2. QED BY <1>3, <2>1 DEF GateRead, avars
<1>4. ASSUME NEW p \in Clients, DecideWrite(p) PROVE TypeOK'
    <2>1. local' \in [Clients -> Local]
        BY <1>4, AnswerType, GotoType DEF DecideWrite, Pcs, Answers
    <2>2. state' \in [Cards -> CardStates]
        BY <1>4, <1>a, MoveType DEF DecideWrite
    <2>3. QED BY <1>4, <2>1, <2>2 DEF DecideWrite
<1>5. ASSUME NEW p \in Clients, DecideLost(p) PROVE TypeOK'
    <2>1. local' \in [Clients -> Local]
        BY <1>5, <1>a, <1>b, AnswerType DEF DecideLost
    <2>2. QED BY <1>5, <2>1 DEF DecideLost, avars
<1>6. ASSUME NEW p \in Clients, GateExpire(p) PROVE TypeOK'
    <2>1. local' \in [Clients -> Local]
        BY <1>6, AnswerType, GotoType DEF GateExpire, Pcs, Answers
    <2>2. state' \in [Cards -> CardStates]
        BY <1>6, <1>a, MoveType DEF GateExpire, CardStates
    <2>3. QED BY <1>6, <2>1, <2>2 DEF GateExpire
<1>7. ASSUME NEW p \in Clients, GateReread(p) PROVE TypeOK'
    <2>1. local' \in [Clients -> Local]
        BY <1>7, <1>a, JudgeType DEF GateReread
    <2>2. QED BY <1>7, <2>1 DEF GateReread, avars
<1>8. ASSUME NEW p \in Clients, ConsumeRead(p) PROVE TypeOK'
    <2>1. local' \in [Clients -> Local]
        BY <1>8, AnswerType, GotoType DEF ConsumeRead, Pcs, Answers, CardStates
    <2>2. QED BY <1>8, <2>1 DEF ConsumeRead, avars
<1>9. ASSUME NEW p \in Clients, ConsumeWrite(p) PROVE TypeOK'
    <2>1. local' \in [Clients -> Local]
        BY <1>9, GotoType DEF ConsumeWrite, Pcs
    <2>2. state' \in [Cards -> CardStates]
        BY <1>9, <1>a, MoveType DEF ConsumeWrite, CardStates
    <2>3. QED BY <1>9, <2>1, <2>2 DEF ConsumeWrite
<1>10. ASSUME NEW p \in Clients, ConsumeLost(p) PROVE TypeOK'
    <2>1. local' \in [Clients -> Local]
        BY <1>10, AnswerType DEF ConsumeLost, Answers, CardStates
    <2>2. QED BY <1>10, <2>1 DEF ConsumeLost, avars
<1>11. ASSUME NEW p \in Clients, Perform(p) PROVE TypeOK'
    <2>1. local' \in [Clients -> Local]
        BY <1>11, AnswerType DEF Perform, Answers
    <2>2. QED BY <1>11, <1>a, <2>1 DEF Perform
<1>12. ASSUME NEW p \in Clients, Unavailable(p) PROVE TypeOK'
    <2>1. local' \in [Clients -> Local]
        BY <1>12, AnswerType DEF Unavailable, Answers
    <2>2. QED BY <1>12, <2>1 DEF Unavailable, avars
<1>13. ASSUME NEW p \in Clients, AckLost(p) PROVE TypeOK'
    <2>1. local' \in [Clients -> Local]
        BY <1>13, AnswerType DEF AckLost, Answers
    <2>2. state' \in [Cards -> CardStates]
        BY <1>13, <1>a, MoveType DEF AckLost
    <2>3. QED BY <1>13, <2>1, <2>2 DEF AckLost
<1>14. ASSUME NEW p \in Clients, Crash(p) PROVE TypeOK'
    BY <1>14 DEF Crash, NoCall, avars, Local, Pcs, Answers, CardStates
<1>15. CASE Sweep
    BY <1>15 DEF Sweep, CardStates
<1>16. ASSUME NEW c \in Cards, Lapse(c) PROVE TypeOK'
    BY <1>16 DEF Lapse, ALapse
<1>17. CASE UNCHANGED vars
    BY <1>17 DEF vars, avars
<1>18. QED
    BY <1>1, <1>2, <1>3, <1>4, <1>5, <1>6, <1>7, <1>8, <1>9, <1>10, <1>11, <1>12, <1>13,
       <1>14, <1>15, <1>16, <1>17 DEF Next, CallStep

-----------------------------------------------------------------------------
(* Invariance *)

\* No step takes an approval back, other than by spending it, or rebinds a card.
Kept ==
    \A c \in Cards :
        /\ state[c] = "consumed" => state'[c] = "consumed"
        /\ state[c] = "approved" => state'[c] \in {"approved", "consumed"}
        /\ state[c] # "none" => bound'[c] = bound[c]

LEMMA OthersStep ==
    ASSUME TypeOK, NEW q \in Clients, CallInv(q), local'[q] = local[q], Kept,
           local[q].pc = "perform" => spent'[local[q].card] = spent[local[q].card]
    PROVE  CallInv(q)'
BY DEF CallInv, Kept

\* A step of p that does not perform keeps the invariant if p's own part holds.
LEMMA CallerStep ==
    ASSUME IInv, TypeOK', Kept, UNCHANGED spent,
           NEW p \in Clients, \A q \in Clients \ {p} : local'[q] = local[q], CallInv(p)',
           local'[p].pc = "perform" =>
               /\ local'[p].card \in Cards
               /\ state[local'[p].card] # "consumed"
    PROVE  IInv'
<1>1. \A q \in Clients \ {p} : CallInv(q)'
    BY OthersStep DEF IInv
<1>2. OnePerformerEach'
    BY <1>1 DEF OnePerformerEach, IInv, CallInv
<1>3. SpentIsConsumed'
    BY DEF SpentIsConsumed, IInv, Kept
<1>4. QED BY <1>1, <1>2, <1>3 DEF IInv

\* A call that only reads, or ends, changes no card.
LEMMA ReadingStep ==
    ASSUME IInv, TypeOK', UNCHANGED avars,
           NEW p \in Clients, \A q \in Clients \ {p} : local'[q] = local[q], CallInv(p)',
           local'[p].pc # "perform"
    PROVE  IInv'
BY CallerStep DEF IInv, TypeOK, Kept, avars

\* Every step of the queue and of its callers keeps the invariant.
LEMMA InvStep == IInv /\ [Next]_vars => IInv'
<1> SUFFICES ASSUME IInv, [Next]_vars PROVE IInv'
    OBVIOUS
<1>t. TypeOK /\ TypeOK' /\ (\A p \in Clients : CallInv(p))
    BY TypeStep DEF IInv
<1>d. local \in [Clients -> Local] /\ state \in [Cards -> CardStates]
    BY <1>t DEF TypeOK
<1>1. ASSUME NEW c \in Cards, NEW e \in Effects, Raise(c, e) PROVE IInv'
    <2>1. Kept /\ UNCHANGED <<spent, local>>
        BY <1>1, <1>d, <1>t DEF Raise, ARaise, Kept, TypeOK
    <2>2. \A p \in Clients : CallInv(p)'
        BY <2>1, <1>t, OthersStep
    <2>3. OnePerformerEach' /\ SpentIsConsumed'
        BY <2>1 DEF IInv, OnePerformerEach, SpentIsConsumed, Kept
    <2>4. QED BY <2>2, <2>3, <1>t DEF IInv
<1>2. ASSUME NEW p \in Clients, NEW c \in Cards, NEW r \in {"approved", "refused"},
             DecideRead(p, c, r) PROVE IInv'
    <2>1. /\ \A q \in Clients \ {p} : local'[q] = local[q]
          /\ \/ /\ local'[p].pc = "decide" /\ local'[p].card = c
                /\ local'[p].target \in Rulings
             \/ local'[p].pc = "idle"
        <3>1. ASSUME NEW t \in Rulings, Call(p, c, "decide", Nothing, t)
              PROVE  /\ \A q \in Clients \ {p} : local'[q] = local[q]
                     /\ local'[p].pc = "decide" /\ local'[p].card = c
                     /\ local'[p].target \in Rulings
            BY <3>1, <1>d, CallEffect
        <3>2. CASE local' = [local EXCEPT ![p] = [NoCall EXCEPT !.card = c, !.answer = state[c]]]
            BY <3>2, <1>d, EndEffect
        <3>3. QED BY <1>2, <3>1, <3>2 DEF DecideRead, Rulings
    <2>2. CallInv(p)' /\ local'[p].pc # "perform"
        BY <2>1 DEF CallInv
    <2>3. QED BY <1>2, <1>t, <2>1, <2>2, ReadingStep DEF DecideRead
<1>3. ASSUME NEW p \in Clients, NEW c \in Cards, NEW e \in Effects, GateRead(p, c, e) PROVE IInv'
    <2>1. \A q \in Clients \ {p} : local'[q] = local[q]
        BY <1>3, <1>d, CallEffect, JudgeEffect DEF GateRead
    <2>2. CallInv(p)' /\ local'[p].pc # "perform"
        BY <1>3, <1>d, <1>t, CallEffect, JudgeEffect DEF GateRead, CallInv, avars
    <2>3. QED BY <1>3, <1>t, <2>1, <2>2, ReadingStep DEF GateRead
<1>4. ASSUME NEW p \in Clients, DecideLost(p) PROVE IInv'
    <2>1. \A q \in Clients \ {p} : local'[q] = local[q]
        BY <1>4, <1>d, AnswerEffect DEF DecideLost
    <2>2. CallInv(p)' /\ local'[p].pc # "perform"
        BY <1>4, <1>d, <1>t, AnswerEffect DEF DecideLost, CallInv
    <2>3. QED BY <1>4, <1>t, <2>1, <2>2, ReadingStep DEF DecideLost
<1>5. ASSUME NEW p \in Clients, GateReread(p) PROVE IInv'
    <2>1. \A q \in Clients \ {p} : local'[q] = local[q]
        BY <1>5, <1>d, JudgeEffect DEF GateReread
    <2>2. CallInv(p)' /\ local'[p].pc # "perform"
        BY <1>5, <1>d, <1>t, JudgeEffect DEF GateReread, CallInv, avars
    <2>3. QED BY <1>5, <1>t, <2>1, <2>2, ReadingStep DEF GateReread
<1>6. ASSUME NEW p \in Clients, ConsumeRead(p) PROVE IInv'
    <2>1. \A q \in Clients \ {p} : local'[q] = local[q]
        BY <1>6, <1>d, AnswerEffect, GotoEffect DEF ConsumeRead
    <2>2. CallInv(p)' /\ local'[p].pc # "perform"
        BY <1>6, <1>d, <1>t, AnswerEffect, GotoEffect DEF ConsumeRead, CallInv, avars
    <2>3. QED BY <1>6, <1>t, <2>1, <2>2, ReadingStep DEF ConsumeRead
<1>7. ASSUME NEW p \in Clients, ConsumeLost(p) PROVE IInv'
    <2>1. \A q \in Clients \ {p} : local'[q] = local[q]
        BY <1>7, <1>d, AnswerEffect DEF ConsumeLost
    <2>2. CallInv(p)' /\ local'[p].pc # "perform"
        BY <1>7, <1>d, <1>t, AnswerEffect DEF ConsumeLost, CallInv
    <2>3. QED BY <1>7, <1>t, <2>1, <2>2, ReadingStep DEF ConsumeLost
<1>8. ASSUME NEW p \in Clients, Unavailable(p) PROVE IInv'
    <2>1. \A q \in Clients \ {p} : local'[q] = local[q]
        BY <1>8, <1>d, AnswerEffect DEF Unavailable
    <2>2. CallInv(p)' /\ local'[p].pc # "perform"
        BY <1>8, <1>d, <1>t, AnswerEffect DEF Unavailable, CallInv
    <2>3. QED BY <1>8, <1>t, <2>1, <2>2, ReadingStep DEF Unavailable
<1>9. ASSUME NEW p \in Clients, Crash(p) PROVE IInv'
    <2>1. local'[p].pc = "idle" /\ \A q \in Clients \ {p} : local'[q] = local[q]
        BY <1>9, <1>d DEF Crash, NoCall
    <2>2. CallInv(p)'
        BY <2>1 DEF CallInv
    <2>3. QED BY <1>9, <1>t, <2>1, <2>2, ReadingStep DEF Crash
<1>10. ASSUME NEW p \in Clients, DecideWrite(p) PROVE IInv'
    <2>1. \A q \in Clients \ {p} : local'[q] = local[q]
        BY <1>10, <1>d, AnswerEffect, GotoEffect DEF DecideWrite
    <2>2. Kept
        BY <1>10, <1>d, <1>t DEF DecideWrite, Move, Kept, CallInv, Rulings, Spendable
    <2>3. CallInv(p)'
        BY <1>10, <1>d, <1>t, AnswerEffect, GotoEffect DEF DecideWrite, CallInv
    <2>4. local'[p].pc = "perform" => local'[p].card \in Cards /\ state[local'[p].card] # "consumed"
        BY <1>10, <1>t, <1>d, AnswerEffect, GotoEffect DEF DecideWrite, CallInv, Spendable
    <2>5. QED BY <1>10, <1>t, <2>1, <2>2, <2>3, <2>4, CallerStep DEF DecideWrite
<1>11. ASSUME NEW p \in Clients, GateExpire(p) PROVE IInv'
    <2>1. \A q \in Clients \ {p} : local'[q] = local[q]
        BY <1>11, <1>d, AnswerEffect, GotoEffect DEF GateExpire
    <2>2. Kept
        BY <1>11, <1>d, <1>t DEF GateExpire, Move, Kept, CallInv, Rulings, Spendable
    <2>3. CallInv(p)'
        BY <1>11, <1>d, <1>t, AnswerEffect, GotoEffect DEF GateExpire, CallInv
    <2>4. local'[p].pc = "perform" => local'[p].card \in Cards /\ state[local'[p].card] # "consumed"
        BY <1>11, <1>t, <1>d, AnswerEffect, GotoEffect DEF GateExpire, CallInv, Spendable
    <2>5. QED BY <1>11, <1>t, <2>1, <2>2, <2>3, <2>4, CallerStep DEF GateExpire
<1>12. ASSUME NEW p \in Clients, ConsumeWrite(p) PROVE IInv'
    <2>1. \A q \in Clients \ {p} : local'[q] = local[q]
        BY <1>12, <1>d, AnswerEffect, GotoEffect DEF ConsumeWrite
    <2>2. Kept
        BY <1>12, <1>d, <1>t DEF ConsumeWrite, Move, Kept, CallInv, Rulings, Spendable
    <2>3. CallInv(p)'
        BY <1>12, <1>d, <1>t, AnswerEffect, GotoEffect DEF ConsumeWrite, CallInv, Move, Spendable, IInv, SpentIsConsumed
    <2>4. local'[p].pc = "perform" => local'[p].card \in Cards /\ state[local'[p].card] # "consumed"
        BY <1>12, <1>t, <1>d, AnswerEffect, GotoEffect DEF ConsumeWrite, CallInv, Spendable
    <2>5. QED BY <1>12, <1>t, <2>1, <2>2, <2>3, <2>4, CallerStep DEF ConsumeWrite
<1>13. ASSUME NEW p \in Clients, AckLost(p) PROVE IInv'
    <2>1. \A q \in Clients \ {p} : local'[q] = local[q]
        BY <1>13, <1>d, AnswerEffect DEF AckLost
    <2>2. Kept
        BY <1>13, <1>d, <1>t DEF AckLost, Move, Kept, CallInv, Rulings, Spendable
    <2>3. CallInv(p)'
        BY <1>13, <1>d, <1>t, AnswerEffect DEF AckLost, CallInv
    <2>4. local'[p].pc = "perform" => local'[p].card \in Cards /\ state[local'[p].card] # "consumed"
        BY <1>13, <1>t, <1>d, AnswerEffect DEF AckLost, CallInv, Spendable
    <2>5. QED BY <1>13, <1>t, <2>1, <2>2, <2>3, <2>4, CallerStep DEF AckLost
<1>14. ASSUME NEW p \in Clients, Perform(p) PROVE IInv'
    <2>1. local'[p].pc = "idle" /\ \A q \in Clients \ {p} : local'[q] = local[q]
        BY <1>14, <1>d DEF Perform, Answer
    <2>2. CallInv(p)'
        BY <2>1 DEF CallInv
    <2>3. Kept
        BY <1>14 DEF Perform, Kept
    <2>4. ASSUME NEW q \in Clients \ {p} PROVE CallInv(q)'
        <3>1. local[q].pc = "perform" => spent'[local[q].card] = spent[local[q].card]
            BY <1>14, <1>t DEF Perform, IInv, OnePerformerEach, CallInv, TypeOK
        <3>2. QED BY <2>1, <2>3, <3>1, <1>t, OthersStep
    <2>5. OnePerformerEach'
        BY <2>1 DEF IInv, OnePerformerEach
    <2>6. SpentIsConsumed'
        BY <1>14, <1>t DEF Perform, IInv, SpentIsConsumed, CallInv, TypeOK
    <2>7. QED BY <2>2, <2>4, <2>5, <2>6, <1>t DEF IInv
<1>15. ASSUME UNCHANGED <<bound, spent, local>>, Kept PROVE IInv'
    <2>1. \A p \in Clients : CallInv(p)'
        BY <1>15, <1>t, OthersStep
    <2>2. OnePerformerEach' /\ SpentIsConsumed'
        BY <1>15 DEF IInv, OnePerformerEach, SpentIsConsumed, Kept
    <2>3. QED BY <2>1, <2>2, <1>t DEF IInv
<1>16. CASE Sweep
    BY <1>15, <1>16, <1>d DEF Sweep, Kept
<1>17. ASSUME NEW c \in Cards, Lapse(c) PROVE IInv'
    BY <1>15, <1>17 DEF Lapse, ALapse, Kept
<1>18. CASE UNCHANGED vars
    BY <1>15, <1>18 DEF vars, avars, Kept
<1>19. QED
    BY <1>1, <1>2, <1>3, <1>4, <1>5, <1>6, <1>7, <1>8, <1>9, <1>10, <1>11, <1>12, <1>13,
       <1>14, <1>16, <1>17, <1>18 DEF Next, CallStep

\* IInv holds in every reachable state.
LEMMA Invariance == Spec => []IInv
BY InitInv, InvStep, PTL DEF Spec

\* Every variable keeps its type, through stale reads, lost acknowledgements and
\* crashes of any number of callers.
THEOREM TypeCorrect == Spec => []TypeOK
BY Invariance, PTL DEF IInv

\* Of any number of callers that read an approved card, at most one runs its
\* handler, on the effect the card was raised for.
THEOREM OneCallerPerforms == Spec => []OnePerformer
<1>1. IInv => OnePerformer
    BY DEF IInv, OnePerformer, OnePerformerEach, CallInv
<1>2. QED BY <1>1, Invariance, PTL

-----------------------------------------------------------------------------
(* Refinement *)

\* Moving one card is a ruling on that card alone.
LEMMA MoveSettles ==
    ASSUME state \in [Cards -> CardStates], NEW c \in Cards, state[c] = "pending",
           NEW s \in Rulings, Move(c, s), UNCHANGED <<bound, overdue, spent>>
    PROVE  ANext
<1>1. ASettle({c}, s)
    BY DEF ASettle, Move
<1>2. QED BY <1>1 DEF ANext, Rulings

LEMMA MoveSpends ==
    ASSUME NEW c \in Cards, Spendable(c), Move(c, "consumed"), UNCHANGED <<bound, overdue, spent>>
    PROVE  ANext
BY DEF ANext, ASpend, Spendable, Move

\* Every step of the queue is one step of the abstract gate, or none.
LEMMA StepRefines == IInv /\ [Next]_vars => [ANext]_avars
<1> SUFFICES ASSUME IInv, [Next]_vars PROVE [ANext]_avars
    OBVIOUS
<1>t. state \in [Cards -> CardStates] /\ \A p \in Clients : CallInv(p)
    BY DEF IInv, TypeOK
<1>1. ASSUME NEW c \in Cards, NEW e \in Effects, Raise(c, e) PROVE ANext
    BY <1>1 DEF Raise, ANext
<1>2. ASSUME NEW p \in Clients, DecideWrite(p) PROVE [ANext]_avars
    BY <1>2, <1>t, MoveSettles DEF DecideWrite, CallInv, avars
<1>3. ASSUME NEW p \in Clients, GateExpire(p) PROVE [ANext]_avars
    BY <1>3, <1>t, MoveSettles DEF GateExpire, CallInv, Rulings, avars
<1>4. ASSUME NEW p \in Clients, ConsumeWrite(p) PROVE [ANext]_avars
    BY <1>4, <1>t, MoveSpends DEF ConsumeWrite, CallInv, avars
<1>5. ASSUME NEW p \in Clients, AckLost(p) PROVE ANext
    BY <1>5, <1>t, MoveSettles, MoveSpends DEF AckLost, CallInv, Rulings
<1>6. ASSUME NEW p \in Clients, Perform(p) PROVE ANext
    <2>1. APerform(local[p].card) /\ local[p].card \in Cards
        BY <1>6, <1>t DEF Perform, APerform, CallInv
    <2>2. QED BY <2>1 DEF ANext
<1>7. CASE Sweep
    <2>1. ASettle({c \in Cards : c \in overdue /\ state[c] = "pending"}, "expired")
        BY <1>7 DEF Sweep, ASettle
    <2>2. QED BY <2>1 DEF ANext
<1>8. ASSUME NEW c \in Cards, Lapse(c) PROVE ANext
    BY <1>8 DEF Lapse, ANext
<1>9. ASSUME NEW p \in Clients, ~(DecideWrite(p) \/ GateExpire(p) \/ ConsumeWrite(p)),
             ~(AckLost(p) \/ Perform(p)), CallStep(p)
      PROVE  UNCHANGED avars
    BY <1>9 DEF CallStep, DecideLost, GateReread, ConsumeRead, ConsumeLost, Unavailable
<1>10. ASSUME NEW p \in Clients, CallStep(p) PROVE [ANext]_avars
    BY <1>2, <1>3, <1>4, <1>5, <1>6, <1>9, <1>10
<1>11. ASSUME NEW p \in Clients, NEW c \in Cards, NEW r, DecideRead(p, c, r)
       PROVE  UNCHANGED avars
    BY <1>11 DEF DecideRead
<1>12. ASSUME NEW p \in Clients, NEW c \in Cards, NEW e, GateRead(p, c, e)
       PROVE  UNCHANGED avars
    BY <1>12 DEF GateRead
<1>13. ASSUME NEW p \in Clients, Crash(p) PROVE UNCHANGED avars
    BY <1>13 DEF Crash
<1>14. QED
    BY <1>1, <1>7, <1>8, <1>10, <1>11, <1>12, <1>13 DEF Next, vars

\* The approval queue, for any callers with any clocks, implements the gate: one
\* ruling a card, an approval spent once before its deadline and never rebound.
THEOREM QueueImplementsGate == Spec => Promise
<1>1. Init => AInit
    BY DEF Init
<1>2. QED BY <1>1, StepRefines, Invariance, PTL DEF Spec, Promise, ASpec

-----------------------------------------------------------------------------
(* What a caller was told *)

\* What one step may do to a card that a caller was told about: a ruling stays, a
\* performance is of the effect that was bound, and nobody spends a late approval.
FateKept ==
    \A c \in Cards :
        /\ state[c] \in {"refused", "expired"} => state'[c] = state[c]
        /\ spent'[c] \in {spent[c], bound[c]}
        /\ c \in overdue => c \in overdue' /\ (state[c] = "approved" => state'[c] = "approved")

\* What p was told is so, and stays so.  A caller that failed to spend its approval
\* although nobody else did was late.
ToldInv(p) ==
    LET c == local[p].card
        a == local[p].answer
    IN  /\ a # "none" => c \in Cards
        /\ a = "consumed" => state[c] = "consumed"
        /\ a \in {"refused", "expired"} => state[c] = a
        /\ a = "approved" => state[c] \in {"approved", "consumed"}
        /\ a = "performed" => state[c] = "consumed" /\ spent[c] = bound[c]
        /\ a = "ruled" => \/ local[p].target \in {"refused", "expired"} /\ state[c] = local[p].target
                          \/ local[p].target = "approved" /\ state[c] \in {"approved", "consumed"}
        /\ a = "overdue" /\ p \notin Skewed => state[c] = "approved" /\ c \in overdue
        /\ local[p].pc = "unspent" /\ state[c] = "approved" => c \in overdue

LEMMA StepKeeps == IInv /\ [Next]_vars => Kept /\ FateKept
<1> SUFFICES ASSUME IInv, [Next]_vars PROVE Kept /\ FateKept
    OBVIOUS
<1> USE DEF Kept, FateKept
<1>t. TypeOK /\ \A p \in Clients : CallInv(p)
    BY DEF IInv
<1>1. CASE UNCHANGED avars
    BY <1>1 DEF avars
<1>2. ASSUME NEW c \in Cards, NEW e \in Effects, Raise(c, e) PROVE Kept /\ FateKept
    BY <1>2, <1>t DEF Raise, ARaise, TypeOK
<1>3. ASSUME NEW p \in Clients, DecideWrite(p) \/ GateExpire(p) \/ ConsumeWrite(p) \/ AckLost(p)
      PROVE  Kept /\ FateKept
    <2>1. \/ UNCHANGED state
          \/ /\ local[p].card \in Cards /\ Move(local[p].card, local[p].target)
             /\ state[local[p].card] = "pending"
          \/ Spendable(local[p].card) /\ Move(local[p].card, "consumed")
        BY <1>3, <1>t DEF DecideWrite, GateExpire, ConsumeWrite, AckLost, CallInv
    <2>2. UNCHANGED <<bound, overdue, spent>>
        BY <1>3 DEF DecideWrite, GateExpire, ConsumeWrite, AckLost
    <2> QED BY <2>1, <2>2, <1>t DEF Move, Spendable, TypeOK
<1>4. ASSUME NEW p \in Clients, Perform(p) PROVE Kept /\ FateKept
    BY <1>4, <1>t DEF Perform, CallInv, TypeOK
<1>5. CASE Sweep
    BY <1>5, <1>t DEF Sweep, TypeOK
<1>6. ASSUME NEW c \in Cards, Lapse(c) PROVE Kept /\ FateKept
    BY <1>6, <1>t DEF Lapse, ALapse, TypeOK
<1> QED
    BY <1>1, <1>2, <1>3, <1>4, <1>5, <1>6 DEF Next, CallStep, DecideRead, DecideLost, GateRead,
       GateReread, ConsumeRead, ConsumeLost, Unavailable, Crash, vars, avars

\* Who is where they were, or only moves on in a call, was told nothing new.
LEMMA ToldKept ==
    ASSUME IInv, NEW p \in Clients, ToldInv(p), Kept, FateKept,
           local'[p].card = local[p].card, local'[p].target = local[p].target,
           local'[p].answer = local[p].answer,
           local'[p].pc = "unspent" => CallInv(p)' /\
               (local[p].pc = "unspent" \/ (state'[local[p].card] = "approved" => local[p].card \in overdue'))
    PROVE  ToldInv(p)'
<1>1. local[p].answer # "none" => local[p].card \in Cards /\ state[local[p].card] \in CardStates
    BY DEF ToldInv, IInv, TypeOK
<1>2. local[p].answer = "performed" => bound'[local[p].card] = bound[local[p].card]
    BY <1>1 DEF ToldInv, Kept
<1> QED BY <1>1, <1>2 DEF ToldInv, Kept, FateKept, CallInv, IInv

LEMMA ToldStep ==
    ASSUME IInv, IInv', [Next]_vars, NEW p \in Clients, ToldInv(p)
    PROVE  ToldInv(p)'
<1>k. Kept /\ FateKept
    BY StepKeeps
<1>t. TypeOK /\ CallInv(p) /\ CallInv(p)' /\ local \in [Clients -> Local]
    BY DEF IInv, TypeOK
<1>1. CASE local'[p] = local[p]
    BY <1>1, <1>k, <1>t, ToldKept
<1>2. ASSUME NEW q \in Clients, q # p, local' = [local EXCEPT ![q] = local'[q]]
      PROVE  local'[p] = local[p]
    BY <1>2, <1>t
<1>3. CASE local'[p].answer = "none" /\ local'[p].pc # "unspent"
    BY <1>3 DEF ToldInv
<1>4. ASSUME NEW c \in Cards, NEW r \in {"approved", "refused"}, DecideRead(p, c, r) PROVE ToldInv(p)'
    <2>1. CASE state[c] = "pending"
        <3>1. local'[p].answer = "none" /\ local'[p].pc = "decide"
            BY <1>4, <2>1, <1>t DEF DecideRead, Call
        <3> QED BY <3>1, <1>3
    <2>2. CASE state[c] # "pending"
        <3>1. local'[p] = [NoCall EXCEPT !.card = c, !.answer = state[c]] /\ UNCHANGED avars
            BY <1>4, <2>2, <1>t DEF DecideRead
        <3>2. local'[p].card = c /\ local'[p].answer = state[c] /\ local'[p].pc = "idle"
            BY <3>1 DEF NoCall
        <3>3. state[c] \in CardStates
            BY <1>t DEF TypeOK
        <3> QED BY <3>1, <3>2, <3>3 DEF ToldInv, avars, CardStates
    <2> QED BY <2>1, <2>2
<1>5. ASSUME NEW c, NEW e, Judge(p, c, e) PROVE local'[p].answer \in {"none", "denied"} /\ local'[p].pc # "unspent"
                                               /\ local'[p].card = c
    <2>1. CASE Call(p, c, "consume", e, "consumed")
        BY <2>1, <1>t DEF Call
    <2>2. CASE local' = [local EXCEPT ![p] = [NoCall EXCEPT !.card = c, !.answer = "denied"]]
        BY <2>2, <1>t DEF NoCall
    <2> QED BY <1>5, <2>1, <2>2 DEF Judge
<1>6. ASSUME NEW c \in Cards, NEW e \in Effects, GateRead(p, c, e) PROVE ToldInv(p)'
    <2>1. CASE Call(p, c, "expire", e, "expired")
        <3>1. local'[p].answer = "none" /\ local'[p].pc = "expire"
            BY <2>1, <1>t DEF Call
        <3> QED BY <3>1, <1>3
    <2>2. CASE Judge(p, c, e)
        BY <2>2, <1>5 DEF ToldInv
    <2> QED BY <1>6, <2>1, <2>2 DEF GateRead
<1>7. ASSUME NEW pc, Goto(p, pc), pc # "unspent" PROVE ToldInv(p)'
    <2>1. local'[p].pc = pc /\ local'[p].card = local[p].card /\ local'[p].target = local[p].target
          /\ local'[p].answer = local[p].answer
        BY <1>7, <1>t DEF Goto, Local
    <2> QED BY <2>1, <1>7, <1>k, ToldKept
<1>8. ASSUME NEW a, Answer(p, a)
      PROVE  /\ local'[p].pc = "idle" /\ local'[p].card = local[p].card
             /\ local'[p].target = local[p].target /\ local'[p].answer = a
    BY <1>8, <1>t DEF Answer, Local
<1>9. CASE DecideWrite(p)
    <2>1. CASE Goto(p, "lost")
        BY <2>1, <1>7
    <2>2. CASE Move(local[p].card, local[p].target) /\ Answer(p, "ruled")
        <3>1. local[p].card \in Cards /\ state'[local[p].card] = local[p].target /\ local[p].target \in Rulings
            BY <2>2, <1>9, <1>t DEF DecideWrite, Move, CallInv, TypeOK
        <3> QED BY <2>2, <3>1, <1>8 DEF ToldInv, Rulings
    <2> QED BY <1>9, <2>1, <2>2 DEF DecideWrite
<1>10. CASE DecideLost(p)
    <2>1. local[p].card \in Cards /\ UNCHANGED avars /\ state[local[p].card] \in CardStates
        BY <1>10, <1>t DEF DecideLost, CallInv, TypeOK
    <2>2. local'[p].answer = state[local[p].card] /\ local'[p].card = local[p].card /\ local'[p].pc = "idle"
        BY <1>8, <1>10 DEF DecideLost
    <2> QED BY <2>1, <2>2 DEF ToldInv, avars, CardStates
<1>11. CASE GateExpire(p)
    <2>1. CASE Goto(p, "reread")
        BY <2>1, <1>7
    <2>2. CASE Answer(p, "denied")
        <3>1. local[p].card \in Cards
            BY <1>11, <1>t DEF GateExpire, CallInv
        <3> QED BY <2>2, <3>1, <1>8 DEF ToldInv
    <2> QED BY <1>11, <2>1, <2>2 DEF GateExpire
<1>12. CASE GateReread(p)
    <2>1. local[p].card \in Cards /\ Judge(p, local[p].card, local[p].want)
        BY <1>12, <1>t DEF GateReread, CallInv
    <2> QED BY <2>1, <1>5 DEF ToldInv
<1>13. CASE ConsumeRead(p)
    <2> DEFINE c == local[p].card
    <2>1. c \in Cards /\ UNCHANGED avars
        BY <1>13, <1>t DEF ConsumeRead, CallInv
    <2>2. CASE state[c] = "consumed" /\ Answer(p, "consumed")
        BY <2>1, <2>2, <1>8 DEF ToldInv, avars
    <2>3. CASE state[c] = "approved" /\ Goto(p, "spend")
        BY <2>3, <1>7
    <2>4. CASE state[c] = "approved" /\ Answer(p, "overdue") /\ TRUE \in Overdue(p, c)
        <3>1. p \notin Skewed => c \in overdue
            BY <2>4 DEF Overdue
        <3> QED BY <2>1, <2>4, <3>1, <1>8 DEF ToldInv, avars
    <2>5. \A late \in Overdue(p, c) : late \in BOOLEAN
        BY DEF Overdue
    <2> QED BY <1>13, <2>2, <2>3, <2>4, <2>5 DEF ConsumeRead
<1>14. CASE ConsumeWrite(p)
    <2>1. CASE Goto(p, "perform")
        BY <2>1, <1>7
    <2>2. CASE ~Spendable(local[p].card) /\ UNCHANGED state /\ Goto(p, "unspent")
        <3>1. /\ local'[p].card = local[p].card /\ local'[p].target = local[p].target
              /\ local'[p].answer = local[p].answer
            BY <2>2, <1>t DEF Goto, Local
        <3>2. UNCHANGED overdue
            BY <1>14 DEF ConsumeWrite
        <3> QED BY <2>2, <3>1, <3>2, <1>k, <1>t, ToldKept DEF Spendable
    <2> QED BY <1>14, <2>1, <2>2 DEF ConsumeWrite
<1>15. CASE ConsumeLost(p)
    <2> DEFINE c == local[p].card
    <2>1. c \in Cards /\ UNCHANGED avars /\ state[c] \in {"approved", "consumed"}
          /\ (state[c] = "approved" => c \in overdue)
        BY <1>15, <1>t DEF ConsumeLost, CallInv, ToldInv
    <2> QED BY <2>1, <1>8, <1>15 DEF ConsumeLost, ToldInv, avars
<1>16. CASE Perform(p)
    <2> DEFINE c == local[p].card
    <2>1. c \in Cards /\ state'[c] = "consumed" /\ spent'[c] = bound'[c]
        BY <1>16, <1>t DEF Perform, CallInv, TypeOK
    <2> QED BY <2>1, <1>8, <1>16 DEF Perform, ToldInv
<1>17. CASE Unavailable(p) \/ AckLost(p)
    <2>1. local[p].card \in Cards /\ Answer(p, "unavailable")
        BY <1>17, <1>t DEF Unavailable, AckLost, CallInv
    <2> QED BY <2>1, <1>8 DEF ToldInv
<1>18. CASE Crash(p)
    BY <1>18, <1>3, <1>t DEF Crash, NoCall
<1>19. ASSUME NEW q \in Clients, q # p,
              \/ \E c \in Cards : \/ \E r \in {"approved", "refused"} : DecideRead(q, c, r)
                                  \/ \E e \in Effects : GateRead(q, c, e)
              \/ CallStep(q) \/ Crash(q)
       PROVE  local'[p] = local[p]
    BY <1>19, <1>t DEF DecideRead, GateRead, CallStep, Crash, DecideWrite, DecideLost, GateExpire, GateReread,
       ConsumeRead, ConsumeWrite, ConsumeLost, Perform, Unavailable, AckLost, Judge, Call, Goto, Answer
<1>20. CASE \/ \E c \in Cards, e \in Effects : Raise(c, e)
            \/ Sweep \/ (\E c \in Cards : Lapse(c)) \/ UNCHANGED vars
    BY <1>1, <1>20 DEF Raise, Sweep, Lapse, vars
<1> QED
    BY <1>1, <1>4, <1>6, <1>9, <1>10, <1>11, <1>12, <1>13, <1>14, <1>15, <1>16, <1>17, <1>18, <1>19, <1>20
       DEF Next, CallStep

LEMMA ToldInvariance == Spec => [](IInv /\ \A p \in Clients : ToldInv(p))
<1> DEFINE Told == \A p \in Clients : ToldInv(p)
<1>1. Init => Told
    BY DEF Init, NoCall, ToldInv
<1>2. IInv /\ IInv' /\ Told /\ [Next]_vars => Told'
    BY ToldStep
<1> HIDE DEF Told
<1>3. Spec => [](IInv /\ Told)
    BY <1>1, <1>2, Invariance, PTL DEF Spec
<1> QED BY <1>3 DEF Told

\* What a caller was told stays true: a refusal or an expiry heard is the card's
\* fate, a card called spent was spent, a performance is of the bound effect.
THEOREM ToldForGood == Spec => []AnswersStayTrue
<1>1. (\A p \in Clients : ToldInv(p)) => AnswersStayTrue
    BY DEF ToldInv, AnswersStayTrue
<1> QED BY <1>1, ToldInvariance, PTL

\* A caller with a right clock that was told its approval ran out unspent can rely
\* on it: nobody spends that approval later, whatever the others' clocks say.
THEOREM LateApprovalIsNeverSpent == Spec => []OverdueMeansUnspent
<1>1. (\A p \in Clients : ToldInv(p)) => OverdueMeansUnspent
    BY DEF ToldInv, OverdueMeansUnspent
<1> QED BY <1>1, ToldInvariance, PTL
=============
