-------------------------- MODULE TaskExecutionProofs --------------------------
(***************************************************************************)
(* What holds of a durable task for any number of workers and requests,    *)
(* any plan and any number of claims: types, the single owner of a lease,  *)
(* that an owner's copy of the task is never behind the committed row, and *)
(* that a human approval is spent on one effect, of the step it names.     *)
(***************************************************************************)
EXTENDS TaskExecution, TLAPS

\* A worker in the middle of a step works on a running task with a step to run;
\* on its way to an external effect it has that step's card.
InStep(w) ==
    LET m == wk[w].mem
    IN  /\ wk[w].pc \in {"fence", "intent", "perform", "record"} =>
              m.state = "running" /\ wk[w].left # 0
        /\ wk[w].pc \in {"fence", "intent"} => Plan[m.cur] = "write"
        /\ wk[w].pc \in {"fence", "intent", "perform"} /\ Plan[m.cur] = "write" =>
              m.card[m.cur] # 0

WorkerInv == wk \in [Workers -> Locals] /\ \A w \in Workers : InStep(w)

TypeInv == TypeOK /\ WorkerInv

\* A step of w leaves the other workers where they are; w itself keeps the claim
\* it holds and the payload it claimed, or gives the claim up.
KeepsClaims(w) ==
    /\ \A v \in Workers \ {w} : wk'[v] = wk[v]
    /\ \/ wk'[w].tok = wk[w].tok /\ wk'[w].base = wk[w].base
       \/ wk'[w].tok = 0

-----------------------------------------------------------------------------
(* Updates of a task *)

LEMMA LenPlan == Len(Plan) \in Nat \ {0}
BY PlanAssumption

LEMMA StateType ==
    ASSUME NEW t \in Tasks, NEW s \in TaskStates, s \in Done \/ t.cur \in Steps
    PROVE  [t EXCEPT !.state = s] \in Tasks
BY DEF Tasks

LEMMA SteppedType ==
    ASSUME NEW t \in Tasks, t.cur \in Steps, NEW ts \in TaskStates, NEW ss \in StepStates
    PROVE  /\ Stepped(t, ts, ss) \in Tasks
           /\ Stepped(t, ts, ss).state = ts
           /\ Stepped(t, ts, ss).cur = t.cur
           /\ Stepped(t, ts, ss).card = t.card
BY DEF Stepped, Tasks

LEMMA CheckpointedType ==
    ASSUME NEW t \in Tasks, t.cur \in Steps
    PROVE  /\ Checkpointed(t) \in Tasks
           /\ Checkpointed(t).cur = t.cur
           /\ Checkpointed(t).card = t.card
BY DEF Checkpointed, Tasks, Checkpoints

LEMMA AwaitingType ==
    ASSUME NEW t \in Tasks, t.cur \in Steps, NEW c \in CardIds
    PROVE  Awaiting(t, c) \in Tasks
<1> DEFINE u == Stepped(Checkpointed(t), "waiting", "waiting")
<1>1. u \in Tasks /\ u.cur = t.cur
    BY CheckpointedType, SteppedType DEF TaskStates, StepStates
<1>2. QED BY <1>1 DEF Awaiting, Tasks

LEMMA AdvancedType ==
    ASSUME NEW t \in Tasks, t.cur \in Steps, NEW s \in TaskStates,
           s \in Done \/ t.cur # Len(Plan)
    PROVE  Advanced(t, s) \in Tasks
<1> DEFINE u == Stepped(t, s, "completed")
<1>1. u \in Tasks /\ u.cur = t.cur /\ u.state = s
    BY SteppedType DEF StepStates
<1>2. t.cur + 1 \in 1 .. Len(Plan) + 1 /\ (s \notin Done => t.cur + 1 \in Steps)
    BY LenPlan DEF Steps
<1>3. u.obs + 1 \in Nat /\ [u.card EXCEPT ![t.cur] = 0] \in [Steps -> CardIds \union {0}]
    BY <1>1 DEF Tasks
<1>4. QED BY <1>1, <1>2, <1>3 DEF Advanced, Tasks

LEMMA ObservedType ==
    ASSUME NEW t \in Tasks, t.cur \in Steps, NEW ok \in BOOLEAN
    PROVE  Observed(t, ok) \in Tasks
<1>1. CASE ok
    BY <1>1, AdvancedType DEF Observed, TaskStates, Done
<1>2. CASE ~ok
    <2> DEFINE u == Stepped(t, "failed", "failed")
    <2>1. u \in Tasks /\ u.state = "failed"
        BY SteppedType DEF StepStates, TaskStates, Done
    <2>2. QED BY <1>2, <2>1 DEF Observed, Tasks
<1>3. QED BY <1>1, <1>2

LEMMA RewoundType ==
    ASSUME NEW t \in Tasks, NEW cp \in t.cps
    PROVE  Rewound(t, cp) \in Tasks
<1>1. cp \in Checkpoints
    BY DEF Tasks
<1> DEFINE card == [s \in Steps |-> IF cp.step[s] = "waiting" THEN t.card[s] ELSE 0]
           state == IF cp.cur = 1 THEN "planned" ELSE "running"
<1>2. cp.cur \in Steps /\ cp.cur \in 1 .. Len(Plan) + 1
    BY <1>1, LenPlan DEF Checkpoints, Steps
<1>3. card \in [Steps -> CardIds \union {0}] /\ state \in TaskStates
    BY <1>1 DEF Tasks, TaskStates
<1>4. (IF t.obs > cp.obs THEN cp.obs ELSE t.obs) \in Nat /\ cp.step \in [Steps -> StepStates]
    BY <1>1 DEF Tasks, Checkpoints
<1>5. QED BY <1>2, <1>3, <1>4 DEF Rewound, Tasks

-----------------------------------------------------------------------------
(* Updates of a worker *)

Outside == Pcs \ {"fence", "intent", "perform", "record"}

LEMMA NewTaskType == NewTask \in Tasks
BY LenPlan DEF NewTask, Tasks, TaskStates, StepStates, Steps

LEMMA IdleType == Idle \in Locals /\ Idle.pc = "idle" /\ Idle.tok = 0
BY NewTaskType, BoundAssumption DEF Idle, Locals, Pcs, RunStates

LEMMA OneWorkerMoves ==
    ASSUME WorkerInv, NEW w \in Workers, NEW r \in Locals, wk' = [wk EXCEPT ![w] = r], InStep(w)'
    PROVE  WorkerInv' /\ \A v \in Workers \ {w} : wk'[v] = wk[v]
<1>1. \A v \in Workers \ {w} : wk'[v] = wk[v]
    BY DEF WorkerInv
<1>2. \A v \in Workers \ {w} : InStep(v)'
    BY <1>1 DEF WorkerInv, InStep
<1>3. wk' \in [Workers -> Locals]
    BY DEF WorkerInv
<1>4. QED BY <1>1, <1>2, <1>3 DEF WorkerInv

LEMMA MovesOutside ==
    ASSUME WorkerInv, NEW w \in Workers, NEW r \in Locals, wk' = [wk EXCEPT ![w] = r],
           r.pc \in Outside
    PROVE  WorkerInv' /\ \A v \in Workers \ {w} : wk'[v] = wk[v]
<1>1. wk'[w] = r
    BY DEF WorkerInv
<1>2. InStep(w)'
    BY <1>1 DEF InStep, Outside
<1>3. QED BY <1>2, OneWorkerMoves

LEMMA GotoStep ==
    ASSUME WorkerInv, NEW w \in Workers, NEW pc \in Outside, Goto(w, pc)
    PROVE  WorkerInv' /\ KeepsClaims(w)
<1> DEFINE r == [wk[w] EXCEPT !.pc = pc]
<1>1. /\ r \in Locals /\ r.pc \in Outside
      /\ r.tok = wk[w].tok /\ r.base = wk[w].base
    BY DEF WorkerInv, Locals, Outside
<1>2. wk' = [wk EXCEPT ![w] = r] /\ wk'[w] = r
    BY DEF Goto, WorkerInv
<1>3. QED BY <1>1, <1>2, MovesOutside DEF KeepsClaims

LEMMA UpdateStep ==
    ASSUME WorkerInv, NEW w \in Workers, NEW pc \in Outside, NEW m \in Tasks, Update(w, pc, m)
    PROVE  WorkerInv' /\ KeepsClaims(w)
<1> DEFINE r == [wk[w] EXCEPT !.pc = pc, !.mem = m]
<1>1. /\ r \in Locals /\ r.pc \in Outside
      /\ r.tok = wk[w].tok /\ r.base = wk[w].base
    BY ZenonT(30) DEF WorkerInv, Locals, Outside
<1>2. wk' = [wk EXCEPT ![w] = r] /\ wk'[w] = r
    BY DEF Update, WorkerInv
<1>3. QED BY <1>1, <1>2, MovesOutside DEF KeepsClaims

LEMMA LeaveStep ==
    ASSUME WorkerInv, NEW w \in Workers, Leave(w)
    PROVE  WorkerInv' /\ KeepsClaims(w) /\ wk'[w].tok = 0
<1>1. wk' = [wk EXCEPT ![w] = Idle] /\ wk'[w] = Idle
    BY DEF Leave, WorkerInv
<1>2. Idle.pc \in Outside
    BY IdleType DEF Outside, Pcs
<1>3. QED BY <1>1, <1>2, IdleType, MovesOutside DEF KeepsClaims

LEMMA RaiseStep ==
    ASSUME WorkerInv, NEW w \in Workers, NEW b \in Tasks,
           wk' = [wk EXCEPT ![w] = [Idle EXCEPT !.pc = "raise", !.key = wk[w].key,
                                               !.tok = wk[w].tok, !.base = b]]
    PROVE  /\ WorkerInv'
           /\ \A v \in Workers \ {w} : wk'[v] = wk[v]
           /\ wk'[w].tok = wk[w].tok /\ wk'[w].base = b
<1> DEFINE r == [Idle EXCEPT !.pc = "raise", !.key = wk[w].key, !.tok = wk[w].tok, !.base = b]
<1>1. wk[w] \in Locals
    BY DEF WorkerInv
<1>2. r \in Locals /\ r.pc = "raise" /\ r.tok = wk[w].tok /\ r.base = b
    BY <1>1, IdleType DEF Locals, Pcs
<1>3. r.pc \in Outside
    BY <1>2 DEF Outside, Pcs
<1>4. wk' = [wk EXCEPT ![w] = r] /\ wk'[w] = r
    BY DEF WorkerInv
<1>5. QED BY <1>2, <1>3, <1>4, MovesOutside

LEMMA RaiseKeeps ==
    ASSUME WorkerInv, NEW w \in Workers, Raise(w)
    PROVE  WorkerInv' /\ KeepsClaims(w)
<1>1. wk[w].base \in Tasks
    BY DEF WorkerInv, Locals
<1>2. QED BY <1>1, RaiseStep DEF Raise, KeepsClaims

\* A worker about to take a step has one to take.
LEMMA AtStepMem ==
    ASSUME WorkerInv, NEW w \in Workers, NEW kind, AtStep(w, kind)
    PROVE  /\ wk[w].mem \in Tasks
           /\ wk[w].mem.cur \in Steps
           /\ wk[w].left # 0
           /\ Plan[wk[w].mem.cur] = kind
BY DEF AtStep, StopsLoop, WorkerInv, Locals, Tasks

LEMMA InStepMem ==
    ASSUME WorkerInv, NEW w \in Workers, wk[w].pc \in {"fence", "intent", "perform", "record"}
    PROVE  wk[w].mem \in Tasks /\ wk[w].mem.cur \in Steps /\ wk[w].left # 0
<1>1. wk[w].mem \in Tasks /\ wk[w].mem.state = "running" /\ wk[w].left # 0
    BY DEF WorkerInv, InStep, Locals
<1>2. QED BY <1>1 DEF Tasks, Done

-----------------------------------------------------------------------------
(* Every action of a worker keeps the workers' types and claims *)

LEMMA OutsidePcs == {"idle", "claim", "orphan", "park", "step", "finish", "commit", "raise"} = Outside
BY DEF Outside, Pcs

LEMMA ReadLedgerMoves ==
    ASSUME TypeInv, NEW w \in Workers, NEW k \in Keys, NEW ms \in Budgets, NEW nested \in Callers,
           ReadLedger(w, k, ms, nested)
    PROVE  WorkerInv' /\ KeepsClaims(w)
<1> DEFINE r == [Idle EXCEPT !.pc = "claim", !.key = k, !.ms = ms, !.nested = nested,
                             !.row = runs[k].state]
<1>1. /\ k \in Keys \union {NoKey} /\ ms \in Nat /\ nested \in BOOLEAN
      /\ runs[k].state \in RunStates /\ "claim" \in Pcs
    BY BoundAssumption DEF TypeInv, TypeOK, Pcs
<1>2. r \in Locals /\ r.pc = "claim" /\ r.tok = 0
    BY <1>1, IdleType DEF Locals
<1>3. wk' = [wk EXCEPT ![w] = r]
    BY DEF ReadLedger
<1>4. wk'[w] = r /\ r.pc \in Outside /\ WorkerInv
    BY <1>2, <1>3, OutsidePcs DEF TypeInv, WorkerInv
<1>5. QED BY <1>2, <1>3, <1>4, MovesOutside DEF KeepsClaims

LEMMA ClaimMoves ==
    ASSUME TypeInv, NEW w \in Workers, Claim(w)
    PROVE  /\ WorkerInv'
           /\ \A v \in Workers \ {w} : wk'[v] = wk[v]
           /\ wk'[w].tok = gen + 1 /\ wk'[w].base = task
<1> DEFINE r == [wk[w] EXCEPT !.pc = "orphan", !.tok = gen + 1, !.left = wk[w].ms,
                              !.base = task, !.mem = task]
<1>1. gen + 1 \in 0 .. MaxGen /\ task \in Tasks /\ "orphan" \in Pcs
    BY BoundAssumption DEF TypeInv, TypeOK, Claim, Claimable, Pcs
<1>2. r \in Locals /\ r.pc = "orphan" /\ r.tok = gen + 1 /\ r.base = task
    BY <1>1, ZenonT(30) DEF TypeInv, WorkerInv, Locals
<1>3. wk' = [wk EXCEPT ![w] = r]
    BY DEF Claim
<1>4. wk'[w] = r /\ r.pc \in Outside /\ WorkerInv
    BY <1>2, <1>3, OutsidePcs DEF TypeInv, WorkerInv
<1>5. QED BY <1>2, <1>3, <1>4, MovesOutside

LEMMA RecordMoves ==
    ASSUME TypeInv, NEW w \in Workers, Record(w)
    PROVE  WorkerInv' /\ KeepsClaims(w)
<1> DEFINE l == wk[w]
           r == Recorded(l)
           rs == IF Plan[l.mem.cur] = "write" THEN l.rcpts \union {Receipt(l)} ELSE l.rcpts
<1>0. WorkerInv /\ l \in Locals
    BY DEF TypeInv, WorkerInv
<1>1. l.mem \in Tasks /\ l.mem.cur \in Steps /\ l.left # 0
    BY <1>0, InStepMem DEF Record
<1>2. Receipt(l) \in Receipts
    BY <1>0, <1>1 DEF Receipt, Receipts, Locals
<1>3. rs \subseteq Receipts /\ Observed(l.mem, l.ok) \in Tasks /\ l.left - 1 \in Nat
    BY <1>0, <1>1, <1>2, ObservedType DEF Locals
<1>4. r \in Locals /\ r.pc = "step" /\ r.tok = l.tok /\ r.base = l.base
    BY <1>0, <1>3, ZenonT(30) DEF Recorded, Locals, Pcs
<1>5. CASE Raise(w)
    BY <1>0, <1>5, RaiseKeeps
<1>6. CASE wk' = [wk EXCEPT ![w] = Recorded(wk[w])]
    <2>1. wk'[w] = r
        BY <1>0, <1>6 DEF WorkerInv
    <2>2. r.pc \in Outside
        BY <1>4, OutsidePcs
    <2>3. QED BY <1>0, <1>4, <1>6, <2>1, <2>2, MovesOutside DEF KeepsClaims
<1>7. QED BY <1>5, <1>6 DEF Record

LEMMA RaiseCardMoves ==
    ASSUME TypeInv, NEW w \in Workers, RaiseCard(w)
    PROVE  WorkerInv' /\ KeepsClaims(w)
<1>0. WorkerInv /\ wk[w] \in Locals
    BY DEF TypeInv, WorkerInv
<1>1. PICK c \in CardIds :
        wk' = [wk EXCEPT ![w] = [@ EXCEPT !.pc = "finish", !.raised = c,
                                          !.mem = Awaiting(wk[w].mem, c)]]
    BY DEF RaiseCard
<1> DEFINE r == [wk[w] EXCEPT !.pc = "finish", !.raised = c, !.mem = Awaiting(wk[w].mem, c)]
<1>2. Awaiting(wk[w].mem, c) \in Tasks
    BY <1>0, AtStepMem, AwaitingType DEF RaiseCard
<1>3. /\ r \in Locals /\ r.pc = "finish" /\ "finish" \in Outside
      /\ r.tok = wk[w].tok /\ r.base = wk[w].base
    BY <1>0, <1>2, OutsidePcs DEF Locals, Pcs
<1>4. wk' = [wk EXCEPT ![w] = r] /\ wk'[w] = r
    BY <1>0, <1>1 DEF WorkerInv
<1>5. QED BY <1>0, <1>3, <1>4, MovesOutside, ZenonT(30) DEF KeepsClaims

\* A worker that goes on inside its step keeps what InStep says of it.
LEMMA EntersStep ==
    ASSUME WorkerInv, NEW w \in Workers, NEW pc \in {"fence", "perform"}, NEW m \in Tasks,
           Update(w, pc, m), m.state = "running", wk[w].left # 0,
           pc = "fence" => Plan[m.cur] = "write",
           Plan[m.cur] = "write" => m.card[m.cur] # 0
    PROVE  WorkerInv' /\ KeepsClaims(w)
<1> DEFINE r == [wk[w] EXCEPT !.pc = pc, !.mem = m]
<1>1. /\ r \in Locals /\ r.pc = pc /\ r.mem = m /\ r.left = wk[w].left
      /\ r.tok = wk[w].tok /\ r.base = wk[w].base
    <2>1. wk[w] \in Locals /\ pc \in Pcs
        BY DEF WorkerInv, Pcs
    <2>2. r \in Locals
        BY <2>1 DEF Locals
    <2>3. /\ r.pc = pc /\ r.mem = m /\ r.left = wk[w].left
          /\ r.tok = wk[w].tok /\ r.base = wk[w].base
        BY <2>1 DEF Locals
    <2> QED BY <2>2, <2>3
<1>2. wk' = [wk EXCEPT ![w] = r] /\ wk'[w] = r
    BY DEF Update, WorkerInv
<1>3. InStep(w)'
    BY <1>1, <1>2 DEF InStep
<1>4. QED BY <1>1, <1>2, <1>3, OneWorkerMoves DEF KeepsClaims

LEMMA GoesOnInStep ==
    ASSUME WorkerInv, NEW w \in Workers, NEW pc \in {"intent", "perform"}, Goto(w, pc),
           wk[w].pc \in {"fence", "intent"}
    PROVE  WorkerInv' /\ KeepsClaims(w)
<1> DEFINE r == [wk[w] EXCEPT !.pc = pc]
<1>1. /\ r \in Locals /\ r.pc = pc /\ r.mem = wk[w].mem /\ r.left = wk[w].left
      /\ r.tok = wk[w].tok /\ r.base = wk[w].base
    BY DEF WorkerInv, Locals, Pcs
<1>2. wk' = [wk EXCEPT ![w] = r] /\ wk'[w] = r
    BY DEF Goto, WorkerInv
<1>3. InStep(w)'
    BY <1>1, <1>2 DEF InStep, WorkerInv
<1>4. QED BY <1>1, <1>2, <1>3, OneWorkerMoves DEF KeepsClaims

LEMMA ReturnMoves ==
    ASSUME WorkerInv, NEW w \in Workers, NEW ok \in BOOLEAN, Return(w, ok), wk[w].pc = "perform"
    PROVE  WorkerInv' /\ KeepsClaims(w)
<1> DEFINE r == [wk[w] EXCEPT !.pc = "record", !.ok = ok]
<1>0. "record" \in Pcs
    BY DEF Pcs
<1>1. /\ r \in Locals /\ r.pc = "record" /\ r.mem = wk[w].mem /\ r.left = wk[w].left
      /\ r.tok = wk[w].tok /\ r.base = wk[w].base
    BY <1>0, ZenonT(30) DEF WorkerInv, Locals
<1>2. wk' = [wk EXCEPT ![w] = r] /\ wk'[w] = r
    BY DEF Return, WorkerInv
<1>3. InStep(w)'
    BY <1>1, <1>2 DEF InStep, WorkerInv
<1>4. QED BY <1>1, <1>2, <1>3, OneWorkerMoves DEF KeepsClaims

-----------------------------------------------------------------------------
(* Every worker step but a claim and a park keeps the claims *)

CardType == [state : CardStates, step : Steps, told : BOOLEAN, lapsed : BOOLEAN]

Moving(w) ==
    \/ \E k \in Keys, ms \in Budgets, nested \in Callers : ReadLedger(w, k, ms, nested)
    \/ ClaimRefused(w) \/ OrphanCheck(w)
    \/ StopLoop(w) \/ ObserveCancel(w) \/ SelectBlocked(w)
    \/ RaiseCard(w) \/ NoCardLeft(w) \/ ReadRuling(w) \/ StartRead(w)
    \/ FenceIntent(w) \/ CommitIntent(w) \/ PerformRead(w) \/ PerformWrite(w) \/ Record(w)
    \/ Verify(w) \/ Complete(w) \/ CompleteRefused(w)
    \/ Fail(w) \/ StepRaises(w) \/ FailAborts(w) \/ Crash(w) \/ LoseHeartbeat(w)

LEMMA ReadRulingMoves ==
    ASSUME WorkerInv, NEW w \in Workers, ReadRuling(w)
    PROVE  WorkerInv' /\ KeepsClaims(w)
<1> DEFINE m == wk[w].mem
           c == m.card[m.cur]
<1>1. m \in Tasks /\ m.cur \in Steps /\ wk[w].left # 0 /\ Plan[m.cur] = "write" /\ c # 0
    BY AtStepMem DEF ReadRuling
<1>2. "finish" \in Outside
    BY OutsidePcs
<1>3. \/ Update(w, "finish", [m EXCEPT !.state = "waiting"])
      \/ Update(w, "finish", Stepped(m, "cancelled", "skipped"))
      \/ Raise(w)
      \/ Update(w, "fence", Stepped(m, "running", "running"))
    BY DEF ReadRuling
<1>4. CASE Update(w, "finish", [m EXCEPT !.state = "waiting"])
    BY <1>1, <1>2, <1>4, StateType, UpdateStep DEF TaskStates
<1>5. CASE Update(w, "finish", Stepped(m, "cancelled", "skipped"))
    BY <1>1, <1>2, <1>5, SteppedType, UpdateStep DEF TaskStates, StepStates, Done
<1>6. CASE Raise(w)
    BY <1>6, RaiseKeeps
<1>7. CASE Update(w, "fence", Stepped(m, "running", "running"))
    <2>1. /\ Stepped(m, "running", "running") \in Tasks
          /\ Stepped(m, "running", "running").state = "running"
          /\ Stepped(m, "running", "running").cur = m.cur
          /\ Stepped(m, "running", "running").card = m.card
        BY <1>1, SteppedType DEF TaskStates, StepStates
    <2>2. QED BY <1>1, <1>7, <2>1, EntersStep
<1>8. QED BY <1>3, <1>4, <1>5, <1>6, <1>7

LEMMA StartReadMoves ==
    ASSUME WorkerInv, NEW w \in Workers, StartRead(w)
    PROVE  WorkerInv' /\ KeepsClaims(w)
<1> DEFINE m == wk[w].mem
           n == IF m.step[m.cur] = "planned" THEN Checkpointed(m) ELSE m
           u == Stepped(n, "running", "running")
<1>1. m \in Tasks /\ m.cur \in Steps /\ wk[w].left # 0 /\ Plan[m.cur] = "read"
    BY AtStepMem DEF StartRead
<1>2. n \in Tasks /\ n.cur = m.cur
    BY <1>1, CheckpointedType
<1>3. u \in Tasks /\ u.state = "running" /\ u.cur = m.cur
    BY <1>1, <1>2, SteppedType DEF TaskStates, StepStates
<1>4. Update(w, "perform", u)
    BY DEF StartRead
<1>5. QED BY <1>1, <1>3, <1>4, EntersStep

LEMMA WorkerMoves ==
    ASSUME TypeInv, NEW w \in Workers, Moving(w)
    PROVE  WorkerInv' /\ KeepsClaims(w)
<1>0. WorkerInv /\ wk[w] \in Locals /\ wk[w].mem \in Tasks
    BY DEF TypeInv, WorkerInv, Locals
<1> USE <1>0
<1>1. ASSUME NEW k \in Keys, NEW ms \in Budgets, NEW nested \in Callers, ReadLedger(w, k, ms, nested)
      PROVE  WorkerInv' /\ KeepsClaims(w)
    BY <1>1, ReadLedgerMoves
<1>2. CASE ClaimRefused(w) \/ Complete(w) \/ Fail(w) \/ FailAborts(w) \/ Crash(w)
    BY <1>2, LeaveStep DEF ClaimRefused, Complete, Fail, FailAborts, Crash
<1>3. CASE OrphanCheck(w)
    BY <1>3, GotoStep, RaiseKeeps, OutsidePcs DEF OrphanCheck
<1>4. CASE StopLoop(w)
    BY <1>4, GotoStep, OutsidePcs DEF StopLoop
<1>5. CASE ObserveCancel(w)
    BY <1>5, StateType, UpdateStep, OutsidePcs DEF ObserveCancel, TaskStates, Done
<1>6. CASE SelectBlocked(w)
    BY <1>6, AtStepMem, SteppedType, UpdateStep, OutsidePcs
       DEF SelectBlocked, TaskStates, StepStates, Done
<1>7. CASE RaiseCard(w)
    BY <1>7, RaiseCardMoves
<1>8. CASE NoCardLeft(w) \/ CompleteRefused(w) \/ StepRaises(w)
    BY <1>8, RaiseKeeps DEF NoCardLeft, CompleteRefused, StepRaises
<1>9. CASE ReadRuling(w) \/ StartRead(w)
    BY <1>9, ReadRulingMoves, StartReadMoves
<1>10. CASE FenceIntent(w) \/ CommitIntent(w)
    BY <1>10, GoesOnInStep, RaiseKeeps DEF FenceIntent, CommitIntent
<1>11. CASE PerformRead(w)
    BY <1>11, ReturnMoves DEF PerformRead
<1>12. CASE PerformWrite(w)
    BY <1>12, ReturnMoves DEF PerformWrite
<1>13. CASE Record(w)
    BY <1>13, RecordMoves
<1>14. CASE Verify(w)
    BY <1>14, GotoStep, RaiseKeeps, OutsidePcs DEF Verify
<1>15. CASE LoseHeartbeat(w)
    <2> DEFINE r == [wk[w] EXCEPT !.lost = TRUE]
    <2>1. /\ r \in Locals /\ r.pc = wk[w].pc /\ r.mem = wk[w].mem /\ r.left = wk[w].left
          /\ r.tok = wk[w].tok /\ r.base = wk[w].base
        BY DEF Locals
    <2>2. wk' = [wk EXCEPT ![w] = r] /\ wk'[w] = r
        BY <1>15 DEF LoseHeartbeat, WorkerInv
    <2>3. InStep(w)'
        BY <2>1, <2>2 DEF InStep, WorkerInv
    <2>4. QED BY <2>1, <2>2, <2>3, OneWorkerMoves DEF KeepsClaims
<1>16. QED
    BY <1>1, <1>2, <1>3, <1>4, <1>5, <1>6, <1>7, <1>8, <1>9, <1>10, <1>11, <1>12, <1>13,
       <1>14, <1>15 DEF Moving

-----------------------------------------------------------------------------
(* Types *)

LEMMA InitType == Init => TypeInv
<1> SUFFICES ASSUME Init PROVE TypeInv
    OBVIOUS
<1>1. WorkerInv
    <2>1. \A w \in Workers : wk[w] = Idle
        BY DEF Init
    <2>2. \A w \in Workers : InStep(w)
        BY <2>1, IdleType DEF InStep
    <2>3. wk \in [Workers -> Locals]
        BY IdleType DEF Init
    <2>4. QED BY <2>2, <2>3 DEF WorkerInv
<1>2. lease \in [token : 0 .. MaxGen, expired : BOOLEAN] /\ gen \in 0 .. MaxGen
    BY BoundAssumption DEF Init, Free
<1>3. runs \in [Keys -> [state : RunStates, token : 0 .. MaxGen, ms : Nat]]
    BY BoundAssumption DEF Init, NoRun, RunStates
<1>4. cards \in [CardIds -> CardType]
    BY LenPlan DEF Init, NoCard, CardType, CardStates, Steps
<1>5. task \in Tasks /\ sched \in SchedStates
    BY NewTaskType DEF Init, SchedStates
<1>6. TypeOK
    BY <1>1, <1>2, <1>3, <1>4, <1>5 DEF Init, TypeOK, WorkerInv, CardType
<1>7. QED BY <1>1, <1>6 DEF TypeInv

\* The tables, one by one.
LEMMA CardUpdate ==
    ASSUME TypeOK, NEW c \in CardIds, NEW r \in CardType, cards' = [cards EXCEPT ![c] = r]
    PROVE  cards' \in [CardIds -> CardType]
BY DEF TypeOK, CardType

LEMMA ReadCardsType ==
    ASSUME TypeOK, NEW c
    PROVE  ReadCards(c) \in [CardIds -> CardType]
BY ZenonT(30) DEF TypeOK, ReadCards, CardType, CardStates

LEMMA MarkedType ==
    ASSUME TypeOK, NEW b \in BOOLEAN
    PROVE  Marked(b) \in SchedStates
BY DEF Marked, TypeOK, SchedStates

LEMMA RunEnds ==
    ASSUME TypeOK, NEW k, NEW s \in RunStates,
           runs' = [runs EXCEPT ![k] = [@ EXCEPT !.state = s, !.token = 0]]
    PROVE  runs' \in [Keys -> [state : RunStates, token : 0 .. MaxGen, ms : Nat]]
<1> DEFINE r == [runs[k] EXCEPT !.state = s, !.token = 0]
<1>1. runs \in [Keys -> [state : RunStates, token : 0 .. MaxGen, ms : Nat]] /\ 0 \in 0 .. MaxGen
    BY BoundAssumption DEF TypeOK
<1>2. k \in Keys => r \in [state : RunStates, token : 0 .. MaxGen, ms : Nat]
    BY <1>1
<1>3. runs' = [l \in Keys |-> IF l = k THEN r ELSE runs[l]]
    BY <1>1
<1> HIDE DEF r
<1>4. QED BY <1>1, <1>2, <1>3

LEMMA ClaimedRunsType ==
    ASSUME TypeOK, NEW w \in Workers, Claimable
    PROVE  ClaimedRuns(w) \in [Keys -> [state : RunStates, token : 0 .. MaxGen, ms : Nat]]
<1>1. gen + 1 \in 0 .. MaxGen /\ 0 \in 0 .. MaxGen /\ wk[w].ms \in Nat
    BY BoundAssumption DEF TypeOK, Claimable, Locals
<1>2. {"running", "failed"} \subseteq RunStates
    BY DEF RunStates
<1>3. QED BY <1>1, <1>2, ZenonT(30) DEF ClaimedRuns, TypeOK

\* A step that moves workers only.
LEMMA OnlyWorkersType ==
    ASSUME TypeOK, WorkerInv',
           UNCHANGED <<exists, task, lease, gen, runs, intents, receipts, cards, sched, history>>
    PROVE  TypeOK'
BY DEF TypeOK, WorkerInv, history

LEMMA ClaimType ==
    ASSUME TypeInv, NEW w \in Workers, Claim(w)
    PROVE  TypeOK'
<1>1. wk' \in [Workers -> Locals]
    BY ClaimMoves DEF WorkerInv
<1>2. gen' \in 0 .. MaxGen /\ lease' \in [token : 0 .. MaxGen, expired : BOOLEAN]
    BY BoundAssumption DEF Claim, Claimable, TypeInv, TypeOK
<1>3. runs' \in [Keys -> [state : RunStates, token : 0 .. MaxGen, ms : Nat]]
    BY ClaimedRunsType DEF Claim, TypeInv
<1>4. QED BY <1>1, <1>2, <1>3 DEF Claim, TypeInv, TypeOK, history

\* Park does not leave KeepsClaims: the payload it commits becomes its base.
LEMMA ParkMoves ==
    ASSUME TypeInv, NEW w \in Workers, Park(w)
    PROVE  /\ WorkerInv'
           /\ task' \in Tasks
           /\ \A v \in Workers \ {w} : wk'[v] = wk[v]
           /\ wk'[w].tok \in {0, wk[w].tok}
           /\ \/ Holds(w) /\ wk'[w].base = task'
              \/ task' = task /\ KeepsClaims(w)
<1> DEFINE parked == [wk[w].mem EXCEPT !.state = "failed"]
<1>0. WorkerInv /\ wk[w] \in Locals /\ task \in Tasks
    BY DEF TypeInv, WorkerInv, TypeOK
<1>1. parked \in Tasks
    BY <1>0, StateType DEF Locals, TaskStates, Done
<1>2. CASE Holds(w)
    BY <1>0, <1>1, <1>2, RaiseStep DEF Park
<1>3. CASE ~Holds(w)
    <2>1. Raise(w) /\ task' = task
        BY <1>3 DEF Park
    <2>2. QED BY <1>0, <2>1, RaiseKeeps DEF KeepsClaims
<1>4. QED BY <1>2, <1>3

LEMMA PerformWriteType ==
    ASSUME TypeInv, NEW w \in Workers, PerformWrite(w)
    PROVE  TypeOK'
<1> DEFINE s == wk[w].mem.cur
           c == wk[w].mem.card[s]
<1>0. TypeOK /\ WorkerInv /\ wk[w] \in Locals
    BY DEF TypeInv, WorkerInv
<1>1. wk[w].mem \in Tasks /\ s \in Steps /\ c \in CardIds /\ wk[w].tok \in Nat
    <2>1. wk[w].mem \in Tasks /\ s \in Steps
        BY <1>0, InStepMem DEF PerformWrite
    <2>2. c # 0
        BY <1>0 DEF PerformWrite, WorkerInv, InStep
    <2>3. QED BY <1>0, <2>1, <2>2 DEF Tasks, Locals
<1>2. wk' \in [Workers -> Locals]
    BY WorkerMoves DEF Moving, WorkerInv
<1>3. cards' \in [CardIds -> CardType]
    <2>1. cards' = cards \/ cards' = [cards EXCEPT ![c].state = "consumed"]
        BY DEF PerformWrite
    <2>2. cards \in [CardIds -> CardType]
        BY <1>0 DEF TypeOK, CardType
    <2>3. [cards[c] EXCEPT !.state = "consumed"] \in CardType
        BY <1>1, <2>2 DEF CardType, CardStates
    <2>4. QED BY <2>1, <2>2, <2>3
<1>4. effects' \subseteq [gen : Nat, step : Steps, card : CardIds]
    <2> DEFINE e == [gen |-> wk[w].tok, step |-> s, card |-> c]
    <2>1. effects' = effects \/ effects' = effects \union {e}
        BY DEF PerformWrite
    <2>2. e \in [gen : Nat, step : Steps, card : CardIds]
        BY <1>1
    <2>3. QED BY <1>0, <2>1, <2>2 DEF TypeOK
<1>5. QED BY <1>0, <1>2, <1>3, <1>4 DEF PerformWrite, TypeOK, CardType

LEMMA CompleteType ==
    ASSUME TypeInv, NEW w \in Workers, Complete(w)
    PROVE  TypeOK'
<1>0. TypeOK /\ wk[w] \in Locals
    BY DEF TypeInv, WorkerInv
<1>1. wk' \in [Workers -> Locals]
    BY WorkerMoves DEF Moving, WorkerInv
<1>2. task' \in Tasks /\ receipts' \subseteq Receipts
    BY <1>0 DEF Complete, Locals, TypeOK
<1>3. runs' \in [Keys -> [state : RunStates, token : 0 .. MaxGen, ms : Nat]]
    BY <1>0, RunEnds DEF Complete, RunStates
<1>4. sched' \in SchedStates
    BY <1>0, MarkedType DEF Complete, TypeOK
<1>5. cards' \in [CardIds -> CardType]
    BY <1>0 DEF Complete, TypeOK, CardType
<1>6. lease' \in [token : 0 .. MaxGen, expired : BOOLEAN]
    BY BoundAssumption DEF Complete, Free
<1>7. QED BY <1>0, <1>1, <1>2, <1>3, <1>4, <1>5, <1>6 DEF Complete, TypeOK, CardType, history

LEMMA FailType ==
    ASSUME TypeInv, NEW w \in Workers, Fail(w)
    PROVE  TypeOK'
<1>0. TypeOK
    BY DEF TypeInv
<1>1. wk' \in [Workers -> Locals]
    BY WorkerMoves DEF Moving, WorkerInv
<1>2. runs' \in [Keys -> [state : RunStates, token : 0 .. MaxGen, ms : Nat]]
    BY <1>0, RunEnds DEF Fail, RunStates, TypeOK
<1>3. sched' \in SchedStates
    BY <1>0, MarkedType DEF Fail
<1>4. lease' \in [token : 0 .. MaxGen, expired : BOOLEAN]
    BY <1>0, BoundAssumption DEF Fail, Free, TypeOK
<1>5. QED BY <1>0, <1>1, <1>2, <1>3, <1>4 DEF Fail, TypeOK, history

LEMMA RaiseCardType ==
    ASSUME TypeInv, NEW w \in Workers, RaiseCard(w)
    PROVE  TypeOK'
<1>0. TypeOK /\ WorkerInv
    BY DEF TypeInv
<1>1. wk' \in [Workers -> Locals]
    BY WorkerMoves DEF Moving, WorkerInv
<1>2. wk[w].mem.cur \in Steps
    BY <1>0, AtStepMem DEF RaiseCard
<1>3. PICK c \in CardIds :
        cards' = [cards EXCEPT ![c] = [NoCard EXCEPT !.state = "pending", !.step = wk[w].mem.cur]]
    BY DEF RaiseCard
<1>4. [NoCard EXCEPT !.state = "pending", !.step = wk[w].mem.cur] \in CardType
    BY <1>2 DEF NoCard, CardType, CardStates
<1>5. cards' \in [CardIds -> CardType]
    BY <1>0, <1>3, <1>4, CardUpdate
<1>6. QED BY <1>0, <1>1, <1>5 DEF RaiseCard, TypeOK, CardType, history

LEMMA CommitIntentType ==
    ASSUME TypeInv, NEW w \in Workers, CommitIntent(w)
    PROVE  TypeOK'
<1>0. TypeOK /\ WorkerInv /\ wk[w] \in Locals
    BY DEF TypeInv, WorkerInv
<1>1. wk' \in [Workers -> Locals]
    BY WorkerMoves DEF Moving, WorkerInv
<1>2. Intent(w) \in IntentIds
    BY <1>0, InStepMem DEF CommitIntent, Intent, IntentIds, Locals
<1>3. intents' \subseteq IntentIds /\ late' \subseteq IntentIds
    BY <1>0, <1>2 DEF CommitIntent, TypeOK
<1>4. QED BY <1>0, <1>1, <1>3 DEF CommitIntent, TypeOK, history

LEMMA WorkerType ==
    ASSUME TypeInv, NEW w \in Workers, Moving(w)
    PROVE  TypeOK'
<1>0. TypeOK /\ WorkerInv'
    BY WorkerMoves DEF TypeInv
<1>1. CASE RaiseCard(w)
    BY <1>1, RaiseCardType
<1>2. CASE CommitIntent(w)
    BY <1>2, CommitIntentType
<1>3. CASE PerformWrite(w)
    BY <1>3, PerformWriteType
<1>4. CASE Complete(w)
    BY <1>4, CompleteType
<1>5. CASE Fail(w)
    BY <1>5, FailType
<1>6. CASE ReadRuling(w)
    <2>1. cards' \in [CardIds -> CardType]
        BY <1>0, <1>6, ReadCardsType DEF ReadRuling
    <2>2. QED BY <1>0, <1>6, <2>1 DEF ReadRuling, TypeOK, CardType, WorkerInv, history
<1>7. ASSUME NEW k \in Keys, NEW ms \in Budgets, NEW nested \in Callers, ReadLedger(w, k, ms, nested)
      PROVE  TypeOK'
    BY <1>0, <1>7, OnlyWorkersType DEF ReadLedger
<1>8. CASE ClaimRefused(w) \/ OrphanCheck(w) \/ StopLoop(w) \/ ObserveCancel(w) \/ SelectBlocked(w)
           \/ NoCardLeft(w) \/ StartRead(w) \/ FenceIntent(w) \/ PerformRead(w)
    BY <1>0, <1>8, OnlyWorkersType
       DEF ClaimRefused, OrphanCheck, StopLoop, ObserveCancel, SelectBlocked, NoCardLeft,
           StartRead, FenceIntent, PerformRead
<1>9. CASE Record(w) \/ Verify(w) \/ CompleteRefused(w) \/ StepRaises(w) \/ FailAborts(w)
           \/ Crash(w) \/ LoseHeartbeat(w)
    BY <1>0, <1>9, OnlyWorkersType
       DEF Record, Verify, CompleteRefused, StepRaises, FailAborts, Crash, LoseHeartbeat
<1>10. QED
    BY <1>1, <1>2, <1>3, <1>4, <1>5, <1>6, <1>7, <1>8, <1>9 DEF Moving

LEMMA MutateType ==
    ASSUME TypeOK, NEW t \in Tasks, Mutate(t)
    PROVE  TypeOK'
<1>1. lease' \in [token : 0 .. MaxGen, expired : BOOLEAN]
    BY BoundAssumption DEF Mutate, Free
<1>2. QED BY <1>1 DEF Mutate, TypeOK, history

\* Every step keeps the types of the tables and of the workers.
LEMMA TypeStep == TypeInv /\ [Next]_vars => TypeInv'
<1> SUFFICES ASSUME TypeInv, [Next]_vars PROVE TypeInv'
    OBVIOUS
<1>0. TypeOK /\ WorkerInv
    BY DEF TypeInv
<1>w. UNCHANGED wk => WorkerInv'
    BY <1>0 DEF WorkerInv, InStep
<1>1. ASSUME NEW w \in Workers, Moving(w) PROVE TypeInv'
    BY <1>1, WorkerType, WorkerMoves DEF TypeInv
<1>2. ASSUME NEW w \in Workers, Claim(w) PROVE TypeInv'
    BY <1>2, ClaimType, ClaimMoves DEF TypeInv
<1>3. ASSUME NEW w \in Workers, Park(w) PROVE TypeInv'
    <2>1. WorkerInv' /\ task' \in Tasks
        BY <1>3, ParkMoves
    <2>2. QED BY <1>0, <1>3, <2>1 DEF Park, TypeInv, TypeOK, WorkerInv, history
<1>4. ASSUME NEW w \in Workers, Renew(w) PROVE TypeInv'
    BY <1>0, <1>w, <1>4 DEF Renew, TypeInv, TypeOK, history
<1>5. CASE LeaseExpires
    BY <1>0, <1>w, <1>5 DEF LeaseExpires, TypeInv, TypeOK, history
<1>6. ASSUME NEW c \in CardIds, NEW r \in {"approved", "refused"}, Decide(c, r) \/ CardLapses(c)
      PROVE  TypeInv'
    <2>1. cards' \in [CardIds -> CardType]
        <3>1. ASSUME NEW s \in CardStates, cards' = [cards EXCEPT ![c].state = s]
              PROVE  cards' \in [CardIds -> CardType]
            BY <1>0, <3>1 DEF TypeOK, CardType
        <3>2. CASE CardLapses(c)
            BY <1>0, <3>2 DEF CardLapses, TypeOK, CardType
        <3>3. CASE Decide(c, r)
            BY <3>1, <3>3 DEF Decide, CardStates
        <3>4. QED BY <1>6, <3>2, <3>3
    <2>2. QED BY <1>0, <1>w, <1>6, <2>1 DEF Decide, CardLapses, TypeInv, TypeOK, CardType, history
<1>7. CASE SweepCards
    <2>1. cards' \in [CardIds -> CardType]
        BY <1>0, <1>7, ReadCardsType DEF SweepCards
    <2>2. QED BY <1>0, <1>w, <1>7, <2>1 DEF SweepCards, TypeInv, TypeOK, CardType, history
<1>8. CASE Cancel
    <2> DEFINE t == IF task.state \in Done THEN task ELSE [task EXCEPT !.state = "cancelled"]
    <2>1. t \in Tasks
        BY <1>0, StateType DEF TypeOK, TaskStates, Done
    <2>2. Mutate(t)
        BY <1>8 DEF Cancel
    <2>3. QED BY <1>0, <1>w, <2>1, <2>2, MutateType DEF Mutate, TypeInv
<1>9. ASSUME NEW cp \in task.cps, Rollback(cp) PROVE TypeInv'
    <2>1. Rewound(task, cp) \in Tasks
        BY <1>0, RewoundType DEF TypeOK
    <2>2. QED BY <1>0, <1>w, <1>9, <2>1, MutateType DEF Rollback, Mutate, TypeInv
<1>10. CASE Delete
    <2>1. runs' \in [Keys -> [state : RunStates, token : 0 .. MaxGen, ms : Nat]]
        BY <1>10, BoundAssumption DEF Delete, NoRun, RunStates
    <2>2. lease' \in [token : 0 .. MaxGen, expired : BOOLEAN]
        BY <1>10, BoundAssumption DEF Delete, Free
    <2>3. QED BY <1>0, <1>w, <1>10, <2>1, <2>2 DEF Delete, TypeInv, TypeOK, history
<1>11. CASE CancelSchedule
    BY <1>0, <1>w, <1>11 DEF CancelSchedule, TypeInv, TypeOK, SchedStates, history
<1>12. CASE UNCHANGED vars
    BY <1>0, <1>w, <1>12 DEF vars, TypeInv, TypeOK
<1>13. QED
    BY <1>1, <1>2, <1>3, <1>4, <1>5, <1>6, <1>7, <1>8, <1>9, <1>10, <1>11, <1>12
       DEF Next, WorkerStep, Moving

LEMMA TypeInvariance == Spec => []TypeInv
BY InitType, TypeStep, PTL DEF Spec

\* Every table and every worker keeps its type, for any plan, any number of
\* workers, requests, claims and cards; a task that is not done has a step to run.
THEOREM TypeCorrect == Spec => []TypeOK
BY TypeInvariance, PTL DEF TypeInv

-----------------------------------------------------------------------------
(***************************************************************************)
(* The lease.  Generations are handed out once: no two workers hold the    *)
(* same token, and none holds one from the future.  So a claim takes the   *)
(* lease from everybody, and whoever still matches the row's token has the *)
(* payload that the row had when it was claimed.                           *)
(***************************************************************************)

LeaseInv ==
    /\ lease.token <= gen
    /\ \A w \in Workers : wk[w].tok <= gen
    /\ \A w, v \in Workers : wk[w].tok = wk[v].tok => w = v \/ wk[w].tok = 0
    /\ HolderHasCommittedTask

LEMMA InitLease == Init => LeaseInv
<1> SUFFICES ASSUME Init PROVE LeaseInv
    OBVIOUS
<1>1. \A w \in Workers : wk[w].tok = 0
    BY IdleType DEF Init
<1>2. QED BY <1>1 DEF Init, Free, LeaseInv, HolderHasCommittedTask, Holds

\* What keeps the lease in order: it stays with its holder or is released, and
\* the payload changes only as it is released.
Orderly ==
    /\ gen' = gen
    /\ exists' => exists
    /\ lease'.token \in {lease.token, 0}
    /\ task' = task \/ lease'.token = 0

LEMMA OrderlyStep ==
    ASSUME TypeInv, TypeInv', LeaseInv, Orderly, NEW w \in Workers, KeepsClaims(w)
    PROVE  LeaseInv'
<1>1. /\ gen \in Nat /\ lease.token \in Nat /\ lease'.token \in Nat
      /\ \A v \in Workers : wk[v].tok \in Nat /\ wk'[v].tok \in Nat
    BY DEF TypeInv, TypeOK, Locals
<1>2. \A v \in Workers : \/ wk'[v].tok = wk[v].tok /\ wk'[v].base = wk[v].base
                         \/ wk'[v].tok = 0
    BY DEF KeepsClaims
<1>3. HolderHasCommittedTask'
    BY <1>2 DEF LeaseInv, Orderly, HolderHasCommittedTask, Holds
<1>4. /\ lease'.token <= gen'
      /\ \A v \in Workers : wk'[v].tok <= gen'
    BY <1>1, <1>2 DEF LeaseInv, Orderly
<1>5. \A u, v \in Workers : wk'[u].tok = wk'[v].tok => u = v \/ wk'[u].tok = 0
    BY <1>2 DEF LeaseInv
<1>6. QED BY <1>3, <1>4, <1>5 DEF LeaseInv

LEMMA OrderlyOperator ==
    ASSUME TypeInv, TypeInv', LeaseInv, Orderly, UNCHANGED wk
    PROVE  LeaseInv'
<1>1. gen \in Nat /\ lease.token \in Nat
    BY DEF TypeInv, TypeOK
<1>2. HolderHasCommittedTask'
    BY DEF LeaseInv, Orderly, HolderHasCommittedTask, Holds
<1>3. lease'.token <= gen'
    BY <1>1 DEF LeaseInv, Orderly, TypeInv, TypeOK
<1>4. QED BY <1>2, <1>3 DEF LeaseInv, Orderly

LEMMA MovingIsOrderly ==
    ASSUME TypeInv, NEW w \in Workers, Moving(w)
    PROVE  Orderly
<1>1. Free.token = 0
    BY DEF Free
<1>2. ASSUME UNCHANGED <<exists, task, lease, gen>> PROVE Orderly
    BY <1>2 DEF Orderly
<1>3. CASE Complete(w)
    BY <1>1, <1>3 DEF Complete, Orderly
<1>4. CASE Fail(w)
    BY <1>1, <1>4 DEF Fail, Orderly
<1>5. ASSUME NEW k \in Keys, NEW ms \in Budgets, NEW nested \in Callers, ReadLedger(w, k, ms, nested)
      PROVE  Orderly
    BY <1>2, <1>5 DEF ReadLedger
<1>6. CASE ClaimRefused(w) \/ OrphanCheck(w) \/ StopLoop(w) \/ ObserveCancel(w) \/ SelectBlocked(w)
           \/ RaiseCard(w) \/ NoCardLeft(w) \/ ReadRuling(w) \/ StartRead(w) \/ FenceIntent(w)
    BY <1>2, <1>6
       DEF ClaimRefused, OrphanCheck, StopLoop, ObserveCancel, SelectBlocked, RaiseCard,
           NoCardLeft, ReadRuling, StartRead, FenceIntent
<1>7. CASE CommitIntent(w) \/ PerformRead(w) \/ PerformWrite(w) \/ Record(w) \/ Verify(w)
           \/ CompleteRefused(w) \/ StepRaises(w) \/ FailAborts(w) \/ Crash(w) \/ LoseHeartbeat(w)
    BY <1>2, <1>7
       DEF CommitIntent, PerformRead, PerformWrite, Record, Verify, CompleteRefused,
           StepRaises, FailAborts, Crash, LoseHeartbeat
<1>8. QED BY <1>3, <1>4, <1>5, <1>6, <1>7 DEF Moving

LEMMA LeaseStep == TypeInv /\ TypeInv' /\ LeaseInv /\ [Next]_vars => LeaseInv'
<1> SUFFICES ASSUME TypeInv, TypeInv', LeaseInv, [Next]_vars PROVE LeaseInv'
    OBVIOUS
<1>0. /\ gen \in Nat /\ lease.token \in Nat /\ Free.token = 0
      /\ \A v \in Workers : wk[v].tok \in Nat
    BY DEF TypeInv, TypeOK, Locals, Free
<1>1. ASSUME NEW w \in Workers, Moving(w) PROVE LeaseInv'
    BY <1>1, WorkerMoves, MovingIsOrderly, OrderlyStep
<1>2. ASSUME NEW w \in Workers, Claim(w) PROVE LeaseInv'
    <2>1. /\ gen' = gen + 1 /\ lease'.token = gen + 1 /\ task' = task
          /\ \A v \in Workers \ {w} : wk'[v] = wk[v]
          /\ wk'[w].tok = gen + 1 /\ wk'[w].base = task
        BY <1>2, ClaimMoves DEF Claim
    <2>2. \A v \in Workers \ {w} : wk'[v].tok <= gen /\ wk'[v].tok # gen + 1
        BY <1>0, <2>1 DEF LeaseInv
    <2>3. HolderHasCommittedTask'
        BY <2>1, <2>2 DEF HolderHasCommittedTask, Holds
    <2>4. /\ lease'.token <= gen'
          /\ \A v \in Workers : wk'[v].tok <= gen'
        BY <1>0, <2>1, <2>2
    <2>5. \A u, v \in Workers : wk'[u].tok = wk'[v].tok => u = v \/ wk'[u].tok = 0
        BY <2>1, <2>2 DEF LeaseInv
    <2>6. QED BY <2>3, <2>4, <2>5 DEF LeaseInv
<1>3. ASSUME NEW w \in Workers, Park(w) PROVE LeaseInv'
    <2>1. UNCHANGED <<exists, lease, gen>>
        BY <1>3 DEF Park
    <2>2. CASE task' = task /\ KeepsClaims(w)
        BY <2>1, <2>2, OrderlyStep DEF Orderly
    <2>3. CASE Holds(w) /\ wk'[w].base = task'
        <3>1. /\ \A v \in Workers \ {w} : wk'[v] = wk[v]
              /\ wk'[w].tok \in {0, wk[w].tok}
            BY <1>3, ParkMoves
        <3>2. \A v \in Workers \ {w} : ~Holds(v)'
            BY <2>1, <2>3, <3>1 DEF Holds, LeaseInv
        <3>3. HolderHasCommittedTask'
            BY <2>3, <3>2 DEF HolderHasCommittedTask
        <3>4. \A v \in Workers : wk'[v].tok \in {0, wk[v].tok}
            BY <3>1
        <3>5. \A v \in Workers : wk'[v].tok <= gen'
            BY <1>0, <2>1, <3>4 DEF LeaseInv
        <3>6. \A u, v \in Workers : wk'[u].tok = wk'[v].tok => u = v \/ wk'[u].tok = 0
            BY <3>4 DEF LeaseInv
        <3>7. QED BY <2>1, <3>3, <3>5, <3>6 DEF LeaseInv
    <2>4. QED BY <1>3, <2>2, <2>3, ParkMoves
<1>4. ASSUME NEW w \in Workers, Renew(w) PROVE LeaseInv'
    BY <1>4, OrderlyOperator DEF Renew, Orderly, TypeInv, TypeOK
<1>5. CASE LeaseExpires
    BY <1>5, OrderlyOperator DEF LeaseExpires, Orderly, TypeInv, TypeOK
<1>6. ASSUME NEW c \in CardIds, NEW r \in {"approved", "refused"}, Decide(c, r) \/ CardLapses(c)
      PROVE  LeaseInv'
    BY <1>6, OrderlyOperator DEF Decide, CardLapses, Orderly
<1>7. CASE SweepCards
    BY <1>7, OrderlyOperator DEF SweepCards, Orderly
<1>8. ASSUME NEW t, Mutate(t) PROVE LeaseInv'
    BY <1>0, <1>8, OrderlyOperator DEF Mutate, Orderly
<1>9. CASE Delete
    BY <1>0, <1>9, OrderlyOperator DEF Delete, Orderly
<1>10. CASE CancelSchedule
    BY <1>10, OrderlyOperator DEF CancelSchedule, Orderly
<1>11. CASE UNCHANGED vars
    BY <1>11, OrderlyOperator DEF vars, Orderly
<1>12. QED
    BY <1>1, <1>2, <1>3, <1>4, <1>5, <1>6, <1>7, <1>8, <1>9, <1>10, <1>11
       DEF Next, WorkerStep, Moving, Cancel, Rollback

LEMMA LeaseInvariance == Spec => [](TypeInv /\ LeaseInv)
BY InitType, TypeStep, InitLease, LeaseStep, PTL DEF Spec

\* No lost update, for any number of workers and claims: whatever operators,
\* expiries and stale workers did, a worker that still matches the lease token
\* commits on top of the very payload it claimed.
THEOREM NoLostUpdate == Spec => []HolderHasCommittedTask
<1>1. LeaseInv => HolderHasCommittedTask
    BY DEF LeaseInv
<1>2. QED BY <1>1, LeaseInvariance, PTL

-----------------------------------------------------------------------------
(***************************************************************************)
(* The cards.  A step refers to a card only if that card was raised for    *)
(* it; a card leaves "none" once and keeps its step for good; "consumed"   *)
(* is final, and only a card that was handed to a person is ever approved. *)
(* So an effect consumes a card no effect has been performed with, for the *)
(* step the card names.                                                    *)
(***************************************************************************)

CardsFit(t) ==
    \A s \in Steps :
        t.card[s] # 0 => cards[t.card[s]].state # "none" /\ cards[t.card[s]].step = s

Told == \A c \in CardIds : cards[c].state \in {"approved", "consumed"} => cards[c].told

CardInv == CardsFit(task) /\ (\A w \in Workers : CardsFit(wk[w].mem)) /\ Told /\ OneEffectPerCard

LEMMA InitCards == Init => CardInv
<1> SUFFICES ASSUME Init PROVE CardInv
    OBVIOUS
<1>1. CardsFit(NewTask)
    BY DEF CardsFit, NewTask
<1>2. task = NewTask /\ \A w \in Workers : wk[w].mem = NewTask
    BY DEF Init, Idle
<1>3. Told /\ OneEffectPerCard
    BY DEF Init, NoCard, Told, OneEffectPerCard
<1>4. QED BY <1>1, <1>2, <1>3 DEF CardInv

\* What every step does to the cards, and to the references of a task to them.
CardsKept ==
    \A c \in CardIds :
        /\ cards[c].state # "none" => /\ cards'[c].state # "none"
                                      /\ cards'[c].step = cards[c].step
                                      /\ cards[c].told => cards'[c].told
        /\ cards[c].state = "consumed" => cards'[c].state = "consumed"

Narrows(m, t) == \A s \in Steps : m.card[s] \in {0, t.card[s]}

LEMMA FitKept ==
    ASSUME TypeOK, CardsKept, NEW t \in Tasks, CardsFit(t), NEW m, Narrows(m, t)
    PROVE  \A s \in Steps :
              m.card[s] # 0 => cards'[m.card[s]].state # "none" /\ cards'[m.card[s]].step = s
BY DEF CardsFit, CardsKept, Narrows, Tasks

LEMMA EffectsKept ==
    ASSUME TypeOK, CardsKept, OneEffectPerCard, UNCHANGED effects
    PROVE  OneEffectPerCard'
<1>1. \A e \in effects : e.card \in CardIds
    BY DEF TypeOK
<1>2. QED BY <1>1 DEF OneEffectPerCard, CardsKept

\* A step that raises no card and performs no effect.
LEMMA CardsStep ==
    ASSUME TypeInv, CardInv, CardsKept, Told', UNCHANGED effects,
           \/ Narrows(task', task)
           \/ \E w \in Workers : Narrows(task', wk[w].mem),
           \A w \in Workers : Narrows(wk'[w].mem, wk[w].mem) \/ Narrows(wk'[w].mem, task)
    PROVE  CardInv'
<1>1. TypeOK /\ task \in Tasks /\ \A w \in Workers : wk[w].mem \in Tasks
    BY DEF TypeInv, TypeOK, Locals
<1>2. CardsFit(task)'
    BY <1>1, FitKept DEF CardInv, CardsFit
<1>3. ASSUME NEW w \in Workers PROVE CardsFit(wk[w].mem)'
    BY <1>1, FitKept DEF CardInv, CardsFit
<1>4. QED BY <1>1, <1>2, <1>3, EffectsKept DEF CardInv

\* Where a worker's copy of the task goes.
LEMMA MemEffect ==
    ASSUME WorkerInv, NEW w \in Workers
    PROVE  /\ \A pc : Goto(w, pc) => wk'[w].mem = wk[w].mem
           /\ \A pc, m : Update(w, pc, m) => wk'[w].mem = m
           /\ \A ok : Return(w, ok) => wk'[w].mem = wk[w].mem
           /\ Leave(w) => wk'[w].mem = NewTask
           /\ Raise(w) => wk'[w].mem = NewTask
<1>1. wk \in [Workers -> Locals]
    BY DEF WorkerInv
<1>2. ASSUME NEW pc, Goto(w, pc) PROVE wk'[w].mem = wk[w].mem
    BY <1>1, <1>2 DEF Goto, Locals
<1>3. ASSUME NEW pc, NEW m, Update(w, pc, m) PROVE wk'[w].mem = m
    BY <1>1, <1>3 DEF Update, Locals
<1>4. ASSUME NEW ok, Return(w, ok) PROVE wk'[w].mem = wk[w].mem
    BY <1>1, <1>4 DEF Return, Locals
<1>5. Leave(w) => wk'[w].mem = NewTask
    BY <1>1 DEF Leave, Idle
<1>6. Raise(w) => wk'[w].mem = NewTask
    BY <1>1 DEF Raise, Idle
<1>7. QED BY <1>2, <1>3, <1>4, <1>5, <1>6

LEMMA NarrowsNew == ASSUME NEW t PROVE Narrows(NewTask, t)
BY DEF Narrows, NewTask

LEMMA NarrowsSame ==
    ASSUME NEW t, NEW m, m.card = t.card
    PROVE  Narrows(m, t)
BY DEF Narrows

LEMMA ObservedNarrows ==
    ASSUME NEW t \in Tasks, t.cur \in Steps, NEW ok \in BOOLEAN
    PROVE  Narrows(Observed(t, ok), t)
<1>1. CASE ok
    <2> DEFINE s == IF t.cur = Len(Plan) THEN "completed" ELSE "running"
               u == Stepped(t, s, "completed")
    <2>1. u \in Tasks /\ u.card = t.card /\ Observed(t, ok) = Advanced(t, s)
        BY <1>1, SteppedType DEF Observed, TaskStates, Done, StepStates
    <2>2. Advanced(t, s).card = [u.card EXCEPT ![t.cur] = 0]
        BY <2>1 DEF Advanced, Tasks
    <2>3. QED BY <2>1, <2>2 DEF Narrows, Tasks
<1>2. CASE ~ok
    <2> DEFINE u == Stepped(t, "failed", "failed")
    <2>1. u \in Tasks /\ u.card = t.card
        BY SteppedType DEF StepStates, TaskStates, Done
    <2>2. Observed(t, ok).card = t.card
        BY <1>2, <2>1 DEF Observed, Tasks
    <2>3. QED BY <2>2, NarrowsSame
<1>3. QED BY <1>1, <1>2

LEMMA StepNarrows ==
    ASSUME NEW t \in Tasks, t.cur \in Steps, NEW ts \in TaskStates, NEW ss \in StepStates
    PROVE  /\ Narrows(Stepped(t, ts, ss), t)
           /\ Narrows(Stepped(Checkpointed(t), ts, ss), t)
BY SteppedType, CheckpointedType, NarrowsSame

\* Every worker step but the raising of a card keeps or drops its references.
LEMMA WorkerNarrows ==
    ASSUME TypeInv, NEW w \in Workers, Moving(w), ~RaiseCard(w)
    PROVE  Narrows(wk'[w].mem, wk[w].mem)
<1> DEFINE m == wk[w].mem
<1>0. WorkerInv /\ m \in Tasks
    BY DEF TypeInv, WorkerInv, Locals
<1>s. ASSUME wk'[w].mem = m \/ wk'[w].mem = NewTask PROVE Narrows(wk'[w].mem, m)
    BY <1>s, NarrowsNew, NarrowsSame
<1>1. ASSUME NEW k \in Keys, NEW ms \in Budgets, NEW nested \in Callers, ReadLedger(w, k, ms, nested)
      PROVE  Narrows(wk'[w].mem, m)
    <2>1. wk'[w].mem = NewTask
        BY <1>0, <1>1 DEF ReadLedger, WorkerInv, Idle
    <2>2. QED BY <2>1, <1>s
<1>2. CASE ClaimRefused(w) \/ Complete(w) \/ Fail(w) \/ FailAborts(w) \/ Crash(w)
    BY <1>0, <1>2, <1>s, MemEffect DEF ClaimRefused, Complete, Fail, FailAborts, Crash
<1>3. CASE OrphanCheck(w) \/ StopLoop(w) \/ Verify(w) \/ FenceIntent(w) \/ CommitIntent(w)
    BY <1>0, <1>3, <1>s, MemEffect DEF OrphanCheck, StopLoop, Verify, FenceIntent, CommitIntent
<1>4. CASE NoCardLeft(w) \/ CompleteRefused(w) \/ StepRaises(w)
    BY <1>0, <1>4, <1>s, MemEffect DEF NoCardLeft, CompleteRefused, StepRaises
<1>5. CASE PerformRead(w) \/ PerformWrite(w)
    BY <1>0, <1>5, <1>s, MemEffect DEF PerformRead, PerformWrite
<1>6. CASE ObserveCancel(w)
    <2>1. wk'[w].mem = [m EXCEPT !.state = "cancelled"]
        BY <1>0, <1>6, MemEffect DEF ObserveCancel
    <2>2. wk'[w].mem.card = m.card
        BY <1>0, <2>1 DEF Tasks
    <2>3. QED BY <2>2, NarrowsSame
<1>7. CASE SelectBlocked(w)
    <2>1. wk'[w].mem = Stepped(m, "failed", "failed") /\ m.cur \in Steps
        BY <1>0, <1>7, MemEffect, AtStepMem DEF SelectBlocked
    <2>2. QED BY <1>0, <2>1, StepNarrows DEF TaskStates, StepStates, Done
<1>8. CASE ReadRuling(w)
    <2>1. m.cur \in Steps
        BY <1>0, <1>8, AtStepMem DEF ReadRuling
    <2>2. \/ wk'[w].mem = [m EXCEPT !.state = "waiting"]
          \/ wk'[w].mem = Stepped(m, "cancelled", "skipped")
          \/ wk'[w].mem = NewTask
          \/ wk'[w].mem = Stepped(m, "running", "running")
        BY <1>0, <1>8, MemEffect DEF ReadRuling
    <2>3. [m EXCEPT !.state = "waiting"].card = m.card
        BY <1>0 DEF Tasks
    <2>4. Narrows([m EXCEPT !.state = "waiting"], m)
        BY <2>3, NarrowsSame
    <2>5. /\ Narrows(Stepped(m, "cancelled", "skipped"), m)
          /\ Narrows(Stepped(m, "running", "running"), m)
        BY <1>0, <2>1, StepNarrows DEF TaskStates, StepStates, Done
    <2>6. QED BY <2>2, <2>4, <2>5, NarrowsNew
<1>9. CASE StartRead(w)
    <2>1. m.cur \in Steps
        BY <1>0, <1>9, AtStepMem DEF StartRead
    <2>2. \/ wk'[w].mem = Stepped(m, "running", "running")
          \/ wk'[w].mem = Stepped(Checkpointed(m), "running", "running")
        BY <1>0, <1>9, MemEffect DEF StartRead
    <2>3. QED BY <1>0, <2>1, <2>2, StepNarrows DEF TaskStates, StepStates
<1>10. CASE Record(w)
    <2>1. m.cur \in Steps /\ wk[w].ok \in BOOLEAN /\ wk[w] \in Locals
        BY <1>0, <1>10, InStepMem DEF Record, WorkerInv, Locals
    <2>2. Recorded(wk[w]).mem = Observed(m, wk[w].ok)
        BY <2>1 DEF Recorded, Locals
    <2>3. wk'[w].mem = NewTask \/ wk'[w].mem = Observed(m, wk[w].ok)
        BY <1>0, <1>10, <2>2, MemEffect DEF Record, WorkerInv
    <2>4. QED BY <1>0, <2>1, <2>3, ObservedNarrows, NarrowsNew
<1>11. CASE LoseHeartbeat(w)
    <2>1. wk'[w].mem = m
        BY <1>0, <1>11 DEF LoseHeartbeat, WorkerInv, Locals
    <2>2. QED BY <2>1, <1>s
<1>12. QED
    BY <1>1, <1>2, <1>3, <1>4, <1>5, <1>6, <1>7, <1>8, <1>9, <1>10, <1>11 DEF Moving

\* What the actions do to the cards.
LEMMA CardsUnchanged ==
    ASSUME TypeOK, Told, UNCHANGED cards
    PROVE  CardsKept /\ Told'
BY DEF TypeOK, Told, CardsKept

LEMMA ReadCardsKeeps ==
    ASSUME TypeOK, Told, NEW c \in CardIds, cards' = ReadCards(c)
    PROVE  CardsKept /\ Told'
<1>1. CASE cards' = cards
    BY <1>1, CardsUnchanged
<1>2. CASE cards[c].state = "pending" /\ cards' = [cards EXCEPT ![c].state = "expired"]
    <2>1. \A d \in CardIds : /\ cards'[d].told = cards[d].told /\ cards'[d].step = cards[d].step
                             /\ cards'[d].state = IF d = c THEN "expired" ELSE cards[d].state
        BY <1>2 DEF TypeOK
    <2>2. QED BY <1>2, <2>1 DEF Told, CardsKept
<1>3. QED BY <1>1, <1>2 DEF ReadCards

LEMMA SweepKeeps ==
    ASSUME TypeOK, Told, SweepCards
    PROVE  CardsKept /\ Told'
<1>1. \A d \in CardIds :
        /\ cards'[d].told = cards[d].told /\ cards'[d].step = cards[d].step
        /\ \/ cards'[d].state = cards[d].state
           \/ cards[d].state = "pending" /\ cards'[d].state = "expired"
    BY DEF SweepCards, ReadCards, TypeOK
<1>2. QED BY <1>1 DEF Told, CardsKept

LEMMA CompleteKeeps ==
    ASSUME TypeOK, Told, NEW w \in Workers, Complete(w)
    PROVE  CardsKept /\ Told'
<1>1. \A d \in CardIds :
        /\ cards[d].told => cards'[d].told
        /\ cards'[d].step = cards[d].step /\ cards'[d].state = cards[d].state
    BY DEF Complete, TypeOK
<1>2. QED BY <1>1 DEF Told, CardsKept

LEMMA DecideKeeps ==
    ASSUME TypeOK, Told, NEW c \in CardIds, NEW r \in {"approved", "refused"}, Decide(c, r)
    PROVE  CardsKept /\ Told'
<1>1. /\ cards[c].state = "pending" /\ cards[c].told
      /\ \A d \in CardIds :
            /\ cards'[d].told = cards[d].told /\ cards'[d].step = cards[d].step
            /\ d # c => cards'[d].state = cards[d].state
            /\ cards'[c].state \in {"expired", r}
    BY DEF Decide, TypeOK
<1>2. QED BY <1>1 DEF Told, CardsKept

LEMMA LapseKeeps ==
    ASSUME TypeOK, Told, NEW c \in CardIds, CardLapses(c)
    PROVE  CardsKept /\ Told'
<1>1. \A d \in CardIds :
        /\ cards'[d].told = cards[d].told /\ cards'[d].step = cards[d].step
        /\ cards'[d].state = cards[d].state
    BY DEF CardLapses, TypeOK
<1>2. QED BY <1>1 DEF Told, CardsKept

LEMMA RaiseCardKeeps ==
    ASSUME TypeInv, CardInv, NEW w \in Workers, RaiseCard(w)
    PROVE  CardInv'
<1> DEFINE m == wk[w].mem
<1>0. TypeOK /\ WorkerInv /\ wk[w] \in Locals /\ m \in Tasks /\ m.cur \in Steps
    BY AtStepMem DEF TypeInv, WorkerInv, Locals, RaiseCard
<1>1. PICK c \in CardIds :
        /\ cards[c].state = "none"
        /\ cards' = [cards EXCEPT ![c] = [NoCard EXCEPT !.state = "pending", !.step = m.cur]]
        /\ wk' = [wk EXCEPT ![w] =
                    [@ EXCEPT !.pc = "finish", !.raised = c, !.mem = Awaiting(m, c)]]
    BY DEF RaiseCard, Unraised
<1>2. /\ cards'[c].state = "pending" /\ cards'[c].step = m.cur
      /\ \A d \in CardIds \ {c} : cards'[d] = cards[d]
    BY <1>0, <1>1 DEF TypeOK, NoCard
<1>3. CardsKept /\ Told'
    BY <1>1, <1>2 DEF CardsKept, CardInv, Told
<1>4. Awaiting(m, c).card = [m.card EXCEPT ![m.cur] = c]
    <2>1. /\ Stepped(Checkpointed(m), "waiting", "waiting") \in Tasks
          /\ Stepped(Checkpointed(m), "waiting", "waiting").card = m.card
        BY <1>0, CheckpointedType, SteppedType DEF TaskStates, StepStates
    <2>2. QED BY <2>1 DEF Awaiting, Tasks
<1>5. wk'[w].mem = Awaiting(m, c) /\ \A v \in Workers \ {w} : wk'[v] = wk[v]
    BY <1>0, <1>1 DEF WorkerInv, Locals
<1>6. CardsFit(wk[w].mem)'
    <2>1. ASSUME NEW s \in Steps, m.card[s] # 0, s # m.cur
          PROVE  cards'[m.card[s]].state # "none" /\ cards'[m.card[s]].step = s
        BY <1>0, <1>3, <2>1 DEF CardInv, CardsFit, CardsKept, Tasks
    <2>2. wk'[w].mem.card = [m.card EXCEPT ![m.cur] = c]
        BY <1>4, <1>5
    <2>3. \A s \in Steps : wk'[w].mem.card[s] = IF s = m.cur THEN c ELSE m.card[s]
        BY <1>0, <2>2 DEF Tasks
    <2>4. QED BY <1>2, <2>1, <2>3 DEF CardsFit
<1>7. ASSUME NEW v \in Workers \ {w} PROVE CardsFit(wk[v].mem)'
    <2>1. wk[v].mem \in Tasks /\ CardsFit(wk[v].mem)
        BY <1>0 DEF WorkerInv, Locals, CardInv
    <2>2. QED BY <1>0, <1>3, <1>5, <2>1, FitKept, NarrowsSame DEF CardsFit
<1>8. CardsFit(task)'
    <2>1. task' = task /\ task \in Tasks /\ CardsFit(task)
        BY <1>0 DEF RaiseCard, TypeOK, CardInv
    <2>2. QED BY <1>0, <1>3, <2>1, FitKept, NarrowsSame DEF CardsFit
<1>9. OneEffectPerCard'
    BY <1>0, <1>3, EffectsKept DEF CardInv, RaiseCard, history
<1>10. QED BY <1>3, <1>6, <1>7, <1>8, <1>9 DEF CardInv

LEMMA SpendKeeps ==
    ASSUME TypeOK, Told, NEW c \in CardIds, cards[c].state = "approved",
           cards' = [cards EXCEPT ![c].state = "consumed"]
    PROVE  CardsKept /\ Told'
<1>1. \A d \in CardIds :
        /\ cards'[d].told = cards[d].told /\ cards'[d].step = cards[d].step
        /\ cards'[d].state = IF d = c THEN "consumed" ELSE cards[d].state
    BY DEF TypeOK
<1>2. QED BY <1>1 DEF Told, CardsKept

LEMMA PerformWriteKeeps ==
    ASSUME TypeInv, CardInv, NEW w \in Workers, PerformWrite(w)
    PROVE  CardInv'
<1> DEFINE m == wk[w].mem
           c == m.card[m.cur]
           e == [gen |-> wk[w].tok, step |-> m.cur, card |-> c]
<1>0. TypeOK /\ WorkerInv /\ wk[w] \in Locals /\ m \in Tasks /\ m.cur \in Steps
    BY InStepMem DEF TypeInv, WorkerInv, Locals, PerformWrite
<1>1. c \in CardIds /\ cards[c].step = m.cur
    <2>1. c # 0
        BY <1>0 DEF PerformWrite, WorkerInv, InStep
    <2>2. QED BY <1>0, <2>1 DEF CardInv, CardsFit, Tasks
<1>t. Told
    BY DEF CardInv
<1>2. \/ UNCHANGED <<cards, effects>>
      \/ /\ cards[c].state = "approved"
         /\ cards' = [cards EXCEPT ![c].state = "consumed"]
         /\ effects' \in {effects, effects \union {e}}
    BY DEF PerformWrite, Spendable
<1>3. CardsKept /\ Told'
    <2>1. CASE UNCHANGED cards
        BY <1>0, <2>1, CardsUnchanged DEF CardInv
    <2>2. CASE cards[c].state = "approved" /\ cards' = [cards EXCEPT ![c].state = "consumed"]
        BY <1>0, <1>1, <1>t, <2>2, SpendKeeps
    <2>3. QED BY <1>2, <2>1, <2>2
<1>4. OneEffectPerCard'
    <2>1. CASE UNCHANGED effects
        BY <1>0, <1>3, <2>1, EffectsKept DEF CardInv
    <2>2. CASE /\ cards[c].state = "approved"
               /\ cards' = [cards EXCEPT ![c].state = "consumed"]
               /\ effects' = effects \union {e}
        <3>1. \A f \in effects : f.card \in CardIds /\ f.card # c
            BY <1>0, <2>2 DEF TypeOK, CardInv, OneEffectPerCard
        <3>2. cards'[c].state = "consumed" /\ cards'[c].told /\ cards'[c].step = m.cur
            BY <1>0, <1>1, <2>2 DEF TypeOK, CardInv, Told
        <3>3. \A f \in effects : /\ cards'[f.card].state = "consumed" /\ cards'[f.card].told
                                 /\ cards'[f.card].step = f.step
            BY <3>1, <1>3 DEF CardInv, OneEffectPerCard, CardsKept
        <3>4. e.card = c /\ e.step = m.cur
            OBVIOUS
        <3> HIDE DEF e
        <3>5. ASSUME NEW f \in effects'
              PROVE  /\ cards'[f.card].state = "consumed" /\ cards'[f.card].told
                     /\ cards'[f.card].step = f.step
                     /\ \A g \in effects' : g.card = f.card => g = f
            <4>1. CASE f \in effects
                <5>1. \A g \in effects : g.card = f.card => g = f
                    BY <4>1 DEF CardInv, OneEffectPerCard
                <5>2. QED BY <2>2, <3>1, <3>3, <3>4, <4>1, <5>1
            <4>2. CASE f = e
                BY <2>2, <3>1, <3>2, <3>4, <4>2
            <4>3. QED BY <2>2, <3>5, <4>1, <4>2
        <3>6. QED BY <3>5 DEF OneEffectPerCard
    <2>3. QED BY <1>2, <2>1, <2>2
<1>5. Narrows(wk'[w].mem, m) /\ \A v \in Workers \ {w} : wk'[v] = wk[v]
    BY WorkerNarrows, WorkerMoves DEF Moving, KeepsClaims, PerformWrite, RaiseCard, AtStep
<1>6. ASSUME NEW v \in Workers PROVE CardsFit(wk[v].mem)'
    <2>1. wk[v].mem \in Tasks /\ CardsFit(wk[v].mem) /\ Narrows(wk'[v].mem, wk[v].mem)
        BY <1>0, <1>5, NarrowsSame DEF WorkerInv, Locals, CardInv
    <2>2. QED BY <1>0, <1>3, <2>1, FitKept DEF CardsFit
<1>7. CardsFit(task)'
    <2>1. task' = task /\ task \in Tasks /\ CardsFit(task)
        BY <1>0 DEF PerformWrite, TypeOK, CardInv
    <2>2. QED BY <1>0, <1>3, <2>1, FitKept, NarrowsSame DEF CardsFit
<1>8. QED BY <1>3, <1>4, <1>6, <1>7 DEF CardInv

\* What every action does to the cards.
LEMMA CardStep == TypeInv /\ CardInv /\ [Next]_vars => CardInv'
<1> SUFFICES ASSUME TypeInv, CardInv, [Next]_vars PROVE CardInv'
    OBVIOUS
<1>0. /\ TypeOK /\ WorkerInv /\ task \in Tasks /\ Told
      /\ \A v \in Workers : wk[v] \in Locals /\ wk[v].mem \in Tasks
    BY DEF TypeInv, TypeOK, WorkerInv, Locals, CardInv
<1>same. Narrows(task, task) /\ \A v \in Workers : Narrows(wk[v].mem, wk[v].mem)
    BY NarrowsSame
<1>w. ASSUME NEW w \in Workers, CardsKept, Told', UNCHANGED effects,
             task' = task \/ task' = wk[w].mem,
             \A v \in Workers \ {w} : wk'[v] = wk[v],
             Narrows(wk'[w].mem, wk[w].mem)
      PROVE  CardInv'
    <2>1. Narrows(task', task) \/ Narrows(task', wk[w].mem)
        BY <1>w, NarrowsSame
    <2>2. \A v \in Workers : Narrows(wk'[v].mem, wk[v].mem)
        BY <1>w, <1>same
    <2>3. QED BY <1>w, <2>1, <2>2, CardsStep
\* An action of the clock, the human or the operator.
<1>o. ASSUME CardsKept, Told', UNCHANGED <<wk, effects>>, Narrows(task', task)
      PROVE  CardInv'
    BY <1>o, <1>same, CardsStep
<1>1. ASSUME NEW w \in Workers, Moving(w), ~RaiseCard(w), ~PerformWrite(w) PROVE CardInv'
    <2>1. /\ \A v \in Workers \ {w} : wk'[v] = wk[v]
          /\ Narrows(wk'[w].mem, wk[w].mem)
        BY <1>1, WorkerMoves, WorkerNarrows DEF KeepsClaims
    <2>2. UNCHANGED effects /\ (task' = task \/ task' = wk[w].mem)
        BY <1>1 DEF Moving, ReadLedger, ClaimRefused, OrphanCheck, StopLoop, ObserveCancel,
           SelectBlocked, NoCardLeft, ReadRuling, StartRead, FenceIntent, CommitIntent,
           PerformRead, Record, Verify, Complete, CompleteRefused, Fail, StepRaises,
           FailAborts, Crash, LoseHeartbeat, history
    <2>3. CASE ReadRuling(w)
        <3>1. wk[w].mem.card[wk[w].mem.cur] \in CardIds
            <4>1. wk[w].mem.cur \in Steps
                BY <1>0, <2>3, AtStepMem DEF ReadRuling
            <4>2. QED BY <1>0, <2>3, <4>1 DEF ReadRuling, Tasks
        <3>2. CardsKept /\ Told'
            BY <1>0, <2>3, <3>1, ReadCardsKeeps DEF ReadRuling
        <3>3. QED BY <1>w, <2>1, <2>2, <3>2
    <2>4. CASE Complete(w)
        BY <1>0, <1>w, <2>1, <2>2, <2>4, CompleteKeeps
    <2>5. CASE ~ReadRuling(w) /\ ~Complete(w)
        <3>1. UNCHANGED cards
            BY <1>1, <2>5 DEF Moving, ReadLedger, ClaimRefused, OrphanCheck, StopLoop,
               ObserveCancel, SelectBlocked, NoCardLeft, StartRead, FenceIntent, CommitIntent,
               PerformRead, Record, Verify, CompleteRefused, Fail, StepRaises, FailAborts,
               Crash, LoseHeartbeat
        <3>2. QED BY <1>0, <1>w, <2>1, <2>2, <3>1, CardsUnchanged
    <2>6. QED BY <2>3, <2>4, <2>5
<1>2. ASSUME NEW w \in Workers, Claim(w) PROVE CardInv'
    <2>1. UNCHANGED <<task, cards, effects>>
        BY <1>2 DEF Claim, history
    <2>2. wk'[w].mem = task /\ \A v \in Workers \ {w} : wk'[v] = wk[v]
        BY <1>0, <1>2 DEF Claim, WorkerInv, Locals
    <2>3. \A v \in Workers : Narrows(wk'[v].mem, wk[v].mem) \/ Narrows(wk'[v].mem, task)
        BY <1>same, <2>2
    <2>4. QED BY <1>0, <1>same, <2>1, <2>3, CardsUnchanged, CardsStep
<1>3. ASSUME NEW w \in Workers, Park(w) PROVE CardInv'
    <2>1. UNCHANGED <<cards, effects>>
        BY <1>3 DEF Park, history
    <2>2. /\ wk'[w].mem = NewTask
          /\ \A v \in Workers \ {w} : wk'[v] = wk[v]
          /\ task' = task \/ task' = [wk[w].mem EXCEPT !.state = "failed"]
        BY <1>0, <1>3, ParkMoves, MemEffect, ZenonT(30) DEF Park, WorkerInv, Idle
    <2>3. Narrows(task', task) \/ Narrows(task', wk[w].mem)
        <3>1. [wk[w].mem EXCEPT !.state = "failed"].card = wk[w].mem.card
            BY <1>0 DEF Tasks
        <3>2. QED BY <2>2, <3>1, <1>same, NarrowsSame
    <2>4. \A v \in Workers : Narrows(wk'[v].mem, wk[v].mem)
        BY <1>same, <2>2, NarrowsNew
    <2>5. QED BY <1>0, <2>1, <2>3, <2>4, CardsUnchanged, CardsStep
<1>4. ASSUME NEW w \in Workers, Renew(w) PROVE CardInv'
    BY <1>0, <1>4, <1>o, <1>same, CardsUnchanged DEF Renew, history
<1>5. CASE LeaseExpires
    BY <1>0, <1>5, <1>o, <1>same, CardsUnchanged DEF LeaseExpires, history
<1>6. ASSUME NEW c \in CardIds, NEW r \in {"approved", "refused"}, Decide(c, r)
      PROVE  CardInv'
    <2>1. UNCHANGED <<task, wk, effects>>
        BY <1>6 DEF Decide, history
    <2>2. QED BY <1>0, <1>6, <1>o, <1>same, <2>1, DecideKeeps
<1>7. ASSUME NEW c \in CardIds, CardLapses(c) PROVE CardInv'
    <2>1. UNCHANGED <<task, wk, effects>>
        BY <1>7 DEF CardLapses, history
    <2>2. QED BY <1>0, <1>7, <1>o, <1>same, <2>1, LapseKeeps
<1>8. CASE SweepCards
    <2>1. UNCHANGED <<task, wk, effects>>
        BY <1>8 DEF SweepCards, history
    <2>2. QED BY <1>0, <1>8, <1>o, <1>same, <2>1, SweepKeeps
<1>9. CASE Cancel
    <2>1. /\ UNCHANGED <<cards, wk, effects>>
          /\ task' = task \/ task' = [task EXCEPT !.state = "cancelled"]
        BY <1>9 DEF Cancel, Mutate, history
    <2>2. [task EXCEPT !.state = "cancelled"].card = task.card
        BY <1>0 DEF Tasks
    <2>3. QED BY <1>0, <1>o, <1>same, <2>1, <2>2, NarrowsSame, CardsUnchanged
<1>10. ASSUME NEW cp \in task.cps, Rollback(cp) PROVE CardInv'
    <2>1. UNCHANGED <<cards, wk, effects>> /\ task' = Rewound(task, cp)
        BY <1>10 DEF Rollback, Mutate, history
    <2>2. Rewound(task, cp).card = [s \in Steps |-> IF cp.step[s] = "waiting" THEN task.card[s] ELSE 0]
        BY <1>0 DEF Rewound, Tasks
    <2>3. Narrows(task', task)
        BY <2>1, <2>2 DEF Narrows
    <2>4. QED BY <1>0, <1>o, <2>1, <2>3, CardsUnchanged
<1>11. CASE Delete
    BY <1>0, <1>11, <1>o, <1>same, CardsUnchanged DEF Delete, history
<1>12. CASE CancelSchedule
    BY <1>0, <1>12, <1>o, <1>same, CardsUnchanged DEF CancelSchedule, history
<1>13. CASE UNCHANGED vars
    BY <1>0, <1>13, <1>o, <1>same, CardsUnchanged DEF vars
<1>14. ASSUME NEW w \in Workers, Moving(w) PROVE CardInv'
    BY <1>1, <1>14, RaiseCardKeeps, PerformWriteKeeps
<1>15. QED
    BY <1>2, <1>3, <1>4, <1>5, <1>6, <1>7, <1>8, <1>9, <1>10, <1>11, <1>12, <1>13, <1>14
       DEF Next, WorkerStep, Moving

\* One approval, one effect, for any plan and any number of workers, claims and
\* cards: whatever was retried, duplicated, expired, rolled back or lost in a
\* crash, an effect consumed a card a person had been handed for that very step,
\* and no other effect was performed with it.
THEOREM OneEffectPerApproval == Spec => []OneEffectPerCard
<1>1. CardInv => OneEffectPerCard
    BY DEF CardInv
<1>2. QED BY <1>1, InitCards, CardStep, TypeInvariance, PTL DEF Spec
=============================================================================
