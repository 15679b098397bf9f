----------------------------- MODULE TaskExecution -----------------------------
(***************************************************************************)
(* One durable agent task and everything that runs it: the workers that    *)
(* claim its execution lease, the idempotency ledger of run requests, the  *)
(* loop that takes the plan's steps, the intent / receipt protocol around  *)
(* an external effect, the human approval cards the effectful steps need,  *)
(* and the operator's cancel, rollback and delete.                         *)
(*                                                                         *)
(* The row of agent_tasks is (exists, task, lease, gen); agent_task_runs   *)
(* is runs; the effect tables are intents and receipts.  A worker's locals *)
(* and its open transaction live in wk[w].  Lease tokens are random in the *)
(* code; here a token is the generation it was issued with, 0 is NULL.     *)
(***************************************************************************)
EXTENDS Integers, Sequences, FiniteSets

CONSTANTS
    Workers,    \* concurrent callers of run_until_blocked, in any process
    Keys,       \* idempotency keys
    NoKey,      \* the key of a worker that serves no request
    Plan,       \* the plan: the risk of each step's tool
    Budgets,    \* the values of max_steps a request may carry
    Callers,    \* the values of stop_before_approval: TRUE from a parent task's step
    MaxGen,     \* bound: how often the lease is acquired
    MaxCards    \* bound: how many approval cards are raised

ASSUME PlanAssumption ==
    Plan \in Seq({"read", "write", "blocked"}) /\ Len(Plan) >= 1
ASSUME BoundAssumption ==
    NoKey \notin Keys /\ Budgets \subseteq Nat \ {0} /\ Callers \subseteq BOOLEAN /\ MaxGen \in Nat /\ MaxCards \in Nat

VARIABLES
    exists,     \* the task row is there
    task,       \* its committed payload
    lease,      \* lease token, and whether lease_expires_at has passed
    gen,        \* execution_generation
    runs,       \* agent_task_runs, by idempotency key
    intents,    \* committed effect intents
    receipts,   \* committed effect receipts
    cards,      \* approval requests, in the order they were raised
    sched,      \* the schedule this task is attached to
    wk,         \* the workers
    effects,    \* history: what the adapters really did to the outside
    late        \* history: intents committed after another claim

vars == <<exists, task, lease, gen, runs, intents, receipts, cards, sched, wk,
          effects, late>>
history == <<effects, late>>

Steps == 1 .. Len(Plan)
CardIds == 1 .. MaxCards
Done == {"completed", "failed", "cancelled"}
TaskStates == Done \union {"planned", "running", "waiting"}
StepStates == {"planned", "waiting", "running", "completed", "failed", "skipped"}
RunStates == {"none", "running", "completed", "failed"}
CardStates == {"none", "pending", "approved", "refused", "expired", "consumed"}
SchedStates == {"none", "running", "completed", "failed", "cancelled"}

Checkpoints == [cur : Steps, step : [Steps -> StepStates], obs : Nat]
\* A task that is not done has a step to run.
Tasks ==
    {t \in [state : TaskStates, cur : 1 .. Len(Plan) + 1, step : [Steps -> StepStates],
            card : [Steps -> CardIds \union {0}], cps : SUBSET Checkpoints, obs : Nat] :
        t.state \notin Done => t.cur \in Steps}
IntentIds == [gen : Nat, step : Steps]
Receipts == [gen : Nat, step : Steps, ok : BOOLEAN]

NewTask == [state |-> "planned", cur |-> 1, step |-> [s \in Steps |-> "planned"],
            card |-> [s \in Steps |-> 0], cps |-> {}, obs |-> 0]
NoRun == [state |-> "none", token |-> 0, ms |-> 0]
NoCard == [state |-> "none", step |-> 1, told |-> FALSE, lapsed |-> FALSE]
Free == [token |-> 0, expired |-> FALSE]

(***************************************************************************)
(* A worker that serves no request.  pc names the await it is at; row is   *)
(* the ledger row it read before claiming; base the payload it claimed;    *)
(* mem its working copy; rcpts the receipts of its open transaction;       *)
(* raised the card whose single-use token it holds; ok the last result.    *)
(***************************************************************************)
Idle == [pc |-> "idle", key |-> NoKey, ms |-> 0, nested |-> FALSE, row |-> "none",
            tok |-> 0, left |-> 0, base |-> NewTask, mem |-> NewTask, rcpts |-> {},
            raised |-> 0, ok |-> FALSE, lost |-> FALSE]

Init ==
    /\ exists = TRUE
    /\ task = NewTask
    /\ lease = Free
    /\ gen = 0
    /\ runs = [k \in Keys |-> NoRun]
    /\ intents = {}
    /\ receipts = {}
    /\ cards = [c \in CardIds |-> NoCard]
    /\ sched \in {"none", "running"}
    /\ wk = [w \in Workers |-> Idle]
    /\ effects = {}
    /\ late = {}

LeaseLive == lease.token # 0 /\ ~lease.expired
Holds(w) == exists /\ wk[w].tok # 0 /\ lease.token = wk[w].tok
HoldsLive(w) == Holds(w) /\ ~lease.expired
OwnsRun(w) == /\ exists
              /\ runs[wk[w].key].state = "running"
              /\ runs[wk[w].key].token = wk[w].tok

Goto(w, pc) == wk' = [wk EXCEPT ![w].pc = pc]
Update(w, pc, m) == wk' = [wk EXCEPT ![w] = [@ EXCEPT !.pc = pc, !.mem = m]]
Leave(w) == wk' = [wk EXCEPT ![w] = Idle]
\* An exception: the heartbeat is stopped and the open transaction rolled back.
Raise(w) == wk' = [wk EXCEPT ![w] = [Idle EXCEPT !.pc = "raise", !.key = wk[w].key,
                                        !.tok = wk[w].tok, !.base = wk[w].base]]

-----------------------------------------------------------------------------
(* acquire_execution *)

\* The SELECT of the ledger row.  A completed row is replayed, a failed one and
\* one with another max_steps are refused: none of these touches any state.
ReadLedger(w, k, ms, nested) ==
    /\ wk[w].pc = "idle"
    /\ gen < MaxGen
    /\ \/ runs[k].state = "none"
       \/ runs[k].state = "running" /\ runs[k].ms = ms
    /\ wk' = [wk EXCEPT ![w] = [Idle EXCEPT !.pc = "claim", !.key = k, !.ms = ms,
                                   !.nested = nested, !.row = runs[k].state]]
    /\ UNCHANGED <<exists, task, lease, gen, runs, intents, receipts, cards, sched, history>>

Claimable == exists /\ ~LeaseLive /\ gen < MaxGen
\* The insert of a second row for the same key.
Collides(w) == wk[w].row = "none" /\ runs[wk[w].key].state # "none"

\* Mutant: the running rows of dead workers are not superseded.
ClaimedRunsUnsuperseded(w) ==
    [runs EXCEPT ![wk[w].key] = [state |-> "running", token |-> gen + 1, ms |-> wk[w].ms]]
\* Mutant: claiming a known row also sets its state to running.
ClaimedRunsReopened(w) ==
    [k \in Keys |->
        IF k = wk[w].key THEN [state |-> "running", token |-> gen + 1, ms |-> wk[w].ms]
        ELSE IF runs[k].state = "running"
             THEN [runs[k] EXCEPT !.state = "failed", !.token = 0]
             ELSE runs[k]]
\* The ledger after the claim: other running rows are superseded, the row of
\* this key is inserted, or, when the snapshot had it, given the new token.
ClaimedRuns(w) ==
    [k \in Keys |->
        IF k = wk[w].key
        THEN IF wk[w].row = "none"
             THEN [state |-> "running", token |-> gen + 1, ms |-> wk[w].ms]
             ELSE [runs[k] EXCEPT !.token = gen + 1]
        ELSE IF runs[k].state = "running"
             THEN [runs[k] EXCEPT !.state = "failed", !.token = 0]
             ELSE runs[k]]

Claim(w) ==
    /\ wk[w].pc = "claim"
    /\ Claimable
    /\ ~Collides(w)
    /\ gen' = gen + 1
    /\ lease' = [token |-> gen + 1, expired |-> FALSE]
    /\ runs' = ClaimedRuns(w)
    /\ wk' = [wk EXCEPT ![w] = [@ EXCEPT !.pc = "orphan", !.tok = gen + 1, !.left = wk[w].ms,
                                         !.base = task, !.mem = task]]
    /\ UNCHANGED <<exists, task, intents, receipts, cards, sched, history>>

\* Busy, unknown task, or the unique violation that rolls the claim back.
ClaimRefused(w) ==
    /\ wk[w].pc = "claim"
    /\ ~Claimable \/ Collides(w)
    /\ Leave(w)
    /\ UNCHANGED <<exists, task, lease, gen, runs, intents, receipts, cards, sched, history>>

-----------------------------------------------------------------------------
(* The orphan refusal *)

Receipted == {[gen |-> r.gen, step |-> r.step] : r \in receipts}
\* Mutant: only the intents of the current generation are looked at.
OrphansOfHolder == {i \in intents \ Receipted : i.gen = gen}
Orphans == intents \ Receipted

OrphanCheck(w) ==
    /\ wk[w].pc = "orphan"
    /\ \/ Orphans = {} /\ Goto(w, "step")
       \/ Orphans # {} /\ wk[w].mem.state \notin Done /\ Goto(w, "park")
       \/ Orphans # {} /\ wk[w].mem.state \in Done /\ Raise(w)
    /\ UNCHANGED <<exists, task, lease, gen, runs, intents, receipts, cards, sched, history>>

\* _park_orphaned_task: FAILED is written and committed under the lease, and
\* the refusal is raised; without the lease nothing is written.
Park(w) ==
    /\ wk[w].pc = "park"
    /\ LET parked == [wk[w].mem EXCEPT !.state = "failed"]
       IN  IF Holds(w)
           THEN /\ task' = parked
                /\ wk' = [wk EXCEPT ![w] = [Idle EXCEPT !.pc = "raise", !.key = wk[w].key,
                                               !.tok = wk[w].tok, !.base = parked]]
           ELSE Raise(w) /\ UNCHANGED task
    /\ UNCHANGED <<exists, lease, gen, runs, intents, receipts, cards, sched, history>>

-----------------------------------------------------------------------------
(* AgentRuntime.run_until_blocked and run_next *)

\* The task and its current step change state together.
Stepped(m, state, step) == [m EXCEPT !.state = state, !.step[m.cur] = step]

RaisesCard(m) == m.cur \in Steps /\ Plan[m.cur] = "write" /\ m.card[m.cur] = 0
StopsLoop(w) == LET m == wk[w].mem
                IN  \/ m.state \in Done
                    \/ wk[w].left = 0
                    \/ wk[w].nested /\ RaisesCard(m)

StopLoop(w) ==
    /\ wk[w].pc = "step"
    /\ StopsLoop(w)
    /\ Goto(w, "finish")
    /\ UNCHANGED <<exists, task, lease, gen, runs, intents, receipts, cards, sched, history>>

\* cancellation_check reads the schedule in a transaction of its own.
Cancelled == exists /\ sched = "cancelled"
ObserveCancel(w) ==
    /\ wk[w].pc = "step"
    /\ ~StopsLoop(w)
    /\ Cancelled
    /\ Update(w, "finish", [wk[w].mem EXCEPT !.state = "cancelled"])
    /\ UNCHANGED <<exists, task, lease, gen, runs, intents, receipts, cards, sched, history>>

AtStep(w, kind) ==
    /\ wk[w].pc = "step"
    /\ ~StopsLoop(w)
    /\ ~Cancelled
    /\ Plan[wk[w].mem.cur] = kind

SelectBlocked(w) ==
    /\ AtStep(w, "blocked")
    /\ Update(w, "finish", Stepped(wk[w].mem, "failed", "failed"))
    /\ UNCHANGED <<exists, task, lease, gen, runs, intents, receipts, cards, sched, history>>

Checkpointed(m) ==
    [m EXCEPT !.cps = @ \union {[cur |-> m.cur, step |-> m.step, obs |-> m.obs]}]

\* The current step is checkpointed and waits for the ruling on its card.
Awaiting(m, c) == [Stepped(Checkpointed(m), "waiting", "waiting") EXCEPT !.card[m.cur] = c]

\* Cards are numbered as they are raised.
Unraised(c) == /\ cards[c].state = "none"
               /\ \A d \in 1 .. c - 1 : cards[d].state # "none"

\* The card is committed by the approval store at once, on its own connection;
\* the task's reference to it only with the run.
RaiseCard(w) ==
    /\ AtStep(w, "write")
    /\ LET m == wk[w].mem
       IN  /\ m.card[m.cur] = 0
           /\ \E c \in CardIds :
                /\ Unraised(c)
                /\ cards' = [cards EXCEPT ![c] = [NoCard EXCEPT !.state = "pending", !.step = m.cur]]
                /\ wk' = [wk EXCEPT ![w] =
                            [@ EXCEPT !.pc = "finish", !.raised = c, !.mem = Awaiting(m, c)]]
    /\ UNCHANGED <<exists, task, lease, gen, runs, intents, receipts, sched, history>>

\* The bound on cards: the approval store takes no more.
NoCardLeft(w) ==
    /\ AtStep(w, "write")
    /\ RaisesCard(wk[w].mem)
    /\ \A c \in CardIds : ~Unraised(c)
    /\ Raise(w)
    /\ UNCHANGED <<exists, task, lease, gen, runs, intents, receipts, cards, sched, history>>

\* ApprovalQueue.get, which expires an overdue pending card as it reads it.
ReadCards(c) ==
    IF cards[c].state = "pending" /\ cards[c].lapsed
    THEN [cards EXCEPT ![c].state = "expired"] ELSE cards

\* Mutant: the loop polls a pending card instead of returning.
PollRuling(w) ==
    /\ AtStep(w, "write")
    /\ LET m == wk[w].mem
           c == m.card[m.cur]
       IN  /\ c # 0
           /\ cards' = ReadCards(c)
           /\ \/ cards'[c].state = "pending" /\ UNCHANGED wk
              \/ cards'[c].state \in {"refused", "expired", "consumed"} /\ Raise(w)
              \/ cards'[c].state = "approved" /\ Goto(w, "fence")
    /\ UNCHANGED <<exists, task, lease, gen, runs, intents, receipts, sched, history>>

\* A write step that already has a card: wait for the ruling, stop on a refusal
\* or an expiry, fail on a spent card, or go on to the effect.
ReadRuling(w) ==
    /\ AtStep(w, "write")
    /\ LET m == wk[w].mem
           c == m.card[m.cur]
       IN  /\ c # 0
           /\ cards' = ReadCards(c)
           /\ \/ /\ cards'[c].state = "pending"
                 /\ Update(w, "finish", [m EXCEPT !.state = "waiting"])
              \/ /\ cards'[c].state \in {"refused", "expired"}
                 /\ Update(w, "finish", Stepped(m, "cancelled", "skipped"))
              \/ /\ cards'[c].state = "consumed"
                 /\ Raise(w)
              \/ /\ cards'[c].state = "approved"
                 /\ Update(w, "fence", Stepped(m, "running", "running"))
    /\ UNCHANGED <<exists, task, lease, gen, runs, intents, receipts, sched, history>>

StartRead(w) ==
    /\ AtStep(w, "read")
    /\ LET m == wk[w].mem
           n == IF m.step[m.cur] = "planned" THEN Checkpointed(m) ELSE m
       IN  Update(w, "perform", Stepped(n, "running", "running"))
    /\ UNCHANGED <<exists, task, lease, gen, runs, intents, receipts, cards, sched, history>>

-----------------------------------------------------------------------------
(* The effect: intent, adapter, receipt, evidence *)

Intent(w) == [gen |-> wk[w].tok, step |-> wk[w].mem.cur]

Return(w, ok) == wk' = [wk EXCEPT ![w] = [@ EXCEPT !.pc = "record", !.ok = ok]]

\* record_intent's SELECT: token and generation, not the expiry, no row lock.
FenceIntent(w) ==
    /\ wk[w].pc = "fence"
    /\ IF Holds(w) THEN Goto(w, "intent") ELSE Raise(w)
    /\ UNCHANGED <<exists, task, lease, gen, runs, intents, receipts, cards, sched, history>>

\* Mutant: the intent is left to the run's own transaction.
CommitIntentWithRun(w) ==
    /\ wk[w].pc = "intent"
    /\ IF exists THEN Goto(w, "perform") ELSE Raise(w)
    /\ UNCHANGED <<exists, task, lease, gen, runs, intents, receipts, cards, sched, history>>

\* Its INSERT and COMMIT, on a session of its own.
CommitIntent(w) ==
    /\ wk[w].pc = "intent"
    /\ IF exists
       THEN /\ intents' = intents \union {Intent(w)}
            /\ late' = IF gen = wk[w].tok THEN late ELSE late \union {Intent(w)}
            /\ Goto(w, "perform")
       ELSE Raise(w) /\ UNCHANGED <<intents, late>>
    /\ UNCHANGED <<exists, task, lease, gen, runs, receipts, cards, sched, effects>>

PerformRead(w) ==
    /\ wk[w].pc = "perform"
    /\ Plan[wk[w].mem.cur] = "read"
    /\ \E ok \in BOOLEAN : Return(w, ok)
    /\ UNCHANGED <<exists, task, lease, gen, runs, intents, receipts, cards, sched, history>>

\* Mutant: an approval is a standing permission.
SpendableForever(c) == cards[c].state \in {"approved", "consumed"} /\ ~cards[c].lapsed
Spendable(c) == cards[c].state = "approved" /\ ~cards[c].lapsed

\* The governed capability spends the card (compare-and-set on an approved,
\* unexpired row) and only then runs its handler, which may do nothing, take
\* effect and say so, or take effect and report a failure.
PerformWrite(w) ==
    /\ wk[w].pc = "perform"
    /\ Plan[wk[w].mem.cur] = "write"
    /\ LET s == wk[w].mem.cur
           c == wk[w].mem.card[s]
       IN  \/ /\ Spendable(c)
              /\ cards' = [cards EXCEPT ![c].state = "consumed"]
              /\ \E ok, happened \in BOOLEAN :
                    /\ ok => happened
                    /\ effects' = IF happened
                                  THEN effects \union {[gen |-> wk[w].tok, step |-> s, card |-> c]}
                                  ELSE effects
                    /\ Return(w, ok)
           \/ /\ ~Spendable(c)
              /\ Return(w, FALSE)
              /\ UNCHANGED <<cards, effects>>
    /\ UNCHANGED <<exists, task, lease, gen, runs, intents, receipts, sched, late>>

\* The current step is completed, its card forgotten, and the next one current.
Advanced(m, state) ==
    [Stepped(m, state, "completed") EXCEPT !.obs = @ + 1, !.card[m.cur] = 0, !.cur = @ + 1]

\* Mutant: the last step does not complete the task.
ObservedUnending(m, ok) ==
    IF ok THEN Advanced(m, "running") ELSE [Stepped(m, "failed", "failed") EXCEPT !.obs = @ + 1]
\* Mutant: a failed tool result counts as a completed step.
ObservedAsOk(m, ok) ==
    Advanced(m, IF m.cur = Len(Plan) THEN "completed" ELSE "running")
\* The task after the tool's result.
Observed(m, ok) ==
    IF ok
    THEN Advanced(m, IF m.cur = Len(Plan) THEN "completed" ELSE "running")
    ELSE [Stepped(m, "failed", "failed") EXCEPT !.obs = @ + 1]

Receipt(l) == [gen |-> l.tok, step |-> l.mem.cur, ok |-> l.ok]
Recorded(l) ==
    [l EXCEPT !.pc = "step", !.mem = Observed(l.mem, l.ok), !.left = @ - 1, !.ok = FALSE,
              !.rcpts = IF Plan[l.mem.cur] = "write" THEN @ \union {Receipt(l)} ELSE @]

\* record_receipt (token fence) and the evidence of the result (token fence and
\* unexpired lease), both inside the run's transaction.
Record(w) ==
    /\ wk[w].pc = "record"
    /\ IF HoldsLive(w) THEN wk' = [wk EXCEPT ![w] = Recorded(wk[w])] ELSE Raise(w)
    /\ UNCHANGED <<exists, task, lease, gen, runs, intents, receipts, cards, sched, history>>

-----------------------------------------------------------------------------
(* The end of a run *)

\* The heartbeat has been stopped; evidence.verify is fenced on a live lease.
Verify(w) ==
    /\ wk[w].pc = "finish"
    /\ IF ~wk[w].lost /\ HoldsLive(w) THEN Goto(w, "commit") ELSE Raise(w)
    /\ UNCHANGED <<exists, task, lease, gen, runs, intents, receipts, cards, sched, history>>

\* mark_from_task_outcome, for the schedule that points at this task.
Marked(completed) ==
    IF exists /\ sched \in {"running", "failed"}
    THEN IF completed THEN "completed" ELSE "failed"
    ELSE sched

\* complete_execution and the run's commit: result, receipts and released
\* lease together, or LeaseLost.  The caller now learns the card's token.
Complete(w) ==
    /\ wk[w].pc = "commit"
    /\ Holds(w) /\ OwnsRun(w)
    /\ task' = wk[w].mem
    /\ lease' = Free
    /\ runs' = [runs EXCEPT ![wk[w].key] = [@ EXCEPT !.state = "completed", !.token = 0]]
    /\ receipts' = receipts \union wk[w].rcpts
    /\ sched' = IF task'.state \in Done THEN Marked(task'.state = "completed") ELSE sched
    /\ cards' = [c \in CardIds |-> IF c = wk[w].raised THEN [cards[c] EXCEPT !.told = TRUE]
                                                       ELSE cards[c]]
    /\ Leave(w)
    /\ UNCHANGED <<exists, gen, intents, history>>

CompleteRefused(w) ==
    /\ wk[w].pc = "commit"
    /\ ~(Holds(w) /\ OwnsRun(w))
    /\ Raise(w)
    /\ UNCHANGED <<exists, task, lease, gen, runs, intents, receipts, cards, sched, history>>

\* The except branch: the run's transaction is rolled back, then the failure is
\* recorded where the token still matches and the schedule is marked anyway.
Fail(w) ==
    /\ wk[w].pc = "raise"
    /\ runs' = IF OwnsRun(w)
               THEN [runs EXCEPT ![wk[w].key] = [@ EXCEPT !.state = "failed", !.token = 0]]
               ELSE runs
    /\ lease' = IF Holds(w) THEN Free ELSE lease
    /\ sched' = Marked(FALSE)
    /\ Leave(w)
    /\ UNCHANGED <<exists, task, gen, intents, receipts, cards, history>>

\* The failure could not be recorded either: the lease is left to expire.
FailAborts(w) ==
    /\ wk[w].pc = "raise"
    /\ Leave(w)
    /\ UNCHANGED <<exists, task, lease, gen, runs, intents, receipts, cards, sched, history>>

\* Any await of the run may raise (database, approval store, unknown tool).
StepRaises(w) ==
    /\ wk[w].pc \in {"orphan", "park", "step", "fence", "intent", "record", "finish", "commit"}
    /\ Raise(w)
    /\ UNCHANGED <<exists, task, lease, gen, runs, intents, receipts, cards, sched, history>>

Crash(w) ==
    /\ wk[w].pc # "idle"
    /\ Leave(w)
    /\ UNCHANGED <<exists, task, lease, gen, runs, intents, receipts, cards, sched, history>>

-----------------------------------------------------------------------------
(* The lease's clock and its heartbeat *)

Beating(w) ==
    /\ wk[w].pc \in {"orphan", "park", "step", "fence", "intent", "perform", "record", "finish"}
    /\ ~wk[w].lost

LeaseExpires ==
    /\ LeaseLive
    /\ lease' = [lease EXCEPT !.expired = TRUE]
    /\ UNCHANGED <<exists, task, gen, runs, intents, receipts, cards, sched, wk, history>>

\* renew_execution matches on the token, not on the expiry: it may renew a
\* lease that has expired and that nobody has claimed since.
Renew(w) ==
    /\ Beating(w)
    /\ Holds(w) /\ OwnsRun(w)
    /\ lease.expired
    /\ lease' = [lease EXCEPT !.expired = FALSE]
    /\ UNCHANGED <<exists, task, gen, runs, intents, receipts, cards, sched, wk, history>>

\* The renewal matched nothing, or raised: the heartbeat ends and flags it.
LoseHeartbeat(w) ==
    /\ Beating(w)
    /\ wk' = [wk EXCEPT ![w].lost = TRUE]
    /\ UNCHANGED <<exists, task, lease, gen, runs, intents, receipts, cards, sched, history>>

-----------------------------------------------------------------------------
(* The human, and the operator's mutations *)

\* decide, by the person who was handed the token.
Decide(c, ruling) ==
    /\ cards[c].state = "pending"
    /\ cards[c].told
    /\ cards' = [cards EXCEPT ![c].state = IF cards[c].lapsed THEN "expired" ELSE ruling]
    /\ UNCHANGED <<exists, task, lease, gen, runs, intents, receipts, sched, wk, history>>

CardLapses(c) ==
    /\ cards[c].state \in {"pending", "approved"}
    /\ ~cards[c].lapsed
    /\ cards' = [cards EXCEPT ![c].lapsed = TRUE]
    /\ UNCHANGED <<exists, task, lease, gen, runs, intents, receipts, sched, wk, history>>

\* The inbox's pending() expires every overdue card.
SweepCards ==
    /\ \E c \in CardIds : cards[c].state = "pending" /\ cards[c].lapsed
    /\ cards' = [c \in CardIds |-> ReadCards(c)[c]]
    /\ UNCHANGED <<exists, task, lease, gen, runs, intents, receipts, sched, wk, history>>

\* Mutant: the stale lease is left on the row.
MutateUnderStaleLease(t) ==
    /\ exists
    /\ ~LeaseLive
    /\ task' = t
    /\ UNCHANGED <<exists, lease, gen, runs, intents, receipts, cards, sched, wk, history>>

\* get_owned_for_mutation: the row lock, Busy under a live lease, and a stale
\* lease cleared without a new generation.
Mutate(t) ==
    /\ exists
    /\ ~LeaseLive
    /\ lease' = Free
    /\ task' = t
    /\ UNCHANGED <<exists, gen, runs, intents, receipts, cards, sched, wk, history>>

Cancel == Mutate(IF task.state \in Done THEN task ELSE [task EXCEPT !.state = "cancelled"])

\* Mutant: every checkpoint may be rewound to.
HidesNothing(t, cp) == FALSE
\* Mutant: off by one, the checkpoint's own step is not looked at.
HidesEffectAfter(t, cp) ==
    \E s \in cp.cur + 1 .. t.cur - 1 : t.step[s] = "completed" /\ Plan[s] = "write"
HidesEffect(t, cp) ==
    \E s \in cp.cur .. t.cur - 1 : t.step[s] = "completed" /\ Plan[s] = "write"

Rewound(t, cp) ==
    [t EXCEPT !.step = cp.step,
              !.card = [s \in Steps |-> IF cp.step[s] = "waiting" THEN t.card[s] ELSE 0],
              !.cur = cp.cur,
              !.obs = IF @ > cp.obs THEN cp.obs ELSE @,
              !.state = IF cp.cur = 1 THEN "planned" ELSE "running"]

Rollback(cp) == ~HidesEffect(task, cp) /\ Mutate(Rewound(task, cp))

\* The row goes, and the runs, checkpoints, intents and receipts with it.
Delete ==
    /\ exists
    /\ ~LeaseLive
    /\ exists' = FALSE
    /\ lease' = Free
    /\ runs' = [k \in Keys |-> NoRun]
    /\ intents' = {}
    /\ receipts' = {}
    /\ UNCHANGED <<task, gen, cards, sched, wk, history>>

CancelSchedule ==
    /\ sched \in {"running", "failed"}
    /\ sched' = "cancelled"
    /\ UNCHANGED <<exists, task, lease, gen, runs, intents, receipts, cards, wk, history>>

-----------------------------------------------------------------------------
WorkerStep(w) ==
    \/ Claim(w) \/ ClaimRefused(w)
    \/ OrphanCheck(w) \/ Park(w)
    \/ StopLoop(w) \/ ObserveCancel(w) \/ SelectBlocked(w)
    \/ RaiseCard(w) \/ NoCardLeft(w) \/ ReadRuling(w) \/ StartRead(w)
    \/ FenceIntent(w) \/ CommitIntent(w) \/ PerformRead(w) \/ PerformWrite(w) \/ Record(w)
    \/ Verify(w) \/ Complete(w) \/ CompleteRefused(w)
    \/ Fail(w)

Next ==
    \/ \E w \in Workers :
          \/ \E k \in Keys, ms \in Budgets, nested \in Callers : ReadLedger(w, k, ms, nested)
          \/ WorkerStep(w)
          \/ StepRaises(w) \/ FailAborts(w) \/ Crash(w)
          \/ Renew(w)
          \/ LoseHeartbeat(w)
    \/ LeaseExpires
    \/ \E c \in CardIds : \/ \E ruling \in {"approved", "refused"} : Decide(c, ruling)
                          \/ CardLapses(c)
    \/ SweepCards
    \/ Cancel
    \/ \E cp \in task.cps : Rollback(cp)
    \/ Delete
    \/ CancelSchedule

Spec == Init /\ [][Next]_vars
\* Requests are served to their end unless the process dies, adapters return
\* (each has its own timeout), and clocks advance.
Fairness == /\ \A w \in Workers : WF_vars(WorkerStep(w))
            /\ WF_vars(LeaseExpires)
FairSpec == Spec /\ Fairness

-----------------------------------------------------------------------------
(* Properties *)

Pcs == {"idle", "claim", "orphan", "park", "step", "fence", "intent", "perform", "record",
        "finish", "commit", "raise"}
Locals == [pc : Pcs, key : Keys \union {NoKey}, ms : Nat, nested : BOOLEAN, row : RunStates, tok : 0 .. MaxGen,
           left : Nat, base : Tasks, mem : Tasks, rcpts : SUBSET Receipts,
           raised : CardIds \union {0}, ok : BOOLEAN, lost : BOOLEAN]

\* Every variable keeps its type; a task that is not done has a step to run.
TypeOK ==
    /\ exists \in BOOLEAN
    /\ task \in Tasks
    /\ lease \in [token : 0 .. MaxGen, expired : BOOLEAN]
    /\ gen \in 0 .. MaxGen
    /\ runs \in [Keys -> [state : RunStates, token : 0 .. MaxGen, ms : Nat]]
    /\ intents \subseteq IntentIds
    /\ receipts \subseteq Receipts
    /\ cards \in [CardIds -> [state : CardStates, step : Steps, told : BOOLEAN, lapsed : BOOLEAN]]
    /\ sched \in SchedStates
    /\ wk \in [Workers -> Locals]
    /\ effects \subseteq [gen : Nat, step : Steps, card : CardIds]
    /\ late \subseteq IntentIds

\* A human approval authorises one effect, on the step it was raised for: no
\* retry, duplicate request or stale worker performs a second one with it, and
\* no effect happens on a card nobody could have approved.
OneEffectPerCard ==
    \A e \in effects :
        /\ cards[e.card].state = "consumed"
        /\ cards[e.card].told
        /\ cards[e.card].step = e.step
        /\ \A f \in effects : f.card = e.card => f = e

\* The ambiguity marker is durable before the outside world changes: whenever
\* the process dies, an effect that happened has its committed intent.
EffectHasIntent ==
    exists => \A e \in effects : [gen |-> e.gen, step |-> e.step] \in intents

\* An effect whose receipt was lost is never followed by another: once a later
\* claim has performed an effect, every intent of an earlier one has its
\* receipt (the intents that slipped in after that later claim apart).
NoEffectOverAmbiguity ==
    exists => \A i \in (intents \ late) \ Receipted :
                 \A e \in effects : e.gen <= i.gen

\* No lost update: while a worker owns the lease, the committed payload is the
\* one it claimed, so its result overwrites nobody's write.
HolderHasCommittedTask ==
    \A w \in Workers : Holds(w) => wk[w].base = task

\* A committed step that claims an external effect has the receipt of an effect
\* that took place.
CompletedWriteHasReceipt ==
    exists => \A s \in Steps :
        Plan[s] = "write" /\ task.step[s] = "completed" =>
            \E r \in receipts : /\ r.step = s /\ r.ok
                                 /\ \E e \in effects : e.gen = r.gen /\ e.step = s

\* A step's effect is confirmed at most once in the life of the task, whatever
\* rollbacks, retries and claims come in between.
OneConfirmedEffectPerStep ==
    \A r, q \in receipts : r.ok /\ q.ok /\ r.step = q.step => r = q

\* At most one request of the task is open in the ledger.
OneOpenRequest ==
    \A k, l \in Keys : runs[k].state = "running" /\ runs[l].state = "running" => k = l

\* The ledger's answer to a request never changes: a replay returns what the
\* first caller was told.
VerdictsAreFinal ==
    [][\A k \in Keys :
         exists' /\ runs[k].state \in {"completed", "failed"} =>
            runs'[k].state = runs[k].state]_vars

\* Rewinding hides no effect: a committed, completed effectful step stays so.
EffectsStayVisible ==
    [][\A s \in Steps : Plan[s] = "write" /\ task.step[s] = "completed" =>
                          task'.step[s] = "completed"]_vars

\* Only the operator takes a task out of a final state: a worker that was
\* running while the operator cancelled never brings it back.
WorkersNeverRevive ==
    [][task.state \in Done /\ wk' # wk => task'.state = task.state]_vars

\* Every request is answered, by a result or by an error.
RequestsEnd == \A w \in Workers : wk[w].pc # "idle" ~> wk[w].pc = "idle"
=============================================================================
