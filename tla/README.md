# DEVON's agent runtime in TLA+

DEVON is an agent runtime that never acts on the outside world without a
person's ruling. This directory holds TLA+ models of the parts of it that keep
that promise while processes crash, leases expire, requests overlap and are
repeated; TLC configurations that check them on small instances; and TLAPS
proofs of what holds on every instance.

Paths below are relative to the repository's root.

## 1. Inventory of the system

| Part | State it keeps | Operations | What is hard |
|---|---|---|---|
| **Human approval gate** `services/devon/approval.py`, `app/services/devon_approval_store.py`, `services/agent_runtime/governance.py` | one row per card in Postgres: state, deadline, the marker that binds it to task, step, tool and arguments | `request`, `decide`, `get`, `pending`, `consume`, and the capability boundary that consumes before it runs a handler | every operation reads a snapshot, judges it by the process's own clock and then does a compare-and-set; the store may fail after its commit |
| **Durable task execution** `app/services/agent_tasks.py`, `app/services/agent_runtime_persistence.py` | the task row (payload, lease token, expiry, generation), the idempotency ledger `agent_task_runs` | claim, renew, complete, fail, park, cancel, rollback, delete | two processes on one task, heartbeats that are late, operators writing over expired leases, duplicate requests |
| **Runtime loop** `services/agent_runtime/runtime.py` | the task's plan, current step, checkpoints, observations, card references (in memory until the run commits) | `run_until_blocked`, `run_next`, `rollback_agent_state` | the in-memory copy and the row diverge between commit points; cards are raised on another connection |
| **Effect intents and receipts** `app/services/agent_effect_receipts.py`, `leased_effect_recorder.py` | append-only `intents` (committed before the adapter) and `receipts` (committed with the run) | `record_intent`, `record_receipt`, `find_orphan_intents` | the outside world changes between the two |
| **Runtime evidence** `app/services/runtime_evidence.py` | evidence of results, verification verdicts | `record_result`, `verify` | its fence is stricter than the receipt's |
| **Schedules** `app/services/hermes_expansion_persistence.py`, `agent_scheduler.py`, `services/agent_runtime/schedule_policy.py` | `agent_schedules`: state, `run_at` and original slot, the task attached | create, due scan, materialise, attach, defer, cancel, mark outcome | planning inside a transaction that lasts, rows planned and then rolled back, one owner's failure and the others' turn |
| **Workflow engine** `app/services/workflows.py`, `services/workflows/`, `app/api/v1/workflows.py` | a definition, its runs: status, pending step, seal, results, approvals | start, decide, edit, delete | long transactions on unlocked copies; an approval is given to a payload that was shown |
| **Workflow dispatcher** `app/services/dispatcher.py`, `services/workflows/schedule.py`, `dispatch.py` | `next_run_at`, the session's advisory lock | `dispatch_due`, `next_slot` | the lock is gone before the commit; stale clocks and definitions |
| **Agent turns and confirmations** `services/agent_runtime/agent_turn.py`, `conversation.py`, `pending.py`, `halt.py`, `app/api/v1/conversations.py` | in process memory: open questions (at most 512, for 900 s), the brake of each running turn | start, answer, halt, disconnect, the step loop | a turn is spread over several HTTP streams whose endings overlap |
| **Provider spend** `app/services/provider_usage.py` | tokens per account and day | check before, book after | check and booking are apart, and a council's agents ask at once |
| **Live state ledger** `app/services/live_state_ledger.py`, `services/devon/ecosystem.py` | intents, numbered events in a hash chain, receipts, approval rows, the emergency stop | `append_event`, `issue_receipt`, `rule_approval`, `settle_approval`, stop | what is read decides what is written, without locks |
| **Knowledge loop** `app/services/knowledge_loop.py` | nothing of its own: a card at the gate, an intent on the ledger | `propose`, `approve`, `commit` | two stores that cannot commit together, and connectors outside both |
| Presence, n8n exports, code worker, queues, text services, prompting, adapters, HTTP, front ends, scripts | none of their own, or data only | parsing, rendering, calling | see section 6 |

How they interact. A person, a schedule or a workflow's slot starts work.
`POST /agent-tasks/{id}/run` claims the task's lease under an idempotency key,
checks that no earlier run left an intent without a receipt, and loops over the
plan. A read step runs its tool. A write step first raises a card at the
approval gate and returns; once the card is approved a later run fences and
commits an intent, calls the governed capability, which spends the card and runs
the adapter, records the receipt inside the run's transaction, and commits
result, receipt and released lease together. The scheduler turns recorded goals
into such tasks and the task's outcome marks the goal. A workflow run stops in
front of each effect step at a gate of its own, which `decide` opens or closes. A
conversation asks its irreversible calls as questions whose handle comes back in
a second request, and its provider calls are charged to the account. The
knowledge loop raises its cards at the same gate as the tasks and mirrors on the
ledger what became of them.

What makes each part correct:

- gate: a card has one ruling; an approval is spent once, before its deadline,
  for the effect it was raised for; what a caller was told stays true;
- execution: one owner at a time as far as the *row* can tell, no lost update,
  a ledger that never changes its answer;
- effects: an effect is never followed by another one as long as it is
  ambiguous; no approval serves twice; rewinding hides no effect;
- schedules: a goal becomes one task or none; what must not run late does not
  come back by its retry; no owner stops another;
- workflows: what is written is what a gate showed, once, and the record says so;
  open gates do not pile up;
- dispatch: a slot starts one run or none, a backlog is skipped, no due
  workflow waits for ever;
- turns: a yes runs one effect, questions grant no second allowance, a stop
  that was heard holds, a cap is overrun only by the completions that were in flight at once;
- ledger: the order of durability around the spend, and a log that every
  appended event was judged against in full.

The hazards in `PROJECT.json` name, line by line, what in this code a test would
hardly reach, and which property watches it.

## 2. Modules

| Module | Models |
|---|---|
| `ApprovalSpec` | what the gate promises: raise, settle, spend, perform, lapse |
| `ApprovalGate` | the gate call by call, with stale snapshots; implements `ApprovalSpec` |
| `ApprovalGateProofs` | invariants, the refinement of `ApprovalSpec` and what callers are told, for all constants |
| `TaskExecution` | one task, its workers, ledger, effects, cards and operator; its properties |
| `TaskExecutionClaims` | statements of comments and documents that the code does not keep |
| `MCTaskExecution` | plans and symmetry for TLC |
| `TaskExecutionProofs` | types, the lease invariant and the cards, for all constants |
| `TaskEffectsProofs` | intents, receipts, rollback and the ledger of requests, for all constants; extends `TaskExecutionProofs` |
| `OccurrenceSpec` | what a recorded goal may live through |
| `Schedules`, `MCSchedules` | the cron lane and the manual route that materialise goals; implements `OccurrenceSpec` |
| `WorkflowGate`, `MCWorkflowGate` | one workflow, its runs and the requests on them |
| `FiringSpec` | what scheduled dispatch promises of its slots |
| `Cadence` | `next_slot` beside a definition of what it should return |
| `Dispatch`, `MCDispatch` | dispatchers, batches, the advisory lock; implements `FiringSpec` |
| `AgentTurn`, `MCAgentTurn` | turns as legs, questions, brakes, completions in flight and the spend cap |
| `WorkflowGateProofs` | types, the seal, the record and the number of open gates, for all constants; the seal for edits that keep the steps, the record for edits that keep the effects |
| `AgentTurnProofs` | types and the shelf, one effect per yes, the turn's allowance, the halt and the cap, for all constants |
| `SchedulesProofs` | the refinement of `OccurrenceSpec`, the deferral and the goals that may not run late, for all constants |
| `DispatchProofs` | the refinement of `FiringSpec`, the skipped backlog and the arithmetic of `next_slot`, for all constants |
| `KnowledgeLoop`, `MCKnowledgeLoop` | one capture from proposal to receipt, on the ledger's laws and tables |
| `KnowledgeLoopProofs` | the order of what is written and done, and the ledger's chain, for all constants |

### ApprovalGate

Every *caller* `p` has a local record: the await it is at (`pc`), the card it
works on, the effect it wants, the state it intends to write and the last answer
it got. The store's row is `state[c]` and `bound[c]`; `overdue` says whose
`expires_at` has passed; `spent` is a history variable, the effect performed on
a card.

- `decide` is `DecideRead` (read, and choose expiry or ruling by the caller's
  clock), `DecideWrite` (`transition_pending`, UPDATE .. WHERE state = 'pending')
  and, for the loser, `DecideLost` (`_race_lost` re-reads).
- `require_approved_runtime_binding` is `GateRead` (`get`, which may go through
  `GateExpire` and `GateReread`), `Judge` (approved, and bound to this effect),
  then `consume`: `ConsumeRead`, `ConsumeWrite` (`transition_approved`, which
  also compares the deadline with the time it is given), `ConsumeLost`; only a
  caller whose write succeeded reaches `Perform`.
- `Sweep` is `pending()`. `Unavailable` and `AckLost` are the store raising
  before and after its commit. `Crash` drops a caller at any await.
- A caller in `Skewed` has a clock of its own: it may find a card overdue or
  not. `ConsumeWrite` uses the deadline itself: a skewed clock that is slow
  could spend late by its skew, which is a matter of degree and not modelled.

Tokens are left out: the model's `decide` is a call that carries the right one.

### TaskExecution

`exists, task, lease, gen` is the row of `agent_tasks`; `runs` the ledger;
`intents`, `receipts` the effect tables; `cards` the approval rows, used
atomically here because `ApprovalGate` shows that the gate behaves atomically;
`sched` the schedule attached to the task. `wk[w]` is a worker: one call of
`run_until_blocked` with its locals and its open transaction. A worker's `pc`
names the await at which other processes can interleave:

    idle -> claim -> orphan -> step* -> finish -> commit -> idle
                       |        |  ^
                       v        v  |
                      park    fence -> intent -> perform -> record
     (any of them) -> raise -> idle

`ReadLedger` is the SELECT of the ledger row, `Claim` the conditional UPDATE and
the ledger changes that commit with it. `RaiseCard` commits the card at once and
keeps the task's reference to it in memory. `CommitIntent` commits on a session
of its own, `Record` keeps the receipt in the run's transaction, `Complete`
commits payload, receipts, ledger row and lease together, `Fail` is the except
branch, `FailAborts` the case where that fails too. `Renew` matches the token and
not the expiry, as `renew_execution` does. `Mutate` is `get_owned_for_mutation`
with its clearing of a stale lease, used by `Cancel` and `Rollback`; `Delete`
cascades. The history variables are `effects` (what the adapters really did) and
`late` (intents committed after another claim).

A plan is a sequence of risks: `"read"`, `"write"` (needs a card), `"blocked"`.
An adapter is external: it may do nothing, take effect and say so, or take
effect and report a failure.

Abstractions: lease tokens are the generation they were issued with (the code's
are random and never repeat); times are the two facts "expired" and "lapsed";
checkpoints form a set because a rollback names one of them; the ids of intents
are the pair of generation and step.

### Schedules

`row`, `left` and `slot` are `agent_schedules`; times are relative, so that the
clock needs no bound. A runner is a cron process (`TryLock`, `Scan`, `NextOwner`,
and for each owner `Begin`, `Plan`, `Commit`, or `OwnerFails` followed by `Defer` on
another session) or a caller of the manual route, which neither locks nor defers.
`Begin` is the `SELECT .. FOR UPDATE`: it waits for rows that another transaction
holds and reads them again when it gets them. Between `Begin` and `Commit` a
plan is made by the model, so `Tick` may happen any number of times. `Mark` and
`DeleteTask` are what the task side does to the row; a worker that lost its lease
may `Mark` too, which is why nothing is assumed about who does. The skill
proposals in the same repository class are rows a person decides once.

### WorkflowGate

Each request is one READ COMMITTED transaction on unlocked copies: `StartRead` /
`StartCheck` / `StartInsert`, `DecideRead` / `DecideCheck`, `EditCheck` /
`EditSave`, `DeleteCheck` / `Delete`, with `Advance` for the part that runs the
engine. An inserted or flushed run is held until `Advance` commits; a second
writer of it waits. The engine is `Todo`, `Gates`, `Stop` and `Ran` on the copy; a
payload is the template's text with the results that were there to be
substituted. `Seal` is what the gate stores of the shown payload, `SealHolds` the
comparison on approval. `written` and `shown` are history, and so is `peak`: `Copying`
are the requests that are past their checks and hold a copy of a run which they have
not committed, and `Joins` notes the most of them there ever were.

### Dispatch and Cadence

A batch is one transaction: `Wake` reads the clock, `TryLock` the session's
advisory lock, `Select` the due rows, then for each workflow `Skip`, or `StartRun`,
`FlushRun` and one of `Keyed`, `LostRace`, `FailOne`; `Unlock` comes before `Commit`.
`Save` is the owner's PATCH, `Decide` the opening of a run's gate. In `Cadence` the
calendar's sizes are constants: `NextSlot` follows the arithmetic of `next_slot`,
and `FirstStrictlyAfter` compares it with the least instant after the one it is
given at which the cadence fires, in every calendar of `Calendars`.

### AgentTurn

A *leg* is one HTTP stream. `Start` and `Confirm` are `POST /act/stream` with and
without a handle; `Stream`, `AskOrEnd`, `Reply*`, `Offer`, `StopHere`, `Invoke`, `Return`
and `Close` follow `AgentTurn.run` and `PresenceExecutor.run_step`. The process runs one
step at a time (asyncio) and gives way only where it awaits the provider, a
handler or the client, which are the values of `pc`. `Halt`, `Lapse`, `Disconnect`
and `Restart` may come at each of them. Brakes are named by the leg that made
them, since `HaltRegistry.open` hands an existing one on. The shelf is a set whose
questions carry the rank of their `created_at`, by which `Kept` prunes. A handle that
another account or actor sends changes nothing and is no step.

A completion is in `flight` from the read of the day's use in `refuse_if_capped` to the
commit of its record, as in `MeteredProvider.complete`; only the record adds to `booked`.
A leg asks for one at a time (`Own`): the loop itself (`AskOrEnd`, `Reply*`) or a tool
whose handler calls the provider (`ToolAsks`, `vision.describe`). A council is given the
same metered provider and runs its agents side by side, at most `Seats` of them
(`max_concurrency`, 3 by the constructor's default): `CouncilAsks` is each of its
completions, intent, agents, repairs, second round or synthesis. `peak` remembers the most that were in flight.
Endings do not end completions. `Lands` answers and records one that no loop waits for,
or loses it. A stream that goes away takes with it any part of what it awaited, since a record that
was begun is shielded (`Disconnect`). A council that the cap refuses half-way does not
wait for the agents that were let through (`Return`), and one whose gather raises
because the day's use could not be read leaves its agents running (`CouncilBreaks`,
`loose`). Choices: how many completions a council makes and in which order is data, so a seat may
ask again and again; without a cap nothing is read and no flight is followed; the account
has no other caller, and the day does not end.

### KnowledgeLoop

A caller's record holds what its transaction has written and not yet
committed: `new` events, the state column it `set`, the receipt it `cert`ifies, the
approval's `rowSet`. `AppendRead` is `append_event` up to its last read, `Flush` its
INSERT and UPDATE: the unique number refuses an event that is not the next, and
the intent's row, updated by every append, makes the second writer wait.
`IssueReceipt`, `RowRead` / `RowWrite` (`rule_approval`, `settle_approval`), `Save` (commit)
and `Raise` (rollback, with the failure recorder after the spend) do the same for
the rest. `commit` is `Commit`, `Latch` (advisory lock and second look),
`AppendRead` / `Flush` / `Save` of the start with its artifact, `Spend`, the settlement,
`Effect`, the completion with its receipt, `Save`. The event and receipt routes
(`Post`, `PostReceipt`), the stop, the refusal at the shared route and the sweep act
on the same rows. Choices: of the checks before the commit's first lock, those
that can become false are made again later, so they are one step; the hash
chain is intact, as nobody edits rows; both connectors are one effect; the card
moves in one step, because `ApprovalGate` shows that the gate behaves so.

## 3. Runs

All bounds are in the configurations.

| Run | Instance | Asks |
|---|---|---|
| `approval_gate` | 2 cards, 2 effects, 2 callers, one with a wrong clock, fairness | Does the queue implement `ApprovalSpec` (`Promise`)? Does one of several callers with the same approved snapshot perform (`OnePerformer`)? Do answers stay true (`AnswersStayTrue`, `OverdueMeansUnspent`)? Is every call answered (`CallsEnd`)? |
| `task_lease` | 2 workers, 2 keys, one write step, 3 claims | Lease duels: `OneEffectPerCard`, `HolderHasCommittedTask`, `OneOpenRequest`, `VerdictsAreFinal`, `EffectHasIntent`, `NoEffectOverAmbiguity` |
| `task_repeat` | 1 worker, 4 keys, 2 cards, 4 claims | Retries and rollbacks: `TypeOK`, `OneConfirmedEffectPerStep`, `WorkersNeverRevive` |
| `task_rewind` | read, write, blocked; budget 2; nested and plain callers; 3 claims; fairness | The whole loop: `CompletedWriteHasReceipt`, `EffectsStayVisible`, and does every request end (`RequestsEnd`)? |
| `schedules` | 2 goals of one owner or two, 2 cron processes, 1 manual caller, an owner whose planning always fails, 1 fault, fairness | One task per goal (`OneTaskPerGoal`, the refinement), no late retry (`SkippedNeverRetried`), deferral leaves attached rows alone (`AttachedKeepsSlot`), every goal is decided (`EveryGoalDecided`) |
| `workflow_gate` | 2 runs, 2 starters, a decider, an editor, a deleter; two reads and two effects, reworded | `EffectWasShown`, `RecordTellsEffects`, `GateOvershoot` |
| `dispatch` | 2 workflows; 1 dispatcher with batches of one, or 2 with batches of two; 1 edit, 1 fault, 3 instants; fairness | `SlotsFireOnce` (the refinement of `FiringSpec`), `BacklogIsSkipped`, `DueIsServed`, and every cadence of a small calendar from every instant (`FirstStrictlyAfter`) |
| `conversation` | 3 legs, 2 of which may start turns; 2 steps, 1 council; two council seats; no cap and a shelf of one, or a cap of two completions and an empty shelf; 1 fault | `TypesAndShelf`, `OneEffectPerYes`, `TurnAllowance`, `HaltHolds`, `SpendOvershoot` |
| `ledger` | 3 callers, 5 calls, 2 faults | `OrderOfDurability`, `ChainHolds` |
| `claim_replay`, `claim_record`, `claim_brake` | as small as shows it | three claims of section 5, each refuted |

Why the bounds are enough. Two actors make every race over a single row; a
third adds another loser, except where two make the state a third one finds:
on the ledger, a proposal, an approval and a commit that started, and a third
that posts. Three claims give an owner, one that superseded it and one that
supersedes both, so an intent can be early, current or late. Two cards let a
step be approved a second time after a rollback dropped the first card. Three
steps put something before and after the effect, and a budget of two puts the
run boundary on either side of it. Two goals of one owner share a transaction
and of two owners a batch. Two effects of which one quotes the other let an
approval meet a changed payload. Three legs let a question be asked, answered
and asked again, or answered while another turn runs. Five calls are propose,
approve, commit and two that interfere; two faults let the failure recorder
fail as well. Symmetry is used on callers, workers, keys and runs, none of which
the models order, and only in runs without liveness.

What the workflow and dispatch properties do not promise. `EffectWasShown` is checked
where edits keep the steps, `RecordTellsEffects` where they keep the effects and one
request decides at a time: a second decision is caught by `claim_record` alone.
`BacklogIsSkipped` is about a deployment with one dispatcher and says nothing of overlapping
batches. `ClaimPreview`, `ClaimRecord` and `ClaimCatchUp` show what happens otherwise
(section 5). `GateOvershoot` has no such condition and promises less: the open
gates of a workflow are no more than the requests that once held a copy of a run at
the same time. One gate at a time is what the code's words say and what `ClaimGate`
refutes; that a gate is not thrown away, or that the run behind it can be decided at all, is not promised
either (`ClaimDiscard`, `ClaimTrapped`).

What `SpendOvershoot` bounds. A cap is overrun by one completion for each of the most that
were in flight at once, because each of them read the use before any of the others
recorded its own. What may be in flight is bounded by what can ask at once: a completion for each leg, and
one in each seat of each council. One leg alone may use up several of
these. In the run, under a cap of two, a leg's own completion books one and both
agents of its council pass the check at that one, which makes three.

Deadlock is checked in `approval_gate` and `schedules`, which can always go on. The
other runs stop when keys, claims, calls, legs, requests or time are used up.

Fairness. `CallStep` of each caller and `WorkerStep` of each worker are weakly
fair: store calls and adapters have timeouts of their own and the event loop
runs what is ready. `LeaseExpires` and `Tick` are weakly fair because clocks
advance, `TryLock` and `Wake` because cron comes back. The steps of a batch that may
wait for a row (`RunnerStep`, `Batch`) are strongly fair: Postgres queues those who
wait for a row, so one whom the row is given up to again and again gets it.
Crashes, exceptions, lost heartbeats, renewals, the human and the operator are
not fair: nothing makes them happen. In particular `RequestsEnd` does not wait for a
ruling, since a run returns when a card is pending.

Each property comes with a small change of the code's translation that breaks
it (`mutants` in `PROJECT.json`; the operators are marked "Mutant" in the
modules and are used by nothing else): a lost guard, a missing reset, an
off-by-one. They show that the property depends on the code.

## 4. Proofs

`ApprovalGateProofs`, assuming only that `Nothing` is not an effect and
`Skewed` is a set of clients:

- `TypeCorrect`: `Spec => []TypeOK`.
- `OneCallerPerforms`: `Spec => []OnePerformer`.
- `QueueImplementsGate`: `Spec => Promise`, the refinement of `ApprovalSpec`,
- `ToldForGood`: `Spec => []AnswersStayTrue`,
- `LateApprovalIsNeverSpent`: `Spec => []OverdueMeansUnspent`.

None but the first is inductive as stated. `IInv` adds what a caller in the middle of
a call still knows of a card it read a while ago (`CallInv`): a card that was
seen approved is approved or spent, is still bound to the same effect, and, for
a caller about to perform, has not been performed on. This is stable because no
step takes an approval back or rebinds a card (`Kept`), so `OthersStep` covers
every caller but the one that moves. `SpentIsConsumed` is needed when a new
performer appears. The refinement then follows action by action:
writes are `ASettle` or `ASpend`, `Perform` is `APerform`, reads are stutters.

What a caller was told stays true because a card's fate is kept (`FateKept`: refused,
expired and consumed are final, an approved card can only be spent, a lapsed one
stays lapsed) and because a call answers from a state it has just seen or written.
`ToldInv` adds to the answer what the call knows between its read and its answer: a
caller that lost a race has seen a card that is no longer pending, and an honest
clock says "overdue" only of a card that is, which `ConsumeWrite` will not spend.

`TaskExecutionProofs`, assuming `PlanAssumption` and `BoundAssumption`:

- `TypeCorrect`: `Spec => []TypeOK`, for any plan. It needs `InStep`: between the
  choice of a step and its record the task is running, so the current step
  exists, the budget is not used up and a write step has its card.
- `NoLostUpdate`: `Spec => []HolderHasCommittedTask`. It needs `LeaseInv`: no
  token is from the future and no two workers have the same one. Then a claim
  takes the lease from everybody, and every other step is `Orderly`: the lease
  stays with its holder or is released, and the payload changes only when it is
  released, except in `Park`, where the holder takes the new payload as its base.

- `OneEffectPerApproval`: `Spec => []OneEffectPerCard`. It needs `CardInv`: a step
  refers only to a card that was raised for it, in the committed task and in
  every worker's copy (`CardsFit`), and only a card handed to a person is ever
  approved or spent (`Told`). A card keeps its step and stays spent for good
  (`CardsKept`), and every step of a worker or an operator keeps or drops the
  references it finds (`Narrows`), except `RaiseCard`, which adds a card nobody
  has. So the card an effect consumes has no effect yet.

`TaskEffectsProofs`, assuming no more than `TaskExecutionProofs`:

- `EffectsAreMarked`: `Spec => []EffectHasIntent`,
- `AmbiguityStops`: `Spec => []NoEffectOverAmbiguity`,
- `ConfirmedOnce`: `Spec => []OneConfirmedEffectPerStep`,
- `CompletedHasReceipt`: `Spec => []CompletedWriteHasReceipt`,
- `NoEffectIsHidden`: `Spec => EffectsStayVisible`,
- `SettledForWorkers`: `Spec => WorkersNeverRevive`,
- `RequestsApart`: `Spec => []OneOpenRequest`,
- `AnswersAreFinal`: `Spec => VerdictsAreFinal`.

The first two need `IntentInv`: a worker past its orphan check (`Clear`) owns every
intent of unknown outcome or is older than it, and one that is about to perform has its
intent on the committed ledger (`Marking`). The check reads before the intent is
written; what keeps the gap harmless is that only a claim raises the generation, so an
intent that slips in between is a displaced worker's, which the property calls late
and leaves out.

The next four need `DoneInv`, which ties three copies of "done" to each other. `Path`: in
the task and in each of its checkpoints the completed steps are those before the
current one, and no checkpoint lies ahead of the task across an effectful step, so
rewinding stops at the last of them. `Honest`: a worker's copy is the payload
it claimed and the steps it took since, and its transaction holds one confirmed
receipt for each effectful step among them. `Confirmed`: the committed receipts are one
for each effectful step the row calls done. `Finish` and `Commit` then join the second
to the third, because `HolderHasCommittedTask` says that what was claimed is what is
committed. The steps of a worker are sorted once, by what they do to its copy
(`WorkerShape`).

`AgentTurnProofs`, assuming `TurnAssumption` (and, for the last, that finitely many
requests arrive):

- `TypeCorrect`: `Spec => []TypesAndShelf`,
- `YesIsUsedOnce`: `Spec => []OneEffectPerYes`,
- `TurnStaysInAllowance`: `Spec => []TurnAllowance`,
- `HaltIsKept`: `Spec => HaltHolds`,
- `SpendIsBounded`: `Spec => []SpendOvershoot`.

The three between the types and the cap rest on one invariant. `OnePlace`: a turn is in one running leg or in
one question on the shelf, never in two places. `YesUnused` then says that a yes whose
question is on the shelf, or which a leg still holds, has had no effect, and that
nobody else holds it; `CallsCounted`, `CouncilsCounted` and `StampsCounted` that the
locals of that one place bound what the turn has done; `HaltKnown` that a running leg
of a halted turn is under a signal that is set, although an ending leg may have taken
the turn's brake away. `Unstarted` starts the induction for a turn. A step in which a
leg merely goes on or ends is handled once (`LegMovesOn`, `LegEnds`), so that only
`Start`, `Confirm`, `Offer` and `Invoke` need an argument of their own.

The cap. `Flown` says what may be in flight: the completion of a leg that waits or is in a
handler, or one in a seat of a council. By `Books` every step is of one kind: it
ends some completions and books the price of one of them at most, or it sends one while
the account is below the cap. So what is booked and what is in flight, each completion at
its full price, never exceed the cap by more than `Cost` times the peak (`Committed`). `Room` bounds the peak:
`CompletionsFit` counts the legs and the seats of the turns' councils.

The shelf. `TypesAndShelf` says that the
shelf has at most one question more than its limit. This needs the ranks of the questions to tell
them apart (`Tidy`), which they do because a new one is ranked above the greatest that
is kept (`NewRank`); the oldest question a prune keeps has then fewer younger ones than the
limit, so no more than the limit are kept (`KeptFits`).

`SchedulesProofs`, assuming `ScheduleAssumption`:

- `TypeCorrect`: `Spec => []TypeOK`,
- `RunnersImplementOccurrence`: `Spec => OneTaskPerGoal`, the refinement of
  `OccurrenceSpec`,
- `AttachedGoalsStay`: `Spec => AttachedKeepsSlot`,
- `SkippedStaysSkipped`: `Spec => SkippedNeverRetried`.

The row locks carry it (`LocksHold`): a runner in a transaction alone has the rows it
selected, and they stay open until it ends; so a commit moves each of them along
the edge from open to started, the one that makes a task, or from open to off. The
outcome of a task finds its row by the task, so `TaskIsStarted` (only a goal that
was started has a task) is needed to see that `Mark` never settles an open goal. The
steps that only move a runner's locals are one lemma (`RunMoves`), and those that
change rows but make no task another (`QuietMove`). The last theorem needs to know where
a slot lies that nobody looks at any more (`SkipInv`): a batch found its goals due, so
their slots lie at least its age back (`Found`); a deferred goal is tried again the backoff
after the batch began, so its slot lies the backoff before its next attempt
(`SlotFits`), and with a backoff longer than the lateness it is missed by then. A transaction
that had planned the goal before its deferral would spoil this; the row lock excludes it.

`DispatchProofs`, assuming `DispatchAssumption`:

- `TypeCorrect`: `Spec => []TypeOK`,
- `DispatchIsFiring`: `Spec => SlotsFireOnce`, the refinement of `FiringSpec`,
- `LonelyDispatcherMovesOn`: `Spec => []BacklogIsSkipped`,
- `NextSlotIsTheFirst`: `Spec => []FirstStrictlyAfter`.

The advisory lock is returned before the commit, so it proves nothing about two
batches; the row of the workflow does (`Exclusive`: one uncommitted update of a row).
`InBatch` says what a batch knows while it holds rows: what it selected had passed by
its own clock, it holds every row it moved, and no slot it starts is committed by
anybody else. That a slot is never started again follows from where the row is
moved to: strictly after the batch's clock (`SlotLater`). The third theorem assumes a
deployment with one dispatcher, as the property does, and needs `Lonely`: all that this
dispatcher looks at lies after the clock of every start so far. The fourth is arithmetic,
for `Calendars` of any sizes. An instant is written with the digits of two units
(`TwoDigits`), so a cadence fires on one residue of its period (`FiresOnResidue`); the
candidate of `next_slot` has that residue and lies less than a period before the instant and
at most one after it (`CandidateIsNear`, of which the weekly case, where the weekday is
reached modulo the days of the week, is `OfThisWeek`); what has the residue and lies
there is, after one advance at most, the first firing (`FirstOnResidue`).

`WorkflowGateProofs`, assuming `DefinitionAssumption`, for any definitions, requests, keys and
deciders:

- `TypeCorrect`: `Spec => []TypeOK`,
- `SealBindsTheEffect`: `SameSteps /\ Spec => []EffectWasShown`,
- `RecordIsTrue`: `SameEffects /\ OneDecider /\ Spec => []RecordTellsEffects`,
- `GatesDoNotPileUp`: `Spec => []GateOvershoot`.

The second and the third have hypotheses, which limit what the owner saves while runs wait. `SameSteps`: every definition has
the same steps in the same order; wording, what a step quotes and whether it is an
effect may change. `SameEffects`: the same names are effects; reads may come, go and
move. `OneDecider`: at most one request decides at a time. The code does not keep the seal without the first, which `ClaimPreview` breaks, nor the
record without the third, which `claim_record` breaks (section 5). The second is what gives the record its
meaning, for it lists steps by name: of a name that was an effect when it was written and
is a read when it is looked up, the record does not tell which. The definitions of the
passing run with its one decider fulfil all three. The last theorem has no hypothesis: it
holds for whatever is saved and however many decide.

`GateInv` is what rows and locals say of themselves: a row at rest has a pending
step if and only if it awaits, a request past its checks has a definition, a name and a
copy that is still to be advanced. Every step is one of six shapes (`Shape`: a request
retires, begins, rules, goes on, commits up to a step, deletes), and each invariant is
proved against the shapes and not against the code's handlers. For the seal, `ShownInv`
says that a run that waits has all done that lies before its gate (`Gated`) and that a
copy whose gate was approved has had its payload shown (`Ready`): the engine stops at the
first gate it meets (`SmallestIndex` gives it one), so whatever it writes first was sealed.
For the record, `RecordInv` ties each row, and each copy a request is about to
advance, to the log of effects (`Tells`), and says that a run has one copy at a time.
For the open gates, `CrowdInv` says that the runs that wait, or that a request is
working on (`Busy`), are no more than the peak. A start joins only when no run waits, so that
the runs worked on are all there are, one for each request that has a copy (`CrowdGrows`); a decision
joins on a run that waits and adds none; and whoever leaves takes no more than its
own run along (`CrowdEnds`, `CrowdShrinks`).

`KnowledgeLoopProofs`, assuming `LoopAssumption`:

- `TypeCorrect`: `Spec => []TypeOK`,
- `WrittenBeforeDone`: `Spec => []OrderOfDurability`,
- `LogStaysLegal`: `Spec => []ChainHolds`.

A caller performs three commits, on two connections, around one effect. `Starting`,
`Writing` and `Decided` say what a call in each of its parts has on record already:
the start is committed when the call spends the card, the card is spent when it
performs. `CardSays` ties the ledger's row, and what a call is about to write into
it, to the card, which never goes back; `Alone` says that one call at a time has
uncommitted events, so that a transaction appends to the log it has judged.
`Proposed` is needed at the start: before the first proposal is committed nobody
else can be under way.

No module declares a RECURSIVE operator, so each of them can be proved about.

*Model-checked only.* Every invariant and every action property that a passing run
checks is stated by one of these theorems. What the runs alone show is liveness, which is
out of the proof system's reach: `RequestsEnd`, `CallsEnd`, `EveryGoalDecided` and
`DueIsServed`, under the fairness of section 3. What section 5 reports is TLC's too: a
counterexample is a behaviour of a small instance. Where a theorem carries a hypothesis that
one of them shows it to need, the section on its module says so.

## 5. Where code and words differ

Three of these are runs that TLC ends with a counterexample. The others are
shown by a configuration of the same name that is run by hand:
`tlc -config ClaimStop.cfg MCKnowledgeLoop`. `findings` in `PROJECT.json` quotes the
words each one is about.

Tasks (`MCTaskExecution`):

- **A completed request may run its adapter again** (run `claim_replay`). The ledger
  row is read before the claim and not after it.
- **The holder of the lease is not alone in the effect protocol** (`ClaimAlone.cfg`).
  A lease can expire inside an adapter. What the comment concludes from it, that
  an orphan is a real one, becomes: an orphan may still complete.
- **An intent may be written after the lease is gone** (`ClaimIntent.cfg`): the fence
  is a read without a lock.
- **A rollback can move forward** (`ClaimRewind.cfg`): later checkpoints survive an
  earlier rollback. No effect is hidden (`EffectsStayVisible` still holds), but
  steps count as completed whose observations are gone.

Schedules (`MCSchedules`):

- **A failure need not defer** (`ClaimDefer.cfg`): the deferral selects by the
  batch's clock, the transaction by its own.
- **The next tick need not reach the rest** (`ClaimCap.cfg`): a batch that lasts as long
  as the backoff finds its failed owners due again in front of the others.

Workflows (`MCWorkflowGate`):

- **A record may deny an effect** (run `claim_record`): a second decision overwrites
  the row that the first one wrote.
- **An effect may be written that no gate showed** (`ClaimPreview.cfg`): an edit puts an
  effect in front of the pending one, whose approval is kept.
- **Two gates may be open at once** (`ClaimGate.cfg`), **a gate may be discarded**
  (`ClaimDiscard.cfg`) and **a waiting run may be undecidable** (`ClaimTrapped.cfg`): starts,
  edits and deletes look for open gates without a lock.

Dispatch (`MCDispatch`):

- **Two dispatchers may be in their batches at once** (`ClaimDispatch.cfg`): the lock
  is returned before the commit. `SlotsFireOnce` holds all the same.
- **A backlog is not always skipped** (`ClaimCatchUp.cfg`): an overlapping batch with an
  earlier clock writes an older slot.
- **A manual workflow may get a slot** (`ClaimSlot.cfg`), from a definition that was read
  before the owner took the schedule away.

Turns (`MCAgentTurn`):

- **A running turn may be out of the brake's reach** (run `claim_brake`): the asking
  stream's end forgets the brake that the answering stream took over.
- **A stop is not the turn's last word** (`ClaimHalt.cfg`): a question that was being
  asked is asked all the same, and its yes resumes the turn.

Ledger (`MCKnowledgeLoop`):

- **The state column and the log may disagree** (`ClaimState.cfg`): a late append writes
  the state it derived over `receipted`.
- **A consumed row may go back to approved** (`ClaimSettled.cfg`): the row is compared
  when it is read and not when it is written. The card itself stays spent.
- **An action may start under the stop** (`ClaimStop.cfg`), which is read before the event
  is committed.

## 6. Not modelled, and the plan

The models cover a small share of the repository's lines and most of its shared
state. What is left falls in three kinds.

- *Data.* Text services, prompting and scoring, planning, retrieval, naming and
  filing, provenance hashing, doctrine and reports are functions from text to
  text; the largest files of the repository are of this kind. The models have
  their results as choices.
- *I/O without a protocol of its own.* Adapters (browser, vision, Notion, GitHub,
  n8n), the presence front end, the code worker, web pages, HTTP parsing and
  authentication, migrations, scripts and deployment. Those that act pass the
  gate of `ApprovalGate`.
- *Rows with single-statement writes.* Company and project queues, the knowledge
  graph, skill proposals, telemetry.

Of the modelled parts these are missing: other tasks of one owner, which share
nothing but the gate; a heartbeat that outlives a cancelled request; a workflow
run whose saved definition no longer parses; the handlers of a workflow's
steps; the voice and one-shot surfaces of the turn loop; the spend total's
change of day and the account's other callers; ledger rows that nothing decides by. Token hashing and the
wording of cards are left out everywhere.

Theorems to come, most useful first: the seal and the record of a workflow run under
the weakest edits that keep them, stated of the one edit made while a run waits
and not of all definitions that can be saved; the safety half of the abstract
specifications for several tasks of one owner; bounds on how often a fault may delay a
due workflow, which is the part of `DueIsServed` that an invariant can state.
