------------------------------- MODULE Schedules -------------------------------
(***************************************************************************)
(* Recorded goals and the runners that turn them into tasks: the cron lane *)
(* (advisory lock, owner scan, one transaction per owner, deferral of an   *)
(* owner that failed) and the manual route (one owner, no deferral).       *)
(* Creating a task calls the planner, so a transaction may last for ticks  *)
(* of the clock; the rows it selected FOR UPDATE stay locked meanwhile.    *)
(*                                                                         *)
(* Times are relative: left[s] is the time to run_at, slot[s] the time to  *)
(* the original slot (negative once it has passed).                        *)
(***************************************************************************)
EXTENDS Integers, FiniteSets

CONSTANTS
    Goals,      \* schedule ids
    Ownerships, \* who may own which: owners are numbers, scanned in this order
    Policy,     \* the missed-run policy of each
    Lateness,   \* max_lateness_seconds, in ticks
    Delays,     \* delays a goal may be recorded with
    Backoff,    \* _FAILURE_BACKOFF, in ticks
    MaxOwners,  \* _MAX_OWNERS_PER_BATCH
    Crons,      \* cron processes
    Manuals,    \* callers of the manual route
    Broken,     \* owners whose planning always fails
    MaxFaults   \* bound: transient faults (exceptions, failed deferrals, crashes)

Runners == Crons \union Manuals
Owners == {f[g] : f \in Ownerships, g \in Goals}

ASSUME ScheduleAssumption ==
    /\ Ownerships \subseteq [Goals -> Nat] /\ Policy \in [Goals -> {"catch_up", "skip"}]
    /\ Lateness \in Nat /\ Backoff \in Nat /\ Delays \subseteq Nat
    /\ MaxOwners \in Nat \ {0} /\ MaxFaults \in Nat
    /\ Crons \intersect Manuals = {} /\ Broken \subseteq Owners

VARIABLES
    owner,      \* who recorded each goal
    row,        \* agent_schedules: state, whether a task is attached, failure_reason
    left,       \* ticks until run_at, 0 when it has passed
    slot,       \* ticks until the original slot, down to -(Lateness + 1)
    made,       \* history: tasks committed for each goal
    lock,       \* who holds the advisory lock
    run,        \* the runners' locals
    faults      \* transient faults so far

vars == <<owner, row, left, slot, made, lock, run, faults>>

States == {"absent", "pending", "due", "running", "completed", "failed", "cancelled"}
Open == {"pending", "due"}
NoRow == [state |-> "absent", task |-> FALSE, why |-> "none"]

(***************************************************************************)
(* pc: idle; scan (has the lock); next (between owners); plan (inside an   *)
(* owner's transaction); defer (that transaction was rolled back).  todo   *)
(* is what the scan found, old the rows due at the batch's moment, age the *)
(* time since then, locked the rows of the transaction, items those still  *)
(* to be planned and planned those whose task exists uncommitted.          *)
(***************************************************************************)
Rest == [pc |-> "idle", todo |-> {}, old |-> {}, age |-> 0, owner |-> 0,
         locked |-> {}, items |-> {}, planned |-> {}]

Init ==
    /\ owner \in Ownerships
    /\ row = [g \in Goals |-> NoRow]
    /\ left = [g \in Goals |-> 0]
    /\ slot = [g \in Goals |-> 0]
    /\ made = [g \in Goals |-> 0]
    /\ lock = {}
    /\ run = [p \in Runners |-> Rest]
    /\ faults = 0

Locked == UNION {run[p].locked : p \in Runners}
\* due_schedules' and owners_with_due_schedules' predicate.
Due(g) == row[g].state \in Open /\ left[g] = 0
DueOf(o) == {g \in Goals : owner[g] = o /\ Due(g)}
\* Mutant: lateness is judged by the deferred run_at.
MissedByRunAt(g) == Policy[g] = "skip" /\ slot[g] < -Lateness /\ row[g].why # "deferred"
\* missed_run_expired: bound to the original slot, not to a backoff.
Missed(g) == Policy[g] = "skip" /\ slot[g] < -Lateness

Fault == faults < MaxFaults /\ faults' = faults + 1

-----------------------------------------------------------------------------
(* The person *)

Create(g) ==
    /\ row[g].state = "absent"
    /\ \E d \in Delays :
          /\ row' = [row EXCEPT ![g].state = IF d = 0 THEN "due" ELSE "pending"]
          /\ left' = [left EXCEPT ![g] = d]
          /\ slot' = [slot EXCEPT ![g] = d]
    /\ UNCHANGED <<owner, made, lock, run, faults>>

\* cancel_schedule: the row lock serialises it with a materialisation.
Cancel(g) ==
    /\ row[g].state \notin {"absent", "completed", "cancelled"}
    /\ g \notin Locked
    /\ row' = [row EXCEPT ![g].state = "cancelled", ![g].why = "cancelled"]
    /\ UNCHANGED <<owner, left, slot, made, lock, run, faults>>

\* GET /schedules/due promotes and expires in a short transaction of its own.
ListDue(o) ==
    /\ DueOf(o) # {} /\ DueOf(o) \intersect Locked = {}
    /\ row' = [g \in Goals |->
                 IF g \notin DueOf(o) THEN row[g]
                 ELSE IF Missed(g) THEN [row[g] EXCEPT !.state = "cancelled", !.why = "missed"]
                 ELSE [row[g] EXCEPT !.state = "due"]]
    /\ UNCHANGED <<owner, left, slot, made, lock, run, faults>>

\* The task ran: mark_from_task_outcome, which finds the row by its task.
Mark(g, completed) ==
    /\ row[g].task
    /\ row[g].state \notin {"completed", "cancelled"}
    /\ row' = [row EXCEPT ![g].state = IF completed THEN "completed" ELSE "failed",
                          ![g].why = IF completed THEN "none" ELSE "failed"]
    /\ UNCHANGED <<owner, left, slot, made, lock, run, faults>>

\* The task is deleted: ON DELETE SET NULL.
DeleteTask(g) ==
    /\ row[g].task
    /\ row' = [row EXCEPT ![g].task = FALSE]
    /\ UNCHANGED <<owner, left, slot, made, lock, run, faults>>

Minus(n, least) == IF n > least THEN n - 1 ELSE n
Tick ==
    /\ left' = [g \in Goals |-> Minus(left[g], 0)]
    /\ slot' = [g \in Goals |-> IF row[g].state = "absent" THEN 0
                                ELSE Minus(slot[g], -(Lateness + 1))]
    /\ run' = [p \in Runners |->
                 IF run[p].pc = "idle" \/ p \in Manuals \/ run[p].age = Backoff THEN run[p]
                 ELSE [run[p] EXCEPT !.age = @ + 1]]
    /\ <<left', slot', run'>> # <<left, slot, run>>
    /\ UNCHANGED <<owner, row, made, lock, faults>>

-----------------------------------------------------------------------------
(* One owner's transaction: materialize_due_schedules *)

\* Mutant: the rows are selected without a lock and attached as they were read.
BeginUnlocked(p, o, rest) ==
    run' = [run EXCEPT ![p] = [rest EXCEPT
               !.pc = "plan", !.owner = o, !.locked = DueOf(o),
               !.items = {g \in DueOf(o) : ~Missed(g)}, !.planned = {}]]

\* due_schedules: SELECT .. FOR UPDATE waits for whoever holds a row it wants,
\* and looks at the row again.
Begin(p, o, rest) ==
    /\ DueOf(o) \intersect Locked = {}
    /\ run' = [run EXCEPT ![p] = [rest EXCEPT
                  !.pc = "plan", !.owner = o, !.locked = DueOf(o),
                  !.items = {g \in DueOf(o) : ~Missed(g)}, !.planned = {}]]

\* create_task, which plans through the provider, and attach_task.
Plan(p) ==
    /\ run[p].pc = "plan"
    /\ run[p].owner \notin Broken
    /\ \E g \in run[p].items :
          run' = [run EXCEPT ![p] = [run[p] EXCEPT !.items = @ \ {g}, !.planned = @ \union {g}]]
    /\ UNCHANGED <<owner, row, left, slot, made, lock, faults>>

\* The transaction is over: the manual route returns, cron goes on.
Ended(p) == IF p \in Manuals THEN Rest
            ELSE [run[p] EXCEPT !.pc = "next", !.owner = 0, !.locked = {}, !.items = {}, !.planned = {}]

Commit(p) ==
    /\ run[p].pc = "plan"
    /\ run[p].items = {}
    /\ LET l == run[p]
       IN  /\ row' = [g \in Goals |->
                        IF g \in l.planned THEN [row[g] EXCEPT !.state = "running", !.task = TRUE]
                        ELSE IF g \in l.locked
                        THEN [row[g] EXCEPT !.state = "cancelled", !.why = "missed"]
                        ELSE row[g]]
           /\ made' = [g \in Goals |-> IF g \in l.planned THEN made[g] + 1 ELSE made[g]]
           /\ run' = [run EXCEPT ![p] = Ended(p)]
    /\ UNCHANGED <<owner, left, slot, lock, faults>>

\* Mutant: a failing owner ends the batch, as in the workflow lane.
OwnerFailsBatch(p) ==
    /\ run[p].pc = "plan"
    /\ run[p].owner \in Broken /\ run[p].items # {}
    /\ run' = [run EXCEPT ![p] = IF p \in Manuals THEN Rest ELSE [Ended(p) EXCEPT !.todo = {}]]
    /\ UNCHANGED <<owner, row, left, slot, made, lock, faults>>

\* Any exception rolls the owner's transaction back.
OwnerFails(p) ==
    /\ run[p].pc = "plan"
    /\ \/ run[p].owner \in Broken /\ run[p].items # {} /\ UNCHANGED faults
       \/ Fault
    /\ run' = [run EXCEPT ![p] = IF p \in Manuals THEN Rest ELSE [@ EXCEPT !.pc = "defer", !.locked = {}]]
    /\ UNCHANGED <<owner, row, left, slot, made, lock>>

ManualRun(p) ==
    /\ p \in Manuals /\ run[p].pc = "idle"
    /\ \E o \in Owners : Begin(p, o, Rest)
    /\ UNCHANGED <<owner, row, left, slot, made, lock, faults>>

-----------------------------------------------------------------------------
(* materialize_due_agent_schedules *)

\* Mutant: the answer of pg_try_advisory_lock is not looked at.
TryLockBlind(p) ==
    /\ p \in Crons /\ run[p].pc = "idle"
    /\ lock' = lock \union {p}
    /\ run' = [run EXCEPT ![p] = [Rest EXCEPT !.pc = "scan",
                  !.old = {g \in Goals : row[g].state # "absent" /\ left[g] = 0}]]
    /\ UNCHANGED <<owner, row, left, slot, made, faults>>

TryLock(p) ==
    /\ p \in Crons /\ run[p].pc = "idle"
    /\ lock = {}
    /\ lock' = {p}
    /\ run' = [run EXCEPT ![p] = [Rest EXCEPT !.pc = "scan", 
                  !.old = {g \in Goals : row[g].state # "absent" /\ left[g] = 0}]]
    /\ UNCHANGED <<owner, row, left, slot, made, faults>>

\* owners_with_due_schedules, in order and at most MaxOwners of them, by the
\* moment the batch began.
DueOwners(p) == {owner[g] : g \in {h \in run[p].old : Due(h) /\ ~row[h].task}}
Scan(p) ==
    /\ run[p].pc = "scan"
    /\ run' = [run EXCEPT ![p] = [@ EXCEPT !.pc = "next",
                 !.todo = {o \in DueOwners(p) : Cardinality({q \in DueOwners(p) : q < o}) < MaxOwners}]]
    /\ UNCHANGED <<owner, row, left, slot, made, lock, faults>>

NextOwner(p) ==
    /\ run[p].pc = "next"
    /\ \E o \in run[p].todo :
          /\ \A q \in run[p].todo : o <= q
          /\ Begin(p, o, [run[p] EXCEPT !.todo = @ \ {o}])
    /\ UNCHANGED <<owner, row, left, slot, made, lock, faults>>

Unlock(p) ==
    /\ run[p].pc = "next"
    /\ run[p].todo = {}
    /\ lock' = {}
    /\ run' = [run EXCEPT ![p] = Rest]
    /\ UNCHANGED <<owner, row, left, slot, made, faults>>

\* Mutant: the predicate forgets the state, so attached rows move too.
DeferrableAttached(p) == {g \in run[p].old : owner[g] = run[p].owner /\ row[g].state # "absent"}
\* What a failed owner's deferral pushes forward: rows that were due when the
\* batch began, and still are, and that no task claimed meanwhile.
Deferrable(p) == {g \in run[p].old : owner[g] = run[p].owner /\ Due(g) /\ ~row[g].task}

\* _defer_owner, on a session of its own.
Defer(p) ==
    /\ run[p].pc = "defer"
    /\ Deferrable(p) \intersect Locked = {}
    /\ left' = [g \in Goals |-> IF g \in Deferrable(p) THEN Backoff - run[p].age ELSE left[g]]
    /\ row' = [g \in Goals |-> IF g \in Deferrable(p) THEN [row[g] EXCEPT !.why = "deferred"] ELSE row[g]]
    /\ run' = [run EXCEPT ![p] = Ended(p)]
    /\ UNCHANGED <<owner, slot, made, lock, faults>>

DeferFails(p) ==
    /\ run[p].pc = "defer"
    /\ Fault
    /\ run' = [run EXCEPT ![p] = Ended(p)]
    /\ UNCHANGED <<owner, row, left, slot, made, lock>>

\* The process dies: its transaction is rolled back, its advisory lock released.
Crash(p) ==
    /\ run[p].pc # "idle"
    /\ Fault
    /\ run' = [run EXCEPT ![p] = Rest]
    /\ lock' = lock \ {p}
    /\ UNCHANGED <<owner, row, left, slot, made>>

-----------------------------------------------------------------------------
RunnerStep(p) ==
    \/ Scan(p) \/ NextOwner(p) \/ Unlock(p)
    \/ Plan(p) \/ Commit(p)
    \/ run[p].owner \in Broken /\ OwnerFails(p)
    \/ Defer(p)

Next ==
    \/ \E g \in Goals : \/ Create(g) \/ Cancel(g) \/ DeleteTask(g)
                        \/ \E completed \in BOOLEAN : Mark(g, completed)
    \/ \E o \in Owners : ListDue(o)
    \/ \E p \in Runners : \/ TryLock(p) \/ ManualRun(p) \/ RunnerStep(p)
                          \/ OwnerFails(p) \/ DeferFails(p) \/ Crash(p)
    \/ Tick

Spec == Init /\ [][Next]_vars
\* Cron fires every minute, calls return, clocks advance; a transaction that waits
\* for a row is in the row lock's queue, hence strong fairness.
FairSpec == /\ Spec
            /\ WF_vars(Tick)
            /\ \A p \in Crons : WF_vars(TryLock(p))
            /\ \A p \in Runners : SF_vars(RunnerStep(p))

-----------------------------------------------------------------------------
(* Properties *)

Pcs == {"idle", "scan", "next", "plan", "defer"}
Reasons == {"none", "deferred", "missed", "cancelled", "failed"}
\* Every variable keeps its type; only rows of the transaction's owner are locked.
TypeOK ==
    /\ owner \in Ownerships
    /\ row \in [Goals -> [state : States, task : BOOLEAN, why : Reasons]]
    /\ left \in [Goals -> Nat] /\ slot \in [Goals -> Int] /\ made \in [Goals -> Nat]
    /\ lock \subseteq Crons /\ Cardinality(lock) <= 1
    /\ run \in [Runners -> [pc : Pcs, todo : SUBSET Owners, old : SUBSET Goals, age : 0 .. Backoff,
                            owner : Owners \union {0}, locked : SUBSET Goals,
                            items : SUBSET Goals, planned : SUBSET Goals]]
    /\ faults \in 0 .. MaxFaults

Fate(g) == CASE row[g].state \in Open -> "open"
             [] row[g].state = "running" -> "started"
             [] row[g].state = "completed" -> "done"
             [] row[g].state = "cancelled" -> "off"
             [] OTHER -> row[g].state
Occurrence == INSTANCE OccurrenceSpec WITH fate <- [g \in Goals |-> Fate(g)]

\* What the failure of an owner is said to do: none of the rows it was working on
\* is due again at the next tick.
FailureDefers ==
    [][\A p \in Crons : Defer(p) =>
          \A g \in run[p].items \union run[p].planned : row'[g].state \in Open => left'[g] > 0]_vars

\* Whatever the cron, manual callers, cancellations, crashes and clocks do, a
\* recorded goal becomes one task or none, and one that was called off or that
\* completed stays so.
OneTaskPerGoal == Occurrence!ASpec

\* A goal that must not run late is not brought back by its retry: once a failure
\* deferred it past its lateness, it never becomes a task.
SkippedNeverRetried ==
    [][\A g \in Goals :
         Policy[g] = "skip" /\ row[g].why = "deferred" /\ Backoff > Lateness =>
            made'[g] = made[g]]_vars

\* A deferral that races the manual route never moves a goal that got its task.
AttachedKeepsSlot ==
    [][\A g \in Goals : row[g].state \notin Open \union {"absent"} => left'[g] <= left[g]]_vars

\* One owner whose goals can never be planned stops nobody else's: while the cap on
\* owners is not reached, every goal of another owner is started or called off.
EveryGoalDecided ==
    \A g \in Goals : owner[g] \notin Broken =>
        (row[g].state \in Open ~> row[g].state \notin Open)

\* What _MAX_OWNERS_PER_BATCH is said to be, a cap and not a page: goals a batch did
\* not reach are picked up by a later one.
LaterBatchReachesTheRest ==
    \A g \in Goals : owner[g] \notin Broken => (Due(g) ~> ~Due(g))
=============================================================================
