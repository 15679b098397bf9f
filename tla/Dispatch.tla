-------------------------------- MODULE Dispatch --------------------------------
(***************************************************************************)
(* The workflow lane of the cron entry point: dispatchers that start a run *)
(* for every active workflow whose slot has passed.  A batch is one        *)
(* transaction.  Its advisory lock belongs to the session and is given     *)
(* back before the caller commits; workflows are selected without a lock,  *)
(* and a row is locked only when the batch flushes what it changed.        *)
(***************************************************************************)
EXTENDS Integers, FiniteSets

CONSTANTS
    Workflows,      \* numbers: the order in which equal slots are taken
    Minutes,        \* minutes in an hour; every workflow is hourly, on the hour
    Calendars,      \* calendars of which next_slot is asked, for every cadence
    Dispatchers,    \* cron processes
    Sites,          \* deployments: the processes that run, and _MAX_PER_BATCH
    Saves,          \* bound: edits of a workflow by its owner
    MaxFaults,      \* bound: database errors, crashes and runs that do not start
    MaxTime         \* bound: the clock

ASSUME DispatchAssumption ==
    /\ Workflows \subseteq Nat /\ IsFiniteSet(Workflows) /\ IsFiniteSet(Dispatchers)
    /\ Minutes \in Nat \ {0}
    /\ Calendars \subseteq [minute : Nat \ {0}, minutes : Nat \ {0}, hours : Nat \ {0}, days : Nat \ {0}]
    /\ Sites \subseteq [crons : SUBSET Dispatchers, batch : Nat \ {0}]
    /\ Saves \in Nat /\ MaxFaults \in Nat /\ MaxTime \in Nat

Calendar == INSTANCE Cadence WITH Minute <- 1, Hours <- 24, Days <- 7
OnTheHour == [kind |-> "hourly", minute |-> 0, hour |-> 0, weekday |-> 0]
NextSlot(t) == Calendar!NextSlot(OnTheHour, t)
Of(k) == INSTANCE Cadence WITH Minute <- k.minute, Minutes <- k.minutes, Hours <- k.hours, Days <- k.days
NoSlot == 0
Slots == {NextSlot(t) : t \in 0 .. MaxTime}

VARIABLES
    site,       \* the deployment
    now,
    active,     \* workflows.status = "active"
    hourly,     \* whether the saved definition has a cadence that parses
    next,       \* next_run_at
    fired,      \* workflow_runs with the slot's key, counted
    firedAt,    \* history: the clock of the batch that started the slot
    gate,       \* workflows with a run that awaits approval
    lock,       \* who holds the advisory lock
    disp,       \* the dispatchers' locals
    saves, faults

vars == <<site, now, active, hourly, next, fired, firedAt, gate, lock, disp, saves, faults>>

(***************************************************************************)
(* pc: idle; moment (has read its clock); select; loop; start (is about to *)
(* flush a new run and the workflow it belongs to); run (the engine runs); *)
(* commit (gave the lock back).  due holds the slots and timed the         *)
(* workflows with a cadence as both were selected, new the rows flushed    *)
(* and not committed, mine the slots whose runs are flushed, open those of *)
(* them that stand at a gate.                                              *)
(***************************************************************************)
Rest == [pc |-> "idle", at |-> 0, due |-> [w \in {} |-> 0], timed |-> {},
         cur |-> 0, new |-> [w \in {} |-> 0], mine |-> {}, open |-> {}]

Init ==
    /\ site \in Sites
    /\ now = 0
    /\ active = [w \in Workflows |-> TRUE]
    /\ hourly = [w \in Workflows |-> TRUE]
    /\ next = [w \in Workflows |-> NextSlot(0)]
    /\ fired = [w \in Workflows |-> [s \in Slots |-> 0]]
    /\ firedAt = [w \in Workflows |-> [s \in Slots |-> 0]]
    /\ gate = {}
    /\ lock = {}
    /\ disp = [p \in Dispatchers |-> Rest]
    /\ saves = 0 /\ faults = 0

\* Rows another transaction has updated.
LockedBy(p, w) == w \in DOMAIN disp[p].new
FreeFor(p, w) == \A q \in Dispatchers \ {p} : ~LockedBy(q, w)
Due(w, at) == active[w] /\ next[w] # NoSlot /\ next[w] <= at
Without(f, w) == [v \in DOMAIN f \ {w} |-> f[v]]
With(f, w, x) == [v \in DOMAIN f \union {w} |-> IF v = w THEN x ELSE f[v]]
Is(p, pc) == disp[p].pc = pc
Becomes(p, l) == disp' = [disp EXCEPT ![p] = l]
Fault == faults < MaxFaults /\ faults' = faults + 1

tables == <<site, now, active, hourly, next, fired, firedAt, gate, saves>>

-----------------------------------------------------------------------------
(* dispatch_due *)

\* The batch's clock is read before the lock is tried.
Wake(p) ==
    /\ p \in site.crons /\ Is(p, "idle")
    /\ Becomes(p, [Rest EXCEPT !.pc = "moment", !.at = now])
    /\ UNCHANGED <<tables, lock, faults>>

\* Mutant: the lock's answer is ignored.
TryLockBlind(p) ==
    /\ Is(p, "moment")
    /\ lock' = lock \union {p}
    /\ Becomes(p, [disp[p] EXCEPT !.pc = "select"])
    /\ UNCHANGED <<tables, faults>>

TryLock(p) ==
    /\ Is(p, "moment")
    /\ IF lock = {} THEN lock' = {p} /\ Becomes(p, [disp[p] EXCEPT !.pc = "select"])
       ELSE Becomes(p, Rest) /\ UNCHANGED lock
    /\ UNCHANGED <<tables, faults>>

\* ORDER BY next_run_at LIMIT.
Before(v, w) == next[v] < next[w] \/ (next[v] = next[w] /\ v < w)
Chosen(at) == {w \in Workflows : Due(w, at) /\ Cardinality({v \in Workflows : Due(v, at) /\ Before(v, w)}) < site.batch}
Select(p) ==
    /\ Is(p, "select")
    /\ Becomes(p, [disp[p] EXCEPT !.pc = "loop", !.due = [w \in Chosen(disp[p].at) |-> next[w]],
                             !.timed = {w \in Chosen(disp[p].at) : hourly[w]}])
    /\ UNCHANGED <<tables, lock, faults>>

First(f, w) == w \in DOMAIN f /\ \A v \in DOMAIN f : f[v] > f[w] \/ (f[v] = f[w] /\ v >= w)
\* Mutant: the slot is advanced from the slot, so a backlog is fired slot by slot.
AdvanceFromSlot(p, w) == IF w \in disp[p].timed THEN NextSlot(disp[p].due[w]) ELSE NoSlot
\* Mutant: the slot is left where it is.
AdvanceNever(p, w) == disp[p].due[w]
\* compute_next_run_at, from the batch's clock and the definition it selected.
Advance(p, w) == IF w \in disp[p].timed THEN NextSlot(disp[p].at) ELSE NoSlot
Blocked(p, w) == w \in gate

\* A workflow that no longer has a slot, still has a gate open or had the slot
\* started before is skipped; its new slot is flushed.
Skip(p) ==
    /\ Is(p, "loop")
    /\ \E w \in Workflows :
          /\ First(disp[p].due, w)
          /\ Advance(p, w) = NoSlot \/ Blocked(p, w) \/ fired[w][disp[p].due[w]] > 0
          /\ FreeFor(p, w)
          /\ Becomes(p, [disp[p] EXCEPT !.due = Without(@, w), !.new = With(@, w, Advance(p, w))])
    /\ UNCHANGED <<tables, lock, faults>>

StartRun(p) ==
    /\ Is(p, "loop")
    /\ \E w \in Workflows :
          /\ First(disp[p].due, w)
          /\ Advance(p, w) # NoSlot /\ ~Blocked(p, w) /\ fired[w][disp[p].due[w]] = 0
          /\ Becomes(p, [disp[p] EXCEPT !.pc = "start", !.cur = w])
    /\ UNCHANGED <<tables, lock, faults>>

\* start_run's flush: the workflow's row is updated with the run's insert.
FlushRun(p) ==
    /\ Is(p, "start")
    /\ FreeFor(p, disp[p].cur)
    /\ Becomes(p, [disp[p] EXCEPT !.pc = "run", !.new = With(@, disp[p].cur, Advance(p, disp[p].cur))])
    /\ UNCHANGED <<tables, lock, faults>>

\* Mutant: the index on the run's key is not unique.
CollidesNever(p, w) == FALSE
Collides(p, w) == fired[w][disp[p].due[w]] > 0

\* The engine ran; the key is flushed.
Keyed(p) ==
    /\ Is(p, "run")
    /\ LET w == disp[p].cur
       IN  /\ ~Collides(p, w)
           /\ \E o \in BOOLEAN :
                Becomes(p, [disp[p] EXCEPT !.pc = "loop", !.cur = 0, !.due = Without(@, w),
                              !.mine = @ \union {<<w, disp[p].due[w]>>},
                              !.open = IF o THEN @ \union {w} ELSE @])
    /\ UNCHANGED <<tables, lock, faults>>

\* IntegrityError: the whole batch is rolled back and ends.
LostRace(p) ==
    /\ Is(p, "run")
    /\ Collides(p, disp[p].cur)
    /\ Becomes(p, [Rest EXCEPT !.pc = "loop", !.at = disp[p].at])
    /\ UNCHANGED <<tables, lock, faults>>

\* start_run raised before it touched the database: the slot stays advanced.
FailOne(p) ==
    /\ Is(p, "start")
    /\ FreeFor(p, disp[p].cur)
    /\ Fault
    /\ LET w == disp[p].cur
       IN  Becomes(p, [disp[p] EXCEPT !.pc = "loop", !.cur = 0, !.due = Without(@, w),
                                      !.new = With(@, w, Advance(p, w))])
    /\ UNCHANGED <<tables, lock>>

Unlock(p) ==
    /\ Is(p, "loop")
    /\ DOMAIN disp[p].due = {}
    /\ lock' = lock \ {p}
    /\ Becomes(p, [disp[p] EXCEPT !.pc = "commit"])
    /\ UNCHANGED <<tables, faults>>

\* dispatch.py commits after dispatch_due returned.
Commit(p) ==
    /\ Is(p, "commit")
    /\ LET l == disp[p]
       IN  /\ next' = [w \in Workflows |-> IF w \in DOMAIN l.new THEN l.new[w] ELSE next[w]]
           /\ fired' = [w \in Workflows |-> [s \in Slots |->
                          IF <<w, s>> \in l.mine THEN fired[w][s] + 1 ELSE fired[w][s]]]
           /\ firedAt' = [w \in Workflows |-> [s \in Slots |->
                          IF <<w, s>> \in l.mine THEN l.at ELSE firedAt[w][s]]]
           /\ gate' = gate \union l.open
    /\ Becomes(p, Rest)
    /\ UNCHANGED <<site, now, active, hourly, saves, lock, faults>>

\* A database error or the end of the process: all of the batch is rolled back.
Crash(p) ==
    /\ ~Is(p, "idle")
    /\ Fault
    /\ lock' = lock \ {p}
    /\ Becomes(p, Rest)
    /\ UNCHANGED tables

-----------------------------------------------------------------------------
(* The owner and the clock *)

\* PATCH: a new status or definition recomputes the slot; the definition stays as
\* it is while a run stands at a gate.
Save(w) ==
    /\ saves < Saves
    /\ \A p \in Dispatchers : ~LockedBy(p, w)
    /\ \E a, h \in BOOLEAN :
          /\ a # active[w] \/ h # hourly[w]
          /\ w \in gate => h = hourly[w]
          /\ active' = [active EXCEPT ![w] = a]
          /\ hourly' = [hourly EXCEPT ![w] = h]
          /\ next' = [next EXCEPT ![w] = IF h THEN NextSlot(now) ELSE NoSlot]
    /\ saves' = saves + 1
    /\ UNCHANGED <<site, now, fired, firedAt, gate, lock, disp, faults>>

\* The owner decides the pending step and the run ends.
Decide(w) ==
    /\ w \in gate
    /\ gate' = gate \ {w}
    /\ UNCHANGED <<site, now, active, hourly, next, fired, firedAt, lock, disp, saves, faults>>

Tick ==
    /\ now < MaxTime
    /\ now' = now + 1
    /\ UNCHANGED <<site, active, hourly, next, fired, firedAt, gate, lock, disp, saves, faults>>

-----------------------------------------------------------------------------
Batch(p) ==
    \/ TryLock(p) \/ Select(p) \/ Skip(p) \/ StartRun(p) \/ FlushRun(p)
    \/ Keyed(p) \/ LostRace(p) \/ Unlock(p) \/ Commit(p)

Next ==
    \/ \E p \in Dispatchers : Wake(p) \/ Batch(p) \/ FailOne(p) \/ Crash(p)
    \/ \E w \in Workflows : Save(w) \/ Decide(w)
    \/ Tick

Spec == Init /\ [][Next]_vars
\* Cron wakes every minute, a batch goes on, the clock advances; a flush that waits
\* for a row is in that row's queue.
FairSpec ==
    /\ Spec
    /\ WF_vars(Tick)
    /\ \A p \in Dispatchers : WF_vars(Wake(p)) /\ SF_vars(Batch(p))

-----------------------------------------------------------------------------
(* Properties *)

\* Every variable keeps its type; the advisory lock has one holder, and a row has
\* one uncommitted update.
TypeOK ==
    /\ now \in 0 .. MaxTime /\ gate \subseteq Workflows
    /\ next \in [Workflows -> Slots \union {NoSlot}]
    /\ lock \subseteq Dispatchers /\ Cardinality(lock) <= 1
    /\ \A p \in Dispatchers :
          /\ disp[p].pc \in {"idle", "moment", "select", "loop", "start", "run", "commit"}
          /\ Cardinality(DOMAIN disp[p].due) <= site.batch
          /\ disp[p].pc = "run" => LockedBy(p, disp[p].cur)
          /\ \A w \in Workflows : LockedBy(p, w) => FreeFor(p, w)

\* Dispatchers that overlap because the lock is gone before the commit, crashes and
\* edits: a slot still starts one run or none, and not before its time.
Firing == INSTANCE FiringSpec
SlotsFireOnce == Firing!ASpec

MovesOn ==
    \A w \in Workflows : \A s, t \in Slots :
        s < t /\ fired[w][s] > 0 /\ fired[w][t] > 0 => t > firedAt[w][s]
\* The catch-up policy of a dispatcher that runs alone, fire once and move on: a slot
\* that had passed when an earlier one was started is skipped.
BacklogIsSkipped == Cardinality(site.crons) = 1 => MovesOn

\* The docstring's catch-up policy, whoever dispatches.
BacklogIsAlwaysSkipped == MovesOn

\* A slot that is asked for at the very instant of a firing, within its minute or
\* across the end of a day or week is the next firing.  A fact about constants, looked
\* at once, in the states where the clock stands at its start.
FirstStrictlyAfter == now = 0 => \A k \in Calendars : Of(k)!FirstStrictlyAfter

\* A workflow that is due is caught up with: its slot is started, or given up for the
\* next one, however many batches fail, collide or go to the workflow before it.
DueIsServed == \A w \in Workflows : Due(w, now) ~> ~Due(w, now)

\* The comment on the advisory lock's key: one dispatcher at a time, cluster-wide.
OneDispatcherAtATime ==
    \A p, q \in Dispatchers : DOMAIN disp[p].new # {} /\ DOMAIN disp[q].new # {} => p = q

\* The dispatcher's test: a workflow without a cadence never has a slot.
ManualNeverGetsASlot == \A w \in Workflows : ~hourly[w] => next[w] = NoSlot
=============================================================================
