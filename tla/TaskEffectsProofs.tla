---------------------------- MODULE TaskEffectsProofs ----------------------------
(***************************************************************************)
(* The effect protocol of a durable task, for any plan and any number of   *)
(* workers, requests, claims and cards: that intents go before effects and *)
(* no effect is performed over an intent of unknown outcome; that a step's *)
(* effect is confirmed once, by the receipt its completion is committed    *)
(* with; that neither a rollback nor a stale worker undoes what the row    *)
(* says was done; and that the ledger of requests keeps its answers.       *)
(***************************************************************************)
EXTENDS TaskExecutionProofs

Happened(g, s, E) == \E e \in E : e.gen = g /\ e.step = s

\* The steps before the current one are the completed ones.
Ordered(t) == \A s \in Steps : t.step[s] = "completed" <=> s < t.cur

\* Of a task and of its checkpoints; and a checkpoint ahead of the task, which an
\* earlier rollback leaves behind, has no effectful step that the task has not.
Path(t) ==
    /\ Ordered(t)
    /\ \A cp \in t.cps :
          /\ Ordered(cp)
          /\ \A s \in Steps : Plan[s] = "write" /\ s < cp.cur => s < t.cur

\* A worker's copy is the payload it claimed plus the steps it has taken, and its
\* transaction holds one confirmed receipt for each effectful one of them.
Honest(l, E) ==
    /\ Path(l.base) /\ Path(l.mem)
    /\ l.pc # "raise" =>
          /\ l.base.cur <= l.mem.cur
          /\ l.base.state \in Done => l.mem.state = l.base.state
    /\ l.pc \in {"orphan", "park"} => l.mem.cur = l.base.cur
    /\ l.pc = "park" => l.mem.state \notin Done
    /\ l.pc \in {"idle", "claim"} => l.rcpts = {}
    /\ l.pc = "record" /\ Plan[l.mem.cur] = "write" /\ l.ok => Happened(l.tok, l.mem.cur, E)
    /\ \A r \in l.rcpts :
          r.gen = l.tok /\ (r.ok => Plan[r.step] = "write" /\ l.base.cur <= r.step /\ r.step < l.mem.cur)
    /\ l.pc # "raise" =>
          \A s \in Steps : Plan[s] = "write" /\ l.base.cur <= s /\ s < l.mem.cur =>
              \E r \in l.rcpts : r.step = s /\ r.ok /\ Happened(r.gen, s, E)

\* The committed receipts: one for each effectful step that the row calls done.
Confirmed ==
    /\ \A r \in receipts : r.ok => Plan[r.step] = "write" /\ r.step < task.cur
    /\ OneConfirmedEffectPerStep
    /\ exists => \A s \in Steps : Plan[s] = "write" /\ s < task.cur =>
                    \E r \in receipts : r.step = s /\ r.ok /\ Happened(r.gen, s, effects)

DoneInv == Path(task) /\ Confirmed /\ \A w \in Workers : Honest(wk[w], effects)

\* A worker that found no orphan when it came: what is ambiguous since is its own,
\* or of a later claim.
Past == {"step", "fence", "intent", "perform", "record", "finish", "commit"}
Ambiguous == (intents \ late) \ Receipted
Clear(w) == wk[w].pc \in Past => \A i \in Ambiguous : wk[w].tok <= i.gen
Marking(w) ==
    wk[w].pc = "perform" /\ Plan[wk[w].mem.cur] = "write" => Intent(w) \in intents

IntentInv ==
    /\ \A e \in effects : e.gen <= gen
    /\ exists => /\ \A w \in Workers : Clear(w) /\ Marking(w)
                 /\ EffectHasIntent /\ NoEffectOverAmbiguity

-----------------------------------------------------------------------------
(* What the operations on a task do to its path *)

LEMMA PathSame ==
    ASSUME NEW t, NEW u, Path(t), u.cur = t.cur, u.cps = t.cps,
           \A s \in Steps : u.step[s] = "completed" <=> t.step[s] = "completed"
    PROVE  Path(u)
BY DEF Path, Ordered

LEMMA PathState ==
    ASSUME NEW t \in Tasks, Path(t), NEW st
    PROVE  Path([t EXCEPT !.state = st]) /\ [t EXCEPT !.state = st].cur = t.cur
<1> DEFINE u == [t EXCEPT !.state = st]
<1>1. u.cur = t.cur /\ u.cps = t.cps /\ u.step = t.step
    BY DEF Tasks
<1> HIDE DEF u
<1> QED BY <1>1, PathSame DEF u

\* The current step is not completed.
LEMMA CurOpen ==
    ASSUME NEW t \in Tasks, t.cur \in Steps, Path(t)
    PROVE  t.step[t.cur] # "completed" /\ t.cur \in Nat
<1>1. t.cur \in Nat
    BY LenPlan DEF Steps
<1> QED BY <1>1 DEF Path, Ordered

LEMMA PathStepped ==
    ASSUME NEW t \in Tasks, t.cur \in Steps, Path(t), NEW ts \in TaskStates, NEW ss \in StepStates \ {"completed"}
    PROVE  /\ Path(Stepped(t, ts, ss))
           /\ Stepped(t, ts, ss).cps = t.cps
           /\ Stepped(t, ts, ss).step = [t.step EXCEPT ![t.cur] = ss]
<1> DEFINE u == Stepped(t, ts, ss)
<1>1. u.cur = t.cur /\ u.cps = t.cps /\ u.step = [t.step EXCEPT ![t.cur] = ss] /\ t.step \in [Steps -> StepStates]
    BY DEF Stepped, Tasks
<1> HIDE DEF u
<1>2. \A s \in Steps : u.step[s] = IF s = t.cur THEN ss ELSE t.step[s]
    BY <1>1
<1>3. t.step[t.cur] # "completed"
    BY CurOpen
<1>4. \A s \in Steps : u.step[s] = "completed" <=> t.step[s] = "completed"
    BY <1>2, <1>3
<1>5. Path(u)
    BY <1>1, <1>4, PathSame
<1> QED BY <1>1, <1>5 DEF u

LEMMA PathChecked ==
    ASSUME NEW t \in Tasks, t.cur \in Steps, Path(t)
    PROVE  Path(Checkpointed(t))
<1> DEFINE u == Checkpointed(t)
           cp == [cur |-> t.cur, step |-> t.step, obs |-> t.obs]
<1>1. u.cur = t.cur /\ u.step = t.step /\ u.cps = t.cps \union {cp}
    BY DEF Checkpointed, Tasks
<1>2. cp.cur = t.cur /\ cp.step = t.step
    OBVIOUS
<1> HIDE DEF u, cp
<1>3. Ordered(u) /\ Ordered(cp)
    BY <1>1, <1>2 DEF Path, Ordered
<1>4. ASSUME NEW x \in u.cps
      PROVE  Ordered(x) /\ \A s \in Steps : Plan[s] = "write" /\ s < x.cur => s < u.cur
    <2>1. CASE x = cp
        BY <1>1, <1>2, <1>3, <2>1
    <2>2. CASE x \in t.cps
        BY <1>1, <2>2 DEF Path
    <2> QED BY <1>1, <2>1, <2>2
<1>5. Path(u)
    BY <1>3, <1>4 DEF Path
<1> QED BY <1>5 DEF u

LEMMA PathAwaiting ==
    ASSUME NEW t \in Tasks, t.cur \in Steps, Path(t), NEW c
    PROVE  Path(Awaiting(t, c)) /\ Awaiting(t, c).cur = t.cur
<1> DEFINE k == Checkpointed(t)
           u == Stepped(k, "waiting", "waiting")
           v == Awaiting(t, c)
<1>1. k \in Tasks /\ k.cur = t.cur /\ Path(k)
    BY CheckpointedType, PathChecked
<1>d. v = [u EXCEPT !.card[t.cur] = c]
    BY DEF Awaiting
<1> HIDE DEF k
<1>2. u \in Tasks /\ Path(u) /\ u.cur = t.cur
    <2>1. "waiting" \in TaskStates /\ "waiting" \in StepStates \ {"completed"} /\ k.cur \in Steps
        BY <1>1 DEF TaskStates, StepStates
    <2>2. u \in Tasks /\ u.cur = k.cur
        BY <1>1, <2>1, SteppedType
    <2>3. Path(u)
        BY <1>1, <2>1, PathStepped
    <2> QED BY <1>1, <2>2, <2>3
<1> HIDE DEF u, v
<1>3. v.cur = u.cur /\ v.cps = u.cps /\ v.step = u.step
    BY <1>2, <1>d DEF Tasks
<1>4. Path(v)
    BY <1>2, <1>3, PathSame
<1> QED BY <1>2, <1>3, <1>4 DEF v

LEMMA PathAdvanced ==
    ASSUME NEW t \in Tasks, t.cur \in Steps, Path(t), NEW ts \in TaskStates
    PROVE  Path(Advanced(t, ts)) /\ Advanced(t, ts).cur = t.cur + 1
<1> DEFINE u == Stepped(t, ts, "completed")
           v == Advanced(t, ts)
<1>0. t.cur \in Nat /\ \A s \in Steps : s \in Nat
    BY LenPlan DEF Steps
<1>1. u \in Tasks /\ u.cur = t.cur /\ u.cps = t.cps /\ u.step = [t.step EXCEPT ![t.cur] = "completed"]
    BY SteppedType DEF Stepped, Tasks, StepStates
<1>2. v.cur = u.cur + 1 /\ v.cps = u.cps /\ v.step = u.step
    <2>1. v = [[u EXCEPT !.obs = @ + 1, !.card[t.cur] = 0] EXCEPT !.cur = @ + 1]
        BY <1>1 DEF Advanced, Tasks
    <2> HIDE DEF u, v
    <2> QED BY <1>1, <2>1 DEF Tasks
<1> HIDE DEF u, v
<1>3. t.step \in [Steps -> StepStates] /\ \A x \in t.cps : x.cur \in Steps
    BY DEF Tasks, Checkpoints
<1>4. \A s \in Steps : v.step[s] = IF s = t.cur THEN "completed" ELSE t.step[s]
    BY <1>1, <1>2, <1>3
<1>5. \A s \in Steps : t.step[s] = "completed" <=> s < t.cur
    BY DEF Path, Ordered
<1>6. Ordered(v)
    BY <1>0, <1>1, <1>2, <1>4, <1>5 DEF Ordered
<1>7. ASSUME NEW x \in v.cps
      PROVE  Ordered(x) /\ \A s \in Steps : Plan[s] = "write" /\ s < x.cur => s < v.cur
    <2>1. x \in t.cps
        BY <1>1, <1>2
    <2>2. Ordered(x) /\ \A s \in Steps : Plan[s] = "write" /\ s < x.cur => s < t.cur
        BY <2>1 DEF Path
    <2> QED BY <1>0, <1>1, <1>2, <2>2
<1>8. Path(v)
    BY <1>6, <1>7 DEF Path
<1> QED BY <1>1, <1>2, <1>8 DEF v

LEMMA PathObserved ==
    ASSUME NEW t \in Tasks, t.cur \in Steps, Path(t), NEW ok \in BOOLEAN
    PROVE  /\ Path(Observed(t, ok))
           /\ Observed(t, ok).cur = IF ok THEN t.cur + 1 ELSE t.cur
<1>1. CASE ok
    BY <1>1, PathAdvanced DEF Observed, TaskStates, Done
<1>2. CASE ~ok
    <2> DEFINE u == Stepped(t, "failed", "failed")
               v == Observed(t, ok)
    <2>1. u \in Tasks /\ u.cur = t.cur /\ Path(u)
        BY SteppedType, PathStepped DEF StepStates, TaskStates, Done
    <2>2. v = [u EXCEPT !.obs = u.obs + 1]
        BY <1>2, Zenon DEF Observed
    <2> HIDE DEF u, v
    <2>3. v.cur = u.cur /\ v.cps = u.cps /\ v.step = u.step
        BY <2>1, <2>2 DEF Tasks
    <2>4. Path(v)
        BY <2>1, <2>3, PathSame
    <2> QED BY <1>2, <2>1, <2>3, <2>4 DEF v
<1> QED BY <1>1, <1>2

\* A rollback that hides no effect has the effectful steps that the task had.
LEMMA PathRewound ==
    ASSUME NEW t \in Tasks, Path(t), NEW cp \in t.cps, ~HidesEffect(t, cp)
    PROVE  /\ Path(Rewound(t, cp)) /\ Rewound(t, cp).cur = cp.cur /\ Rewound(t, cp).step = cp.step
           /\ \A s \in Steps : Plan[s] = "write" => (s < t.cur <=> s < cp.cur)
<1> DEFINE v == Rewound(t, cp)
<1>0. cp.cur \in Steps /\ t.cur \in Nat /\ \A s \in Steps : s \in Nat
    BY LenPlan DEF Tasks, Checkpoints, Steps
<1>1. v.cur = cp.cur /\ v.step = cp.step /\ v.cps = t.cps
    <2> DEFINE card == [s \in Steps |-> IF cp.step[s] = "waiting" THEN t.card[s] ELSE 0]
               obs == IF t.obs > cp.obs THEN cp.obs ELSE t.obs
               st == IF cp.cur = 1 THEN "planned" ELSE "running"
               a == [t EXCEPT !.step = cp.step, !.card = card]
    <2>1. v = [a EXCEPT !.cur = cp.cur, !.obs = obs, !.state = st]
        BY DEF Rewound, Tasks
    <2>2. DOMAIN a = DOMAIN t /\ a.step = cp.step /\ a.cps = t.cps
        BY DEF Tasks
    <2> HIDE DEF a, obs, st, card, v
    <2>3. v.cur = cp.cur /\ v.step = a.step /\ v.cps = a.cps
        BY <2>1, <2>2 DEF Tasks
    <2> QED BY <2>2, <2>3
<1> HIDE DEF v
<1>2. ASSUME NEW s \in Steps, Plan[s] = "write"
      PROVE  s < t.cur <=> s < cp.cur
    <2>1. s < cp.cur => s < t.cur
        BY <1>2 DEF Path
    <2>2. ASSUME s < t.cur, ~(s < cp.cur) PROVE FALSE
        <3>1. s \in cp.cur .. t.cur - 1
            BY <1>0, <2>2
        <3>2. t.step[s] = "completed"
            BY <2>2 DEF Path, Ordered
        <3> QED BY <1>2, <3>1, <3>2 DEF HidesEffect
    <2> QED BY <2>1, <2>2
<1>3. Ordered(v)
    BY <1>1 DEF Path, Ordered
<1>4. ASSUME NEW x \in v.cps
      PROVE  Ordered(x) /\ \A s \in Steps : Plan[s] = "write" /\ s < x.cur => s < v.cur
    BY <1>1, <1>2 DEF Path
<1>5. Path(v)
    BY <1>3, <1>4 DEF Path
<1> QED BY <1>1, <1>2, <1>5 DEF v

LEMMA PathNew == Path(NewTask) /\ NewTask.cur = 1
<1>1. NewTask.cur = 1 /\ NewTask.cps = {} /\ \A s \in Steps : NewTask.step[s] = "planned" /\ ~(s < 1)
    BY LenPlan DEF NewTask, Steps
<1> HIDE DEF NewTask
<1> QED BY <1>1 DEF Path, Ordered

-----------------------------------------------------------------------------
(* Where a worker's step leaves its locals *)

\* It serves no claim any more.
Gone(l, k) ==
    /\ k.mem = NewTask /\ k.rcpts = {}
    /\ \/ k.pc \in {"idle", "claim"} /\ k.base = NewTask
       \/ k.pc = "raise" /\ k.base = l.base

\* It serves the claim it had, and its transaction holds the receipts it held.
Goes(l, k) ==
    /\ k.tok = l.tok /\ k.base = l.base /\ k.rcpts = l.rcpts
    /\ l.pc \notin {"idle", "claim", "raise"} /\ k.pc \notin {"idle", "claim", "raise"}

\* Its copy of the task stays as it is.
Reads(l, k) ==
    /\ Goes(l, k) /\ k.mem = l.mem
    /\ \/ k.pc = l.pc /\ k.ok = l.ok
       \/ l.pc = "orphan" /\ k.pc \in {"step", "park"}
          /\ IF k.pc = "step" THEN Orphans = {} ELSE l.mem.state \notin Done
       \/ l.pc \in Past /\ k.pc \in {"finish", "intent", "commit"}

\* It turns to a step or away from it, without completing one.
Turns(l, k) ==
    /\ Goes(l, k) /\ l.pc = "step" /\ l.mem.state \notin Done
    /\ k.pc \in {"finish", "fence", "perform"} /\ k.mem.cur = l.mem.cur
    /\ k.pc = "perform" => Plan[k.mem.cur] # "write"
    /\ Path(l.mem) => Path(k.mem)

Marks(l, k) == Goes(l, k) /\ k.mem = l.mem /\ l.pc = "intent" /\ k.pc = "perform"
Answers(l, k) == Goes(l, k) /\ k.mem = l.mem /\ l.pc = "perform" /\ k.pc = "record"

LEMMA Fields ==
    ASSUME WorkerInv, NEW w \in Workers
    PROVE  /\ wk[w] \in Locals
           /\ \A pc : Goto(w, pc) =>
                /\ wk'[w].pc = pc /\ wk'[w].mem = wk[w].mem /\ wk'[w].tok = wk[w].tok
                /\ wk'[w].base = wk[w].base /\ wk'[w].rcpts = wk[w].rcpts
           /\ \A pc, m : Update(w, pc, m) =>
                /\ wk'[w].pc = pc /\ wk'[w].mem = m /\ wk'[w].tok = wk[w].tok
                /\ wk'[w].base = wk[w].base /\ wk'[w].rcpts = wk[w].rcpts
           /\ \A ok : Return(w, ok) =>
                /\ wk'[w].pc = "record" /\ wk'[w].mem = wk[w].mem /\ wk'[w].tok = wk[w].tok
                /\ wk'[w].base = wk[w].base /\ wk'[w].rcpts = wk[w].rcpts /\ wk'[w].ok = ok
           /\ Leave(w) => wk'[w] = Idle
           /\ Raise(w) => /\ wk'[w].pc = "raise" /\ wk'[w].mem = NewTask /\ wk'[w].tok = wk[w].tok
                          /\ wk'[w].base = wk[w].base /\ wk'[w].rcpts = {}
<1>1. wk \in [Workers -> Locals] /\ wk[w] \in Locals
    BY DEF WorkerInv
<1>2. ASSUME NEW pc, Goto(w, pc)
      PROVE  /\ wk'[w].pc = pc /\ wk'[w].mem = wk[w].mem /\ wk'[w].tok = wk[w].tok
             /\ wk'[w].base = wk[w].base /\ wk'[w].rcpts = wk[w].rcpts
    <2>1. wk'[w] = [wk[w] EXCEPT !.pc = pc]
        BY <1>1, <1>2 DEF Goto
    <2> QED BY <1>1, <2>1 DEF Locals
<1>3. ASSUME NEW pc, NEW m, Update(w, pc, m)
      PROVE  /\ wk'[w].pc = pc /\ wk'[w].mem = m /\ wk'[w].tok = wk[w].tok
             /\ wk'[w].base = wk[w].base /\ wk'[w].rcpts = wk[w].rcpts
    <2>1. wk'[w] = [wk[w] EXCEPT !.pc = pc, !.mem = m]
        BY <1>1, <1>3 DEF Update
    <2> QED BY <1>1, <2>1 DEF Locals
<1>4. ASSUME NEW ok, Return(w, ok)
      PROVE  /\ wk'[w].pc = "record" /\ wk'[w].mem = wk[w].mem /\ wk'[w].tok = wk[w].tok
             /\ wk'[w].base = wk[w].base /\ wk'[w].rcpts = wk[w].rcpts /\ wk'[w].ok = ok
    <2>1. wk'[w] = [wk[w] EXCEPT !.pc = "record", !.ok = ok]
        BY <1>1, <1>4 DEF Return
    <2> QED BY <1>1, <2>1 DEF Locals
<1>5. Leave(w) => wk'[w] = Idle
    BY <1>1 DEF Leave
<1>6. ASSUME Raise(w)
      PROVE  /\ wk'[w].pc = "raise" /\ wk'[w].mem = NewTask /\ wk'[w].tok = wk[w].tok
             /\ wk'[w].base = wk[w].base /\ wk'[w].rcpts = {}
    <2>1. wk'[w] = [Idle EXCEPT !.pc = "raise", !.key = wk[w].key, !.tok = wk[w].tok, !.base = wk[w].base]
        BY <1>1, <1>6 DEF Raise
    <2> QED BY <2>1 DEF Idle
<1> QED BY <1>1, <1>2, <1>3, <1>4, <1>5, <1>6

LEMMA IdleGone == ASSUME NEW l PROVE Gone(l, Idle)
BY DEF Gone, Idle

\* How a worker leaves a write step's choice.
LEMMA RulingShape ==
    ASSUME WorkerInv, NEW w \in Workers, ReadRuling(w)
    PROVE  Gone(wk[w], wk'[w]) \/ Turns(wk[w], wk'[w])
<1> DEFINE l == wk[w]
           k == wk'[w]
           m == l.mem
<1>1. m \in Tasks /\ m.cur \in Steps /\ l.pc = "step" /\ m.state \notin Done
    BY AtStepMem DEF ReadRuling, AtStep, StopsLoop
<1>2. \/ Update(w, "finish", [m EXCEPT !.state = "waiting"])
      \/ Update(w, "finish", Stepped(m, "cancelled", "skipped"))
      \/ Raise(w)
      \/ Update(w, "fence", Stepped(m, "running", "running"))
    BY DEF ReadRuling
<1>3. ASSUME NEW pc \in {"finish", "fence"}, NEW n, Update(w, pc, n), n.cur = m.cur, Path(m) => Path(n)
      PROVE  Turns(l, k)
    <2>1. /\ k.pc = pc /\ k.mem = n /\ k.tok = l.tok
          /\ k.base = l.base /\ k.rcpts = l.rcpts
        BY <1>3, Fields
    <2> QED BY <1>1, <1>3, <2>1 DEF Turns, Goes
<1>4. CASE Update(w, "finish", [m EXCEPT !.state = "waiting"])
    <2>1. [m EXCEPT !.state = "waiting"].cur = m.cur
        BY <1>1 DEF Tasks
    <2>2. Path(m) => Path([m EXCEPT !.state = "waiting"])
        BY <1>1, PathState
    <2> QED BY <1>3, <1>4, <2>1, <2>2
<1>5. CASE Update(w, "finish", Stepped(m, "cancelled", "skipped"))
    <2>1. "cancelled" \in TaskStates /\ "skipped" \in StepStates \ {"completed"}
        BY DEF TaskStates, Done, StepStates
    <2>2. Stepped(m, "cancelled", "skipped").cur = m.cur
        BY <1>1, <2>1, SteppedType
    <2>3. Path(m) => Path(Stepped(m, "cancelled", "skipped"))
        BY <1>1, <2>1, PathStepped
    <2> QED BY <1>3, <1>5, <2>2, <2>3
<1>6. CASE Raise(w)
    BY <1>6, Fields DEF Gone
<1>7. CASE Update(w, "fence", Stepped(m, "running", "running"))
    <2>1. "running" \in TaskStates /\ "running" \in StepStates \ {"completed"}
        BY DEF TaskStates, StepStates
    <2>2. Stepped(m, "running", "running").cur = m.cur
        BY <1>1, <2>1, SteppedType
    <2>3. Path(m) => Path(Stepped(m, "running", "running"))
        BY <1>1, <2>1, PathStepped
    <2> QED BY <1>3, <1>7, <2>2, <2>3
<1> QED BY <1>2, <1>4, <1>5, <1>6, <1>7

LEMMA StartReadShape ==
    ASSUME WorkerInv, NEW w \in Workers, StartRead(w)
    PROVE  Turns(wk[w], wk'[w])
<1> DEFINE l == wk[w]
           k == wk'[w]
           m == l.mem
           n == IF m.step[m.cur] = "planned" THEN Checkpointed(m) ELSE m
           u == Stepped(n, "running", "running")
<1>1. m \in Tasks /\ m.cur \in Steps /\ l.pc = "step" /\ m.state \notin Done /\ Plan[m.cur] = "read"
    BY AtStepMem DEF StartRead, AtStep, StopsLoop
<1>2. Update(w, "perform", u)
    BY DEF StartRead
<1>3. n \in Tasks /\ n.cur = m.cur /\ (Path(m) => Path(n))
    BY <1>1, CheckpointedType, PathChecked
<1>d. u = Stepped(n, "running", "running")
    OBVIOUS
<1> HIDE DEF n, u
<1>4. "running" \in TaskStates /\ "running" \in StepStates \ {"completed"}
    BY DEF TaskStates, StepStates
<1>5. u.cur = m.cur
    BY <1>1, <1>3, <1>4, <1>d, SteppedType
<1>6. Path(m) => Path(u)
    BY <1>1, <1>3, <1>4, <1>d, PathStepped
<1>7. k.pc = "perform" /\ k.mem = u /\ k.tok = l.tok /\ k.base = l.base /\ k.rcpts = l.rcpts
    BY <1>2, Fields
<1> QED BY <1>1, <1>5, <1>6, <1>7 DEF Turns, Goes

LEMMA RaiseCardShape ==
    ASSUME WorkerInv, NEW w \in Workers, RaiseCard(w)
    PROVE  Turns(wk[w], wk'[w])
<1> DEFINE l == wk[w]
           k == wk'[w]
           m == l.mem
<1>1. l \in Locals /\ m \in Tasks /\ m.cur \in Steps /\ l.pc = "step" /\ m.state \notin Done
    BY Fields, AtStepMem DEF RaiseCard, AtStep, StopsLoop
<1>2. PICK c \in CardIds :
        wk' = [wk EXCEPT ![w] = [@ EXCEPT !.pc = "finish", !.raised = c, !.mem = Awaiting(m, c)]]
    BY DEF RaiseCard
<1>3. k = [l EXCEPT !.pc = "finish", !.raised = c, !.mem = Awaiting(m, c)]
    BY <1>2 DEF WorkerInv
<1>4. k.pc = "finish" /\ k.mem = Awaiting(m, c) /\ k.tok = l.tok /\ k.base = l.base /\ k.rcpts = l.rcpts
    BY <1>1, <1>3 DEF Locals
<1>5. Path(m) => Path(Awaiting(m, c)) /\ Awaiting(m, c).cur = m.cur
    BY <1>1, PathAwaiting
<1>6. Awaiting(m, c).cur = m.cur
    <2> DEFINE u == Stepped(Checkpointed(m), "waiting", "waiting")
    <2>1. u \in Tasks /\ u.cur = m.cur
        BY <1>1, CheckpointedType, SteppedType DEF TaskStates, StepStates
    <2> QED BY <2>1 DEF Awaiting, Tasks
<1> QED BY <1>1, <1>4, <1>5, <1>6 DEF Turns, Goes

\* Every step of a worker but a claim, a park and the record of a result.
LEMMA WorkerShape ==
    ASSUME TypeInv, NEW w \in Workers, Moving(w)
    PROVE  \/ Gone(wk[w], wk'[w]) \/ Reads(wk[w], wk'[w]) \/ Turns(wk[w], wk'[w])
           \/ Marks(wk[w], wk'[w]) /\ CommitIntent(w) /\ exists /\ intents' = intents \union {Intent(w)}
           \/ /\ Answers(wk[w], wk'[w])
              /\ PerformRead(w) \/ PerformWrite(w)
           \/ Record(w) /\ wk'[w] = Recorded(wk[w])
<1> DEFINE l == wk[w]
           k == wk'[w]
<1>0. WorkerInv /\ l \in Locals /\ l.mem \in Tasks
    BY DEF TypeInv, WorkerInv, Locals
<1>g. Leave(w) \/ Raise(w) => Gone(l, k)
    BY <1>0, Fields, IdleGone DEF Gone
<1>1. ASSUME NEW key \in Keys, NEW ms \in Budgets, NEW nested \in Callers, ReadLedger(w, key, ms, nested)
      PROVE  Gone(l, k)
    <2>1. k = [Idle EXCEPT !.pc = "claim", !.key = key, !.ms = ms, !.nested = nested, !.row = runs[key].state]
        BY <1>0, <1>1 DEF ReadLedger, WorkerInv
    <2> QED BY <2>1 DEF Gone, Idle
<1>2. CASE ClaimRefused(w) \/ Complete(w) \/ Fail(w) \/ FailAborts(w) \/ Crash(w)
           \/ NoCardLeft(w) \/ CompleteRefused(w) \/ StepRaises(w)
    BY <1>g, <1>2 DEF ClaimRefused, Complete, Fail, FailAborts, Crash, NoCardLeft, CompleteRefused, StepRaises
<1>3. CASE OrphanCheck(w)
    <2>1. CASE Raise(w)
        BY <1>g, <2>1
    <2>2. CASE l.pc = "orphan" /\ Goto(w, "park") /\ l.mem.state \notin Done
        <3>1. k.pc = "park" /\ k.mem = l.mem /\ k.tok = l.tok /\ k.base = l.base /\ k.rcpts = l.rcpts
            BY <1>0, <2>2, Fields
        <3> QED BY <2>2, <3>1 DEF Reads, Goes
    <2>3. CASE l.pc = "orphan" /\ Goto(w, "step") /\ Orphans = {}
        <3>1. k.pc = "step" /\ k.mem = l.mem /\ k.tok = l.tok /\ k.base = l.base /\ k.rcpts = l.rcpts
            BY <1>0, <2>3, Fields
        <3> QED BY <2>3, <3>1 DEF Reads, Goes
    <2> QED BY <1>3, <2>1, <2>2, <2>3 DEF OrphanCheck
<1>4. CASE StopLoop(w) \/ FenceIntent(w) \/ Verify(w)
    <2>1. CASE Raise(w)
        BY <1>g, <2>1
    <2>2. CASE l.pc \in {"step", "fence", "finish"} /\ \E pc \in {"finish", "intent", "commit"} : Goto(w, pc)
        BY <1>0, <2>2, Fields DEF Reads, Goes, Past
    <2> QED BY <1>4, <2>1, <2>2 DEF StopLoop, FenceIntent, Verify
<1>5. CASE ObserveCancel(w)
    <2> DEFINE n == [l.mem EXCEPT !.state = "cancelled"]
    <2>1. l.pc = "step" /\ l.mem.state \notin Done /\ Update(w, "finish", n)
        BY <1>5 DEF ObserveCancel, StopsLoop
    <2>2. Path(l.mem) => Path(n)
        BY <1>0, PathState
    <2>3. n.cur = l.mem.cur
        BY <1>0 DEF Tasks
    <2> HIDE DEF n
    <2> QED BY <1>0, <2>1, <2>2, <2>3, Fields DEF Turns, Goes
<1>6. CASE SelectBlocked(w)
    <2>1. l.pc = "step" /\ l.mem.state \notin Done /\ l.mem.cur \in Steps
          /\ Update(w, "finish", Stepped(l.mem, "failed", "failed"))
        BY <1>0, <1>6, AtStepMem DEF SelectBlocked, AtStep, StopsLoop
    <2>2. "failed" \in TaskStates /\ "failed" \in StepStates \ {"completed"}
        BY DEF TaskStates, Done, StepStates
    <2>3. Path(l.mem) => Path(Stepped(l.mem, "failed", "failed"))
        BY <1>0, <2>1, <2>2, PathStepped
    <2>4. Stepped(l.mem, "failed", "failed").cur = l.mem.cur
        BY <1>0, <2>1, <2>2, SteppedType
    <2> QED BY <1>0, <2>1, <2>3, <2>4, Fields DEF Turns, Goes
<1>7. CASE RaiseCard(w) \/ ReadRuling(w) \/ StartRead(w)
    BY <1>0, <1>7, RaiseCardShape, RulingShape, StartReadShape
<1>8. CASE CommitIntent(w)
    <2>1. CASE Raise(w)
        BY <1>g, <2>1
    <2>2. CASE l.pc = "intent" /\ exists /\ intents' = intents \union {Intent(w)} /\ Goto(w, "perform")
        BY <1>0, <1>8, <2>2, Fields DEF Marks, Goes
    <2> QED BY <1>8, <2>1, <2>2 DEF CommitIntent
<1>9. CASE PerformRead(w) \/ PerformWrite(w)
    <2>1. l.pc = "perform" /\ \E ok \in BOOLEAN : Return(w, ok)
        BY <1>9 DEF PerformRead, PerformWrite
    <2> QED BY <1>0, <1>9, <2>1, Fields DEF Answers, Goes
<1>10. CASE Record(w)
    <2>1. CASE Raise(w)
        BY <1>g, <2>1
    <2>2. CASE wk' = [wk EXCEPT ![w] = Recorded(wk[w])]
        BY <1>0, <1>10, <2>2 DEF WorkerInv
    <2> QED BY <1>10, <2>1, <2>2 DEF Record
<1>11. CASE LoseHeartbeat(w)
    <2>1. k = [l EXCEPT !.lost = TRUE] /\ l.pc \notin {"idle", "claim", "raise"}
        BY <1>0, <1>11 DEF LoseHeartbeat, Beating, WorkerInv
    <2>2. /\ k.pc = l.pc /\ k.mem = l.mem /\ k.tok = l.tok /\ k.base = l.base
          /\ k.rcpts = l.rcpts /\ k.ok = l.ok
        BY <1>0, <2>1 DEF Locals
    <2> QED BY <2>1, <2>2 DEF Reads, Goes
<1> QED
    BY <1>1, <1>2, <1>3, <1>4, <1>5, <1>6, <1>7, <1>8, <1>9, <1>10, <1>11 DEF Moving

-----------------------------------------------------------------------------
(***************************************************************************)
(* Intents.  Whoever has passed the orphan check found every intent with   *)
(* its receipt; what was left without one since is of its own claim, of a  *)
(* later one, or was written late.  So an effect of a claim is never over  *)
(* an intent of an earlier one.                                            *)
(***************************************************************************)

LEMMA InitIntents == Init => IntentInv
<1> SUFFICES ASSUME Init PROVE IntentInv
    OBVIOUS
<1>1. effects = {} /\ intents = {} /\ \A w \in Workers : wk[w].pc = "idle"
    BY IdleType DEF Init
<1> QED BY <1>1 DEF IntentInv, Clear, Marking, EffectHasIntent, NoEffectOverAmbiguity, Past, Ambiguous

\* A step that writes no intent and performs no effect.
LEMMA IntentsKept ==
    ASSUME TypeInv, TypeInv', IntentInv, gen <= gen',
           effects' = effects, exists' => exists,
           exists' => intents' = intents /\ late' = late /\ receipts \subseteq receipts',
           \A w \in Workers :
              \/ wk'[w] = wk[w]
              \/ wk'[w].pc \notin Past
              \/ /\ wk'[w].tok = wk[w].tok
                 /\ wk[w].pc \in Past \/ Orphans = {}
                 /\ wk'[w].pc = "perform" /\ Plan[wk'[w].mem.cur] = "write" =>
                       wk[w].pc = "perform" /\ wk'[w].mem = wk[w].mem
    PROVE  IntentInv'
<1>0. gen \in Nat /\ gen' \in Nat /\ \A e \in effects : e.gen \in Nat
    BY DEF TypeInv, TypeOK
<1>1. \A e \in effects' : e.gen <= gen'
    BY <1>0 DEF IntentInv
<1>2. ASSUME exists' PROVE Ambiguous' \subseteq Ambiguous
    BY <1>2 DEF Ambiguous, Receipted
<1>3. ASSUME exists', NEW w \in Workers PROVE Clear(w)' /\ Marking(w)'
    <2>1. Clear(w) /\ Marking(w) /\ intents' = intents
        BY <1>3 DEF IntentInv
    <2>2. CASE wk'[w] = wk[w]
        BY <1>2, <1>3, <2>1, <2>2 DEF Clear, Marking, Intent
    <2>3. CASE wk'[w].pc \notin Past
        BY <2>3 DEF Clear, Marking, Past
    <2>4. CASE /\ wk'[w].tok = wk[w].tok
               /\ wk[w].pc \in Past \/ Orphans = {}
               /\ wk'[w].pc = "perform" /\ Plan[wk'[w].mem.cur] = "write" =>
                     wk[w].pc = "perform" /\ wk'[w].mem = wk[w].mem
        <3>1. Marking(w)'
            BY <2>1, <2>4 DEF Marking, Intent
        <3>2. Orphans = {} => Ambiguous = {}
            BY DEF Orphans, Ambiguous
        <3>3. Clear(w)'
            BY <1>2, <1>3, <2>1, <2>4, <3>2 DEF Clear
        <3> QED BY <3>1, <3>3
    <2> QED BY <2>2, <2>3, <2>4
<1>4. exists' => EffectHasIntent'
    BY DEF IntentInv, EffectHasIntent
<1>5. exists' => NoEffectOverAmbiguity'
    BY <1>2 DEF IntentInv, NoEffectOverAmbiguity, Ambiguous
<1> QED BY <1>1, <1>3, <1>4, <1>5 DEF IntentInv

LEMMA CommitIntentKeeps ==
    ASSUME TypeInv, TypeInv', LeaseInv, IntentInv, NEW w \in Workers,
           CommitIntent(w), Marks(wk[w], wk'[w]), exists,
           intents' = intents \union {Intent(w)}
    PROVE  IntentInv'
<1>0. /\ gen \in Nat /\ \A v \in Workers : wk[v].tok \in Nat /\ wk[v].tok <= gen
      /\ \A v \in Workers \ {w} : wk'[v] = wk[v]
      /\ wk'[w].tok = wk[w].tok /\ wk'[w].mem = wk[w].mem /\ wk'[w].pc = "perform" /\ wk[w].pc = "intent"
      /\ UNCHANGED <<exists, gen, effects, receipts>>
    BY WorkerMoves DEF TypeInv, TypeOK, Locals, Moving, KeepsClaims, LeaseInv, CommitIntent, Marks, Goes
<1>1. late' = IF gen = wk[w].tok THEN late ELSE late \union {Intent(w)}
    BY <1>0 DEF CommitIntent
<1>2. Ambiguous' \subseteq Ambiguous \union (IF gen = wk[w].tok THEN {Intent(w)} ELSE {})
    BY <1>0, <1>1 DEF Ambiguous, Receipted
<1>3. \A i \in Ambiguous' : i \in Ambiguous \/ i.gen = gen
    BY <1>2 DEF Intent
<1>4. ASSUME NEW v \in Workers PROVE Clear(v)' /\ Marking(v)'
    <2>1. Clear(v) /\ Marking(v)
        BY <1>0 DEF IntentInv
    <2>2. (wk'[v].pc \in Past <=> wk[v].pc \in Past) /\ wk'[v].tok = wk[v].tok
        BY <1>0 DEF Past
    <2>3. Clear(v)'
        BY <1>0, <1>3, <2>1, <2>2 DEF Clear
    <2>4. Marking(v)'
        <3>1. CASE v = w
            BY <1>0, <3>1 DEF Marking, Intent
        <3>2. CASE v # w
            BY <1>0, <2>1, <3>2 DEF Marking, Intent
        <3> QED BY <3>1, <3>2
    <2> QED BY <2>3, <2>4
<1>5. EffectHasIntent'
    BY <1>0 DEF IntentInv, EffectHasIntent
<1>6. NoEffectOverAmbiguity'
    BY <1>0, <1>3 DEF IntentInv, NoEffectOverAmbiguity, Ambiguous
<1>7. \A e \in effects' : e.gen <= gen'
    BY <1>0 DEF IntentInv
<1> QED BY <1>4, <1>5, <1>6, <1>7 DEF IntentInv

LEMMA PerformWriteKeepsIntents ==
    ASSUME TypeInv, TypeInv', LeaseInv, IntentInv, NEW w \in Workers,
           PerformWrite(w), Answers(wk[w], wk'[w])
    PROVE  IntentInv'
<1> DEFINE s == wk[w].mem.cur
           e == [gen |-> wk[w].tok, step |-> s, card |-> wk[w].mem.card[s]]
<1>0. /\ gen \in Nat /\ \A v \in Workers : wk[v].tok \in Nat /\ wk[v].tok <= gen
      /\ \A v \in Workers \ {w} : wk'[v] = wk[v]
      /\ wk'[w].tok = wk[w].tok /\ wk'[w].pc = "record" /\ wk[w].pc = "perform" /\ Plan[s] = "write"
      /\ UNCHANGED <<exists, gen, intents, receipts, late>>
    <2>1. \A v \in Workers \ {w} : wk'[v] = wk[v]
        BY WorkerMoves DEF Moving, KeepsClaims
    <2>2. Plan[s] = "write" /\ UNCHANGED <<exists, gen, intents, receipts, late>>
        BY DEF PerformWrite
    <2>3. gen \in Nat /\ \A v \in Workers : wk[v].tok \in Nat /\ wk[v].tok <= gen
        BY DEF TypeInv, TypeOK, Locals, LeaseInv
    <2> QED BY <2>1, <2>2, <2>3 DEF Answers, Goes
<1>1. effects' \subseteq effects \union {e}
    BY DEF PerformWrite
<1>2. e.gen = wk[w].tok /\ [gen |-> e.gen, step |-> e.step] = Intent(w)
    BY DEF Intent
<1> HIDE DEF e
<1>3. \A f \in effects' : f.gen <= gen'
    BY <1>0, <1>1, <1>2 DEF IntentInv
<1>4. Ambiguous' = Ambiguous
    BY <1>0 DEF Ambiguous, Receipted
<1>5. ASSUME exists, NEW v \in Workers PROVE Clear(v)' /\ Marking(v)'
    <2>1. Clear(v) /\ Marking(v)
        BY <1>5 DEF IntentInv
    <2> QED BY <1>0, <1>4, <2>1 DEF Clear, Marking, Past, Intent
<1>6. ASSUME exists PROVE EffectHasIntent' /\ NoEffectOverAmbiguity'
    <2>1. Intent(w) \in intents /\ \A i \in Ambiguous : wk[w].tok <= i.gen
        BY <1>0, <1>6 DEF IntentInv, Clear, Marking, Past
    <2>2. EffectHasIntent'
        BY <1>0, <1>1, <1>2, <1>6, <2>1 DEF IntentInv, EffectHasIntent
    <2>3. \A i \in Ambiguous : \A f \in effects : f.gen <= i.gen
        BY <1>6 DEF IntentInv, NoEffectOverAmbiguity, Ambiguous
    <2>4. \A i \in Ambiguous' : \A f \in effects' : f.gen <= i.gen
        BY <1>1, <1>2, <1>4, <2>1, <2>3
    <2>5. NoEffectOverAmbiguity'
        BY <2>4 DEF NoEffectOverAmbiguity, Ambiguous
    <2> QED BY <2>2, <2>5
<1> QED BY <1>0, <1>3, <1>5, <1>6 DEF IntentInv

LEMMA IntentStep == TypeInv /\ TypeInv' /\ LeaseInv /\ IntentInv /\ [Next]_vars => IntentInv'
<1> SUFFICES ASSUME TypeInv, TypeInv', LeaseInv, IntentInv, [Next]_vars PROVE IntentInv'
    OBVIOUS
<1>0. gen \in Nat /\ gen' \in Nat
    BY DEF TypeInv, TypeOK
\* A step of one worker, which stays as far as it was from an effect.
<1>w. ASSUME NEW w \in Workers, UNCHANGED <<exists, gen, intents, effects, late>>, receipts \subseteq receipts',
             \A v \in Workers \ {w} : wk'[v] = wk[v],
             \/ wk'[w].pc \notin Past
             \/ /\ wk'[w].tok = wk[w].tok
                /\ wk[w].pc \in Past \/ Orphans = {}
                /\ wk'[w].pc = "perform" /\ Plan[wk'[w].mem.cur] = "write" =>
                      wk[w].pc = "perform" /\ wk'[w].mem = wk[w].mem
      PROVE  IntentInv'
    <2>1. gen <= gen'
        BY <1>0, <1>w
    <2> QED BY <1>w, <2>1, IntentsKept
\* An action of the clock, the human or the operator.
<1>o. ASSUME UNCHANGED <<gen, wk, effects>>, exists' => exists,
             exists' => UNCHANGED <<intents, receipts, late>>
      PROVE  IntentInv'
    <2>1. gen <= gen'
        BY <1>0, <1>o
    <2> QED BY <1>o, <2>1, IntentsKept
<1>1. ASSUME NEW w \in Workers, Moving(w) PROVE IntentInv'
    <2> DEFINE l == wk[w]
               k == wk'[w]
    <2>1. \A v \in Workers \ {w} : wk'[v] = wk[v]
        BY <1>1, WorkerMoves DEF KeepsClaims
    <2>2. CASE CommitIntent(w) /\ Marks(l, k)
        <3>1. exists /\ intents' = intents \union {Intent(w)}
            <4>1. k.pc = "perform"
                BY <2>2 DEF Marks
            <4>2. ~Raise(w)
                BY <4>1, Fields DEF TypeInv
            <4> QED BY <2>2, <4>2 DEF CommitIntent
        <3> QED BY <2>2, <3>1, CommitIntentKeeps
    <2>3. CASE PerformWrite(w) /\ Answers(l, k)
        BY <2>3, PerformWriteKeepsIntents
    <2>4. CASE ~(CommitIntent(w) /\ Marks(l, k)) /\ ~PerformWrite(w)
        <3>1. UNCHANGED <<exists, gen, effects>>
            BY <1>1, <2>4 DEF Moving, ReadLedger, ClaimRefused, OrphanCheck, StopLoop, ObserveCancel,
               SelectBlocked, RaiseCard, NoCardLeft, ReadRuling, StartRead, FenceIntent, CommitIntent,
               PerformRead, Record, Verify, Complete, CompleteRefused, Fail, StepRaises,
               FailAborts, Crash, LoseHeartbeat, history
        <3>2. UNCHANGED <<intents, late>>
            <4>1. CASE CommitIntent(w)
                <5>1. CASE exists /\ Goto(w, "perform")
                    <6>1. Marks(l, k)
                        BY <4>1, <5>1, Fields DEF Marks, Goes, CommitIntent, TypeInv
                    <6> QED BY <2>4, <4>1, <6>1
                <5> QED BY <4>1, <5>1 DEF CommitIntent
            <4>2. CASE ~CommitIntent(w)
                BY <1>1, <2>4, <4>2 DEF Moving, ReadLedger, ClaimRefused, OrphanCheck, StopLoop,
                   ObserveCancel, SelectBlocked, RaiseCard, NoCardLeft, ReadRuling, StartRead,
                   FenceIntent, PerformRead, Record, Verify, Complete, CompleteRefused, Fail,
                   StepRaises, FailAborts, Crash, LoseHeartbeat, history
            <4> QED BY <4>1, <4>2
        <3>3. receipts \subseteq receipts'
            BY <1>1, <2>4 DEF Moving, ReadLedger, ClaimRefused, OrphanCheck, StopLoop, ObserveCancel,
               SelectBlocked, RaiseCard, NoCardLeft, ReadRuling, StartRead, FenceIntent, CommitIntent,
               PerformRead, Record, Verify, Complete, CompleteRefused, Fail, StepRaises,
               FailAborts, Crash, LoseHeartbeat
        <3>4. \/ Gone(l, k) \/ Reads(l, k) \/ Turns(l, k) \/ Answers(l, k)
              \/ Record(w) /\ k = Recorded(l)
            BY <1>1, <2>4, WorkerShape
        <3>5. CASE Gone(l, k)
            BY <1>w, <2>1, <3>1, <3>2, <3>3, <3>5 DEF Gone, Past
        <3>6. CASE Reads(l, k)
            BY <1>w, <2>1, <3>1, <3>2, <3>3, <3>6 DEF Reads, Goes, Past
        <3>7. CASE Turns(l, k)
            BY <1>w, <2>1, <3>1, <3>2, <3>3, <3>7 DEF Turns, Goes, Past
        <3>8. CASE Answers(l, k)
            BY <1>w, <2>1, <3>1, <3>2, <3>3, <3>8 DEF Answers, Goes, Past
        <3>9. CASE Record(w) /\ k = Recorded(l)
            <4>1. l \in Locals /\ l.pc = "record"
                BY <3>9 DEF Record, TypeInv, WorkerInv
            <4>2. k.pc = "step" /\ k.tok = l.tok
                BY <3>9, <4>1 DEF Recorded, Locals
            <4> QED BY <1>w, <2>1, <3>1, <3>2, <3>3, <4>1, <4>2 DEF Past
        <3> QED BY <3>4, <3>5, <3>6, <3>7, <3>8, <3>9
    <2>5. PerformWrite(w) => Answers(l, k)
        <3>1. ASSUME PerformWrite(w) PROVE l.pc = "perform" /\ \E ok \in BOOLEAN : Return(w, ok)
            BY <3>1 DEF PerformWrite
        <3> QED BY <3>1, Fields DEF TypeInv, Answers, Goes
    <2> QED BY <2>2, <2>3, <2>4, <2>5
<1>2. ASSUME NEW w \in Workers, Claim(w) PROVE IntentInv'
    <2>1. gen <= gen' /\ UNCHANGED <<exists, intents, receipts, effects, late>>
        BY <1>0, <1>2 DEF Claim, history
    <2>2. \A v \in Workers \ {w} : wk'[v] = wk[v]
        BY <1>2, ClaimMoves
    <2>3. wk'[w].pc = "orphan"
        BY <1>2 DEF Claim, TypeInv, WorkerInv, Locals
    <2> QED BY <2>1, <2>2, <2>3, IntentsKept DEF Past
<1>3. ASSUME NEW w \in Workers, Park(w) PROVE IntentInv'
    <2>1. UNCHANGED <<exists, gen, intents, receipts, effects, late>>
        BY <1>3 DEF Park, history
    <2>2. \A v \in Workers \ {w} : wk'[v] = wk[v]
        BY <1>3, ParkMoves
    <2>3. wk'[w].pc = "raise"
        <3>1. CASE Raise(w)
            BY <3>1, Fields DEF TypeInv
        <3>2. CASE wk' = [wk EXCEPT ![w] = [Idle EXCEPT !.pc = "raise", !.key = wk[w].key,
                             !.tok = wk[w].tok, !.base = [wk[w].mem EXCEPT !.state = "failed"]]]
            BY <3>2 DEF TypeInv, WorkerInv, Idle
        <3> QED BY <1>3, <3>1, <3>2 DEF Park
    <2> QED BY <1>w, <2>1, <2>2, <2>3 DEF Past
<1>4. ASSUME NEW w \in Workers, Renew(w) PROVE IntentInv'
    BY <1>4, <1>o DEF Renew, history
<1>5. CASE LeaseExpires
    BY <1>5, <1>o DEF LeaseExpires, history
<1>6. ASSUME NEW c \in CardIds, NEW r \in {"approved", "refused"}, Decide(c, r) \/ CardLapses(c)
      PROVE  IntentInv'
    BY <1>6, <1>o DEF Decide, CardLapses, history
<1>7. CASE SweepCards
    BY <1>7, <1>o DEF SweepCards, history
<1>8. ASSUME NEW t, Mutate(t) PROVE IntentInv'
    BY <1>8, <1>o DEF Mutate, history
<1>9. CASE Delete
    BY <1>9, <1>o DEF Delete, history
<1>10. CASE CancelSchedule
    BY <1>10, <1>o DEF CancelSchedule, history
<1>11. CASE UNCHANGED vars
    BY <1>11, <1>o DEF vars
<1> QED
    BY <1>1, <1>2, <1>3, <1>4, <1>5, <1>6, <1>7, <1>8, <1>9, <1>10, <1>11
       DEF Next, WorkerStep, Moving, Cancel, Rollback

LEMMA IntentInvariance == Spec => []IntentInv
BY LeaseInvariance, InitIntents, IntentStep, PTL DEF Spec

\* The marker goes first, for any number of workers and claims: whenever the
\* process dies, an effect that took place has its committed intent.
THEOREM EffectsAreMarked == Spec => []EffectHasIntent
<1>1. IntentInv => EffectHasIntent
    BY DEF IntentInv, EffectHasIntent
<1> QED BY <1>1, IntentInvariance, PTL

\* No effect is performed over an intent of an earlier claim whose outcome is
\* unknown, late ones apart: whatever leases expired, workers crashed and receipts
\* were lost before.
THEOREM AmbiguityStops == Spec => []NoEffectOverAmbiguity
<1>1. IntentInv => NoEffectOverAmbiguity
    BY DEF IntentInv, NoEffectOverAmbiguity
<1> QED BY <1>1, IntentInvariance, PTL

-----------------------------------------------------------------------------
(***************************************************************************)
(* What is done stays done.  A task's completed steps are those before its *)
(* current one; a worker's copy only moves ahead of the payload it         *)
(* claimed, with one confirmed receipt for each effectful step it passes;  *)
(* whoever commits still has the committed payload as its base, and an     *)
(* operator's rollback passes no effectful step.  So the receipts that a   *)
(* commit adds are of steps that have none.                                *)
(***************************************************************************)

LEMMA StepNumbers == \A s \in Steps : s \in Nat
BY DEF Steps

LEMMA CurType ==
    ASSUME NEW t \in Tasks
    PROVE  t.cur \in Nat /\ t.cur \in 1 .. Len(Plan) + 1
BY LenPlan DEF Tasks

LEMMA HonestKept ==
    ASSUME NEW l, NEW D, NEW E, D \subseteq E, Honest(l, D)
    PROVE  Honest(l, E)
<1>1. \A g, s : Happened(g, s, D) => Happened(g, s, E)
    BY DEF Happened
<1> HIDE DEF Happened
<1> QED BY <1>1, Zenon DEF Honest

LEMMA IdleHonest == ASSUME NEW E PROVE Honest(Idle, E)
<1>1. /\ Idle.base = NewTask /\ Idle.mem = NewTask /\ Idle.pc = "idle" /\ Idle.rcpts = {}
    BY DEF Idle
<1>2. NewTask.cur = 1 /\ \A s \in Steps : s \in Nat
    BY PathNew, StepNumbers
<1> QED BY <1>1, <1>2, PathNew DEF Honest

LEMMA GoneHonest ==
    ASSUME NEW l, NEW k, NEW E, NEW F, Honest(l, E), Gone(l, k)
    PROVE  Honest(k, F)
<1>1. k.mem = NewTask /\ k.rcpts = {} /\ k.pc \in {"idle", "claim", "raise"}
    BY DEF Gone
<1>2. Path(k.base) /\ Path(k.mem)
    BY <1>1, PathNew DEF Gone, Honest
<1>3. k.pc # "raise" => k.base = NewTask
    BY DEF Gone
<1>4. NewTask.cur = 1 /\ \A s \in Steps : s \in Nat
    BY PathNew, StepNumbers
<1> QED BY <1>1, <1>2, <1>3, <1>4 DEF Honest

LEMMA ReadsHonest ==
    ASSUME NEW l, NEW k, NEW E, Honest(l, E), Reads(l, k)
    PROVE  Honest(k, E)
<1>1. /\ k.tok = l.tok /\ k.base = l.base /\ k.rcpts = l.rcpts /\ k.mem = l.mem
      /\ l.pc # "raise" /\ k.pc \notin {"idle", "claim", "raise"}
    BY DEF Reads, Goes
<1>2. /\ k.pc \in {"orphan", "park"} => l.pc \in {"orphan", "park"}
      /\ k.pc = "park" => l.pc = "park" \/ l.mem.state \notin Done
    BY DEF Reads, Past
<1>3. k.pc = "record" => l.pc = "record" /\ k.ok = l.ok
    BY DEF Reads
<1> QED BY <1>1, <1>2, <1>3 DEF Honest

LEMMA TurnsHonest ==
    ASSUME NEW l, NEW k, NEW E, Honest(l, E), Turns(l, k)
    PROVE  Honest(k, E)
<1>1. /\ k.tok = l.tok /\ k.base = l.base /\ k.rcpts = l.rcpts /\ k.mem.cur = l.mem.cur
      /\ l.pc # "raise" /\ k.pc \in {"finish", "fence", "perform"} /\ l.mem.state \notin Done
    BY DEF Turns, Goes
<1>2. Path(k.mem)
    BY DEF Turns, Honest
<1>3. k.base.state \notin Done
    BY <1>1 DEF Honest
<1> QED BY <1>1, <1>2, <1>3 DEF Honest

LEMMA MarksHonest ==
    ASSUME NEW l, NEW k, NEW E, Honest(l, E), Marks(l, k)
    PROVE  Honest(k, E)
BY DEF Honest, Marks, Goes

LEMMA AnswersHonest ==
    ASSUME NEW l, NEW k, NEW D, NEW E, D \subseteq E, Honest(l, D), Answers(l, k),
           Plan[l.mem.cur] = "write" /\ k.ok => Happened(l.tok, l.mem.cur, E)
    PROVE  Honest(k, E)
<1>1. /\ k.tok = l.tok /\ k.base = l.base /\ k.rcpts = l.rcpts /\ k.mem = l.mem
      /\ l.pc # "raise" /\ k.pc = "record"
    BY DEF Answers, Goes
<1>2. Honest(l, E)
    BY HonestKept
<1> QED BY <1>1, <1>2 DEF Honest

LEMMA RecordHonest ==
    ASSUME NEW l \in Locals, NEW E, Honest(l, E), l.pc = "record", l.mem.state = "running"
    PROVE  Honest(Recorded(l), E)
<1> DEFINE k == Recorded(l)
           rs == IF Plan[l.mem.cur] = "write" THEN l.rcpts \union {Receipt(l)} ELSE l.rcpts
           n == Observed(l.mem, l.ok)
<1>1. l.mem \in Tasks /\ l.mem.cur \in Steps /\ l.mem.cur \in Nat /\ l.ok \in BOOLEAN
      /\ l.base \in Tasks /\ l.base.cur \in Nat
    BY CurType DEF Locals, Tasks, Done
<1>2. k.tok = l.tok /\ k.base = l.base /\ k.pc = "step" /\ k.mem = n /\ k.rcpts = rs
    BY DEF Recorded, Locals
<1>3. Path(l.mem)
    BY DEF Honest
<1>4. Path(n) /\ n.cur = IF l.ok THEN l.mem.cur + 1 ELSE l.mem.cur
    BY <1>1, <1>3, PathObserved
<1>5. l.base.cur <= l.mem.cur /\ l.base.state \notin Done
    BY DEF Honest, Done
<1>6. Receipt(l).gen = l.tok /\ Receipt(l).step = l.mem.cur /\ Receipt(l).ok = l.ok
    BY DEF Receipt
<1> HIDE DEF k, n
<1>7. ASSUME NEW r \in rs
      PROVE  /\ r.gen = l.tok
             /\ r.ok => Plan[r.step] = "write" /\ l.base.cur <= r.step /\ r.step < n.cur
    <2>1. CASE r \in l.rcpts
        <3>1. /\ r.gen = l.tok
              /\ r.ok => Plan[r.step] = "write" /\ l.base.cur <= r.step /\ r.step < l.mem.cur
            BY <2>1 DEF Honest
        <3>2. r.step \in Nat
            BY <2>1, StepNumbers DEF Locals, Receipts
        <3> QED BY <1>1, <1>4, <3>1, <3>2
    <2>2. CASE r = Receipt(l) /\ Plan[l.mem.cur] = "write"
        BY <1>1, <1>4, <1>5, <1>6, <2>2
    <2> QED BY <2>1, <2>2
<1>8. ASSUME NEW s \in Steps, Plan[s] = "write", l.base.cur <= s, s < n.cur
      PROVE  \E r \in rs : r.step = s /\ r.ok /\ Happened(r.gen, s, E)
    <2>0. s \in Nat /\ (s < l.mem.cur \/ (s = l.mem.cur /\ l.ok))
        BY <1>1, <1>4, <1>8, StepNumbers
    <2>1. CASE s < l.mem.cur
        <3>1. PICK r \in l.rcpts : r.step = s /\ r.ok /\ Happened(r.gen, s, E)
            BY <1>8, <2>1 DEF Honest
        <3> QED BY <3>1
    <2>2. CASE s = l.mem.cur /\ l.ok
        <3>1. Happened(l.tok, s, E)
            BY <1>8, <2>2 DEF Honest
        <3>2. Receipt(l) \in rs
            BY <1>8, <2>2
        <3> QED BY <1>6, <2>2, <3>1, <3>2
    <2> QED BY <2>0, <2>1, <2>2
<1> HIDE DEF rs
<1>9. l.base.cur <= n.cur /\ Path(l.base)
    BY <1>1, <1>4, <1>5 DEF Honest
<1>10. Honest(k, E)
    BY <1>2, <1>4, <1>5, <1>7, <1>8, <1>9 DEF Honest
<1> QED BY <1>10 DEF k

\* A worker's step, for the worker itself.
LEMMA MovingHonest ==
    ASSUME TypeInv, NEW w \in Workers, Moving(w), Honest(wk[w], effects)
    PROVE  Honest(wk'[w], effects') /\ effects \subseteq effects'
<1> DEFINE l == wk[w]
           k == wk'[w]
<1>0. WorkerInv /\ l \in Locals /\ l.mem \in Tasks
    BY DEF TypeInv, WorkerInv, Locals
<1>1. effects \subseteq effects'
    BY DEF Moving, ReadLedger, ClaimRefused, OrphanCheck, StopLoop, ObserveCancel,
       SelectBlocked, RaiseCard, NoCardLeft, ReadRuling, StartRead, FenceIntent, CommitIntent,
       PerformRead, PerformWrite, Record, Verify, Complete, CompleteRefused, Fail, StepRaises,
       FailAborts, Crash, LoseHeartbeat, history
<1>2. Honest(l, effects')
    BY <1>1, HonestKept
<1>3. CASE Gone(l, k)
    BY <1>1, <1>2, <1>3, GoneHonest
<1>4. CASE Reads(l, k) \/ Turns(l, k) \/ Marks(l, k)
    BY <1>1, <1>2, <1>4, ReadsHonest, TurnsHonest, MarksHonest
<1>5. CASE Answers(l, k) /\ (PerformRead(w) \/ PerformWrite(w))
    <2>1. Plan[l.mem.cur] = "write" /\ k.ok => Happened(l.tok, l.mem.cur, effects')
        <3>1. CASE PerformRead(w)
            BY <3>1 DEF PerformRead
        <3>2. CASE PerformWrite(w)
            <4> DEFINE s == l.mem.cur
                       c == l.mem.card[s]
                       e == [gen |-> l.tok, step |-> s, card |-> c]
            <4>1. \/ \E ok, happened \in BOOLEAN :
                        /\ ok => happened
                        /\ effects' = IF happened THEN effects \union {e} ELSE effects
                        /\ Return(w, ok)
                  \/ Return(w, FALSE)
                BY <3>2 DEF PerformWrite
            <4>2. e.gen = l.tok /\ e.step = s
                OBVIOUS
            <4> HIDE DEF e
            <4>3. k.ok => e \in effects'
                BY <1>0, <4>1, Fields
            <4> QED BY <4>2, <4>3 DEF Happened
        <3> QED BY <1>5, <3>1, <3>2
    <2> QED BY <1>1, <1>5, <2>1, AnswersHonest
<1>6. CASE Record(w) /\ k = Recorded(l)
    <2>1. l.pc = "record" /\ l.mem.state = "running"
        BY <1>0, <1>6 DEF Record, WorkerInv, InStep
    <2> QED BY <1>0, <1>1, <1>2, <1>6, <2>1, RecordHonest
<1> QED BY <1>1, <1>3, <1>4, <1>5, <1>6, WorkerShape

LEMMA InitDone == Init => DoneInv
<1> SUFFICES ASSUME Init PROVE DoneInv
    OBVIOUS
<1>1. task = NewTask /\ receipts = {} /\ effects = {} /\ \A w \in Workers : wk[w] = Idle
    BY DEF Init
<1>2. Path(task) /\ task.cur = 1 /\ \A s \in Steps : s \in Nat /\ ~(s < 1)
    BY <1>1, PathNew, StepNumbers DEF Steps
<1>3. Confirmed
    BY <1>1, <1>2 DEF Confirmed, OneConfirmedEffectPerStep
<1>4. \A w \in Workers : Honest(wk[w], effects)
    BY <1>1, IdleHonest
<1> QED BY <1>2, <1>3, <1>4 DEF DoneInv

\* The row and the receipts stay as they are.
LEMMA RowKept ==
    ASSUME DoneInv, UNCHANGED <<task, receipts>>, exists' => exists, effects \subseteq effects'
    PROVE  Path(task') /\ Confirmed'
<1>1. \A g, s : Happened(g, s, effects) => Happened(g, s, effects')
    BY DEF Happened
<1>2. Path(task') /\ Confirmed
    BY DEF DoneInv
<1> HIDE DEF Happened
<1> QED BY <1>1, <1>2 DEF Confirmed, OneConfirmedEffectPerStep

\* The row is replaced by one with the same effectful steps behind it.
LEMMA RowMoves ==
    ASSUME DoneInv, UNCHANGED <<receipts, effects>>, exists' => exists, receipts \subseteq Receipts,
           Path(task'), \A s \in Steps : Plan[s] = "write" => (s < task.cur <=> s < task'.cur)
    PROVE  Confirmed'
<1>1. Confirmed
    BY DEF DoneInv
<1>2. \A r \in receipts : r.ok => Plan[r.step] = "write" /\ r.step \in Steps /\ r.step < task.cur
    <2>1. ASSUME NEW r \in receipts, r.ok PROVE r.step \in Steps
        BY <2>1 DEF Receipts
    <2> QED BY <1>1, <2>1 DEF Confirmed
<1> HIDE DEF Happened
<1> QED BY <1>1, <1>2 DEF Confirmed, OneConfirmedEffectPerStep

\* Who matches the lease has the committed row as its base.
LEMMA HolderCommits ==
    ASSUME LeaseInv, DoneInv, NEW w \in Workers, Holds(w)
    PROVE  wk[w].base = task /\ exists /\ Honest(wk[w], effects)
BY DEF LeaseInv, HolderHasCommittedTask, Holds, DoneInv

LEMMA CompleteConfirms ==
    ASSUME TypeInv, LeaseInv, DoneInv, NEW w \in Workers, Complete(w)
    PROVE  /\ Path(task') /\ Confirmed'
           /\ \A s \in Steps : Plan[s] = "write" /\ s < task.cur => s < task'.cur
           /\ task.state \in Done => task'.state = task.state
<1> DEFINE l == wk[w]
<1>1. l.base = task /\ exists /\ Honest(l, effects) /\ l.pc = "commit" /\ l \in Locals
    BY HolderCommits DEF Complete, TypeInv, WorkerInv
<1>2. task' = l.mem /\ receipts' = receipts \union l.rcpts /\ effects' = effects
    BY DEF Complete, history
<1>3. /\ task \in Tasks /\ task.cur \in Nat /\ l.mem.cur \in Nat /\ task.cur <= l.mem.cur
      /\ receipts \subseteq Receipts /\ l.rcpts \subseteq Receipts
    BY <1>1, CurType DEF TypeInv, TypeOK, Locals, Honest
<1>4. Path(l.mem) /\ (task.state \in Done => l.mem.state = task.state)
    BY <1>1 DEF Honest
<1>5. \A r \in receipts : r.ok => Plan[r.step] = "write" /\ r.step < task.cur
    BY DEF DoneInv, Confirmed
<1>6. \A r \in l.rcpts :
        r.gen = l.tok /\ (r.ok => Plan[r.step] = "write" /\ task.cur <= r.step /\ r.step < l.mem.cur)
    BY <1>1 DEF Honest
<1>7. \A r \in receipts \union l.rcpts : r.step \in Nat /\ r \in Receipts
    BY <1>3, StepNumbers DEF Receipts
<1>8. \A r \in receipts' : r.ok => Plan[r.step] = "write" /\ r.step < task'.cur
    BY <1>2, <1>3, <1>5, <1>6, <1>7
<1>9. OneConfirmedEffectPerStep'
    <2>1. ASSUME NEW r \in receipts', NEW q \in receipts', r.ok, q.ok, r.step = q.step
          PROVE  r = q
        <3>1. CASE r \in receipts /\ q \in receipts
            BY <2>1, <3>1 DEF DoneInv, Confirmed, OneConfirmedEffectPerStep
        <3>2. CASE r \in l.rcpts /\ q \in l.rcpts
            <4>1. r \in Receipts /\ q \in Receipts /\ r.gen = q.gen
                BY <1>3, <1>6, <3>2
            <4>2. r.ok = q.ok
                BY <2>1, <4>1 DEF Receipts
            <4> QED BY <2>1, <4>1, <4>2 DEF Receipts
        <3>3. CASE (r \in receipts /\ q \in l.rcpts) \/ (q \in receipts /\ r \in l.rcpts)
            BY <1>3, <1>5, <1>6, <1>7, <2>1, <3>3
        <3> QED BY <1>2, <2>1, <3>1, <3>2, <3>3
    <2> QED BY <2>1 DEF OneConfirmedEffectPerStep
<1>10. ASSUME NEW s \in Steps, Plan[s] = "write", s < l.mem.cur
       PROVE  \E r \in receipts' : r.step = s /\ r.ok /\ Happened(r.gen, s, effects')
    <2>0. s \in Nat
        BY StepNumbers
    <2>1. CASE s < task.cur
        <3>1. PICK r \in receipts : r.step = s /\ r.ok /\ Happened(r.gen, s, effects)
            BY <1>1, <1>10, <2>1 DEF DoneInv, Confirmed
        <3> QED BY <1>2, <3>1
    <2>2. CASE task.cur <= s
        <3>1. PICK r \in l.rcpts : r.step = s /\ r.ok /\ Happened(r.gen, s, effects)
            BY <1>1, <1>10, <2>2 DEF Honest
        <3> QED BY <1>2, <3>1
    <2> QED BY <1>3, <2>0, <2>1, <2>2
<1>11. Confirmed'
    BY <1>2, <1>8, <1>9, <1>10 DEF Confirmed
<1>12. \A s \in Steps : s < task.cur => s < task'.cur
    BY <1>2, <1>3, StepNumbers
<1> QED BY <1>2, <1>4, <1>11, <1>12

LEMMA ParkConfirms ==
    ASSUME TypeInv, LeaseInv, DoneInv, NEW w \in Workers, Park(w)
    PROVE  /\ Path(task') /\ Confirmed' /\ Honest(wk'[w], effects')
           /\ \A s \in Steps : Plan[s] = "write" /\ s < task.cur => s < task'.cur
           /\ task.state \in Done => task'.state = task.state
<1> DEFINE l == wk[w]
           k == wk'[w]
           n == [l.mem EXCEPT !.state = "failed"]
<1>0. /\ WorkerInv /\ l \in Locals /\ l.mem \in Tasks /\ receipts \subseteq Receipts
      /\ UNCHANGED <<exists, receipts, effects>> /\ l.pc = "park" /\ Honest(l, effects)
    BY DEF TypeInv, TypeOK, WorkerInv, Locals, Park, history, DoneInv
<1>1. CASE ~Holds(w)
    <2>1. Raise(w) /\ task' = task
        BY <1>1 DEF Park
    <2>2. Gone(l, k)
        BY <1>0, <2>1, Fields DEF Gone
    <2>3. Honest(k, effects')
        BY <1>0, <2>2, GoneHonest
    <2> QED BY <1>0, <2>1, <2>3, RowKept
<1>2. CASE Holds(w)
    <2>1. l.base = task /\ l.mem.cur = task.cur
        BY <1>0, <1>2, HolderCommits DEF Honest
    <2>2. Path(l.mem)
        BY <1>0 DEF Honest
    <2>3. Path(n) /\ n.cur = task.cur
        BY <1>0, <2>1, <2>2, PathState
    <2>4. task' = n /\ wk' = [wk EXCEPT ![w] = [Idle EXCEPT !.pc = "raise", !.key = wk[w].key,
                                                     !.tok = wk[w].tok, !.base = n]]
        BY <1>2 DEF Park
    <2> HIDE DEF n
    <2>5. k.pc = "raise" /\ k.mem = NewTask /\ k.rcpts = {} /\ k.base = n
        BY <1>0, <2>4 DEF WorkerInv, Idle
    <2>6. Honest(k, effects')
        BY <2>3, <2>5, PathNew DEF Honest
    <2>7. Confirmed'
        BY <1>0, <2>3, <2>4, RowMoves
    <2>8. task.state \notin Done
        BY <1>0, <2>1 DEF Honest
    <2>9. \A s \in Steps : s < task.cur => s < task'.cur
        BY <2>3, <2>4
    <2> QED BY <2>3, <2>4, <2>6, <2>7, <2>8, <2>9
<1> QED BY <1>1, <1>2

\* A worker's step keeps the row in the hands of those whose base it is.
LEMMA MovingDone ==
    ASSUME TypeInv, LeaseInv, DoneInv, NEW w \in Workers, Moving(w)
    PROVE  /\ DoneInv'
           /\ \A s \in Steps : Plan[s] = "write" /\ s < task.cur => s < task'.cur
           /\ task.state \in Done => task'.state = task.state
<1>1. Honest(wk'[w], effects') /\ effects \subseteq effects'
    BY MovingHonest DEF DoneInv
<1>2. \A v \in Workers \ {w} : wk'[v] = wk[v]
    BY WorkerMoves DEF KeepsClaims
<1>3. ASSUME NEW v \in Workers PROVE Honest(wk'[v], effects')
    <2>1. Honest(wk[v], effects')
        BY <1>1, HonestKept DEF DoneInv
    <2> QED BY <1>1, <1>2, <2>1
<1>4. CASE Complete(w)
    BY <1>3, <1>4, CompleteConfirms DEF DoneInv
<1>5. CASE ~Complete(w)
    <2>1. UNCHANGED <<exists, task, receipts>>
        BY <1>5 DEF Moving, ReadLedger, ClaimRefused, OrphanCheck, StopLoop, ObserveCancel,
           SelectBlocked, RaiseCard, NoCardLeft, ReadRuling, StartRead, FenceIntent, CommitIntent,
           PerformRead, PerformWrite, Record, Verify, CompleteRefused, Fail, StepRaises,
           FailAborts, Crash, LoseHeartbeat
    <2>2. Path(task') /\ Confirmed'
        BY <1>1, <2>1, RowKept
    <2> QED BY <1>3, <2>1, <2>2 DEF DoneInv
<1> QED BY <1>4, <1>5

LEMMA DoneStep ==
    TypeInv /\ LeaseInv /\ DoneInv /\ [Next]_vars =>
        /\ DoneInv'
        /\ \A s \in Steps : Plan[s] = "write" /\ s < task.cur => s < task'.cur
        /\ task.state \in Done /\ wk' # wk => task'.state = task.state
<1> DEFINE Kept == /\ DoneInv'
                   /\ \A s \in Steps : Plan[s] = "write" /\ s < task.cur => s < task'.cur
                   /\ task.state \in Done /\ wk' # wk => task'.state = task.state
<1> SUFFICES ASSUME TypeInv, LeaseInv, DoneInv, [Next]_vars PROVE Kept
    OBVIOUS
<1>0. /\ task \in Tasks /\ task.cur \in Nat /\ receipts \subseteq Receipts
      /\ \A s \in Steps : s \in Nat
    BY CurType, StepNumbers DEF TypeInv, TypeOK
\* An action of the clock, the human or the operator.
<1>o. ASSUME UNCHANGED <<wk, effects>>, Path(task') /\ Confirmed',
             \A s \in Steps : Plan[s] = "write" /\ s < task.cur => s < task'.cur
      PROVE  Kept
    BY <1>o DEF DoneInv
<1>u. ASSUME UNCHANGED <<exists, task, receipts, wk, effects>> PROVE Kept
    BY <1>u, <1>o, RowKept
<1>1. ASSUME NEW w \in Workers, Moving(w) PROVE Kept
    BY <1>1, MovingDone
<1>2. ASSUME NEW w \in Workers, Claim(w) PROVE Kept
    <2>1. UNCHANGED <<exists, task, receipts, effects>>
        BY <1>2 DEF Claim, history
    <2>2. Path(task') /\ Confirmed'
        BY <2>1, RowKept
    <2>3. wk' = [wk EXCEPT ![w] = [@ EXCEPT !.pc = "orphan", !.tok = gen + 1, !.left = wk[w].ms,
                                          !.base = task, !.mem = task]]
        BY <1>2 DEF Claim
    <2>4. /\ \A v \in Workers \ {w} : wk'[v] = wk[v]
          /\ wk'[w].pc = "orphan" /\ wk'[w].base = task /\ wk'[w].mem = task /\ wk'[w].rcpts = wk[w].rcpts
        BY <2>3 DEF TypeInv, WorkerInv, Locals
    <2>5. wk[w].rcpts = {}
        BY <1>2 DEF DoneInv, Honest, Claim
    <2>6. Honest(wk'[w], effects')
        BY <1>0, <2>4, <2>5 DEF DoneInv, Honest
    <2> QED BY <2>1, <2>2, <2>4, <2>6 DEF DoneInv
<1>3. ASSUME NEW w \in Workers, Park(w) PROVE Kept
    <2>1. \A v \in Workers \ {w} : wk'[v] = wk[v]
        BY <1>3, ParkMoves
    <2>2. effects' = effects
        BY <1>3 DEF Park, history
    <2>3. \A v \in Workers : Honest(wk'[v], effects')
        BY <1>3, <2>1, <2>2, ParkConfirms DEF DoneInv
    <2> QED BY <1>3, <2>3, ParkConfirms DEF DoneInv
<1>4. ASSUME NEW w \in Workers, Renew(w) PROVE Kept
    BY <1>4, <1>u DEF Renew, history
<1>5. CASE LeaseExpires
    BY <1>5, <1>u DEF LeaseExpires, history
<1>6. ASSUME NEW c \in CardIds, NEW r \in {"approved", "refused"}, Decide(c, r) \/ CardLapses(c)
      PROVE  Kept
    BY <1>6, <1>u DEF Decide, CardLapses, history
<1>7. CASE SweepCards
    BY <1>7, <1>u DEF SweepCards, history
<1>8. CASE Cancel
    <2> DEFINE n == [task EXCEPT !.state = "cancelled"]
    <2>1. /\ UNCHANGED <<exists, receipts, wk, effects>>
          /\ task' = task \/ task' = n
        BY <1>8 DEF Cancel, Mutate, history
    <2>2. Path(n) /\ n.cur = task.cur
        BY <1>0, PathState DEF DoneInv
    <2> HIDE DEF n
    <2>3. Path(task') /\ task'.cur = task.cur
        BY <2>1, <2>2 DEF DoneInv
    <2> QED BY <1>0, <1>o, <2>1, <2>3, RowMoves
<1>9. ASSUME NEW cp \in task.cps, Rollback(cp) PROVE Kept
    <2>1. UNCHANGED <<exists, receipts, wk, effects>> /\ task' = Rewound(task, cp) /\ ~HidesEffect(task, cp)
        BY <1>9 DEF Rollback, Mutate, history
    <2>2. /\ Path(task')
          /\ \A s \in Steps : Plan[s] = "write" => (s < task.cur <=> s < task'.cur)
        BY <1>0, <1>9, <2>1, PathRewound DEF DoneInv
    <2> QED BY <1>0, <1>o, <2>1, <2>2, RowMoves
<1>10. CASE Delete
    <2>1. task' = task /\ receipts' = {} /\ ~exists' /\ UNCHANGED <<wk, effects>>
        BY <1>10 DEF Delete, history
    <2>2. Path(task') /\ Confirmed'
        BY <2>1 DEF DoneInv, Confirmed, OneConfirmedEffectPerStep
    <2> QED BY <1>o, <2>1, <2>2
<1>11. CASE CancelSchedule
    BY <1>11, <1>u DEF CancelSchedule, history
<1>12. CASE UNCHANGED vars
    BY <1>12, <1>u DEF vars
<1> HIDE DEF Kept
<1> QED
    BY <1>1, <1>2, <1>3, <1>4, <1>5, <1>6, <1>7, <1>8, <1>9, <1>10, <1>11, <1>12
       DEF Next, WorkerStep, Moving

LEMMA DoneInvariance == Spec => [](TypeInv /\ LeaseInv /\ DoneInv)
BY LeaseInvariance, InitDone, DoneStep, PTL DEF Spec

\* A step's effect is confirmed at most once in the life of the task, for any plan
\* and whatever rollbacks, retries and claims come in between.
THEOREM ConfirmedOnce == Spec => []OneConfirmedEffectPerStep
<1>1. DoneInv => OneConfirmedEffectPerStep
    BY DEF DoneInv, Confirmed
<1> QED BY <1>1, DoneInvariance, PTL

\* A committed step that claims an external effect has the receipt of one that took
\* place: the payload and the receipts of a run are never apart.
THEOREM CompletedHasReceipt == Spec => []CompletedWriteHasReceipt
<1>1. DoneInv => CompletedWriteHasReceipt
    <2>1. ASSUME DoneInv, exists, NEW s \in Steps, Plan[s] = "write", task.step[s] = "completed"
          PROVE  \E r \in receipts : /\ r.step = s /\ r.ok
                                      /\ \E e \in effects : e.gen = r.gen /\ e.step = s
        <3>1. s < task.cur
            BY <2>1 DEF DoneInv, Path, Ordered
        <3> QED BY <2>1, <3>1 DEF DoneInv, Confirmed, Happened
    <2> QED BY <2>1 DEF CompletedWriteHasReceipt
<1> QED BY <1>1, DoneInvariance, PTL

\* No step hides an effect: neither a rollback, to an earlier or a later checkpoint,
\* nor the commit of a worker whose copy is old.
THEOREM NoEffectIsHidden == Spec => EffectsStayVisible
<1> DEFINE Visible == \A s \in Steps : Plan[s] = "write" /\ task.step[s] = "completed" =>
                          task'.step[s] = "completed"
<1>1. TypeInv /\ LeaseInv /\ DoneInv /\ [Next]_vars => Visible
    <2> SUFFICES ASSUME TypeInv, LeaseInv, DoneInv, [Next]_vars,
                        NEW s \in Steps, Plan[s] = "write", task.step[s] = "completed"
                 PROVE  task'.step[s] = "completed"
        OBVIOUS
    <2>1. s < task.cur
        BY DEF DoneInv, Path, Ordered
    <2>2. s < task'.cur /\ DoneInv'
        BY <2>1, DoneStep
    <2> QED BY <2>2 DEF DoneInv, Path, Ordered
<1>2. TypeInv /\ LeaseInv /\ DoneInv /\ [Next]_vars => [Visible]_vars
    BY <1>1
<1> HIDE DEF Visible
<1>3. [][Next]_vars /\ [](TypeInv /\ LeaseInv /\ DoneInv) => [][Visible]_vars
    BY <1>2, PTL
<1> QED BY <1>3, DoneInvariance, PTL DEF Spec, EffectsStayVisible, Visible

\* A worker that was running while the operator settled the task never takes it out
\* of its final state.
THEOREM SettledForWorkers == Spec => WorkersNeverRevive
<1> DEFINE Settled == task.state \in Done /\ wk' # wk => task'.state = task.state
<1>1. TypeInv /\ LeaseInv /\ DoneInv /\ [Next]_vars => [Settled]_vars
    BY DoneStep
<1> HIDE DEF Settled
<1>2. [][Next]_vars /\ [](TypeInv /\ LeaseInv /\ DoneInv) => [][Settled]_vars
    BY <1>1, PTL
<1> QED BY <1>2, DoneInvariance, PTL DEF Spec, WorkersNeverRevive, Settled

-----------------------------------------------------------------------------
(* The ledger of requests *)

\* What a step does to the requests: it claims for one, settles one that was
\* running, or the task goes with all of them.
LEMMA RunsMove ==
    TypeInv /\ [Next]_vars =>
        \/ \E w \in Workers : Claim(w)
        \/ \A k \in Keys : \/ runs'[k].state = runs[k].state
                           \/ runs[k].state = "running" /\ runs'[k].state \in {"completed", "failed"}
        \/ ~exists' /\ \A k \in Keys : runs'[k].state = "none"
<1> DEFINE Settles == \A k \in Keys :
               \/ runs'[k].state = runs[k].state
               \/ runs[k].state = "running" /\ runs'[k].state \in {"completed", "failed"}
<1> SUFFICES ASSUME TypeInv, [Next]_vars
             PROVE  \/ \E w \in Workers : Claim(w)
                    \/ Settles
                    \/ ~exists' /\ \A k \in Keys : runs'[k].state = "none"
    OBVIOUS
<1>0. UNCHANGED runs => Settles
    OBVIOUS
<1>1. ASSUME NEW x, NEW s \in {"completed", "failed"}, runs[x].state = "running",
             runs' = [runs EXCEPT ![x] = [@ EXCEPT !.state = s, !.token = 0]]
      PROVE  Settles
    <2>1. runs \in [Keys -> [state : RunStates, token : 0 .. MaxGen, ms : Nat]]
        BY DEF TypeInv, TypeOK
    <2>2. ASSUME NEW k \in Keys, k # x PROVE runs'[k] = runs[k]
        BY <1>1, <2>1, <2>2
    <2>3. ASSUME x \in Keys PROVE runs'[x].state = s
        <3>1. runs'[x] = [runs[x] EXCEPT !.state = s, !.token = 0]
            BY <1>1, <2>1, <2>3
        <3> QED BY <2>1, <2>3, <3>1
    <2> QED BY <1>1, <2>2, <2>3
<1>2. ASSUME NEW w \in Workers, Complete(w) \/ Fail(w) PROVE Settles
    BY <1>0, <1>1, <1>2 DEF Complete, Fail, OwnsRun
<1>3. ASSUME NEW w \in Workers, Moving(w), ~Complete(w), ~Fail(w) PROVE Settles
    <2>1. UNCHANGED runs
        BY <1>3 DEF Moving, ReadLedger, ClaimRefused, OrphanCheck, StopLoop, ObserveCancel,
           SelectBlocked, RaiseCard, NoCardLeft, ReadRuling, StartRead, FenceIntent, CommitIntent,
           PerformRead, PerformWrite, Record, Verify, CompleteRefused, StepRaises, FailAborts,
           Crash, LoseHeartbeat
    <2> QED BY <1>0, <2>1
<1>4. ASSUME NEW w \in Workers, Park(w) \/ Renew(w) PROVE Settles
    BY <1>0, <1>4 DEF Park, Renew
<1>5. ASSUME NEW c \in CardIds, NEW r \in {"approved", "refused"}, Decide(c, r) \/ CardLapses(c)
      PROVE  Settles
    BY <1>0, <1>5 DEF Decide, CardLapses
<1>6. CASE LeaseExpires \/ SweepCards \/ CancelSchedule \/ UNCHANGED vars
    <2>1. UNCHANGED runs
        BY <1>6 DEF LeaseExpires, SweepCards, CancelSchedule, vars
    <2> QED BY <1>0, <2>1
<1>7. ASSUME NEW t, Mutate(t) PROVE Settles
    BY <1>0, <1>7 DEF Mutate
<1>8. CASE Delete
    <2>1. ~exists' /\ \A k \in Keys : runs'[k].state = "none"
        BY <1>8 DEF Delete, NoRun
    <2> QED BY <2>1
<1> HIDE DEF Settles
<1> QED
    BY <1>2, <1>3, <1>4, <1>5, <1>6, <1>7, <1>8 DEF Next, WorkerStep, Moving, Cancel, Rollback

\* What a claim does to them: its own request runs or keeps its verdict, and no
\* other one goes on.
LEMMA ClaimSettles ==
    ASSUME TypeInv, NEW w \in Workers, Claim(w)
    PROVE  /\ \A k \in Keys \ {wk[w].key} :
                 /\ runs'[k].state # "running"
                 /\ runs[k].state # "running" => runs'[k].state = runs[k].state
           /\ wk[w].key \in Keys => \/ runs[wk[w].key].state = "none"
                                    \/ runs'[wk[w].key].state = runs[wk[w].key].state
<1> DEFINE x == wk[w].key
<1>1. runs \in [Keys -> [state : RunStates, token : 0 .. MaxGen, ms : Nat]] /\ runs' = ClaimedRuns(w)
    BY DEF TypeInv, TypeOK, Claim
<1>2. ASSUME NEW k \in Keys \ {x}
      PROVE  runs'[k] = IF runs[k].state = "running"
                        THEN [runs[k] EXCEPT !.state = "failed", !.token = 0] ELSE runs[k]
    BY <1>1, <1>2 DEF ClaimedRuns
<1>3. ASSUME NEW k \in Keys \ {x}
      PROVE  /\ runs'[k].state # "running"
             /\ runs[k].state # "running" => runs'[k].state = runs[k].state
    <2>1. CASE runs[k].state = "running"
        <3>1. runs'[k].state = "failed"
            BY <1>1, <1>2, <2>1
        <3> QED BY <2>1, <3>1
    <2> QED BY <1>2, <2>1
<1>4. ASSUME x \in Keys, runs[x].state # "none" PROVE runs'[x].state = runs[x].state
    <2>1. wk[w].row # "none"
        BY <1>4 DEF Claim, Collides
    <2>2. runs'[x] = [runs[x] EXCEPT !.token = gen + 1]
        BY <1>1, <1>4, <2>1 DEF ClaimedRuns
    <2> QED BY <1>1, <1>4, <2>2
<1> QED BY <1>3, <1>4

\* At most one request of the task is open, for any number of requests.
THEOREM RequestsApart == Spec => []OneOpenRequest
<1>1. Init => OneOpenRequest
    BY DEF Init, NoRun, OneOpenRequest
<1>2. TypeInv /\ OneOpenRequest /\ [Next]_vars => OneOpenRequest'
    <2> SUFFICES ASSUME TypeInv, OneOpenRequest, [Next]_vars,
                        NEW k \in Keys, NEW l \in Keys,
                        runs'[k].state = "running", runs'[l].state = "running"
                 PROVE  k = l
        BY DEF OneOpenRequest
    <2>1. CASE \E w \in Workers : Claim(w)
        BY <2>1, ClaimSettles
    <2>2. CASE ~\E w \in Workers : Claim(w)
        BY <2>2, RunsMove DEF OneOpenRequest
    <2> QED BY <2>1, <2>2
<1> QED BY <1>1, <1>2, TypeInvariance, PTL DEF Spec

\* The ledger's answer to a request never changes while the task is there: a replay
\* returns what the first caller was told.
THEOREM AnswersAreFinal == Spec => VerdictsAreFinal
<1> DEFINE Final == \A k \in Keys : exists' /\ runs[k].state \in {"completed", "failed"} =>
                        runs'[k].state = runs[k].state
<1>1. TypeInv /\ [Next]_vars => Final
    <2> SUFFICES ASSUME TypeInv, [Next]_vars, NEW k \in Keys, exists',
                        runs[k].state \in {"completed", "failed"}
                 PROVE  runs'[k].state = runs[k].state
        OBVIOUS
    <2>1. CASE \E w \in Workers : Claim(w)
        BY <2>1, ClaimSettles
    <2>2. CASE ~\E w \in Workers : Claim(w)
        BY <2>2, RunsMove
    <2> QED BY <2>1, <2>2
<1>2. TypeInv /\ [Next]_vars => [Final]_vars
    BY <1>1
<1> HIDE DEF Final
<1>3. [][Next]_vars /\ []TypeInv => [][Final]_vars
    BY <1>2, PTL
<1> QED BY <1>3, TypeInvariance, PTL DEF Spec, VerdictsAreFinal, Final
=============================================================================
