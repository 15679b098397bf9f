------------------------------ MODULE WorkflowGate ------------------------------
(***************************************************************************)
(* One workflow, its runs, and the requests that start, decide, edit and   *)
(* delete them.  Each request is one READ COMMITTED transaction: it reads  *)
(* rows that nothing locks, works on its copy (perhaps for minutes, while  *)
(* a council step calls the provider) and writes the copy back.  A run     *)
(* stops in front of every effect step, seals what the gate shows, and     *)
(* continues when the pending step is decided.                             *)
(*                                                                         *)
(* A step is [id, effect, text, uses]: the variant of its template and the *)
(* earlier steps the template refers to.  Rendering keeps the text and the *)
(* results that were there to be substituted; a missing one renders as     *)
(* nothing.                                                                *)
(***************************************************************************)
EXTENDS Naturals, Sequences, FiniteSets

CONSTANTS
    Definitions,    \* the definitions the owner may save: sequences of steps
    First,          \* the one the workflow was created with
    RunIds,         \* bound: runs ever started
    Keys,           \* values of the Idempotency-Key header
    NoKey,          \* the header is absent
    Gone,           \* the workflow was deleted
    Starters,       \* requests in flight, by what they do
    Deciders, Editors, Deleters

Requests == Starters \union Deciders \union Editors \union Deleters
StepIds == UNION {{d[i].id : i \in DOMAIN d} : d \in Definitions}

None == "none"

\* parse_definition: steps have ids of their own and refer to earlier steps.  None,
\* which stands where there is no step, run or result, is none of them.
ASSUME DefinitionAssumption ==
    /\ First \in Definitions /\ Gone \notin Definitions /\ None \notin RunIds
    /\ \A d \in Definitions : Len(d) \in Nat /\ DOMAIN d = 1 .. Len(d)
    /\ \A d \in Definitions : \A i \in DOMAIN d :
          /\ d[i].id # None /\ d[i].text # None
          /\ \A j \in DOMAIN d : d[i].id = d[j].id => i = j
          /\ d[i].uses \subseteq {d[j].id : j \in 1 .. i - 1}

VARIABLES
    def,        \* workflows.definition
    runs,       \* committed rows of workflow_runs
    written,    \* history: payloads each step of each run has written
    shown,      \* history: payloads a gate of each run has shown
    peak,       \* history: the most requests that ever held a copy of a run at once
    req         \* each request's locals

vars == <<def, runs, written, shown, peak, req>>

NoRun == [status |-> "absent", pending |-> None, seal |-> {}, key |-> NoKey,
          done |-> [s \in StepIds |-> None], ruling |-> [s \in StepIds |-> None]]
Rest == [pc |-> "idle", def |-> Gone, id |-> None, row |-> NoRun]

Init ==
    /\ def = First
    /\ runs = [r \in RunIds |-> NoRun]
    /\ written = [r \in RunIds |-> [s \in StepIds |-> <<>>]]
    /\ shown = [r \in RunIds |-> {}]
    /\ peak = 0
    /\ req = [p \in Requests |-> Rest]

Exists(r) == runs[r].status \notin {"absent", "deleted"}
Waiting == {r \in RunIds : runs[r].status = "awaiting"}
\* Requests that hold the row of a run: inserted or updated, not yet committed.
Holders == {p \in Requests : req[p].pc = "run"}

-----------------------------------------------------------------------------
(* The engine, on a request's copy of the row *)

\* render_template over the results completed so far.
Payload(step, done) ==
    [step |-> step.id, text |-> step.text, seen |-> {<<s, done[s]>> : s \in {u \in step.uses : done[u] # None}}]
DoneBefore(d, i, row) ==
    [s \in StepIds |-> IF \E j \in 1 .. i - 1 : d[j].id = s
                       THEN LET j == CHOOSE j \in 1 .. i - 1 : d[j].id = s
                            IN  IF row.done[s] = None THEN d[j].text ELSE row.done[s]
                       ELSE row.done[s]]
\* Mutant: resuming starts over with the approvals granted so far.
TodoAll(d, row) == DOMAIN d
Todo(d, row) == {i \in DOMAIN d : row.done[d[i].id] = None}
\* Where the loop stops: the first step left that is an effect nobody approved.
Gates(d, row) == {i \in Todo(d, row) : d[i].effect /\ row.ruling[d[i].id] # "approved"}
Stop(d, row) == IF Gates(d, row) = {} THEN Len(d) + 1 ELSE CHOOSE i \in Gates(d, row) : \A j \in Gates(d, row) : i <= j

\* pending_payload_sha256 of what the gate shows.
Seal(d, i, row) == {Payload(d[i], row.done)}

\* Mutant: the seal outlives the gate.
RanSealed(d, n, row) ==
    LET after == [row EXCEPT !.done = DoneBefore(d, n, row), !.pending = None, !.seal = Seal(d, 1, row)]
    IN  IF n > Len(d) THEN [after EXCEPT !.status = "completed"]
        ELSE IF n < Stop(d, row) THEN [after EXCEPT !.status = "failed"]
        ELSE IF row.ruling[d[n].id] = "rejected" THEN [after EXCEPT !.status = "halted"]
        ELSE [after EXCEPT !.status = "awaiting", !.pending = d[n].id, !.seal = Seal(d, n, after)]
\* WorkflowEngine.run up to, not including, index n, and _advance's write back.
Ran(d, n, row) ==
    LET after == [row EXCEPT !.done = DoneBefore(d, n, row), !.pending = None, !.seal = {}]
    IN  IF n > Len(d) THEN [after EXCEPT !.status = "completed"]
        ELSE IF n < Stop(d, row) THEN [after EXCEPT !.status = "failed"]
        ELSE IF row.ruling[d[n].id] = "rejected" THEN [after EXCEPT !.status = "halted"]
        ELSE [after EXCEPT !.status = "awaiting", !.pending = d[n].id, !.seal = Seal(d, n, after)]
\* The payloads of the effect steps that ran on the way.
Wrote(d, n, row) ==
    {Payload(d[i], DoneBefore(d, i, row)) : i \in {j \in Todo(d, row) : j < n /\ d[j].effect}}

-----------------------------------------------------------------------------
Step(p, pcs) == req[p].pc \in pcs
Leave(p) == req' = [req EXCEPT ![p] = Rest]
\* Requests that are past their checks and work on a copy of a run, and one more.
Copying == {p \in Requests : req[p].id # None}
Joins(p) ==
    LET n == Cardinality(Copying \union {p})
    IN  peak' = IF n > peak THEN n ELSE peak

(* POST /runs *)
StartRead(p) ==
    /\ p \in Starters /\ Step(p, {"idle"})
    /\ def # Gone
    /\ \E k \in Keys \union {NoKey} :
          req' = [req EXCEPT ![p] = [Rest EXCEPT !.pc = "check", !.def = def, !.row.key = k]]
    /\ UNCHANGED <<def, runs, written, shown, peak>>

Replayed(k) == k # NoKey /\ \E r \in RunIds : Exists(r) /\ runs[r].key = k
Fresh(r) == runs[r].status = "absent" /\ \A p \in Requests : req[p].id # r

StartCheck(p) ==
    /\ Step(p, {"check"})
    /\ \/ Replayed(req[p].row.key) \/ Waiting # {}
       \/ \A r \in RunIds : ~Fresh(r)
    /\ Leave(p)
    /\ UNCHANGED <<def, runs, written, shown, peak>>

\* Mutant: a start does not look for an open gate.
StartInsertBeside(p) ==
    /\ Step(p, {"check"})
    /\ ~Replayed(req[p].row.key)
    /\ \E r \in RunIds :
          /\ Fresh(r)
          /\ req' = [req EXCEPT ![p] = [@ EXCEPT !.pc = "insert", !.id = r, !.row.status = "running"]]
    /\ Joins(p)
    /\ UNCHANGED <<def, runs, written, shown>>
\* Neither key nor gate stands in the way; INSERT needs the workflow's row.
StartInsert(p) ==
    /\ Step(p, {"check"})
    /\ ~Replayed(req[p].row.key)
    /\ Waiting = {}
    /\ \E r \in RunIds :
          /\ Fresh(r)
          /\ req' = [req EXCEPT ![p] = [@ EXCEPT !.pc = "insert", !.id = r, !.row.status = "running"]]
    /\ Joins(p)
    /\ UNCHANGED <<def, runs, written, shown>>
Insert(p) ==
    /\ Step(p, {"insert"})
    /\ req' = [req EXCEPT ![p] = IF def = Gone THEN Rest ELSE [@ EXCEPT !.pc = "run"]]
    /\ UNCHANGED <<def, runs, written, shown, peak>>

\* idx_workflow_runs_idempotency, when meta is flushed with the key.
Taken(k, r) == k # NoKey /\ \E q \in RunIds \ {r} : Exists(q) /\ runs[q].key = k

\* The engine runs as far as it can, or a handler raises on the way; the row and
\* the effects commit together.
Advance(p) ==
    /\ Step(p, {"run"})
    /\ LET q == req[p]
           n == Stop(q.def, q.row)
       IN  \E m \in {n} \union {i \in Todo(q.def, q.row) : i < n} :
              LET row == Ran(q.def, m, q.row)
                  new == Wrote(q.def, m, q.row)
              IN  IF Taken(q.row.key, q.id) THEN UNCHANGED <<runs, written, shown>>
                  ELSE /\ runs' = [runs EXCEPT ![q.id] = row]
                       /\ written' = [written EXCEPT ![q.id] =
                             [s \in StepIds |-> IF \E e \in new : e.step = s
                                                THEN Append(@[s], CHOOSE e \in new : e.step = s) ELSE @[s]]]
                       /\ shown' = [shown EXCEPT ![q.id] =
                             IF row.status = "awaiting"
                             THEN @ \union {Payload(q.def[m], row.done)} ELSE @]
    /\ Leave(p)
    /\ UNCHANGED <<def, peak>>

-----------------------------------------------------------------------------
(* POST /runs/{id}/approve *)
DecideRead(p) ==
    /\ p \in Deciders /\ Step(p, {"idle"})
    /\ def # Gone
    /\ req' = [req EXCEPT ![p] = [Rest EXCEPT !.pc = "decide", !.def = def]]
    /\ UNCHANGED <<def, runs, written, shown, peak>>

At(d, s) == CHOOSE i \in DOMAIN d : d[i].id = s
EffectIds(d) == {d[i].id : i \in {j \in DOMAIN d : d[j].effect}}
\* Mutant: the approval is not bound to what the gate showed.
SealHoldsAlways(d, row) == TRUE
SealHolds(d, row) == Seal(d, At(d, row.pending), row) = row.seal
\* resume_run's refusals.
MayDecide(d, row, ruling) ==
    /\ row.status = "awaiting"
    /\ row.pending \in EffectIds(d)
    /\ ruling = "approved" => SealHolds(d, row)

DecideCheck(p, r, ruling) ==
    /\ Step(p, {"decide"})
    /\ Exists(r)
    /\ LET row == runs[r]
       IN  IF ~MayDecide(req[p].def, row, ruling) THEN Leave(p) /\ UNCHANGED peak
           ELSE /\ req' = [req EXCEPT ![p] = [@ EXCEPT !.pc = "flush", !.id = r,
                      !.row = [row EXCEPT !.status = "running", !.pending = None,
                                          !.ruling[row.pending] = ruling]]]
                /\ Joins(p)
    /\ UNCHANGED <<def, runs, written, shown>>

\* UPDATE .. WHERE id: waits for whoever holds the row and then overwrites it; a
\* row that is gone is an error.
Flush(p) ==
    /\ Step(p, {"flush"})
    /\ \A q \in Holders : req[q].id # req[p].id
    /\ req' = [req EXCEPT ![p] = IF Exists(req[p].id) THEN [@ EXCEPT !.pc = "run"] ELSE Rest]
    /\ UNCHANGED <<def, runs, written, shown, peak>>

-----------------------------------------------------------------------------
(* PATCH and DELETE *)
EditCheck(p) ==
    /\ p \in Editors /\ Step(p, {"idle"})
    /\ def # Gone /\ Waiting = {}
    /\ \E d \in Definitions \ {def} : req' = [req EXCEPT ![p] = [Rest EXCEPT !.pc = "save", !.def = d]]
    /\ UNCHANGED <<def, runs, written, shown, peak>>
EditSave(p) ==
    /\ Step(p, {"save"})
    /\ def' = IF def = Gone THEN Gone ELSE req[p].def
    /\ Leave(p)
    /\ UNCHANGED <<runs, written, shown, peak>>

DeleteCheck(p) ==
    /\ p \in Deleters /\ Step(p, {"idle"})
    /\ def # Gone /\ Waiting = {}
    /\ req' = [req EXCEPT ![p] = [Rest EXCEPT !.pc = "delete"]]
    /\ UNCHANGED <<def, runs, written, shown, peak>>
\* Waits for the rows others hold; the foreign key takes the runs that were
\* committed meanwhile too.
Delete(p) ==
    /\ Step(p, {"delete"})
    /\ Holders = {}
    /\ def' = Gone
    /\ runs' = [r \in RunIds |-> IF runs[r].status = "absent" THEN NoRun ELSE [NoRun EXCEPT !.status = "deleted"]]
    /\ Leave(p)
    /\ UNCHANGED <<written, shown, peak>>

\* The process dies or the database refuses: nothing of the request is committed.
Abort(p) ==
    /\ ~Step(p, {"idle"})
    /\ Leave(p)
    /\ UNCHANGED <<def, runs, written, shown, peak>>

-----------------------------------------------------------------------------
Decide(p, r, ruling) == DecideCheck(p, r, ruling)
Next ==
    \E p \in Requests :
        \/ StartRead(p) \/ StartCheck(p) \/ StartInsert(p) \/ Insert(p) \/ Advance(p)
        \/ DecideRead(p) \/ Flush(p)
        \/ \E r \in RunIds, ruling \in {"approved", "rejected"} : Decide(p, r, ruling)
        \/ EditCheck(p) \/ EditSave(p) \/ DeleteCheck(p) \/ Delete(p) \/ Abort(p)

Spec == Init /\ [][Next]_vars

-----------------------------------------------------------------------------
(* Properties *)

Statuses == {"absent", "running", "awaiting", "completed", "halted", "failed", "deleted"}
\* The rows have their type; a run that waits has a gate and a seal, no other has.
TypeOK ==
    /\ def \in Definitions \union {Gone}
    /\ \A r \in RunIds :
          /\ runs[r].status \in Statuses \ {"running"}
          /\ (runs[r].status = "awaiting") <=> (runs[r].pending # None)
          /\ (runs[r].pending = None) <=> (runs[r].seal = {})
          /\ runs[r].pending # None => runs[r].done[runs[r].pending] = None
    /\ \A p \in Requests : req[p].pc \in {"idle", "check", "insert", "run", "decide", "flush", "save", "delete"}

\* Nothing is written but what a gate of that run showed, though the text of a step is
\* edited while a start or a decision is under way: resume_run's seal, as far as edits
\* keep the steps and their order.
EffectWasShown ==
    \A r \in RunIds, s \in StepIds : \A i \in DOMAIN written[r][s] : written[r][s][i] \in shown[r]

\* What the record says about effects is what happened, as far as edits keep the effects
\* and decisions come one at a time: each effect it lists as done was written once in
\* the whole life of the run, no other was written, and each one written has its
\* approval in the record.
RecordTellsEffects ==
    \A r \in RunIds, s \in EffectIds(First) : Exists(r) =>
        /\ Len(written[r][s]) = IF runs[r].done[s] # None THEN 1 ELSE 0
        /\ written[r][s] # <<>> => runs[r].ruling[s] = "approved"

\* start_run's refusal locks nothing, so more gates than one may open, but never more
\* than there were requests at once between their check and their commit: gates do not
\* pile up from one request to the next.
GateOvershoot == Cardinality(Waiting) <= peak

\* Only one run may sit at a gate at a time.
OneOpenGate == Cardinality(Waiting) <= 1

\* No gate is ever silently discarded.
NoGateDiscarded == [][\A r \in Waiting : runs'[r].status # "deleted"]_vars

\* The owner can always close a run whose definition changed behind the gate.
WaitingCanBeClosed == \A r \in Waiting : MayDecide(def, runs[r], "rejected")
=============================================================================
