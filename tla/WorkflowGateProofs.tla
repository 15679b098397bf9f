---------------------------- MODULE WorkflowGateProofs ----------------------------
(***************************************************************************)
(* What the seal and the record of a workflow's run are worth, for any     *)
(* steps, runs and requests that overlap.  No row is locked between a      *)
(* request's reading and its writing, so the two theorems on effects have  *)
(* hypotheses on edits and deciders.  How many gates may be open has none. *)
(***************************************************************************)
EXTENDS WorkflowGate, FiniteSetTheorems, WellFoundedInduction, TLAPS

\* Edits that keep the steps and their order: what they say, whether they are effects
\* and what they quote may change.
SameSteps ==
    \A d, e \in Definitions : Len(d) = Len(e) /\ \A i \in 1 .. Len(d) : d[i].id = e[i].id
\* Edits that keep the effects by name: reads come and go, everything moves.
SameEffects == \A d, e \in Definitions : EffectIds(d) = EffectIds(e)
\* No two requests decide.
OneDecider == \A p, q \in Deciders : p = q

Texts == UNION {{d[i].text : i \in DOMAIN d} : d \in Definitions}
Rulings == {None, "approved", "rejected"}
Shows == [step : StepIds, text : Texts, seen : SUBSET (StepIds \X Texts)]
Rows == [status : Statuses, pending : StepIds \union {None}, seal : SUBSET Shows, key : Keys \union {NoKey},
         done : [StepIds -> Texts \union {None}], ruling : [StepIds -> Rulings]]
Pcs == {"idle", "check", "insert", "run", "decide", "flush", "save", "delete"}
Locals == [pc : Pcs, def : Definitions \union {Gone}, id : RunIds \union {None}, row : Rows]
Blank == [s \in StepIds |-> None]

Types ==
    /\ def \in Definitions \union {Gone} /\ runs \in [RunIds -> Rows] /\ req \in [Requests -> Locals]
    /\ written \in [RunIds -> [StepIds -> Seq(Shows)]] /\ shown \in [RunIds -> SUBSET Shows]

\* A request works on the copy of a row.
Copies(p) == req[p].id # None

\* A row at rest: it has a gate just when it waits, and nothing was done there.
AtRest(row) ==
    /\ row.status # "running"
    /\ row.status = "awaiting" <=> row.pending # None
    /\ row.pending = None <=> row.seal = {}
    /\ row.pending # None => row.done[row.pending] = None

Fits(l) ==
    /\ l.id # None <=> l.pc \in {"insert", "flush", "run"}
    /\ l.pc \in {"check", "insert", "run", "decide", "flush", "save"} => l.def \in Definitions
    /\ l.pc = "check" => l.row.done = Blank /\ l.row.ruling = Blank

GateInv ==
    /\ Types
    /\ \A r \in RunIds : AtRest(runs[r])
    /\ \A p \in Requests : Fits(req[p]) /\ (req[p].pc = "decide" => p \in Deciders)
    /\ def = Gone => \A r \in RunIds : ~Exists(r)
    /\ def = Gone => \A p \in Requests : req[p].pc # "run"

\* The runs that wait or are worked on: no more than there were requests at work at once.
Busy == Waiting \union {req[p].id : p \in Copying}
CrowdInv ==
    /\ peak \in Nat
    /\ IsFiniteSet(Copying) /\ Cardinality(Copying) <= peak
    /\ IsFiniteSet(Busy) /\ Cardinality(Busy) <= peak

-----------------------------------------------------------------------------
\* A run that waits has done all that was approved and all before its gate, whatever
\* definition is in force by the time it is decided.
Gated(row, seen) ==
    /\ row.seal \subseteq seen
    /\ \A s \in StepIds : row.ruling[s] = "approved" => row.done[s] # None
    /\ \A d \in Definitions : \A i \in DOMAIN d :
          d[i].id = row.pending => \A j \in 1 .. i - 1 : row.done[d[j].id] # None
\* A copy of it has at most one step left that is approved: the next one, as shown.
Ready(d, row, seen) ==
    \A i \in DOMAIN d : row.ruling[d[i].id] = "approved" /\ row.done[d[i].id] = None =>
        /\ \A j \in 1 .. i - 1 : row.done[d[j].id] # None
        /\ Payload(d[i], row.done) \in seen

ShownInv ==
    /\ SameSteps
    /\ \A r \in Waiting : Gated(runs[r], shown[r])
    /\ \A p \in Requests : Copies(p) => Ready(req[p].def, req[p].row, shown[req[p].id])
    /\ EffectWasShown

-----------------------------------------------------------------------------
\* A row or a copy of it lists the effects that were written.
Tells(row, log) ==
    \A s \in EffectIds(First) :
        /\ Len(log[s]) = IF row.done[s] # None THEN 1 ELSE 0
        /\ log[s] # <<>> => row.ruling[s] = "approved"

RecordInv ==
    /\ SameEffects /\ OneDecider
    /\ \A r \in RunIds : IF Exists(r) THEN Tells(runs[r], written[r])
                         ELSE runs[r].status = "absent" => \A s \in StepIds : written[r][s] = <<>>
    /\ \A p \in Requests : Copies(p) => Tells(req[p].row, written[req[p].id])
    /\ \A p, q \in Requests : Copies(p) /\ req[p].id = req[q].id => p = q
    /\ \A p \in Requests : Copies(p) => p \in Deciders \/ runs[req[p].id].status = "absent"

-----------------------------------------------------------------------------
(* Definitions, renderings and the engine *)

LEMMA SmallestIndex ==
    ASSUME NEW T, T \subseteq Nat, T # {}
    PROVE  \E i \in T : \A j \in T : i <= j
<1> DEFINE Less == OpToRel(<, Nat)
<1>1. IsWellFoundedOn(Less, Nat)
    BY NatLessThanWellFounded, Zenon
<1>2. \A x, y \in Nat : y < x => <<y, x>> \in Less
    BY DEF OpToRel
<1> HIDE DEF Less
<1>3. PICK i \in T : \A j \in T : ~(<<j, i>> \in Less)
    BY <1>1, WFMin, Zenon
<1>4. \A j \in T : ~(j < i)
    BY <1>2, <1>3, Zenon
<1> QED BY <1>4

\* The steps of a definition.
LEMMA StepsOf ==
    ASSUME NEW d \in Definitions
    PROVE  /\ Len(d) \in Nat /\ DOMAIN d = 1 .. Len(d)
           /\ \A i \in 1 .. Len(d) :
                 /\ d[i].id \in StepIds /\ d[i].id # None
                 /\ d[i].text \in Texts /\ d[i].text # None
                 /\ \A j \in 1 .. Len(d) : d[i].id = d[j].id => i = j
                 /\ \A s \in d[i].uses : \E j \in 1 .. i - 1 : j \in 1 .. Len(d) /\ d[j].id = s
<1>1. /\ Len(d) \in Nat /\ DOMAIN d = 1 .. Len(d)
      /\ \A i \in DOMAIN d :
            /\ d[i].id # None /\ d[i].text # None
            /\ \A j \in DOMAIN d : d[i].id = d[j].id => i = j
            /\ d[i].uses \subseteq {d[j].id : j \in 1 .. i - 1}
    BY DefinitionAssumption DEF DefinitionAssumption
<1>2. \A i \in DOMAIN d : d[i].id \in StepIds /\ d[i].text \in Texts
    BY DEF StepIds, Texts
<1>3. ASSUME NEW i \in 1 .. Len(d), NEW s \in d[i].uses
      PROVE  \E j \in 1 .. i - 1 : j \in 1 .. Len(d) /\ d[j].id = s
    <2>1. PICK j \in 1 .. i - 1 : d[j].id = s
        BY <1>1, <1>3
    <2>2. j \in 1 .. Len(d)
        BY <1>1
    <2> QED BY <2>1, <2>2
<1> QED BY <1>1, <1>2, <1>3

LEMMA PayloadType ==
    ASSUME NEW d \in Definitions, NEW i \in 1 .. Len(d), NEW done \in [StepIds -> Texts \union {None}]
    PROVE  Payload(d[i], done) \in Shows /\ Payload(d[i], done).step = d[i].id
<1>1. d[i].id \in StepIds /\ d[i].text \in Texts
    BY StepsOf
<1>2. d[i].uses \subseteq StepIds
    <2> SUFFICES ASSUME NEW s \in d[i].uses PROVE s \in StepIds
        OBVIOUS
    <2>1. PICK j \in 1 .. Len(d) : d[j].id = s
        BY StepsOf
    <2> QED BY <2>1, StepsOf
<1>3. {<<s, done[s]>> : s \in {u \in d[i].uses : done[u] # None}} \in SUBSET (StepIds \X Texts)
    BY <1>2
<1> QED BY <1>1, <1>3 DEF Payload, Shows

\* Rendering looks at the results of the steps that a step quotes.
LEMMA PayloadSame ==
    ASSUME NEW step, NEW done, NEW done2, \A s \in step.uses : done2[s] = done[s]
    PROVE  Payload(step, done2) = Payload(step, done)
<1>1. {u \in step.uses : done2[u] # None} = {u \in step.uses : done[u] # None}
    OBVIOUS
<1>2. {<<s, done2[s]>> : s \in {u \in step.uses : done2[u] # None}}
        = {<<s, done[s]>> : s \in {u \in step.uses : done[u] # None}}
    BY <1>1
<1> QED BY <1>2 DEF Payload

LEMMA DoneOf ==
    ASSUME NEW d \in Definitions, NEW row \in Rows, NEW n \in 1 .. Len(d) + 1
    PROVE  /\ DoneBefore(d, n, row) \in [StepIds -> Texts \union {None}]
           /\ \A s \in StepIds : row.done[s] # None => DoneBefore(d, n, row)[s] = row.done[s]
           /\ \A s \in StepIds : DoneBefore(d, n, row)[s] # None
                                    <=> row.done[s] # None \/ \E j \in 1 .. n - 1 : d[j].id = s
<1> DEFINE b == DoneBefore(d, n, row)
<1>1. row.done \in [StepIds -> Texts \union {None}]
    BY DEF Rows
<1>2. ASSUME NEW s \in StepIds
      PROVE  /\ b[s] \in Texts \union {None}
             /\ row.done[s] # None => b[s] = row.done[s]
             /\ b[s] # None <=> row.done[s] # None \/ \E j \in 1 .. n - 1 : d[j].id = s
    <2>1. CASE \E j \in 1 .. n - 1 : d[j].id = s
        <3> DEFINE k == CHOOSE j \in 1 .. n - 1 : d[j].id = s
        <3>1. k \in 1 .. n - 1 /\ d[k].id = s
            BY <2>1
        <3>2. k \in 1 .. Len(d)
            BY <3>1, StepsOf
        <3>3. d[k].text \in Texts /\ d[k].text # None
            BY <3>2, StepsOf
        <3>4. b[s] = IF row.done[s] = None THEN d[k].text ELSE row.done[s]
            BY <2>1 DEF DoneBefore
        <3> HIDE DEF k, b
        <3> QED BY <1>1, <2>1, <3>3, <3>4
    <2>2. CASE ~ \E j \in 1 .. n - 1 : d[j].id = s
        <3>1. b[s] = row.done[s]
            BY <2>2 DEF DoneBefore
        <3> HIDE DEF b
        <3> QED BY <1>1, <2>2, <3>1
    <2> QED BY <2>1, <2>2
<1>3. b = [s \in StepIds |-> b[s]]
    BY Zenon DEF DoneBefore
<1> HIDE DEF b
<1>4. b \in [StepIds -> Texts \union {None}]
    BY <1>2, <1>3
<1> QED BY <1>2, <1>4 DEF b

LEMMA StopOf ==
    ASSUME NEW d \in Definitions, NEW row
    PROVE  /\ Stop(d, row) \in 1 .. Len(d) + 1
           /\ \A i \in Gates(d, row) : Stop(d, row) <= i
           /\ Stop(d, row) # Len(d) + 1 => Stop(d, row) \in Gates(d, row)
<1>1. Len(d) \in Nat /\ Gates(d, row) \subseteq 1 .. Len(d)
    BY StepsOf DEF Gates, Todo
<1>2. CASE Gates(d, row) = {}
    BY <1>1, <1>2 DEF Stop
<1>3. CASE Gates(d, row) # {}
    <2>1. Gates(d, row) \subseteq Nat
        BY <1>1
    <2>2. \E i \in Gates(d, row) : \A j \in Gates(d, row) : i <= j
        BY <1>3, <2>1, SmallestIndex
    <2>3. Stop(d, row) = CHOOSE i \in Gates(d, row) : \A j \in Gates(d, row) : i <= j
        BY <1>3 DEF Stop
    <2>4. Stop(d, row) \in Gates(d, row) /\ \A j \in Gates(d, row) : Stop(d, row) <= j
        BY <2>2, <2>3
    <2> QED BY <1>1, <2>4
<1> QED BY <1>2, <1>3

\* How far a request may get: to the gate, or to a step that raises.
Reached(d, row, m) == m = Stop(d, row) \/ (m \in Todo(d, row) /\ m < Stop(d, row))

\* A row has its fields; they can be changed one at a time.
LEMMA RowFields ==
    ASSUME NEW row \in Rows
    PROVE  /\ row.status \in Statuses /\ row.pending \in StepIds \union {None} /\ row.seal \in SUBSET Shows
           /\ row.key \in Keys \union {NoKey} /\ row.done \in [StepIds -> Texts \union {None}]
           /\ row.ruling \in [StepIds -> Rulings]
BY DEF Rows

LEMMA RanOf ==
    ASSUME NEW d \in Definitions, NEW row \in Rows, NEW m, Reached(d, row, m)
    PROVE  /\ m \in 1 .. Len(d) + 1
           /\ Ran(d, m, row) \in Rows /\ AtRest(Ran(d, m, row))
           /\ Ran(d, m, row).done = DoneBefore(d, m, row) /\ Ran(d, m, row).ruling = row.ruling
           /\ Ran(d, m, row).status \in {"completed", "failed", "halted", "awaiting"}
           /\ Ran(d, m, row).status = "awaiting" =>
                 /\ m \in Gates(d, row) /\ Ran(d, m, row).pending = d[m].id
                 /\ Ran(d, m, row).seal = {Payload(d[m], Ran(d, m, row).done)}
<1> DEFINE b == DoneBefore(d, m, row)
           after == [row EXCEPT !.done = b, !.pending = None, !.seal = {}]
           u == Ran(d, m, row)
<1>1. m \in 1 .. Len(d) + 1 /\ Len(d) \in Nat /\ (m <= Len(d) => m \in 1 .. Len(d))
    BY StopOf, StepsOf DEF Reached, Todo
<1>2. b \in [StepIds -> Texts \union {None}]
    BY <1>1, DoneOf
<1> HIDE DEF b
<1>3. /\ after \in Rows /\ after.done = b /\ after.pending = None /\ after.seal = {} /\ after.ruling = row.ruling
    BY <1>2 DEF Rows
<1> HIDE DEF after
<1>4. u = IF m > Len(d) THEN [after EXCEPT !.status = "completed"]
          ELSE IF m < Stop(d, row) THEN [after EXCEPT !.status = "failed"]
          ELSE IF row.ruling[d[m].id] = "rejected" THEN [after EXCEPT !.status = "halted"]
          ELSE [after EXCEPT !.status = "awaiting", !.pending = d[m].id, !.seal = Seal(d, m, after)]
    BY DEF Ran, after, b
<1> HIDE DEF u
<1>5. ASSUME NEW st \in {"completed", "failed", "halted"}, u = [after EXCEPT !.status = st]
      PROVE  /\ u \in Rows /\ AtRest(u) /\ u.done = b /\ u.ruling = row.ruling /\ u.status = st
    <2>1. u \in Rows /\ u.done = b /\ u.ruling = row.ruling /\ u.status = st /\ u.pending = None /\ u.seal = {}
        BY <1>3, <1>5 DEF Rows, Statuses
    <2> QED BY <2>1 DEF AtRest
<1>6. ASSUME m <= Len(d), ~(m < Stop(d, row)),
             u = [after EXCEPT !.status = "awaiting", !.pending = d[m].id, !.seal = Seal(d, m, after)]
      PROVE  /\ u \in Rows /\ AtRest(u) /\ u.done = b /\ u.ruling = row.ruling /\ u.status = "awaiting"
             /\ m \in Gates(d, row) /\ u.pending = d[m].id /\ u.seal = {Payload(d[m], u.done)}
    <2>1. m = Stop(d, row) /\ m # Len(d) + 1
        BY <1>1, <1>6 DEF Reached
    <2>2. m \in Gates(d, row)
        BY <2>1, StopOf
    <2>3. d[m].id \in StepIds /\ d[m].id # None
        BY <1>1, <1>6, StepsOf
    <2>4. Seal(d, m, after) = {Payload(d[m], b)} /\ Seal(d, m, after) \in SUBSET Shows
        BY <1>1, <1>2, <1>3, <1>6, PayloadType DEF Seal
    <2> DEFINE se == Seal(d, m, after)
               id == d[m].id
    <2> HIDE DEF se, id
    <2>5. u \in Rows /\ u.done = b /\ u.ruling = row.ruling /\ u.status = "awaiting" /\ u.pending = id /\ u.seal = se
        BY <1>3, <1>6, <2>3, <2>4 DEF Rows, Statuses, se, id
    <2>6. b[id] = None
        <3>1. row.done[id] = None /\ ~ \E j \in 1 .. m - 1 : d[j].id = id
            <4>1. row.done[id] = None
                BY <2>2 DEF Gates, Todo, id
            <4>2. ASSUME NEW j \in 1 .. m - 1 PROVE d[j].id # id
                <5>1. j \in 1 .. Len(d) /\ j # m /\ m \in 1 .. Len(d)
                    BY <1>1, <1>6
                <5> QED BY <5>1, StepsOf DEF id
            <4> QED BY <4>1, <4>2
        <3>2. id \in StepIds
            BY <2>3 DEF id
        <3> QED BY <1>1, <3>1, <3>2, DoneOf DEF b
    <2>7. AtRest(u)
        BY <2>3, <2>4, <2>5, <2>6 DEF AtRest, se, id
    <2> QED BY <2>2, <2>4, <2>5, <2>7 DEF se, id
<1>7. CASE m > Len(d)
    <2>1. u = [after EXCEPT !.status = "completed"]
        BY <1>4, <1>7
    <2>2. /\ u \in Rows /\ AtRest(u) /\ u.done = b /\ u.ruling = row.ruling /\ u.status = "completed"
        BY <1>5, <2>1
    <2> QED BY <1>1, <2>2 DEF u, b
<1>8. CASE ~(m > Len(d)) /\ m < Stop(d, row)
    <2>1. u = [after EXCEPT !.status = "failed"]
        BY <1>4, <1>8
    <2>2. /\ u \in Rows /\ AtRest(u) /\ u.done = b /\ u.ruling = row.ruling /\ u.status = "failed"
        BY <1>5, <2>1
    <2> QED BY <1>1, <2>2 DEF u, b
<1>9. CASE ~(m > Len(d)) /\ ~(m < Stop(d, row)) /\ row.ruling[d[m].id] = "rejected"
    <2>1. u = [after EXCEPT !.status = "halted"]
        BY <1>4, <1>9
    <2>2. /\ u \in Rows /\ AtRest(u) /\ u.done = b /\ u.ruling = row.ruling /\ u.status = "halted"
        BY <1>5, <2>1
    <2> QED BY <1>1, <2>2 DEF u, b
<1>10. CASE ~(m > Len(d)) /\ ~(m < Stop(d, row)) /\ row.ruling[d[m].id] # "rejected"
    <2>1. u = [after EXCEPT !.status = "awaiting", !.pending = d[m].id, !.seal = Seal(d, m, after)]
        BY <1>4, <1>10
    <2>2. m <= Len(d)
        BY <1>1, <1>10
    <2>3. /\ u \in Rows /\ AtRest(u) /\ u.done = b /\ u.ruling = row.ruling /\ u.status = "awaiting"
          /\ m \in Gates(d, row) /\ u.pending = d[m].id /\ u.seal = {Payload(d[m], u.done)}
        BY <1>6, <1>10, <2>1, <2>2
    <2> QED BY <1>1, <2>3 DEF u, b
<1> QED BY <1>7, <1>8, <1>9, <1>10

\* What the engine writes on the way.
LEMMA WroteOf ==
    ASSUME NEW d \in Definitions, NEW row \in Rows, NEW m, Reached(d, row, m), NEW e \in Wrote(d, m, row)
    PROVE  /\ e \in Shows
           /\ \E j \in Todo(d, row) : /\ j < m /\ d[j].effect /\ row.ruling[d[j].id] = "approved"
                                      /\ e = Payload(d[j], DoneBefore(d, j, row)) /\ e.step = d[j].id
<1>1. PICK j \in Todo(d, row) : j < m /\ d[j].effect /\ e = Payload(d[j], DoneBefore(d, j, row))
    BY DEF Wrote
<1>2. j \in 1 .. Len(d) /\ Len(d) \in Nat
    BY StepsOf DEF Todo
<1>3. DoneBefore(d, j, row) \in [StepIds -> Texts \union {None}]
    BY <1>2, DoneOf
<1>4. e \in Shows /\ e.step = d[j].id
    BY <1>1, <1>2, <1>3, PayloadType
<1>5. row.ruling[d[j].id] = "approved"
    <2>1. m \in Nat /\ Stop(d, row) \in Nat /\ m <= Stop(d, row)
        <3>1. Stop(d, row) \in 1 .. Len(d) + 1
            BY StopOf
        <3>2. \A i \in Todo(d, row) : i \in Nat
            BY StepsOf DEF Todo
        <3>3. m = Stop(d, row) \/ (m \in Todo(d, row) /\ m < Stop(d, row))
            BY Zenon DEF Reached
        <3>4. Stop(d, row) \in Nat
            BY <1>2, <3>1
        <3>5. m \in Nat
            BY <3>2, <3>3, <3>4, Zenon
        <3> QED BY <1>2, <3>1, <3>3, <3>5
    <2>2. j \notin Gates(d, row)
        BY <1>1, <1>2, <2>1, StopOf
    <2> QED BY <1>1, <2>2 DEF Gates
<1> QED BY <1>1, <1>4, <1>5

-----------------------------------------------------------------------------
(* Requests, and what each of their steps does to the rows *)

RowsStay == runs' = runs /\ written' = written /\ shown' = shown
Others(p) == \A q \in Requests : q # p => req'[q] = req[q]

\* The request ends, or works on no row.
Retires(p) == RowsStay /\ Others(p) /\ req'[p].id = None
\* It starts a run of its own.
Begins(p) ==
    /\ RowsStay /\ Others(p)
    /\ \E r \in RunIds : Fresh(r) /\ req'[p].id = r
    /\ req'[p].row.done = Blank /\ req'[p].row.ruling = Blank /\ req'[p].def \in Definitions
\* It gets the row it works on.
Goes(p) ==
    /\ RowsStay /\ Others(p) /\ Copies(p)
    /\ req'[p].id = req[p].id /\ req'[p].def = req[p].def /\ req'[p].row = req[p].row
\* It decides on a row that it reads.
Rules(p, r, ruling) ==
    /\ RowsStay /\ Others(p) /\ p \in Deciders /\ Exists(r)
    /\ req[p].def \in Definitions /\ MayDecide(req[p].def, runs[r], ruling)
    /\ req'[p].id = r /\ req'[p].def = req[p].def
    /\ req'[p].row.done = runs[r].done
    /\ req'[p].row.ruling = [runs[r].ruling EXCEPT ![runs[r].pending] = ruling]
\* Its engine has come as far as m.
Commits(p, m) ==
    LET q == req[p]
        new == Wrote(q.def, m, q.row)
    IN  /\ Others(p) /\ Copies(p) /\ req'[p].id = None
        /\ q.def \in Definitions /\ Reached(q.def, q.row, m)
        /\ runs' = [runs EXCEPT ![q.id] = Ran(q.def, m, q.row)]
        /\ written' = [written EXCEPT ![q.id] =
              [s \in StepIds |-> IF \E e \in new : e.step = s
                                 THEN Append(written[q.id][s], CHOOSE e \in new : e.step = s)
                                 ELSE written[q.id][s]]]
        /\ shown' = [shown EXCEPT ![q.id] =
              IF Ran(q.def, m, q.row).status = "awaiting"
              THEN shown[q.id] \union {Payload(q.def[m], Ran(q.def, m, q.row).done)} ELSE shown[q.id]]
\* The workflow goes, and its runs with it.
Deletes(p) ==
    /\ Others(p) /\ req'[p].id = None /\ written' = written /\ shown' = shown
    /\ runs' = [r \in RunIds |-> IF runs[r].status = "absent" THEN NoRun ELSE [NoRun EXCEPT !.status = "deleted"]]

Shape ==
    \E p \in Requests :
        \/ Retires(p) \/ Begins(p) \/ Goes(p) \/ Deletes(p)
        \/ \E r \in RunIds, ruling \in {"approved", "rejected"} : Rules(p, r, ruling)
        \/ \E m \in Nat : Commits(p, m)

LEMMA RestOf ==
    /\ NoRun \in Rows /\ NoRun.done = Blank /\ NoRun.ruling = Blank /\ NoRun.status = "absent"
    /\ NoRun.pending = None /\ NoRun.seal = {}
    /\ Rest \in Locals /\ Rest.pc = "idle" /\ Rest.id = None /\ Rest.row = NoRun /\ Rest.def = Gone
    /\ AtRest(NoRun) /\ Fits(Rest)
<1>1. Blank \in [StepIds -> Texts \union {None}] /\ Blank \in [StepIds -> Rulings]
    BY DEF Blank, Rulings
<1>2. NoRun = [status |-> "absent", pending |-> None, seal |-> {}, key |-> NoKey, done |-> Blank, ruling |-> Blank]
    BY DEF NoRun, Blank
<1> HIDE DEF NoRun
<1>3. NoRun \in Rows /\ NoRun.done = Blank /\ NoRun.ruling = Blank /\ NoRun.status = "absent"
      /\ NoRun.pending = None /\ NoRun.seal = {}
    BY <1>1, <1>2 DEF Rows, Statuses
<1>4. Rest \in Locals /\ Rest.pc = "idle" /\ Rest.id = None /\ Rest.row = NoRun /\ Rest.def = Gone
    BY <1>3 DEF Rest, Locals, Pcs
<1>5. AtRest(NoRun)
    BY <1>3 DEF AtRest
<1>6. Fits(Rest)
    BY <1>4 DEF Fits
<1> QED BY <1>3, <1>4, <1>5, <1>6

LEMMA LocalOf ==
    ASSUME GateInv, NEW p \in Requests
    PROVE  /\ req[p] \in Locals /\ req[p].pc \in Pcs /\ req[p].def \in Definitions \union {Gone}
           /\ req[p].id \in RunIds \union {None} /\ req[p].row \in Rows
           /\ Fits(req[p]) /\ (req[p].pc = "decide" => p \in Deciders)
<1>1. req[p] \in Locals
    BY DEF GateInv, Types
<1>2. Fits(req[p]) /\ (req[p].pc = "decide" => p \in Deciders)
    BY DEF GateInv
<1> QED BY <1>1, <1>2 DEF Locals

\* A step of a request that leaves the rows alone.
LEMMA LocalStep ==
    ASSUME GateInv, NEW p \in Requests, NEW l \in Locals, Fits(l), l.pc = "decide" => p \in Deciders,
           req' = [req EXCEPT ![p] = l], RowsStay, def' \in Definitions \union {Gone},
           def' = Gone <=> def = Gone, l.pc = "run" => def # Gone
    PROVE  GateInv' /\ Others(p) /\ req'[p] = l
<1>1. req \in [Requests -> Locals] /\ runs \in [RunIds -> Rows]
    BY DEF GateInv, Types
<1>2. req' \in [Requests -> Locals] /\ Others(p) /\ req'[p] = l
    BY <1>1 DEF Others
<1>3. Types'
    BY <1>2 DEF GateInv, Types, RowsStay
<1>4. \A q \in Requests : q = p \/ req'[q] = req[q]
    BY <1>2 DEF Others
<1>5. \A q \in Requests : Fits(req'[q]) /\ (req'[q].pc = "decide" => q \in Deciders)
    BY <1>2, <1>4 DEF GateInv
<1>6. (\A r \in RunIds : AtRest(runs[r]))'
    BY DEF GateInv, RowsStay
<1>7. def' = Gone => \A r \in RunIds : ~Exists(r)'
    BY DEF GateInv, RowsStay, Exists
<1>8. def' = Gone => \A q \in Requests : req'[q].pc # "run"
    BY <1>2, <1>4 DEF GateInv
<1> QED BY <1>2, <1>3, <1>5, <1>6, <1>7, <1>8 DEF GateInv

LEMMA LeaveStep ==
    ASSUME GateInv, NEW p \in Requests, Leave(p), RowsStay, def' \in Definitions \union {Gone},
           def' = Gone <=> def = Gone
    PROVE  GateInv' /\ Retires(p)
<1>1. Rest \in Locals /\ Fits(Rest) /\ Rest.pc = "idle" /\ Rest.id = None
    BY RestOf
<1>2. req' = [req EXCEPT ![p] = Rest]
    BY DEF Leave
<1>3. GateInv' /\ Others(p) /\ req'[p] = Rest
    BY <1>1, <1>2, LocalStep
<1> QED BY <1>1, <1>3 DEF Retires

LEMMA StartReadStep ==
    ASSUME GateInv, NEW p \in Requests, StartRead(p)
    PROVE  GateInv' /\ Retires(p)
<1>1. PICK k \in Keys \union {NoKey} :
          req' = [req EXCEPT ![p] = [Rest EXCEPT !.pc = "check", !.def = def, !.row.key = k]]
    BY DEF StartRead
<1> DEFINE l == [Rest EXCEPT !.pc = "check", !.def = def, !.row.key = k]
           row == [NoRun EXCEPT !.key = k]
<1>2. def \in Definitions /\ def # Gone /\ RowsStay /\ def' = def
    BY DEF StartRead, GateInv, Types, RowsStay
<1>3. row \in Rows /\ row.done = Blank /\ row.ruling = Blank
    BY RestOf DEF Rows
<1> HIDE DEF row
<1>4. l = [Rest EXCEPT !.pc = "check", !.def = def, !.row = row]
    BY RestOf DEF row, Locals
<1> HIDE DEF l
<1>5. l \in Locals /\ l.pc = "check" /\ l.def = def /\ l.id = None /\ l.row = row
    BY <1>2, <1>3, <1>4, RestOf DEF Locals, Pcs
<1>6. Fits(l)
    BY <1>2, <1>3, <1>5 DEF Fits
<1>7. req' = [req EXCEPT ![p] = l]
    BY <1>1 DEF l
<1>8. GateInv' /\ Others(p) /\ req'[p] = l
    <2>1. def' \in Definitions \union {Gone} /\ (def' = Gone <=> def = Gone) /\ l.pc # "run" /\ l.pc # "decide"
        BY <1>2, <1>5
    <2> QED BY <1>2, <1>5, <1>6, <1>7, <2>1, LocalStep
<1> QED BY <1>2, <1>5, <1>8 DEF Retires

\* The three that begin by a read of the workflow and keep no copy of a row.
LEMMA ReadStep ==
    ASSUME GateInv, NEW p \in Requests, NEW pc \in {"decide", "save", "delete"}, NEW d \in Definitions \union {Gone},
           req' = [req EXCEPT ![p] = [Rest EXCEPT !.pc = pc, !.def = d]], RowsStay, def' = def,
           pc # "delete" => d \in Definitions, pc = "decide" => p \in Deciders
    PROVE  GateInv' /\ Retires(p)
<1> DEFINE l == [Rest EXCEPT !.pc = pc, !.def = d]
<1>1. l \in Locals /\ l.pc = pc /\ l.def = d /\ l.id = None
    BY RestOf DEF Locals, Pcs
<1> HIDE DEF l
<1>2. Fits(l)
    BY <1>1 DEF Fits
<1>3. req' = [req EXCEPT ![p] = l]
    BY DEF l
<1>4. def' \in Definitions \union {Gone} /\ (def' = Gone <=> def = Gone) /\ l.pc # "run"
      /\ (l.pc = "decide" => p \in Deciders)
    BY <1>1 DEF GateInv, Types
<1>5. GateInv' /\ Others(p) /\ req'[p] = l
    BY <1>1, <1>2, <1>3, <1>4, LocalStep
<1> QED BY <1>1, <1>5 DEF Retires

LEMMA DecideReadStep ==
    ASSUME GateInv, NEW p \in Requests, DecideRead(p)
    PROVE  GateInv' /\ Retires(p)
<1>1. def \in Definitions /\ RowsStay /\ def' = def /\ p \in Deciders
      /\ req' = [req EXCEPT ![p] = [Rest EXCEPT !.pc = "decide", !.def = def]]
    BY DEF DecideRead, GateInv, Types, RowsStay
<1> QED BY <1>1, ReadStep

LEMMA EditCheckStep ==
    ASSUME GateInv, NEW p \in Requests, EditCheck(p)
    PROVE  GateInv' /\ Retires(p)
<1>1. PICK d \in Definitions : req' = [req EXCEPT ![p] = [Rest EXCEPT !.pc = "save", !.def = d]]
    BY DEF EditCheck
<1>2. RowsStay /\ def' = def
    BY DEF EditCheck, RowsStay
<1> QED BY <1>1, <1>2, ReadStep

LEMMA DeleteCheckStep ==
    ASSUME GateInv, NEW p \in Requests, DeleteCheck(p)
    PROVE  GateInv' /\ Retires(p)
<1>1. RowsStay /\ def' = def /\ req' = [req EXCEPT ![p] = [Rest EXCEPT !.pc = "delete"]]
    BY DEF DeleteCheck, RowsStay
<1>2. [Rest EXCEPT !.pc = "delete"] = [Rest EXCEPT !.pc = "delete", !.def = Gone]
    BY RestOf DEF Locals
<1>3. req' = [req EXCEPT ![p] = [Rest EXCEPT !.pc = "delete", !.def = Gone]]
    BY <1>1, <1>2
<1> QED BY <1>1, <1>3, ReadStep

LEMMA StartInsertStep ==
    ASSUME GateInv, NEW p \in Requests, StartInsert(p)
    PROVE  GateInv' /\ Begins(p)
<1>1. PICK r \in RunIds : /\ Fresh(r)
          /\ req' = [req EXCEPT ![p] = [@ EXCEPT !.pc = "insert", !.id = r, !.row.status = "running"]]
    BY DEF StartInsert
<1> DEFINE q == req[p]
           row == [q.row EXCEPT !.status = "running"]
           l == [q EXCEPT !.pc = "insert", !.id = r, !.row = row]
<1>2. q \in Locals /\ Fits(q) /\ q.pc = "check" /\ q.row \in Rows /\ RowsStay /\ def' = def
    BY LocalOf DEF StartInsert, Step, RowsStay
<1>3. q.def \in Definitions /\ q.row.done = Blank /\ q.row.ruling = Blank
    BY <1>2 DEF Fits
<1>4. row \in Rows /\ row.done = Blank /\ row.ruling = Blank
    BY <1>2, <1>3 DEF Rows, Statuses
<1>5. req' = [req EXCEPT ![p] = l]
    BY <1>1, <1>2 DEF Locals
<1> HIDE DEF row, q
<1>6. l \in Locals /\ l.pc = "insert" /\ l.def = q.def /\ l.id = r /\ l.row = row
    BY <1>2, <1>4 DEF Locals, Pcs
<1> HIDE DEF l
<1>7. r # None
    BY DefinitionAssumption DEF DefinitionAssumption
<1>8. Fits(l)
    BY <1>3, <1>6, <1>7 DEF Fits
<1>9. GateInv' /\ Others(p) /\ req'[p] = l
    <2>1. def' \in Definitions \union {Gone} /\ (def' = Gone <=> def = Gone) /\ l.pc # "run" /\ l.pc # "decide"
        BY <1>2, <1>6 DEF GateInv, Types
    <2> QED BY <1>2, <1>5, <1>6, <1>8, <2>1, LocalStep
<1>10. Others(p) /\ req'[p].id = r /\ req'[p].row.done = Blank /\ req'[p].row.ruling = Blank /\ req'[p].def \in Definitions
    BY <1>3, <1>4, <1>6, <1>9
<1> QED BY <1>1, <1>2, <1>9, <1>10 DEF Begins

\* The statement goes through, and the request holds its row.
LEMMA GoStep ==
    ASSUME GateInv, NEW p \in Requests, req[p].pc \in {"insert", "flush"}, def # Gone,
           req' = [req EXCEPT ![p] = [@ EXCEPT !.pc = "run"]], RowsStay, def' = def
    PROVE  GateInv' /\ Goes(p)
<1> DEFINE q == req[p]
           l == [q EXCEPT !.pc = "run"]
<1>1. q \in Locals /\ Fits(q)
    BY LocalOf
<1>2. req' = [req EXCEPT ![p] = l] /\ q.pc \in {"insert", "flush"}
    OBVIOUS
<1> HIDE DEF q
<1>3. l \in Locals /\ l.pc = "run" /\ l.def = q.def /\ l.id = q.id /\ l.row = q.row
    BY <1>1 DEF Locals, Pcs
<1> HIDE DEF l
<1>4. q.id # None /\ q.def \in Definitions
    BY <1>1, <1>2 DEF Fits
<1>5. Fits(l)
    BY <1>3, <1>4 DEF Fits
<1>6. GateInv' /\ Others(p) /\ req'[p] = l
    <2>1. def' \in Definitions \union {Gone} /\ (def' = Gone <=> def = Gone) /\ def # Gone /\ l.pc # "decide"
        BY <1>3 DEF GateInv, Types
    <2> QED BY <1>2, <1>3, <1>5, <2>1, LocalStep
<1> QED BY <1>3, <1>4, <1>6 DEF Goes, Copies, q

LEMMA InsertStep ==
    ASSUME GateInv, NEW p \in Requests, Insert(p)
    PROVE  GateInv' /\ (Retires(p) \/ Goes(p))
<1>1. RowsStay /\ def' = def /\ req[p].pc = "insert" /\ def \in Definitions \union {Gone}
      /\ req' = [req EXCEPT ![p] = IF def = Gone THEN Rest ELSE [@ EXCEPT !.pc = "run"]]
    BY DEF Insert, Step, RowsStay, GateInv, Types
<1>2. CASE def = Gone
    <2>1. Leave(p)
        BY <1>1, <1>2 DEF Leave
    <2> QED BY <1>1, <2>1, LeaveStep
<1>3. CASE def # Gone
    <2>1. req' = [req EXCEPT ![p] = [@ EXCEPT !.pc = "run"]]
        BY <1>1, <1>3
    <2> QED BY <1>1, <1>3, <2>1, GoStep
<1> QED BY <1>2, <1>3

LEMMA FlushStep ==
    ASSUME GateInv, NEW p \in Requests, Flush(p)
    PROVE  GateInv' /\ (Retires(p) \/ Goes(p))
<1>1. RowsStay /\ def' = def /\ req[p].pc = "flush" /\ def \in Definitions \union {Gone}
      /\ req' = [req EXCEPT ![p] = IF Exists(req[p].id) THEN [@ EXCEPT !.pc = "run"] ELSE Rest]
    BY DEF Flush, Step, RowsStay, GateInv, Types
<1>2. CASE ~Exists(req[p].id)
    <2>1. Leave(p)
        BY <1>1, <1>2 DEF Leave
    <2> QED BY <1>1, <2>1, LeaveStep
<1>3. CASE Exists(req[p].id)
    <2>1. req' = [req EXCEPT ![p] = [@ EXCEPT !.pc = "run"]]
        BY <1>1, <1>3
    <2>2. req[p].id \in RunIds
        BY <1>1, LocalOf DEF Fits
    <2>3. def # Gone
        BY <1>3, <2>2 DEF GateInv
    <2> QED BY <1>1, <2>1, <2>3, GoStep
<1> QED BY <1>2, <1>3

LEMMA DecideCheckStep ==
    ASSUME GateInv, NEW p \in Requests, NEW r \in RunIds, NEW ruling \in {"approved", "rejected"},
           DecideCheck(p, r, ruling)
    PROVE  GateInv' /\ (Retires(p) \/ Rules(p, r, ruling))
<1> DEFINE q == req[p]
           row == runs[r]
           rul == [row.ruling EXCEPT ![row.pending] = ruling]
           copy == [row EXCEPT !.status = "running", !.pending = None, !.ruling = rul]
           l == [q EXCEPT !.pc = "flush", !.id = r, !.row = copy]
<1>1. RowsStay /\ def' = def /\ q.pc = "decide" /\ Exists(r)
      /\ IF ~MayDecide(q.def, row, ruling) THEN Leave(p)
         ELSE req' = [req EXCEPT ![p] = [@ EXCEPT !.pc = "flush", !.id = r,
                      !.row = [row EXCEPT !.status = "running", !.pending = None,
                                          !.ruling[row.pending] = ruling]]]
    BY DEF DecideCheck, Step, RowsStay
<1>2. def' \in Definitions \union {Gone} /\ (def' = Gone <=> def = Gone)
    BY <1>1 DEF GateInv, Types
<1>3. CASE ~MayDecide(q.def, row, ruling)
    <2>1. Leave(p)
        BY <1>1, <1>3 DEF Leave
    <2> QED BY <1>1, <1>2, <2>1, LeaveStep
<1>4. CASE MayDecide(q.def, row, ruling)
    <2>1. row \in Rows /\ AtRest(row) /\ row.status = "awaiting"
        BY <1>4 DEF GateInv, Types, MayDecide
    <2>2. row.pending \in StepIds /\ row.ruling \in [StepIds -> Rulings]
        BY <2>1 DEF AtRest, Rows
    <2>3. rul \in [StepIds -> Rulings]
        BY <2>2 DEF Rulings
    <2>4. copy = [row EXCEPT !.status = "running", !.pending = None, !.ruling[row.pending] = ruling]
        OBVIOUS
    <2> HIDE DEF rul
    <2>5. copy \in Rows /\ copy.done = row.done /\ copy.ruling = rul
        BY <2>1, <2>3 DEF Rows, Statuses
    <2> HIDE DEF copy
    <2>6. q \in Locals /\ Fits(q) /\ p \in Deciders
        BY <1>1, LocalOf
    <2>7. q.def \in Definitions
        BY <1>1, <2>6 DEF Fits
    <2>8. req' = [req EXCEPT ![p] = l]
        BY <1>1, <1>4, <2>4
    <2> HIDE DEF q
    <2>9. l \in Locals /\ l.pc = "flush" /\ l.def = q.def /\ l.id = r /\ l.row = copy
        BY <2>5, <2>6 DEF Locals, Pcs
    <2> HIDE DEF l
    <2>10. r # None
        BY DefinitionAssumption DEF DefinitionAssumption
    <2>11. Fits(l)
        BY <2>7, <2>9, <2>10 DEF Fits
    <2>12. GateInv' /\ Others(p) /\ req'[p] = l
        <3>1. l.pc # "run" /\ l.pc # "decide"
            BY <2>9
        <3> QED BY <1>1, <1>2, <2>8, <2>9, <2>11, <3>1, LocalStep
    <2>13. /\ req'[p].id = r /\ req'[p].def = q.def /\ req'[p].row.done = runs[r].done /\ req'[p].row.ruling = rul
        BY <2>5, <2>9, <2>12
    <2> QED BY <1>1, <1>4, <2>6, <2>7, <2>12, <2>13 DEF Rules, q, rul
<1> QED BY <1>3, <1>4

LEMMA EndStep ==
    ASSUME GateInv, NEW p \in Requests, StartCheck(p) \/ EditSave(p) \/ Abort(p)
    PROVE  GateInv' /\ Retires(p)
<1>1. CASE StartCheck(p)
    <2>1. Leave(p) /\ RowsStay /\ def' = def /\ def \in Definitions \union {Gone}
        BY <1>1 DEF StartCheck, RowsStay, GateInv, Types
    <2> QED BY <2>1, LeaveStep
<1>2. CASE Abort(p)
    <2>1. Leave(p) /\ RowsStay /\ def' = def /\ def \in Definitions \union {Gone}
        BY <1>2 DEF Abort, RowsStay, GateInv, Types
    <2> QED BY <2>1, LeaveStep
<1>3. CASE EditSave(p)
    <2>1. Leave(p) /\ RowsStay /\ def' = (IF def = Gone THEN Gone ELSE req[p].def) /\ req[p].pc = "save"
        BY <1>3 DEF EditSave, RowsStay, Step
    <2>2. req[p].def \in Definitions /\ Gone \notin Definitions
        BY <2>1, LocalOf, DefinitionAssumption DEF Fits, DefinitionAssumption
    <2>3. def' \in Definitions \union {Gone} /\ (def' = Gone <=> def = Gone)
        BY <2>1, <2>2
    <2> QED BY <2>1, <2>3, LeaveStep
<1> QED BY <1>1, <1>2, <1>3

LEMMA AdvanceStep ==
    ASSUME GateInv, NEW p \in Requests, Advance(p)
    PROVE  GateInv' /\ (Retires(p) \/ \E m \in Nat : Commits(p, m))
<1> DEFINE q == req[p]
           n == Stop(q.def, q.row)
<1>1. q \in Locals /\ q.pc = "run" /\ q.id \in RunIds /\ q.id # None /\ q.def \in Definitions /\ q.row \in Rows /\ def # Gone
    <2>1. q.pc = "run"
        BY DEF Advance, Step
    <2> QED BY <2>1, LocalOf DEF Fits, GateInv
<1>2. PICK m \in {n} \union {i \in Todo(q.def, q.row) : i < n} :
          LET row == Ran(q.def, m, q.row)
              new == Wrote(q.def, m, q.row)
          IN  IF Taken(q.row.key, q.id) THEN UNCHANGED <<runs, written, shown>>
              ELSE /\ runs' = [runs EXCEPT ![q.id] = row]
                   /\ written' = [written EXCEPT ![q.id] =
                         [s \in StepIds |-> IF \E e \in new : e.step = s
                                            THEN Append(@[s], CHOOSE e \in new : e.step = s) ELSE @[s]]]
                   /\ shown' = [shown EXCEPT ![q.id] =
                         IF row.status = "awaiting"
                         THEN @ \union {Payload(q.def[m], row.done)} ELSE @]
    BY DEF Advance
<1>3. Leave(p) /\ def' = def
    BY DEF Advance
<1>4. CASE Taken(q.row.key, q.id)
    <2>1. RowsStay
        BY <1>2, <1>4 DEF RowsStay
    <2>2. def' \in Definitions \union {Gone}
        BY <1>3 DEF GateInv, Types
    <2> QED BY <1>3, <2>1, <2>2, LeaveStep
<1>5. CASE ~Taken(q.row.key, q.id)
    <2> DEFINE row == Ran(q.def, m, q.row)
               new == Wrote(q.def, m, q.row)
               lines == [s \in StepIds |-> IF \E e \in new : e.step = s
                                           THEN Append(written[q.id][s], CHOOSE e \in new : e.step = s)
                                           ELSE written[q.id][s]]
               seen == IF row.status = "awaiting"
                       THEN shown[q.id] \union {Payload(q.def[m], row.done)} ELSE shown[q.id]
    <2>1. Reached(q.def, q.row, m)
        BY <1>2 DEF Reached
    <2>2. /\ runs' = [runs EXCEPT ![q.id] = row] /\ written' = [written EXCEPT ![q.id] = lines]
          /\ shown' = [shown EXCEPT ![q.id] = seen]
        BY <1>2, <1>5
    <2>3. /\ m \in 1 .. Len(q.def) + 1 /\ row \in Rows /\ AtRest(row)
          /\ (row.status = "awaiting" => m \in Gates(q.def, q.row))
          /\ row.status \in {"completed", "failed", "halted", "awaiting"}
        BY <1>1, <2>1, RanOf
    <2>4. \A e \in new : e \in Shows
        BY <1>1, <2>1, WroteOf
    <2>5. req \in [Requests -> Locals] /\ runs \in [RunIds -> Rows] /\ shown \in [RunIds -> SUBSET Shows]
          /\ written \in [RunIds -> [StepIds -> Seq(Shows)]]
        BY DEF GateInv, Types
    <2>6. req' = [req EXCEPT ![p] = Rest] /\ Rest \in Locals /\ Fits(Rest) /\ Rest.id = None /\ Rest.pc = "idle"
        BY <1>3, RestOf DEF Leave
    <2>7. m \in Nat
        BY <1>1, <2>3, StepsOf
    <2>8. lines \in [StepIds -> Seq(Shows)]
        <3>1. ASSUME NEW s \in StepIds PROVE lines[s] \in Seq(Shows)
            <4>1. written[q.id][s] \in Seq(Shows)
                BY <1>1, <2>5
            <4>2. CASE \E e \in new : e.step = s
                <5> DEFINE e == CHOOSE e \in new : e.step = s
                <5>1. e \in Shows
                    BY <2>4, <4>2
                <5>2. lines[s] = Append(written[q.id][s], e)
                    BY <4>2
                <5> HIDE DEF e, lines
                <5> QED BY <4>1, <5>1, <5>2
            <4>3. CASE ~ \E e \in new : e.step = s
                BY <4>1, <4>3
            <4> QED BY <4>2, <4>3
        <3> QED BY <3>1
    <2>9. seen \in SUBSET Shows
        <3>1. shown[q.id] \in SUBSET Shows
            BY <1>1, <2>5
        <3>2. CASE row.status = "awaiting"
            <4>1. m \in 1 .. Len(q.def)
                BY <1>1, <2>3, <3>2, StepsOf DEF Gates, Todo
            <4>2. row.done \in [StepIds -> Texts \union {None}]
                BY <2>3, RowFields
            <4>3. Payload(q.def[m], row.done) \in Shows
                BY <1>1, <4>1, <4>2, PayloadType
            <4> QED BY <3>1, <3>2, <4>3
        <3>3. CASE row.status # "awaiting"
            BY <3>1, <3>3
        <3> QED BY <3>2, <3>3
    <2>10. Commits(p, m)
        <3>1. Others(p) /\ req'[p].id = None
            BY <2>5, <2>6 DEF Others
        <3> QED BY <1>1, <2>1, <2>2, <3>1 DEF Commits, Copies
    <2> HIDE DEF row, lines, seen
    <2>11. Types'
        <3>1. req' \in [Requests -> Locals]
            BY <2>5, <2>6
        <3>2. runs' \in [RunIds -> Rows] /\ written' \in [RunIds -> [StepIds -> Seq(Shows)]]
              /\ shown' \in [RunIds -> SUBSET Shows]
            BY <1>1, <2>2, <2>3, <2>5, <2>8, <2>9
        <3> QED BY <1>3, <3>1, <3>2 DEF Types, GateInv
    <2>12. \A r \in RunIds : AtRest(runs'[r])
        <3> SUFFICES ASSUME NEW r \in RunIds PROVE AtRest(runs'[r])
            OBVIOUS
        <3>1. runs'[r] = IF r = q.id THEN row ELSE runs[r]
            BY <2>2, <2>5
        <3>2. AtRest(runs[r])
            BY DEF GateInv
        <3> QED BY <2>3, <3>1, <3>2
    <2>13. ASSUME NEW x \in Requests PROVE Fits(req'[x]) /\ (req'[x].pc = "decide" => x \in Deciders)
        <3>1. req'[x] = IF x = p THEN Rest ELSE req[x]
            BY <2>5, <2>6
        <3> QED BY <2>6, <3>1, LocalOf
    <2> QED BY <1>1, <1>3, <2>7, <2>10, <2>11, <2>12, <2>13 DEF GateInv
<1> QED BY <1>4, <1>5

LEMMA DeleteStep ==
    ASSUME GateInv, NEW p \in Requests, Delete(p)
    PROVE  GateInv' /\ Deletes(p)
<1>1. /\ req' = [req EXCEPT ![p] = Rest] /\ def' = Gone /\ written' = written /\ shown' = shown
      /\ Holders = {}
      /\ runs' = [r \in RunIds |-> IF runs[r].status = "absent" THEN NoRun ELSE [NoRun EXCEPT !.status = "deleted"]]
    BY DEF Delete, Leave
<1>2. req \in [Requests -> Locals] /\ Rest \in Locals /\ Fits(Rest) /\ Rest.id = None /\ Rest.pc = "idle"
    BY RestOf DEF GateInv, Types
<1>3. \A q \in Requests : req'[q] = IF q = p THEN Rest ELSE req[q]
    BY <1>1, <1>2
<1> DEFINE dead == [NoRun EXCEPT !.status = "deleted"]
<1>4. dead \in Rows /\ AtRest(dead) /\ dead.status = "deleted" /\ NoRun \in Rows /\ AtRest(NoRun) /\ NoRun.status = "absent"
    <2>1. /\ dead \in Rows /\ dead.status = "deleted" /\ dead.pending = None /\ dead.seal = {}
        BY RestOf DEF Rows, Statuses
    <2> HIDE DEF dead
    <2> QED BY <2>1, RestOf DEF AtRest
<1> HIDE DEF dead
<1>5. \A r \in RunIds : runs'[r] = NoRun \/ runs'[r] = dead
    BY <1>1 DEF dead
<1>6. Types'
    <2>1. runs' = [r \in RunIds |-> runs'[r]]
        BY <1>1
    <2>2. runs' \in [RunIds -> Rows]
        BY <1>4, <1>5, <2>1
    <2>3. req' \in [Requests -> Locals]
        BY <1>1, <1>2
    <2> QED BY <1>1, <2>2, <2>3 DEF Types, GateInv
<1>7. \A r \in RunIds : AtRest(runs'[r]) /\ ~Exists(r)'
    BY <1>4, <1>5 DEF Exists
<1>8. \A x \in Requests : Fits(req'[x]) /\ (req'[x].pc = "decide" => x \in Deciders)
    BY <1>2, <1>3, LocalOf
<1>9. \A x \in Requests : req'[x].pc # "run"
    BY <1>1, <1>2, <1>3 DEF Holders
<1>10. Deletes(p)
    BY <1>1, <1>2, <1>3 DEF Deletes, Others
<1> QED BY <1>6, <1>7, <1>8, <1>9, <1>10 DEF GateInv

LEMMA NextStep ==
    ASSUME GateInv, [Next]_vars
    PROVE  GateInv' /\ (Shape \/ (RowsStay /\ req' = req))
<1>1. CASE UNCHANGED vars
    <2>1. def' = def /\ RowsStay /\ req' = req
        BY <1>1 DEF vars, RowsStay
    <2>2. GateInv'
        BY <2>1 DEF GateInv, Types, RowsStay, AtRest, Exists
    <2> QED BY <2>1, <2>2
<1>2. CASE Next
    <2>1. PICK p \in Requests :
            \/ StartRead(p) \/ StartCheck(p) \/ StartInsert(p) \/ Insert(p) \/ Advance(p)
            \/ DecideRead(p) \/ Flush(p)
            \/ \E r \in RunIds, ruling \in {"approved", "rejected"} : DecideCheck(p, r, ruling)
            \/ EditCheck(p) \/ EditSave(p) \/ DeleteCheck(p) \/ Delete(p) \/ Abort(p)
        BY <1>2 DEF Next, Decide
    <2>2. CASE StartRead(p) \/ DecideRead(p) \/ EditCheck(p) \/ DeleteCheck(p)
        BY <2>2, StartReadStep, DecideReadStep, EditCheckStep, DeleteCheckStep DEF Shape
    <2>3. CASE StartCheck(p) \/ EditSave(p) \/ Abort(p)
        BY <2>3, EndStep DEF Shape
    <2>4. CASE Insert(p) \/ Flush(p)
        BY <2>4, InsertStep, FlushStep DEF Shape
    <2>5. CASE StartInsert(p)
        BY <2>5, StartInsertStep DEF Shape
    <2>6. CASE \E r \in RunIds, ruling \in {"approved", "rejected"} : DecideCheck(p, r, ruling)
        BY <2>6, DecideCheckStep DEF Shape
    <2>7. CASE Advance(p)
        BY <2>7, AdvanceStep DEF Shape
    <2>8. CASE Delete(p)
        BY <2>8, DeleteStep DEF Shape
    <2> QED BY <2>1, <2>2, <2>3, <2>4, <2>5, <2>6, <2>7, <2>8
<1> QED BY <1>1, <1>2

LEMMA GateStart == Init => GateInv
<1> SUFFICES ASSUME Init PROVE GateInv
    OBVIOUS
<1>1. First \in Definitions /\ Gone \notin Definitions
    BY DefinitionAssumption DEF DefinitionAssumption
<1>2. Types
    <2>1. [s \in StepIds |-> <<>>] \in [StepIds -> Seq(Shows)]
        OBVIOUS
    <2> QED BY <1>1, <2>1, RestOf DEF Init, Types
<1>3. \A r \in RunIds : AtRest(runs[r])
    BY RestOf DEF Init
<1>4. \A p \in Requests : Fits(req[p]) /\ req[p].pc = "idle"
    BY RestOf DEF Init
<1> QED BY <1>1, <1>2, <1>3, <1>4 DEF GateInv, Init

-----------------------------------------------------------------------------
(* What is written was shown *)

LEMMA ShownBegins ==
    ASSUME NEW d \in Definitions, NEW row, NEW seen, row.ruling = Blank
    PROVE  Ready(d, row, seen)
<1>1. \A i \in DOMAIN d : d[i].id \in StepIds
    BY StepsOf
<1> QED BY <1>1 DEF Ready, Blank, None

\* A decision leaves at most the gate's own step to do, and what it will write is
\* what the seal is of.
LEMMA ShownRules ==
    ASSUME NEW d \in Definitions, NEW row \in Rows, AtRest(row), NEW seen, Gated(row, seen),
           NEW ruling \in {"approved", "rejected"}, MayDecide(d, row, ruling),
           NEW copy, copy.done = row.done, copy.ruling = [row.ruling EXCEPT ![row.pending] = ruling]
    PROVE  Ready(d, copy, seen)
<1> SUFFICES ASSUME NEW i \in DOMAIN d, copy.ruling[d[i].id] = "approved", copy.done[d[i].id] = None
             PROVE  /\ \A j \in 1 .. i - 1 : copy.done[d[j].id] # None
                    /\ Payload(d[i], copy.done) \in seen
    BY DEF Ready
<1>1. i \in 1 .. Len(d) /\ d[i].id \in StepIds /\ row.ruling \in [StepIds -> Rulings]
    BY StepsOf, RowFields
<1>2. d[i].id = row.pending /\ ruling = "approved"
    <2>1. row.ruling[d[i].id] # "approved"
        BY <1>1 DEF Gated
    <2>2. copy.ruling[d[i].id] = IF d[i].id = row.pending THEN ruling ELSE row.ruling[d[i].id]
        BY <1>1
    <2> QED BY <2>1, <2>2
<1>3. \A j \in 1 .. i - 1 : row.done[d[j].id] # None
    BY <1>2 DEF Gated
<1>4. At(d, row.pending) = i
    <2>1. \A j \in DOMAIN d : d[j].id = d[i].id <=> j = i
        BY <1>1, StepsOf
    <2> QED BY <1>2, <2>1 DEF At
<1>5. row.seal = {Payload(d[i], row.done)}
    BY <1>2, <1>4 DEF MayDecide, SealHolds, Seal
<1> QED BY <1>3, <1>5 DEF Gated

\* The engine, on such a copy, writes what was shown and stops at a gate that is
\* behind all it was allowed to do.
LEMMA ShownWrites ==
    ASSUME NEW d \in Definitions, NEW row \in Rows, NEW m, Reached(d, row, m), NEW seen, Ready(d, row, seen),
           NEW e \in Wrote(d, m, row)
    PROVE  e \in seen
<1>1. PICK j \in Todo(d, row) : /\ row.ruling[d[j].id] = "approved" /\ e = Payload(d[j], DoneBefore(d, j, row))
    BY WroteOf
<1>2. j \in 1 .. Len(d) /\ j \in DOMAIN d /\ row.done[d[j].id] = None /\ Len(d) \in Nat
    BY StepsOf DEF Todo
<1>3. (\A k \in 1 .. j - 1 : row.done[d[k].id] # None) /\ Payload(d[j], row.done) \in seen
    BY <1>1, <1>2 DEF Ready
<1> DEFINE b == DoneBefore(d, j, row)
<1>4. \A s \in d[j].uses : b[s] = row.done[s]
    <2> SUFFICES ASSUME NEW s \in d[j].uses PROVE b[s] = row.done[s]
        OBVIOUS
    <2>1. PICK k \in 1 .. j - 1 : k \in 1 .. Len(d) /\ d[k].id = s
        BY <1>2, StepsOf
    <2>2. s \in StepIds /\ row.done[s] # None
        BY <1>3, <2>1, StepsOf
    <2>3. j \in 1 .. Len(d) + 1
        BY <1>2
    <2> QED BY <2>2, <2>3, DoneOf
<1> HIDE DEF b
<1>5. Payload(d[j], b) = Payload(d[j], row.done)
    BY <1>4, PayloadSame
<1> QED BY <1>1, <1>3, <1>5 DEF b

LEMMA ShownStops ==
    ASSUME SameSteps, NEW d \in Definitions, NEW row \in Rows, NEW m, Reached(d, row, m), NEW seen, Ready(d, row, seen),
           Ran(d, m, row).status = "awaiting"
    PROVE  Gated(Ran(d, m, row), seen \union {Payload(d[m], Ran(d, m, row).done)})
<1> DEFINE u == Ran(d, m, row)
<1>1. /\ m \in 1 .. Len(d) + 1 /\ u \in Rows /\ u.done = DoneBefore(d, m, row) /\ u.ruling = row.ruling
      /\ m \in Gates(d, row) /\ u.pending = d[m].id /\ u.seal = {Payload(d[m], u.done)}
    BY RanOf
<1> HIDE DEF u
<1>2. /\ m \in 1 .. Len(d) /\ row.done[d[m].id] = None /\ row.ruling[d[m].id] # "approved" /\ Len(d) \in Nat
      /\ DOMAIN d = 1 .. Len(d)
    BY <1>1, StepsOf DEF Gates, Todo
<1>3. \A s \in StepIds : u.done[s] # None <=> row.done[s] # None \/ \E j \in 1 .. m - 1 : d[j].id = s
    BY <1>1, DoneOf
<1>4. ASSUME NEW s \in StepIds, u.ruling[s] = "approved" PROVE u.done[s] # None
    <2>1. CASE row.done[s] # None
        BY <1>3, <2>1
    <2>2. CASE row.done[s] = None
        <3>1. PICK e \in Definitions : \E i \in DOMAIN e : e[i].id = s
            BY Zenon DEF StepIds
        <3>2. PICK i \in DOMAIN e : e[i].id = s
            BY <3>1
        <3>3. i \in 1 .. Len(d) /\ d[i].id = s
            BY <3>2, StepsOf DEF SameSteps
        <3>4. \A j \in 1 .. i - 1 : row.done[d[j].id] # None
            BY <1>1, <1>2, <1>4, <2>2, <3>3 DEF Ready
        <3>5. i < m
            <4>1. m # i
                BY <1>1, <1>2, <1>4, <3>3
            <4>2. ~(m < i)
                BY <1>2, <3>3, <3>4
            <4> QED BY <1>2, <3>3, <4>1, <4>2
        <3>6. i \in 1 .. m - 1
            BY <1>2, <3>3, <3>5
        <3> QED BY <1>3, <3>3, <3>6
    <2> QED BY <2>1, <2>2
<1>5. ASSUME NEW e \in Definitions, NEW i \in DOMAIN e, e[i].id = u.pending, NEW j \in 1 .. i - 1
      PROVE  u.done[e[j].id] # None
    <2>1. i \in 1 .. Len(d) /\ d[i].id = d[m].id /\ Len(e) = Len(d)
        BY <1>1, <1>5, StepsOf DEF SameSteps
    <2>2. i = m
        BY <1>2, <2>1, StepsOf
    <2>3. j \in 1 .. m - 1 /\ j \in 1 .. Len(d)
        BY <1>2, <2>2
    <2>4. e[j].id = d[j].id /\ d[j].id \in StepIds
        BY <2>1, <2>3, StepsOf DEF SameSteps
    <2> QED BY <1>3, <2>3, <2>4
<1>6. u.seal \subseteq seen \union {Payload(d[m], u.done)}
    BY <1>1
<1>7. Gated(u, seen \union {Payload(d[m], u.done)})
    BY <1>4, <1>5, <1>6 DEF Gated
<1> QED BY <1>7 DEF u

LEMMA ReadyMore ==
    ASSUME NEW d, NEW row, NEW seen, NEW more, Ready(d, row, seen), seen \subseteq more
    PROVE  Ready(d, row, more)
BY DEF Ready

LEMMA ShownCommits ==
    ASSUME GateInv, GateInv', ShownInv, NEW p \in Requests, NEW m \in Nat, Commits(p, m)
    PROVE  ShownInv'
<1> DEFINE q == req[p]
           row == Ran(q.def, m, q.row)
           new == Wrote(q.def, m, q.row)
           seen == shown[q.id]
           more == seen \union {Payload(q.def[m], row.done)}
<1>1. /\ q.id \in RunIds /\ q.def \in Definitions /\ q.row \in Rows /\ Copies(p)
    BY LocalOf DEF Commits, Copies
<1>2. Reached(q.def, q.row, m) /\ Others(p) /\ req'[p].id = None
    BY DEF Commits
<1>3. Ready(q.def, q.row, seen)
    BY <1>1 DEF ShownInv
<1>4. /\ runs \in [RunIds -> Rows] /\ shown \in [RunIds -> SUBSET Shows]
      /\ written \in [RunIds -> [StepIds -> Seq(Shows)]]
    BY DEF GateInv, Types
<1>5. \A r \in RunIds : /\ runs'[r] = IF r = q.id THEN row ELSE runs[r]
                        /\ shown'[r] = IF r = q.id /\ row.status = "awaiting" THEN more ELSE shown[r]
    BY <1>1, <1>4 DEF Commits
<1>6. \A r \in RunIds : shown[r] \subseteq shown'[r]
    BY <1>5
<1>7. ASSUME NEW r \in RunIds, runs'[r].status = "awaiting" PROVE Gated(runs'[r], shown'[r])
    <2>1. CASE r = q.id
        <3>1. runs'[r] = row /\ row.status = "awaiting" /\ shown'[r] = more
            BY <1>5, <1>7, <2>1
        <3>2. Gated(row, more)
            BY <1>1, <1>2, <1>3, <3>1, ShownStops DEF ShownInv
        <3> QED BY <3>1, <3>2
    <2>2. CASE r # q.id
        <3>1. runs'[r] = runs[r] /\ shown'[r] = shown[r]
            BY <1>5, <2>2
        <3>2. r \in Waiting
            BY <1>7, <3>1 DEF Waiting
        <3> QED BY <3>1, <3>2 DEF ShownInv
    <2> QED BY <2>1, <2>2
<1>8. ASSUME NEW x \in Requests, req'[x].id # None PROVE Ready(req'[x].def, req'[x].row, shown'[req'[x].id])
    <2>1. req'[x] = req[x] /\ Copies(x)
        BY <1>2, <1>8 DEF Others, Copies
    <2>2. req[x].id \in RunIds
        BY <2>1, LocalOf DEF Copies
    <2>3. Ready(req[x].def, req[x].row, shown[req[x].id]) /\ shown[req[x].id] \subseteq shown'[req[x].id]
        BY <1>6, <2>1, <2>2 DEF ShownInv
    <2>4. Ready(req[x].def, req[x].row, shown'[req[x].id])
        BY <2>3, ReadyMore
    <2> QED BY <2>1, <2>4
<1>9. ASSUME NEW r \in RunIds, NEW s \in StepIds, NEW i \in DOMAIN written'[r][s]
      PROVE  written'[r][s][i] \in shown'[r]
    <2>1. CASE r # q.id \/ ~ \E e \in new : e.step = s
        <3>1. written'[r][s] = written[r][s]
            BY <1>1, <1>4, <2>1 DEF Commits
        <3> QED BY <1>6, <1>9, <3>1 DEF ShownInv, EffectWasShown
    <2>2. CASE r = q.id /\ \E e \in new : e.step = s
        <3> DEFINE e == CHOOSE e \in new : e.step = s
                   old == written[r][s]
        <3>1. e \in new
            BY <2>2
        <3>2. e \in seen
            BY <1>1, <1>2, <1>3, <3>1, ShownWrites
        <3>3. written'[r][s] = Append(old, e) /\ old \in Seq(Shows) /\ e \in Shows
            BY <1>1, <1>2, <1>4, <2>2, <3>1, WroteOf DEF Commits
        <3> HIDE DEF e, new
        <3>4. i \in DOMAIN old \/ i = Len(old) + 1
            BY <1>9, <3>3
        <3>5. CASE i \in DOMAIN old
            <4>1. written'[r][s][i] = old[i]
                BY <3>3, <3>5
            <4>2. old[i] \in shown[r]
                BY <3>5 DEF ShownInv, EffectWasShown
            <4> QED BY <1>6, <4>1, <4>2
        <3>6. CASE i = Len(old) + 1
            <4>1. written'[r][s][i] = e
                BY <3>3, <3>6
            <4> QED BY <1>6, <2>2, <3>2, <4>1
        <3> QED BY <3>4, <3>5, <3>6
    <2> QED BY <2>1, <2>2
<1> QED BY <1>7, <1>8, <1>9 DEF ShownInv, EffectWasShown, Waiting, Copies

LEMMA ShownStep ==
    ASSUME GateInv, GateInv', ShownInv, Shape \/ (RowsStay /\ req' = req)
    PROVE  ShownInv'
<1>1. CASE RowsStay /\ req' = req
    BY <1>1 DEF RowsStay, ShownInv, EffectWasShown, Waiting, Copies, Gated, Ready
\* Rows that stay are judged as before; so is every copy but the one that moves.
<1>2. ASSUME RowsStay, NEW p \in Requests, Others(p),
             req'[p].id # None => Ready(req'[p].def, req'[p].row, shown[req'[p].id])
      PROVE  ShownInv'
    <2>1. runs' = runs /\ written' = written /\ shown' = shown
        BY <1>2 DEF RowsStay
    <2>2. Waiting' = Waiting /\ \A r \in Waiting : Gated(runs'[r], shown'[r])
        BY <2>1 DEF ShownInv, Waiting
    <2>3. EffectWasShown'
        BY <2>1 DEF ShownInv, EffectWasShown
    <2>4. ASSUME NEW x \in Requests, req'[x].id # None PROVE Ready(req'[x].def, req'[x].row, shown'[req'[x].id])
        <3>1. CASE x = p
            BY <1>2, <2>1, <2>4, <3>1
        <3>2. CASE x # p
            <4>1. req'[x] = req[x]
                BY <1>2, <3>2 DEF Others
            <4> QED BY <2>1, <2>4, <4>1 DEF ShownInv, Copies
        <3> QED BY <3>1, <3>2
    <2> QED BY <2>2, <2>3, <2>4 DEF ShownInv, Copies
<1>3. ASSUME NEW p \in Requests, Retires(p) PROVE ShownInv'
    BY <1>2, <1>3 DEF Retires
<1>4. ASSUME NEW p \in Requests, Begins(p) PROVE ShownInv'
    BY <1>2, <1>4, ShownBegins DEF Begins
<1>5. ASSUME NEW p \in Requests, Goes(p) PROVE ShownInv'
    <2>1. Ready(req[p].def, req[p].row, shown[req[p].id])
        BY <1>5 DEF Goes, ShownInv
    <2> QED BY <1>2, <1>5, <2>1 DEF Goes
<1>6. ASSUME NEW p \in Requests, NEW r \in RunIds, NEW ruling \in {"approved", "rejected"}, Rules(p, r, ruling)
      PROVE  ShownInv'
    <2>1. r \in Waiting /\ runs[r] \in Rows /\ AtRest(runs[r])
        BY <1>6 DEF Rules, MayDecide, Waiting, GateInv, Types
    <2>2. Gated(runs[r], shown[r])
        BY <2>1 DEF ShownInv
    <2>3. Ready(req[p].def, req'[p].row, shown[r])
        BY <1>6, <2>1, <2>2, ShownRules, ZenonT(30) DEF Rules
    <2> QED BY <1>2, <1>6, <2>3 DEF Rules
<1>7. ASSUME NEW p \in Requests, NEW m \in Nat, Commits(p, m) PROVE ShownInv'
    BY <1>7, ShownCommits
<1>8. ASSUME NEW p \in Requests, Deletes(p) PROVE ShownInv'
    <2>1. \A r \in RunIds : runs'[r].status # "awaiting"
        <3>1. \A r \in RunIds : runs'[r] = NoRun \/ runs'[r] = [NoRun EXCEPT !.status = "deleted"]
            BY <1>8 DEF Deletes
        <3> QED BY <3>1, RestOf DEF Rows
    <2>2. ASSUME NEW x \in Requests, req'[x].id # None PROVE Ready(req'[x].def, req'[x].row, shown'[req'[x].id])
        <3>1. req'[x] = req[x] /\ shown' = shown
            BY <1>8, <2>2 DEF Deletes, Others
        <3> QED BY <2>2, <3>1 DEF ShownInv, Copies
    <2>3. EffectWasShown'
        BY <1>8 DEF Deletes, ShownInv, EffectWasShown
    <2> QED BY <2>1, <2>2, <2>3 DEF ShownInv, Waiting, Copies
<1> QED BY <1>1, <1>3, <1>4, <1>5, <1>6, <1>7, <1>8 DEF Shape

LEMMA ShownStart == SameSteps /\ Init => ShownInv
<1> SUFFICES ASSUME SameSteps, Init PROVE ShownInv
    OBVIOUS
<1>1. Waiting = {} /\ \A p \in Requests : ~Copies(p)
    BY RestOf DEF Init, Waiting, Copies
<1>2. EffectWasShown
    BY DEF Init, EffectWasShown
<1> QED BY <1>1, <1>2 DEF ShownInv

-----------------------------------------------------------------------------
(* The record tells what was written *)

LEMMA EffectsOf ==
    ASSUME SameEffects, NEW d \in Definitions, NEW s \in EffectIds(First)
    PROVE  s \in StepIds /\ \E j \in 1 .. Len(d) : d[j].effect /\ d[j].id = s
<1>1. s \in EffectIds(d)
    BY DefinitionAssumption DEF DefinitionAssumption, SameEffects
<1> QED BY <1>1, StepsOf DEF EffectIds

LEMMA TellsWrites ==
    ASSUME SameEffects, NEW d \in Definitions, NEW row \in Rows, NEW m, Reached(d, row, m),
           NEW log \in [StepIds -> Seq(Shows)], Tells(row, log),
           NEW log2, log2 = [s \in StepIds |-> IF \E e \in Wrote(d, m, row) : e.step = s
                                 THEN Append(log[s], CHOOSE e \in Wrote(d, m, row) : e.step = s)
                                 ELSE log[s]]
    PROVE  Tells(Ran(d, m, row), log2)
<1> DEFINE u == Ran(d, m, row)
           new == Wrote(d, m, row)
<1>1. m \in 1 .. Len(d) + 1 /\ u.done = DoneBefore(d, m, row) /\ u.ruling = row.ruling
    BY RanOf
<1> HIDE DEF u
<1> SUFFICES ASSUME NEW s \in EffectIds(First)
             PROVE  /\ Len(log2[s]) = IF u.done[s] # None THEN 1 ELSE 0
                    /\ log2[s] # <<>> => u.ruling[s] = "approved"
    BY DEF Tells, u
<1>2. PICK j \in 1 .. Len(d) : d[j].effect /\ d[j].id = s
    BY EffectsOf
<1>3. s \in StepIds /\ Len(d) \in Nat /\ m \in Nat /\ DOMAIN d = 1 .. Len(d)
    BY <1>1, EffectsOf, StepsOf
<1>4. Len(log[s]) = (IF row.done[s] # None THEN 1 ELSE 0) /\ (log[s] # <<>> => row.ruling[s] = "approved")
    BY DEF Tells
<1>5. u.done[s] # None <=> row.done[s] # None \/ \E k \in 1 .. m - 1 : d[k].id = s
    BY <1>1, <1>3, DoneOf
\* What is written for this step is written by this step.
<1>6. ASSUME NEW e \in new, e.step = s
      PROVE  e \in Shows /\ row.done[s] = None /\ j < m /\ row.ruling[s] = "approved"
    <2>1. PICK k \in Todo(d, row) : k < m /\ row.ruling[d[k].id] = "approved" /\ e.step = d[k].id
        BY WroteOf
    <2>2. k \in 1 .. Len(d) /\ row.done[d[k].id] = None
        BY <1>3 DEF Todo
    <2>3. k = j
        BY <1>2, <1>6, <2>1, <2>2, StepsOf
    <2>4. e \in Shows
        BY <1>6, WroteOf
    <2> QED BY <1>6, <2>1, <2>2, <2>3, <2>4
<1>7. CASE \E e \in new : e.step = s
    <2> DEFINE e == CHOOSE e \in new : e.step = s
    <2>1. e \in new /\ e.step = s
        BY <1>7
    <2>2. e \in Shows /\ row.done[s] = None /\ j < m /\ row.ruling[s] = "approved"
        BY <1>6, <2>1
    <2>3. log2[s] = Append(log[s], e)
        BY <1>3, <1>7
    <2> HIDE DEF e, new
    <2>4. log[s] \in Seq(Shows) /\ Len(log[s]) = 0
        BY <1>3, <1>4, <2>2
    <2>5. Len(log2[s]) = 1
        <3> DEFINE old == log[s]
        <3>1. old \in Seq(Shows) /\ Len(old) = 0 /\ e \in Shows /\ log2[s] = Append(old, e)
            BY <2>2, <2>3, <2>4
        <3> HIDE DEF old
        <3>2. Len(Append(old, e)) = Len(old) + 1
            BY <3>1
        <3> QED BY <3>1, <3>2
    <2>6. j \in 1 .. m - 1
        BY <1>3, <2>2
    <2>7. u.done[s] # None
        BY <1>2, <1>5, <2>6
    <2> QED BY <1>1, <2>2, <2>5, <2>7
<1>8. CASE ~ \E e \in new : e.step = s
    <2>1. log2[s] = log[s]
        BY <1>3, <1>8
    <2>2. u.done[s] # None <=> row.done[s] # None
        <3> SUFFICES ASSUME row.done[s] = None, NEW k \in 1 .. m - 1, d[k].id = s PROVE FALSE
            BY <1>5
        <3>1. k \in 1 .. Len(d) /\ k < m
            BY <1>1, <1>3
        <3>2. k = j
            BY <1>2, <3>1, StepsOf
        <3>3. j \in Todo(d, row) /\ j < m /\ d[j].effect
            BY <1>2, <1>3, <3>1, <3>2 DEF Todo
        <3> DEFINE e == Payload(d[j], DoneBefore(d, j, row))
        <3>4. e \in new
            BY <3>3 DEF Wrote
        <3>5. e.step = s
            BY <1>2 DEF Payload
        <3> QED BY <1>8, <3>4, <3>5
    <2> QED BY <1>1, <1>4, <2>1, <2>2
<1> QED BY <1>7, <1>8

LEMMA RecordCommits ==
    ASSUME GateInv, RecordInv, NEW p \in Requests, NEW m \in Nat, Commits(p, m)
    PROVE  RecordInv'
<1> DEFINE q == req[p]
           row == Ran(q.def, m, q.row)
<1>1. /\ q.id \in RunIds /\ q.def \in Definitions /\ q.row \in Rows /\ Copies(p) /\ Reached(q.def, q.row, m)
      /\ Others(p) /\ req'[p].id = None
    BY LocalOf DEF Commits, Copies
<1>2. /\ runs \in [RunIds -> Rows] /\ written \in [RunIds -> [StepIds -> Seq(Shows)]]
    BY DEF GateInv, Types
<1>3. row.status \in {"completed", "failed", "halted", "awaiting"}
    BY <1>1, RanOf
<1>4. Tells(row, written'[q.id])
    <2>1. Tells(q.row, written[q.id]) /\ SameEffects
        BY <1>1 DEF RecordInv
    <2> DEFINE log == written[q.id]
               log2 == written'[q.id]
    <2>2. log2 = [s \in StepIds |-> IF \E e \in Wrote(q.def, m, q.row) : e.step = s
                     THEN Append(log[s], CHOOSE e \in Wrote(q.def, m, q.row) : e.step = s) ELSE log[s]]
        BY <1>1, <1>2 DEF Commits
    <2>3. log \in [StepIds -> Seq(Shows)]
        BY <1>1, <1>2
    <2> HIDE DEF log, log2
    <2>4. Tells(Ran(q.def, m, q.row), log2)
        BY <1>1, <2>1, <2>2, <2>3, TellsWrites DEF log
    <2> QED BY <2>4 DEF log2
<1>5. \A r \in RunIds : IF r = q.id THEN runs'[r] = row ELSE runs'[r] = runs[r] /\ written'[r] = written[r]
    BY <1>1, <1>2 DEF Commits
<1>6. \A x \in Requests : req'[x].id # None => req'[x] = req[x] /\ Copies(x) /\ req[x].id \in RunIds /\ req[x].id # q.id
    <2> SUFFICES ASSUME NEW x \in Requests, req'[x].id # None
                 PROVE  req'[x] = req[x] /\ Copies(x) /\ req[x].id \in RunIds /\ req[x].id # q.id
        OBVIOUS
    <2>1. x # p /\ req'[x] = req[x] /\ Copies(x)
        BY <1>1 DEF Others, Copies
    <2>2. req[x].id \in RunIds
        BY <2>1, LocalOf DEF Copies
    <2>3. req[x].id # q.id
        BY <1>1, <2>1 DEF RecordInv
    <2> QED BY <2>1, <2>2, <2>3
<1>7. ASSUME NEW r \in RunIds
      PROVE  IF runs'[r].status \notin {"absent", "deleted"} THEN Tells(runs'[r], written'[r])
             ELSE runs'[r].status = "absent" => \A s \in StepIds : written'[r][s] = <<>>
    <2>1. CASE r = q.id
        BY <1>3, <1>4, <1>5, <2>1
    <2>2. CASE r # q.id
        BY <1>5, <2>2 DEF RecordInv, Exists
    <2> QED BY <2>1, <2>2
<1>8. ASSUME NEW x \in Requests, req'[x].id # None
      PROVE  /\ Tells(req'[x].row, written'[req'[x].id])
             /\ x \in Deciders \/ runs'[req'[x].id].status = "absent"
             /\ \A y \in Requests : req'[x].id = req'[y].id => x = y
    <2>1. req'[x] = req[x] /\ Copies(x) /\ req[x].id \in RunIds /\ req[x].id # q.id
        BY <1>6, <1>8
    <2>2. runs'[req[x].id] = runs[req[x].id] /\ written'[req[x].id] = written[req[x].id]
        BY <1>5, <2>1
    <2>3. Tells(req[x].row, written[req[x].id]) /\ (x \in Deciders \/ runs[req[x].id].status = "absent")
        BY <2>1 DEF RecordInv
    <2>4. ASSUME NEW y \in Requests, req'[x].id = req'[y].id PROVE x = y
        <3>1. req'[y] = req[y] /\ req[y].id = req[x].id
            BY <1>6, <1>8, <2>1, <2>4
        <3> QED BY <2>1, <3>1 DEF RecordInv
    <2> QED BY <2>1, <2>2, <2>3, <2>4
<1> QED BY <1>7, <1>8 DEF RecordInv, Exists, Copies, Tells

LEMMA RecordStep ==
    ASSUME GateInv, RecordInv, Shape \/ (RowsStay /\ req' = req)
    PROVE  RecordInv'
<1>1. CASE RowsStay /\ req' = req
    BY <1>1 DEF RowsStay, RecordInv, Exists, Copies, Tells
<1>2. ASSUME RowsStay, NEW p \in Requests, Others(p),
             req'[p].id # None =>
                /\ Tells(req'[p].row, written[req'[p].id])
                /\ p \in Deciders \/ runs[req'[p].id].status = "absent"
                /\ \A x \in Requests : x # p => req[x].id # req'[p].id
      PROVE  RecordInv'
    <2>1. runs' = runs /\ written' = written
        BY <1>2 DEF RowsStay
    <2>2. \A x \in Requests : x = p \/ req'[x] = req[x]
        BY <1>2 DEF Others
    <2>3. \A r \in RunIds : IF runs'[r].status \notin {"absent", "deleted"} THEN Tells(runs'[r], written'[r])
                            ELSE runs'[r].status = "absent" => \A s \in StepIds : written'[r][s] = <<>>
        BY <2>1 DEF RecordInv, Exists
    <2>4. ASSUME NEW x \in Requests, req'[x].id # None
          PROVE  /\ Tells(req'[x].row, written'[req'[x].id])
                 /\ x \in Deciders \/ runs'[req'[x].id].status = "absent"
                 /\ \A y \in Requests : req'[x].id = req'[y].id => x = y
        <3>1. CASE x = p
            BY <1>2, <2>1, <2>2, <2>4, <3>1
        <3>2. CASE x # p
            <4>1. req'[x] = req[x] /\ Copies(x)
                BY <2>2, <2>4, <3>2 DEF Copies
            <4>2. Tells(req[x].row, written[req[x].id]) /\ (x \in Deciders \/ runs[req[x].id].status = "absent")
                BY <4>1 DEF RecordInv
            <4>3. ASSUME NEW y \in Requests, req'[x].id = req'[y].id PROVE x = y
                <5>1. CASE y = p
                    BY <1>2, <2>4, <3>2, <4>1, <4>3, <5>1
                <5>2. CASE y # p
                    <6>1. req'[y] = req[y]
                        BY <2>2, <5>2
                    <6> QED BY <4>1, <4>3, <6>1 DEF RecordInv
                <5> QED BY <5>1, <5>2
            <4> QED BY <2>1, <4>1, <4>2, <4>3
        <3> QED BY <3>1, <3>2
    <2> QED BY <2>3, <2>4 DEF RecordInv, Exists, Copies, Tells
<1>3. ASSUME NEW p \in Requests, Retires(p) PROVE RecordInv'
    BY <1>2, <1>3 DEF Retires
<1>4. ASSUME NEW p \in Requests, Begins(p) PROVE RecordInv'
    <2>1. PICK r \in RunIds : Fresh(r) /\ req'[p].id = r
        BY <1>4 DEF Begins
    <2>2. runs[r].status = "absent" /\ \A x \in Requests : req[x].id # r
        BY <2>1 DEF Fresh
    <2>3. \A s \in StepIds : written[r][s] = <<>>
        BY <2>2 DEF RecordInv, Exists
    <2>4. Tells(req'[p].row, written[r])
        <3> SUFFICES ASSUME NEW s \in EffectIds(First)
                     PROVE  /\ Len(written[r][s]) = IF req'[p].row.done[s] # None THEN 1 ELSE 0
                            /\ written[r][s] # <<>> => req'[p].row.ruling[s] = "approved"
            BY DEF Tells
        <3>1. s \in StepIds
            BY EffectsOf, DefinitionAssumption DEF RecordInv, DefinitionAssumption
        <3>2. req'[p].row.done[s] = None
            BY <1>4, <3>1 DEF Begins, Blank
        <3> QED BY <2>3, <3>1, <3>2
    <2> QED BY <1>2, <1>4, <2>1, <2>2, <2>4 DEF Begins
<1>5. ASSUME NEW p \in Requests, Goes(p) PROVE RecordInv'
    <2>1. /\ Tells(req[p].row, written[req[p].id])
          /\ p \in Deciders \/ runs[req[p].id].status = "absent"
          /\ \A x \in Requests : x # p => req[x].id # req[p].id
        BY <1>5 DEF Goes, RecordInv
    <2> QED BY <1>2, <1>5, <2>1 DEF Goes
<1>6. ASSUME NEW p \in Requests, NEW r \in RunIds, NEW ruling \in {"approved", "rejected"}, Rules(p, r, ruling)
      PROVE  RecordInv'
    <2>1. Exists(r) /\ p \in Deciders /\ runs[r] \in Rows /\ AtRest(runs[r]) /\ runs[r].status = "awaiting"
        BY <1>6 DEF Rules, MayDecide, GateInv, Types
    <2>2. Tells(runs[r], written[r])
        BY <2>1 DEF RecordInv
    <2>3. runs[r].pending # None /\ runs[r].done[runs[r].pending] = None /\ runs[r].ruling \in [StepIds -> Rulings]
        BY <2>1, RowFields DEF AtRest
    <2>4. Tells(req'[p].row, written[r])
        <3> SUFFICES ASSUME NEW s \in EffectIds(First)
                     PROVE  /\ Len(written[r][s]) = IF req'[p].row.done[s] # None THEN 1 ELSE 0
                            /\ written[r][s] # <<>> => req'[p].row.ruling[s] = "approved"
            BY DEF Tells
        <3>1. s \in StepIds /\ written[r][s] \in Seq(Shows)
            <4>1. s \in StepIds
                BY EffectsOf, DefinitionAssumption DEF RecordInv, DefinitionAssumption
            <4> QED BY <4>1 DEF GateInv, Types
        <3>2. /\ Len(written[r][s]) = IF runs[r].done[s] # None THEN 1 ELSE 0
              /\ written[r][s] # <<>> => runs[r].ruling[s] = "approved"
            BY <2>2 DEF Tells
        <3>3. req'[p].row.done[s] = runs[r].done[s]
              /\ (s # runs[r].pending => req'[p].row.ruling[s] = runs[r].ruling[s])
            BY <1>6, <2>3, <3>1 DEF Rules
        <3>4. s = runs[r].pending => written[r][s] = <<>>
            BY <2>3, <3>1, <3>2
        <3> QED BY <3>2, <3>3, <3>4
    <2>5. ASSUME NEW x \in Requests, x # p PROVE req[x].id # r
        <3> SUFFICES ASSUME req[x].id = r PROVE FALSE
            OBVIOUS
        <3>1. Copies(x)
            BY DefinitionAssumption DEF Copies, DefinitionAssumption
        <3>2. x \in Deciders \/ runs[r].status = "absent"
            BY <3>1 DEF RecordInv
        <3> QED BY <2>1, <2>5, <3>2 DEF RecordInv, OneDecider, Exists
    <2> QED BY <1>2, <1>6, <2>1, <2>4, <2>5 DEF Rules
<1>7. ASSUME NEW p \in Requests, NEW m \in Nat, Commits(p, m) PROVE RecordInv'
    BY <1>7, RecordCommits
<1>8. ASSUME NEW p \in Requests, Deletes(p) PROVE RecordInv'
    <2>1. \A r \in RunIds : runs'[r].status = IF runs[r].status = "absent" THEN "absent" ELSE "deleted"
        <3>1. \A r \in RunIds : runs'[r] = IF runs[r].status = "absent" THEN NoRun ELSE [NoRun EXCEPT !.status = "deleted"]
            BY <1>8 DEF Deletes
        <3> QED BY <3>1, RestOf DEF Rows
    <2>2. written' = written /\ \A x \in Requests : req'[x].id # None => req'[x] = req[x] /\ Copies(x) /\ req[x].id \in RunIds
        <3>1. \A x \in Requests : Copies(x) => req[x].id \in RunIds
            BY LocalOf DEF Copies
        <3> QED BY <1>8, <3>1 DEF Deletes, Others, Copies
    <2>3. \A r \in RunIds : IF runs'[r].status \notin {"absent", "deleted"} THEN Tells(runs'[r], written'[r])
                            ELSE runs'[r].status = "absent" => \A s \in StepIds : written'[r][s] = <<>>
        BY <2>1, <2>2 DEF RecordInv, Exists
    <2>4. ASSUME NEW x \in Requests, req'[x].id # None
          PROVE  /\ Tells(req'[x].row, written'[req'[x].id])
                 /\ x \in Deciders \/ runs'[req'[x].id].status = "absent"
                 /\ \A y \in Requests : req'[x].id = req'[y].id => x = y
        <3>1. req'[x] = req[x] /\ Copies(x) /\ req[x].id \in RunIds
            BY <2>2, <2>4
        <3>2. Tells(req[x].row, written[req[x].id]) /\ (x \in Deciders \/ runs[req[x].id].status = "absent")
            BY <3>1 DEF RecordInv
        <3>3. ASSUME NEW y \in Requests, req'[x].id = req'[y].id PROVE x = y
            <4>1. req'[y] = req[y]
                BY <2>2, <2>4, <3>3
            <4> QED BY <3>1, <3>3, <4>1 DEF RecordInv
        <3> QED BY <2>1, <2>2, <3>1, <3>2, <3>3
    <2> QED BY <2>3, <2>4 DEF RecordInv, Exists, Copies, Tells
<1> QED BY <1>1, <1>3, <1>4, <1>5, <1>6, <1>7, <1>8 DEF Shape

LEMMA RecordStart == SameEffects /\ OneDecider /\ Init => RecordInv
<1> SUFFICES ASSUME SameEffects, OneDecider, Init PROVE RecordInv
    OBVIOUS
<1>1. \A r \in RunIds : ~Exists(r) /\ \A s \in StepIds : written[r][s] = <<>>
    BY RestOf DEF Init, Exists
<1>2. \A p \in Requests : ~Copies(p)
    BY RestOf DEF Init, Copies
<1> QED BY <1>1, <1>2 DEF RecordInv

-----------------------------------------------------------------------------
(* Gates do not pile up *)

\* Requests end or go on, and nothing waits but what waited or was worked on.
LEMMA CrowdShrinks ==
    ASSUME CrowdInv, peak' = peak, Waiting' \subseteq Busy,
           \A x \in Requests : req'[x].id # None => req'[x].id = req[x].id
    PROVE  CrowdInv'
<1>1. Copying' \subseteq Copying
    BY DEF Copying
<1>2. Busy' \subseteq Busy
    BY DEF Busy, Copying
<1>3. /\ IsFiniteSet(Copying') /\ Cardinality(Copying') <= Cardinality(Copying)
      /\ IsFiniteSet(Busy') /\ Cardinality(Busy') <= Cardinality(Busy)
    BY <1>1, <1>2, FS_Subset DEF CrowdInv
<1>4. /\ Cardinality(Copying) \in Nat /\ Cardinality(Copying') \in Nat
      /\ Cardinality(Busy) \in Nat /\ Cardinality(Busy') \in Nat
    BY <1>3, FS_CardinalityType DEF CrowdInv
<1> QED BY <1>3, <1>4 DEF CrowdInv

\* One more request is at work, when no run waits or on a run that does.
LEMMA CrowdGrows ==
    ASSUME CrowdInv, NEW p \in Requests, Joins(p), RowsStay, Others(p), req'[p].id # None,
           Waiting = {} \/ req'[p].id \in Waiting
    PROVE  CrowdInv'
<1> DEFINE all == Copying \union {p}
           n == Cardinality(all)
<1>1. Copying' = all
    BY DEF Copying, Others
<1>2. IsFiniteSet(all) /\ n \in Nat
    BY FS_AddElement, FS_CardinalityType DEF CrowdInv
<1>3. peak' = IF n > peak THEN n ELSE peak
    BY DEF Joins
<1>4. Waiting' = Waiting
    BY DEF RowsStay, Waiting
<1>5. IsFiniteSet(Busy') /\ (Cardinality(Busy') <= n \/ Cardinality(Busy') <= Cardinality(Busy))
    <2>1. CASE Waiting = {}
        <3> DEFINE ids == {req'[x].id : x \in all}
        <3>1. Busy' = ids
            BY <1>1, <1>4, <2>1 DEF Busy
        <3>2. [x \in all |-> req'[x].id] \in Surjection(all, ids)
            BY DEF Surjection
        <3>3. IsFiniteSet(ids) /\ Cardinality(ids) <= n
            BY <1>2, <3>2, FS_Surjection
        <3> QED BY <3>1, <3>3
    <2>2. CASE req'[p].id \in Waiting
        <3>1. Busy' \subseteq Busy
            BY <1>1, <1>4, <2>2 DEF Busy, Others, Copying
        <3> QED BY <3>1, FS_Subset DEF CrowdInv
    <2> QED BY <2>1, <2>2
<1>6. Cardinality(Busy) \in Nat /\ Cardinality(Busy') \in Nat
    BY <1>5, FS_CardinalityType DEF CrowdInv
<1> HIDE DEF n
<1>7. peak' \in Nat /\ n <= peak' /\ Cardinality(Busy') <= peak'
    BY <1>2, <1>3, <1>5, <1>6 DEF CrowdInv
<1> QED BY <1>1, <1>2, <1>5, <1>7 DEF CrowdInv, n

LEMMA CrowdEnds ==
    ASSUME GateInv, CrowdInv, peak' = peak, NEW p \in Requests,
           Retires(p) \/ Goes(p) \/ Deletes(p) \/ \E m \in Nat : Commits(p, m)
    PROVE  CrowdInv'
<1>1. \A x \in Requests : req'[x].id # None => req'[x].id = req[x].id
    BY DEF Retires, Goes, Deletes, Commits, Others
<1>2. Waiting' \subseteq Busy
    <2>1. CASE RowsStay
        BY <2>1 DEF RowsStay, Waiting, Busy
    <2>2. CASE Deletes(p)
        <3>1. \A r \in RunIds : runs'[r] = NoRun \/ runs'[r] = [NoRun EXCEPT !.status = "deleted"]
            BY <2>2 DEF Deletes
        <3>2. \A r \in RunIds : runs'[r].status # "awaiting"
            BY <3>1, RestOf DEF Rows
        <3> QED BY <3>2 DEF Waiting
    <2>3. ASSUME NEW m \in Nat, Commits(p, m) PROVE Waiting' \subseteq Busy
        <3>1. req[p].id \in Busy
            BY <2>3 DEF Commits, Copies, Copying, Busy
        <3>2. \A r \in RunIds : r # req[p].id => runs'[r] = runs[r]
            BY <2>3 DEF Commits, GateInv, Types
        <3> QED BY <3>1, <3>2 DEF Waiting, Busy
    <2> QED BY <2>1, <2>2, <2>3 DEF Retires, Goes
<1> QED BY <1>1, <1>2, CrowdShrinks

LEMMA CrowdStep ==
    ASSUME GateInv, CrowdInv, [Next]_vars
    PROVE  CrowdInv'
<1>1. CASE UNCHANGED vars
    BY <1>1 DEF vars, CrowdInv, Copying, Busy, Waiting
<1>2. ASSUME NEW p \in Requests, StartInsert(p) PROVE CrowdInv'
    <2>1. Begins(p) /\ Joins(p) /\ Waiting = {}
        BY <1>2, StartInsertStep DEF StartInsert
    <2>2. req'[p].id # None
        BY <2>1, DefinitionAssumption DEF Begins, DefinitionAssumption
    <2> QED BY <2>1, <2>2, CrowdGrows DEF Begins
<1>3. ASSUME NEW p \in Requests, NEW r \in RunIds, NEW ruling \in {"approved", "rejected"},
             DecideCheck(p, r, ruling)
      PROVE  CrowdInv'
    <2>1. CASE ~MayDecide(req[p].def, runs[r], ruling)
        <3>1. Leave(p) /\ peak' = peak /\ RowsStay /\ def' = def
            BY <1>3, <2>1 DEF DecideCheck, RowsStay
        <3>2. Retires(p)
            BY <3>1, LeaveStep DEF GateInv, Types
        <3> QED BY <3>1, <3>2, CrowdEnds
    <2>2. CASE MayDecide(req[p].def, runs[r], ruling)
        <3>1. Joins(p) /\ r # None /\ r \in Waiting
            BY <1>3, <2>2, DefinitionAssumption DEF DecideCheck, DefinitionAssumption, MayDecide, Waiting
        <3>2. req'[p].id = r
            BY <1>3, <2>2 DEF DecideCheck, GateInv, Types, Locals
        <3>3. Rules(p, r, ruling)
            BY <1>3, <3>1, <3>2, DecideCheckStep DEF Retires
        <3> QED BY <3>1, <3>2, <3>3, CrowdGrows DEF Rules
    <2> QED BY <2>1, <2>2
<1>4. ASSUME NEW p \in Requests, StartRead(p) \/ DecideRead(p) \/ EditCheck(p) \/ DeleteCheck(p) PROVE CrowdInv'
    <2>1. Retires(p)
        BY <1>4, StartReadStep, DecideReadStep, EditCheckStep, DeleteCheckStep
    <2>2. peak' = peak
        BY <1>4 DEF StartRead, DecideRead, EditCheck, DeleteCheck
    <2> QED BY <2>1, <2>2, CrowdEnds
<1>5. ASSUME NEW p \in Requests, StartCheck(p) \/ EditSave(p) \/ Abort(p) PROVE CrowdInv'
    <2>1. Retires(p)
        BY <1>5, EndStep
    <2>2. peak' = peak
        BY <1>5 DEF StartCheck, EditSave, Abort
    <2> QED BY <2>1, <2>2, CrowdEnds
<1>6. ASSUME NEW p \in Requests, Insert(p) \/ Flush(p) PROVE CrowdInv'
    <2>1. Retires(p) \/ Goes(p)
        BY <1>6, InsertStep, FlushStep
    <2>2. peak' = peak
        BY <1>6 DEF Insert, Flush
    <2> QED BY <2>1, <2>2, CrowdEnds
<1>7. ASSUME NEW p \in Requests, Advance(p) \/ Delete(p) PROVE CrowdInv'
    <2>1. Retires(p) \/ Deletes(p) \/ \E m \in Nat : Commits(p, m)
        BY <1>7, AdvanceStep, DeleteStep
    <2>2. peak' = peak
        BY <1>7 DEF Advance, Delete
    <2> QED BY <2>1, <2>2, CrowdEnds
<1> QED BY <1>1, <1>2, <1>3, <1>4, <1>5, <1>6, <1>7 DEF Next, Decide

LEMMA CrowdStart == Init => CrowdInv
<1> SUFFICES ASSUME Init PROVE CrowdInv
    OBVIOUS
<1>1. Copying = {} /\ Waiting = {}
    BY RestOf DEF Init, Copying, Waiting
<1>2. Busy = {}
    BY <1>1 DEF Busy
<1> QED BY <1>1, <1>2, FS_EmptySet DEF CrowdInv, Init

-----------------------------------------------------------------------------
(* The theorems *)

\* Types, and what a row says of its gate: start_run, _advance, resume_run.
THEOREM TypeCorrect == Spec => []TypeOK
<1>1. Init => GateInv
    BY GateStart
<1>2. GateInv /\ [Next]_vars => GateInv'
    BY NextStep
<1>3. GateInv => TypeOK
    <2> SUFFICES ASSUME GateInv PROVE TypeOK
        OBVIOUS
    <2>1. \A r \in RunIds : runs[r].status \in Statuses /\ AtRest(runs[r])
        BY RowFields DEF GateInv, Types
    <2>2. \A p \in Requests : req[p].pc \in Pcs
        BY LocalOf
    <2> QED BY <2>1, <2>2 DEF TypeOK, AtRest, Pcs, GateInv, Types
<1> QED BY <1>1, <1>2, <1>3, PTL DEF Spec

\* resume_run's seal: an effect is written as a gate of the run showed it, however many
\* requests decide and whatever is edited meanwhile, so long as edits keep the steps and
\* their order.
THEOREM SealBindsTheEffect == SameSteps /\ Spec => []EffectWasShown
<1> DEFINE I == GateInv /\ ShownInv
<1>1. SameSteps /\ Init => I
    BY GateStart, ShownStart
<1>2. I /\ [Next]_vars => I'
    BY NextStep, ShownStep
<1>3. I => EffectWasShown
    BY DEF ShownInv
<1> HIDE DEF I
<1> QED BY <1>1, <1>2, <1>3, PTL DEF Spec

\* The row that _advance commits: an effect it lists as done was written once, any other
\* never, and on an approval that it lists; so long as edits keep the effects and one
\* request decides at a time.
THEOREM RecordIsTrue == SameEffects /\ OneDecider /\ Spec => []RecordTellsEffects
<1> DEFINE I == GateInv /\ RecordInv
<1>1. SameEffects /\ OneDecider /\ Init => I
    BY GateStart, RecordStart
<1>2. I /\ [Next]_vars => I'
    BY NextStep, RecordStep
<1>3. I => RecordTellsEffects
    <2> SUFFICES ASSUME I, NEW r \in RunIds, NEW s \in EffectIds(First), Exists(r)
                 PROVE  /\ Len(written[r][s]) = IF runs[r].done[s] # None THEN 1 ELSE 0
                        /\ written[r][s] # <<>> => runs[r].ruling[s] = "approved"
        BY EffectsOf, DefinitionAssumption DEF RecordTellsEffects, RecordInv, DefinitionAssumption
    <2>1. Tells(runs[r], written[r])
        BY DEF RecordInv
    <2> QED BY <2>1 DEF Tells
<1> HIDE DEF I
<1> QED BY <1>1, <1>2, <1>3, PTL DEF Spec

\* start_run looks for an open gate and locks nothing: gates open one beside another only
\* as far as that many requests were at work at once, for any number of requests, runs
\* and edits, however many decide.
THEOREM GatesDoNotPileUp == Spec => []GateOvershoot
<1> DEFINE I == GateInv /\ CrowdInv
<1>1. Init => I
    BY GateStart, CrowdStart
<1>2. I /\ [Next]_vars => I'
    BY NextStep, CrowdStep
<1>3. I => GateOvershoot
    <2> SUFFICES ASSUME CrowdInv PROVE Cardinality(Waiting) <= peak
        BY DEF GateOvershoot
    <2>1. Waiting \subseteq Busy
        BY DEF Busy
    <2>2. IsFiniteSet(Waiting) /\ Cardinality(Waiting) <= Cardinality(Busy)
        BY <2>1, FS_Subset DEF CrowdInv
    <2>3. Cardinality(Waiting) \in Nat /\ Cardinality(Busy) \in Nat
        BY <2>2, FS_CardinalityType DEF CrowdInv
    <2> QED BY <2>2, <2>3 DEF CrowdInv
<1> HIDE DEF I
<1> QED BY <1>1, <1>2, <1>3, PTL DEF Spec
=============================================================================
