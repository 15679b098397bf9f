----------------------------- MODULE SchedulesProofs -----------------------------
(***************************************************************************)
(* Runners, people and crashes implement the life of a recorded goal, for  *)
(* every set of goals, owners and runners: a goal becomes one task or      *)
(* none.  The row locks carry the proof: what a transaction selected is    *)
(* open until it commits, and selected by nobody else.                     *)
(***************************************************************************)
EXTENDS Schedules, FiniteSetTheorems, TLAPS

RunType == [pc : Pcs, todo : SUBSET Owners, old : SUBSET Goals, age : 0 .. Backoff,
            owner : Owners \union {0}, locked : SUBSET Goals,
            items : SUBSET Goals, planned : SUBSET Goals]
RowType == [state : States, task : BOOLEAN, why : Reasons]

Types ==
    /\ owner \in Ownerships
    /\ row \in [Goals -> RowType]
    /\ left \in [Goals -> Nat] /\ slot \in [Goals -> Int] /\ made \in [Goals -> Nat]
    /\ lock \subseteq Crons /\ \A p, q \in lock : p = q
    /\ run \in [Runners -> RunType]
    /\ faults \in 0 .. MaxFaults

\* A task is attached to goals that were started, never to an open one.
TaskIsStarted == \A g \in Goals : row[g].task = TRUE => row[g].state \notin Open \union {"absent"}

\* The rows of a transaction stay open until it ends, and it alone has them.
LocksHold ==
    /\ \A p \in Runners : run[p].locked # {} => run[p].pc = "plan"
    /\ \A p \in Runners : run[p].pc = "plan" =>
          run[p].items \subseteq run[p].locked /\ run[p].planned \subseteq run[p].locked
    /\ \A p \in Runners : \A g \in run[p].locked : row[g].state \in Open
    /\ \A p, q \in Runners : run[p].locked \intersect run[q].locked # {} => p = q

IInv == Types /\ TaskIsStarted /\ LocksHold

-----------------------------------------------------------------------------
(* What an update does *)

OnlyRun(p) == \A q \in Runners : q # p => run'[q] = run[q]
OnlyRow(g) == \A h \in Goals : h # g => row'[h] = row[h]

LEMMA SetRun ==
    ASSUME run \in [Runners -> RunType], NEW p \in Runners, NEW r \in RunType, run' = [run EXCEPT ![p] = r]
    PROVE  run' \in [Runners -> RunType] /\ run'[p] = r /\ OnlyRun(p)
BY DEF OnlyRun

LEMMA RestType == Rest \in RunType
BY ScheduleAssumption DEF ScheduleAssumption, Rest, RunType, Pcs

\* A new state for one row.
LEMMA SetState ==
    ASSUME row \in [Goals -> RowType], NEW g \in Goals, NEW s \in States, NEW w \in Reasons,
           row' = [row EXCEPT ![g].state = s, ![g].why = w]
    PROVE  row' \in [Goals -> RowType] /\ OnlyRow(g) /\ row'[g].state = s /\ row'[g].task = row[g].task
BY DEF RowType, OnlyRow

\* The locals of a transaction that begins.
LEMMA BeginRecord ==
    ASSUME IInv, NEW r \in RunType, NEW o \in Owners
    PROVE  LET b == [r EXCEPT !.pc = "plan", !.owner = o, !.locked = DueOf(o),
                              !.items = {g \in DueOf(o) : ~Missed(g)}, !.planned = {}]
           IN  /\ b \in RunType /\ b.pc = "plan" /\ b.locked = DueOf(o)
               /\ b.items \subseteq DueOf(o) /\ b.planned = {} /\ (\A g \in b.items : ~Missed(g))
               /\ b.old = r.old /\ b.age = r.age
<1> DEFINE D == DueOf(o)
           I == {g \in D : ~Missed(g)}
           r1 == [r EXCEPT !.pc = "plan", !.owner = o]
           r2 == [r1 EXCEPT !.locked = D]
           r3 == [r2 EXCEPT !.items = I]
           r4 == [r3 EXCEPT !.planned = {}]
<1>1. D \in SUBSET Goals /\ I \in SUBSET Goals /\ I \subseteq D /\ \A g \in I : ~Missed(g)
    BY DEF DueOf
<1> HIDE DEF D, I
<1>2. r1 \in RunType /\ r1.pc = "plan" /\ r1.old = r.old /\ r1.age = r.age
    BY DEF RunType, Pcs
<1> HIDE DEF r1
<1>3. r2 \in RunType /\ r2.pc = "plan" /\ r2.locked = D /\ r2.old = r.old /\ r2.age = r.age
    BY <1>1, <1>2 DEF RunType
<1> HIDE DEF r2
<1>4. r3 \in RunType /\ r3.pc = "plan" /\ r3.locked = D /\ r3.items = I /\ r3.old = r.old /\ r3.age = r.age
    BY <1>1, <1>3 DEF RunType
<1> HIDE DEF r3
<1>5. /\ r4 \in RunType /\ r4.pc = "plan" /\ r4.locked = D /\ r4.items = I /\ r4.planned = {}
      /\ r4.old = r.old /\ r4.age = r.age
    BY <1>4 DEF RunType
<1>6. r4 = [r EXCEPT !.pc = "plan", !.owner = o, !.locked = DueOf(o),
                     !.items = {g \in DueOf(o) : ~Missed(g)}, !.planned = {}]
    BY DEF r3, r2, r1, D, I
<1> HIDE DEF r4
<1> QED BY <1>1, <1>5, <1>6 DEF D

LEMMA EndedRecord ==
    ASSUME IInv, NEW p \in Runners
    PROVE  /\ Ended(p) \in RunType /\ Ended(p).locked = {} /\ Ended(p).pc \in {"idle", "next"}
           /\ \/ Ended(p).old = {}
              \/ Ended(p).old = run[p].old /\ Ended(p).age = run[p].age /\ Ended(p).pc = "next"
<1> DEFINE r == run[p]
           r1 == [r EXCEPT !.pc = "next", !.owner = 0]
           r2 == [r1 EXCEPT !.locked = {}, !.items = {}]
           r3 == [r2 EXCEPT !.planned = {}]
<1>1. r \in RunType
    BY DEF IInv, Types
<1> HIDE DEF r
<1>2. r1 \in RunType /\ r1.pc = "next" /\ r1.old = r.old /\ r1.age = r.age
    BY <1>1 DEF RunType, Pcs
<1> HIDE DEF r1
<1>3. r2 \in RunType /\ r2.pc = "next" /\ r2.locked = {} /\ r2.old = r.old /\ r2.age = r.age
    BY <1>2 DEF RunType
<1> HIDE DEF r2
<1>4. r3 \in RunType /\ r3.pc = "next" /\ r3.locked = {} /\ r3.old = r.old /\ r3.age = r.age
    BY <1>3 DEF RunType
<1>5. Ended(p) = IF p \in Manuals THEN Rest ELSE r3
    BY DEF Ended, r3, r2, r1, r
<1> HIDE DEF r3
<1>6. Rest \in RunType /\ Rest.locked = {} /\ Rest.pc = "idle" /\ Rest.old = {}
    BY RestType DEF Rest
<1> QED BY <1>4, <1>5, <1>6 DEF r

-----------------------------------------------------------------------------
(* What a step is for the recorded goals *)

LEMMA FateType ==
    ASSUME row \in [Goals -> RowType], NEW g \in Goals
    PROVE  Fate(g) \in Occurrence!Fates
BY DEF RowType, States, Open, Fate, Occurrence!Fates

\* The ways a row moves in a step that makes no task.
Moved(g) ==
    \/ row'[g].state = row[g].state
    \/ row[g].state = "absent" /\ row'[g].state \in Open
    \/ row[g].state \in Open /\ row'[g].state \in Open \union {"cancelled"}
    \/ row[g].state \in {"running", "failed"} /\ row'[g].state \in {"completed", "failed", "cancelled"}

LEMMA QuietMove ==
    ASSUME Types, Types', made' = made, \A g \in Goals : Moved(g)
    PROVE  Occurrence!ANext
<1>1. \A g \in Goals : Fate(g)' \in Occurrence!Fates
    BY FateType DEF Types, RowType, States, Open, Fate, Occurrence!Fates
<1>2. \A g \in Goals : \/ Fate(g)' = Fate(g)
                       \/ <<Fate(g), Fate(g)'>> \in Occurrence!Moves /\ Fate(g)' # "started"
    BY DEF Types, RowType, States, Moved, Fate, Open, Occurrence!Moves
<1>3. \A g \in Goals : ~(Fate(g) = "open" /\ Fate(g)' = "started")
    BY <1>2
<1>4. made' = [g \in Goals |-> made[g]]
    BY DEF Types
<1> QED BY <1>1, <1>2, <1>3, <1>4 DEF Occurrence!ANext

LEMMA LocksKept ==
    ASSUME IInv, run' = run, \A g \in Goals : row'[g].state = row[g].state \/ g \notin Locked
    PROVE  LocksHold'
BY DEF IInv, Types, LocksHold, Locked, RunType

LEMMA LockedIsOpen ==
    ASSUME IInv, NEW g \in Locked
    PROVE  g \in Goals /\ row[g].state \in Open
BY DEF IInv, Types, LocksHold, Locked, RunType

-----------------------------------------------------------------------------
(* The person and the task *)

LEMMA CreateStep ==
    ASSUME IInv, NEW g \in Goals, Create(g)
    PROVE  IInv' /\ Occurrence!ANext
<1>1. PICK d \in Delays : /\ row' = [row EXCEPT ![g].state = IF d = 0 THEN "due" ELSE "pending"]
                          /\ left' = [left EXCEPT ![g] = d] /\ slot' = [slot EXCEPT ![g] = d]
    BY DEF Create
<1>2. row[g].state = "absent" /\ UNCHANGED <<owner, made, lock, run, faults>> /\ d \in Nat
    BY ScheduleAssumption DEF ScheduleAssumption, Create
<1>3. /\ row' \in [Goals -> RowType] /\ OnlyRow(g)
      /\ row'[g].state \in {"due", "pending"} /\ row'[g].task = row[g].task
    BY <1>1 DEF IInv, Types, RowType, OnlyRow, States
<1>4. Types'
    BY <1>1, <1>2, <1>3 DEF IInv, Types
<1>5. row[g].task = FALSE
    BY <1>2 DEF IInv, Types, RowType, TaskIsStarted
<1>6. TaskIsStarted'
    BY <1>3, <1>5 DEF IInv, TaskIsStarted, OnlyRow
<1>7. LocksHold'
    <2>1. g \notin Locked
        BY <1>2, LockedIsOpen DEF Open
    <2> QED BY <1>2, <1>3, <2>1, LocksKept DEF OnlyRow
<1>8. Occurrence!ANext
    <2>1. \A h \in Goals : Moved(h)
        BY <1>2, <1>3 DEF OnlyRow, Moved, Open
    <2> QED BY <1>2, <1>4, <2>1, QuietMove DEF IInv
<1> QED BY <1>4, <1>6, <1>7, <1>8 DEF IInv

LEMMA CancelStep ==
    ASSUME IInv, NEW g \in Goals, Cancel(g)
    PROVE  IInv' /\ Occurrence!ANext
<1>1. /\ row' = [row EXCEPT ![g].state = "cancelled", ![g].why = "cancelled"] /\ g \notin Locked
      /\ row[g].state \notin {"absent", "completed", "cancelled"}
      /\ UNCHANGED <<owner, left, slot, made, lock, run, faults>>
    BY DEF Cancel
<1>2. /\ row' \in [Goals -> RowType] /\ OnlyRow(g)
      /\ row'[g].state = "cancelled" /\ row'[g].task = row[g].task
    BY <1>1, SetState DEF IInv, Types, States, Reasons
<1>3. Types'
    BY <1>1, <1>2 DEF IInv, Types
<1>4. TaskIsStarted'
    BY <1>2 DEF IInv, TaskIsStarted, OnlyRow, Open
<1>5. LocksHold'
    BY <1>1, <1>2, LocksKept DEF OnlyRow
<1>6. Occurrence!ANext
    <2>1. \A h \in Goals : Moved(h)
        BY <1>1, <1>2 DEF OnlyRow, Moved, Open, IInv, Types, RowType, States
    <2> QED BY <1>1, <1>3, <2>1, QuietMove DEF IInv
<1> QED BY <1>3, <1>4, <1>5, <1>6 DEF IInv

LEMMA ListDueStep ==
    ASSUME IInv, NEW o \in Owners, ListDue(o)
    PROVE  IInv' /\ Occurrence!ANext
<1>1. /\ DueOf(o) \intersect Locked = {} /\ UNCHANGED <<owner, left, slot, made, lock, run, faults>>
      /\ row' = [g \in Goals |->
                   IF g \notin DueOf(o) THEN row[g]
                   ELSE IF Missed(g) THEN [row[g] EXCEPT !.state = "cancelled", !.why = "missed"]
                   ELSE [row[g] EXCEPT !.state = "due"]]
    BY DEF ListDue
<1>2. ASSUME NEW g \in Goals
      PROVE  /\ row'[g] \in RowType /\ row'[g].task = row[g].task
             /\ g \notin DueOf(o) => row'[g] = row[g]
             /\ g \in DueOf(o) => row[g].state \in Open /\ row'[g].state \in {"due", "cancelled"}
    <2>1. row[g] \in RowType
        BY DEF IInv, Types
    <2>2. CASE g \notin DueOf(o)
        BY <1>1, <2>1, <2>2
    <2>3. CASE g \in DueOf(o) /\ Missed(g)
        <3>1. row'[g] = [row[g] EXCEPT !.state = "cancelled", !.why = "missed"]
            BY <1>1, <2>3
        <3> QED BY <2>1, <2>3, <3>1 DEF RowType, States, Reasons, DueOf, Due
    <2>4. CASE g \in DueOf(o) /\ ~Missed(g)
        <3>1. row'[g] = [row[g] EXCEPT !.state = "due"]
            BY <1>1, <2>4
        <3> QED BY <2>1, <2>4, <3>1 DEF RowType, States, Reasons, DueOf, Due
    <2> QED BY <2>2, <2>3, <2>4
<1>3. row' \in [Goals -> RowType]
    <2>1. row' = [g \in Goals |-> row'[g]]
        BY <1>1
    <2> QED BY <1>2, <2>1
<1>4. Types'
    BY <1>1, <1>3 DEF IInv, Types
<1>5. TaskIsStarted'
    BY <1>2 DEF IInv, TaskIsStarted
<1>6. LocksHold'
    BY <1>1, <1>2, LocksKept
<1>7. Occurrence!ANext
    <2>1. \A h \in Goals : Moved(h)
        BY <1>2 DEF Moved, Open
    <2> QED BY <1>1, <1>4, <2>1, QuietMove DEF IInv
<1> QED BY <1>4, <1>5, <1>6, <1>7 DEF IInv

LEMMA MarkStep ==
    ASSUME IInv, NEW g \in Goals, NEW completed \in BOOLEAN, Mark(g, completed)
    PROVE  IInv' /\ Occurrence!ANext
<1> DEFINE s == IF completed THEN "completed" ELSE "failed"
           w == IF completed THEN "none" ELSE "failed"
<1>1. /\ row[g].task = TRUE /\ row[g].state \notin {"completed", "cancelled"}
      /\ row' = [row EXCEPT ![g].state = s, ![g].why = w]
      /\ UNCHANGED <<owner, left, slot, made, lock, run, faults>>
    BY DEF Mark, IInv, Types, RowType
<1>2. s \in {"completed", "failed"} /\ s \in States /\ w \in Reasons
    BY DEF States, Reasons
<1> HIDE DEF s, w
<1>3. row' \in [Goals -> RowType] /\ OnlyRow(g) /\ row'[g].state = s /\ row'[g].task = row[g].task
    BY <1>1, <1>2, SetState DEF IInv, Types
<1>4. Types'
    BY <1>1, <1>3 DEF IInv, Types
<1>5. row[g].state \in {"running", "failed"}
    BY <1>1 DEF IInv, Types, RowType, States, TaskIsStarted, Open
<1>6. TaskIsStarted'
    BY <1>2, <1>3 DEF IInv, TaskIsStarted, OnlyRow, Open
<1>7. LocksHold'
    <2>1. g \notin Locked
        BY <1>5, LockedIsOpen DEF Open
    <2> QED BY <1>1, <1>3, <2>1, LocksKept DEF OnlyRow
<1>8. Occurrence!ANext
    <2>1. \A h \in Goals : Moved(h)
        BY <1>2, <1>3, <1>5 DEF OnlyRow, Moved
    <2> QED BY <1>1, <1>4, <2>1, QuietMove DEF IInv
<1> QED BY <1>4, <1>6, <1>7, <1>8 DEF IInv

LEMMA DeleteTaskStep ==
    ASSUME IInv, NEW g \in Goals, DeleteTask(g)
    PROVE  IInv' /\ Occurrence!ANext
<1>1. row' = [row EXCEPT ![g].task = FALSE] /\ UNCHANGED <<owner, left, slot, made, lock, run, faults>>
    BY DEF DeleteTask
<1>2. /\ row' \in [Goals -> RowType] /\ OnlyRow(g)
      /\ row'[g].state = row[g].state /\ row'[g].task = FALSE
    BY <1>1 DEF IInv, Types, RowType, OnlyRow
<1>3. Types'
    BY <1>1, <1>2 DEF IInv, Types
<1>4. TaskIsStarted'
    BY <1>2 DEF IInv, TaskIsStarted, OnlyRow
<1>5. LocksHold'
    BY <1>1, <1>2, LocksKept DEF OnlyRow
<1>6. Occurrence!ANext
    <2>1. \A h \in Goals : Moved(h)
        BY <1>2 DEF OnlyRow, Moved
    <2> QED BY <1>1, <1>3, <2>1, QuietMove DEF IInv
<1> QED BY <1>3, <1>4, <1>5, <1>6 DEF IInv

-----------------------------------------------------------------------------
(* The runners *)

LEMMA FaultType ==
    ASSUME faults \in 0 .. MaxFaults, Fault
    PROVE  faults' \in 0 .. MaxFaults
BY ScheduleAssumption DEF ScheduleAssumption, Fault

\* A runner moves on in its locals: it keeps some of its rows, takes open ones that
\* nobody has, or lets go of them.
LEMMA RunMoves ==
    ASSUME IInv, NEW p \in Runners, NEW r \in RunType, run' = [run EXCEPT ![p] = r],
           UNCHANGED <<owner, row, left, slot, made>>, faults' \in 0 .. MaxFaults,
           lock' \subseteq Crons, \A c, d \in lock' : c = d,
           \A g \in r.locked : g \in run[p].locked \/ (g \notin Locked /\ row[g].state \in Open),
           r.locked # {} => r.pc = "plan",
           r.pc = "plan" => r.items \subseteq r.locked /\ r.planned \subseteq r.locked
    PROVE  IInv' /\ Occurrence!ANext
<1>1. run' \in [Runners -> RunType] /\ run'[p] = r /\ OnlyRun(p)
    BY SetRun DEF IInv, Types
<1>2. Types'
    BY <1>1 DEF IInv, Types
<1>3. TaskIsStarted'
    BY DEF IInv, TaskIsStarted
<1>4. \A q \in Runners : run[q].locked \subseteq Locked
    BY DEF Locked
<1>5. LocksHold'
    <2>1. \A q \in Runners : run'[q].locked # {} => run'[q].pc = "plan"
        BY <1>1 DEF IInv, LocksHold, OnlyRun
    <2>5. \A q \in Runners : run'[q].pc = "plan" =>
             run'[q].items \subseteq run'[q].locked /\ run'[q].planned \subseteq run'[q].locked
        BY <1>1 DEF IInv, LocksHold, OnlyRun
    <2>2. \A q \in Runners : \A g \in run'[q].locked : row'[g].state \in Open
        BY <1>1 DEF IInv, LocksHold, OnlyRun
    <2>3. ASSUME NEW q \in Runners, q # p PROVE run'[p].locked \intersect run'[q].locked = {}
        <3>1. run'[q].locked = run[q].locked /\ run[p].locked \intersect run[q].locked = {}
            BY <1>1, <2>3 DEF IInv, LocksHold, OnlyRun
        <3> QED BY <1>1, <1>4, <2>3, <3>1
    <2>4. \A q, u \in Runners : run'[q].locked \intersect run'[u].locked # {} => q = u
        <3> SUFFICES ASSUME NEW q \in Runners, NEW u \in Runners,
                            run'[q].locked \intersect run'[u].locked # {}, q # u
                     PROVE  FALSE
            OBVIOUS
        <3>1. CASE q = p BY <2>3, <3>1
        <3>2. CASE u = p BY <2>3, <3>2
        <3>3. CASE q # p /\ u # p
            BY <1>1, <3>3 DEF IInv, LocksHold, OnlyRun
        <3> QED BY <3>1, <3>2, <3>3
    <2> QED BY ONLY <2>1, <2>2, <2>4, <2>5 DEF LocksHold
<1>6. Occurrence!ANext
    <2>1. \A g \in Goals : Moved(g)
        BY DEF Moved
    <2> QED BY <1>2, <2>1, QuietMove DEF IInv
<1> QED BY <1>2, <1>3, <1>5, <1>6 DEF IInv

LEMMA BeginMoves ==
    ASSUME IInv, NEW p \in Runners, NEW o \in Owners, NEW r \in RunType, Begin(p, o, r),
           UNCHANGED <<owner, row, left, slot, made, lock, faults>>
    PROVE  IInv' /\ Occurrence!ANext
<1> DEFINE b == [r EXCEPT !.pc = "plan", !.owner = o, !.locked = DueOf(o),
                          !.items = {g \in DueOf(o) : ~Missed(g)}, !.planned = {}]
<1>1. /\ b \in RunType /\ b.pc = "plan" /\ b.locked = DueOf(o)
      /\ b.items \subseteq DueOf(o) /\ b.planned = {}
    BY BeginRecord
<1>2. run' = [run EXCEPT ![p] = b] /\ DueOf(o) \intersect Locked = {}
    BY DEF Begin
<1> HIDE DEF b
<1>3. \A g \in DueOf(o) : g \notin Locked /\ row[g].state \in Open
    BY <1>2 DEF DueOf, Due
<1>4. /\ \A g \in b.locked : g \in run[p].locked \/ (g \notin Locked /\ row[g].state \in Open)
      /\ b.locked # {} => b.pc = "plan"
      /\ b.pc = "plan" => b.items \subseteq b.locked /\ b.planned \subseteq b.locked
    BY <1>1, <1>3
<1>5. faults' \in 0 .. MaxFaults /\ lock' \subseteq Crons /\ \A c, d \in lock' : c = d
    BY DEF IInv, Types
<1> QED BY <1>1, <1>2, <1>4, <1>5, RunMoves

LEMMA TryLockStep ==
    ASSUME IInv, NEW p \in Runners, TryLock(p)
    PROVE  IInv' /\ Occurrence!ANext
<1> DEFINE old == {g \in Goals : row[g].state # "absent" /\ left[g] = 0}
           r == [Rest EXCEPT !.pc = "scan", !.old = old]
<1>0. old \in SUBSET Goals
    OBVIOUS
<1> HIDE DEF old
<1>1. r \in RunType /\ r.pc = "scan" /\ r.locked = {}
    <2>1. Rest.locked = {}
        BY DEF Rest
    <2> QED BY <1>0, <2>1, RestType DEF RunType, Pcs
<1>2. /\ run' = [run EXCEPT ![p] = r] /\ lock' = {p} /\ p \in Crons
      /\ UNCHANGED <<owner, row, left, slot, made, faults>>
    BY DEF TryLock, old
<1> HIDE DEF r
<1> QED BY <1>1, <1>2, RunMoves DEF IInv, Types

LEMMA ScanStep ==
    ASSUME IInv, NEW p \in Runners, Scan(p)
    PROVE  IInv' /\ Occurrence!ANext
<1> DEFINE todo == {o \in DueOwners(p) : Cardinality({q \in DueOwners(p) : q < o}) < MaxOwners}
           r == [run[p] EXCEPT !.pc = "next", !.todo = todo]
<1>1. run[p] \in RunType /\ run[p].locked = {}
    BY DEF IInv, Types, LocksHold, Scan
<1>2. DueOwners(p) \subseteq Owners
    <2>1. owner \in Ownerships /\ run[p].old \subseteq Goals
        BY <1>1 DEF IInv, Types, RunType
    <2> QED BY <2>1 DEF DueOwners, Owners
<1>3. todo \in SUBSET Owners
    BY <1>2
<1> HIDE DEF todo
<1>4. r \in RunType /\ r.pc = "next" /\ r.locked = {}
    BY <1>1, <1>3 DEF RunType, Pcs
<1>5. run' = [run EXCEPT ![p] = r] /\ UNCHANGED <<owner, row, left, slot, made, lock, faults>>
    BY DEF Scan, todo
<1> HIDE DEF r
<1> QED BY <1>4, <1>5, RunMoves DEF IInv, Types

LEMMA NextOwnerStep ==
    ASSUME IInv, NEW p \in Runners, NextOwner(p)
    PROVE  IInv' /\ Occurrence!ANext
<1>1. PICK o \in run[p].todo : Begin(p, o, [run[p] EXCEPT !.todo = @ \ {o}])
    BY DEF NextOwner
<1>2. run[p] \in RunType
    BY DEF IInv, Types
<1>3. o \in Owners /\ [run[p] EXCEPT !.todo = @ \ {o}] \in RunType
    BY <1>2 DEF RunType
<1> QED BY <1>1, <1>3, BeginMoves DEF NextOwner

LEMMA ManualRunStep ==
    ASSUME IInv, NEW p \in Runners, ManualRun(p)
    PROVE  IInv' /\ Occurrence!ANext
BY RestType, BeginMoves DEF ManualRun

\* Whoever rests has no rows.
LEMMA RestStep ==
    ASSUME IInv, NEW p \in Runners, run' = [run EXCEPT ![p] = Rest], lock' \subseteq lock,
           UNCHANGED <<owner, row, left, slot, made>>, faults' \in 0 .. MaxFaults
    PROVE  IInv' /\ Occurrence!ANext
<1>1. Rest.locked = {} /\ Rest.pc = "idle"
    BY DEF Rest
<1> QED BY <1>1, RestType, RunMoves DEF IInv, Types

LEMMA PlanOne ==
    ASSUME IInv, NEW p \in Runners, run[p].pc = "plan", NEW g \in run[p].items, NEW r,
           r = [run[p] EXCEPT !.items = @ \ {g}, !.planned = @ \union {g}], run' = [run EXCEPT ![p] = r],
           UNCHANGED <<owner, row, left, slot, made, lock, faults>>
    PROVE  IInv' /\ Occurrence!ANext
<1>1. /\ run[p] \in RunType
      /\ run[p].items \subseteq run[p].locked /\ run[p].planned \subseteq run[p].locked
    BY DEF IInv, Types, LocksHold
<1>2. r \in RunType
    BY <1>1 DEF RunType
<1>3. /\ r.pc = "plan" /\ r.locked = run[p].locked
      /\ r.items \subseteq r.locked /\ r.planned \subseteq r.locked
    BY <1>1 DEF RunType
<1> QED BY <1>2, <1>3, RunMoves DEF IInv, Types

LEMMA PlanStep ==
    ASSUME IInv, NEW p \in Runners, Plan(p)
    PROVE  IInv' /\ Occurrence!ANext
<1>1. /\ run[p].pc = "plan" /\ UNCHANGED <<owner, row, left, slot, made, lock, faults>>
      /\ \E g \in run[p].items :
            run' = [run EXCEPT ![p] = [run[p] EXCEPT !.items = @ \ {g}, !.planned = @ \union {g}]]
    BY DEF Plan
<1> QED BY <1>1, PlanOne

LEMMA OwnerFailsStep ==
    ASSUME IInv, NEW p \in Runners, OwnerFails(p)
    PROVE  IInv' /\ Occurrence!ANext
<1> DEFINE r == [run[p] EXCEPT !.pc = "defer", !.locked = {}]
<1>1. /\ UNCHANGED <<owner, row, left, slot, made, lock>> /\ faults' \in 0 .. MaxFaults
      /\ \/ run' = [run EXCEPT ![p] = Rest]
         \/ run' = [run EXCEPT ![p] = r]
    BY FaultType DEF OwnerFails, IInv, Types
<1>2. run[p] \in RunType
    BY DEF IInv, Types
<1>3. r \in RunType /\ r.pc = "defer" /\ r.locked = {}
    BY <1>2 DEF RunType, Pcs
<1> HIDE DEF r
<1>4. CASE run' = [run EXCEPT ![p] = Rest]
    BY <1>1, <1>4, RestStep
<1>5. CASE run' = [run EXCEPT ![p] = r]
    BY <1>1, <1>3, <1>5, RunMoves DEF IInv, Types
<1> QED BY <1>1, <1>4, <1>5

LEMMA DeferFailsStep ==
    ASSUME IInv, NEW p \in Runners, DeferFails(p)
    PROVE  IInv' /\ Occurrence!ANext
<1>1. /\ UNCHANGED <<owner, row, left, slot, made, lock>> /\ faults' \in 0 .. MaxFaults
      /\ run' = [run EXCEPT ![p] = Ended(p)]
    BY FaultType DEF DeferFails, IInv, Types
<1> QED BY <1>1, EndedRecord, RunMoves DEF IInv, Types

-----------------------------------------------------------------------------
(* A transaction commits, a deferral, the clock *)

LEMMA CommitStep ==
    ASSUME IInv, NEW p \in Runners, Commit(p)
    PROVE  IInv' /\ Occurrence!ANext
<1> DEFINE l == run[p]
<1>1. /\ l.pc = "plan" /\ l \in RunType /\ l.planned \subseteq l.locked /\ l.locked \subseteq Goals
      /\ \A g \in l.locked : row[g].state \in Open
    BY DEF Commit, IInv, Types, LocksHold, RunType
<1>2. /\ row' = [g \in Goals |->
                   IF g \in l.planned THEN [row[g] EXCEPT !.state = "running", !.task = TRUE]
                   ELSE IF g \in l.locked
                   THEN [row[g] EXCEPT !.state = "cancelled", !.why = "missed"]
                   ELSE row[g]]
      /\ made' = [g \in Goals |-> IF g \in l.planned THEN made[g] + 1 ELSE made[g]]
      /\ run' = [run EXCEPT ![p] = Ended(p)] /\ UNCHANGED <<owner, left, slot, lock, faults>>
    BY DEF Commit
<1> HIDE DEF l
<1>3. ASSUME NEW g \in Goals
      PROVE  /\ row'[g] \in RowType
             /\ g \in l.planned => row'[g].state = "running"
             /\ g \in l.locked \ l.planned => row'[g].state = "cancelled" /\ row'[g].task = row[g].task
             /\ g \notin l.locked => row'[g] = row[g]
    <2>1. row[g] \in RowType
        BY DEF IInv, Types
    <2>2. CASE g \in l.planned
        <3>1. row'[g] = [row[g] EXCEPT !.state = "running", !.task = TRUE]
            BY <1>2, <2>2
        <3> QED BY <1>1, <2>1, <2>2, <3>1 DEF RowType, States
    <2>3. CASE g \in l.locked \ l.planned
        <3>1. row'[g] = [row[g] EXCEPT !.state = "cancelled", !.why = "missed"]
            BY <1>2, <2>3
        <3> QED BY <2>1, <2>3, <3>1 DEF RowType, States, Reasons
    <2>4. CASE g \notin l.locked
        BY <1>1, <1>2, <2>1, <2>4
    <2> QED BY <2>2, <2>3, <2>4
<1>4. row' \in [Goals -> RowType] /\ made' \in [Goals -> Nat]
    <2>1. row' = [g \in Goals |-> row'[g]]
        BY <1>2
    <2>2. row' \in [Goals -> RowType]
        BY <1>3, <2>1
    <2>3. made' \in [Goals -> Nat]
        <3>1. \A g \in Goals : made[g] \in Nat /\ made[g] + 1 \in Nat
            BY DEF IInv, Types
        <3>2. made' = [g \in Goals |-> IF g \in l.planned THEN made[g] + 1 ELSE made[g]]
            BY <1>2
        <3> QED BY ONLY <3>1, <3>2
    <2> QED BY <2>2, <2>3
<1>5. /\ run' \in [Runners -> RunType] /\ run'[p].locked = {} /\ run'[p].pc # "plan" /\ OnlyRun(p)
    BY <1>2, EndedRecord, SetRun DEF IInv, Types
<1>6. Types'
    BY <1>2, <1>4, <1>5 DEF IInv, Types
<1>7. TaskIsStarted'
    BY <1>1, <1>3 DEF IInv, TaskIsStarted, Open
<1>8. LocksHold'
    <2>1. \A q \in Runners : q # p => /\ run'[q] = run[q]
                                   /\ \A g \in run[q].locked : g \in Goals /\ g \notin l.locked
        BY <1>5 DEF OnlyRun, IInv, Types, LocksHold, l, RunType
    <2> QED BY <1>3, <1>5, <2>1 DEF IInv, LocksHold
<1>9. Occurrence!ANext
    <2>1. \A g \in Goals : Fate(g)' \in Occurrence!Fates
        BY <1>4 DEF RowType, States, Open, Fate, Occurrence!Fates
    <2>2. \A g \in Goals : g \in l.planned => Fate(g) = "open" /\ Fate(g)' = "started"
        BY <1>1, <1>3 DEF Fate, Open
    <2>3. \A g \in Goals : g \in l.locked \ l.planned => Fate(g) = "open" /\ Fate(g)' = "off"
        BY <1>1, <1>3 DEF Fate, Open
    <2>4. \A g \in Goals : g \notin l.locked => Fate(g)' = Fate(g)
        BY <1>3 DEF Fate
    <2>5. \A g \in Goals : g \in l.planned <=> (Fate(g) = "open" /\ Fate(g)' = "started")
        BY <1>1, <2>2, <2>3, <2>4
    <2>6. \A g \in Goals : Fate(g)' = Fate(g) \/ <<Fate(g), Fate(g)'>> \in Occurrence!Moves
        BY <1>1, <2>2, <2>3, <2>4 DEF Occurrence!Moves
    <2>7. made' = [g \in Goals |-> IF Fate(g) = "open" /\ Fate(g)' = "started" THEN made[g] + 1 ELSE made[g]]
        BY <1>2, <2>5
    <2> QED BY <2>1, <2>6, <2>7 DEF Occurrence!ANext
<1> QED BY <1>6, <1>7, <1>8, <1>9 DEF IInv

LEMMA DeferStep ==
    ASSUME IInv, NEW p \in Runners, Defer(p)
    PROVE  IInv' /\ Occurrence!ANext
<1> DEFINE D == Deferrable(p)
<1>1. /\ row' = [g \in Goals |-> IF g \in D THEN [row[g] EXCEPT !.why = "deferred"] ELSE row[g]]
      /\ left' = [g \in Goals |-> IF g \in D THEN Backoff - run[p].age ELSE left[g]]
      /\ run' = [run EXCEPT ![p] = Ended(p)] /\ UNCHANGED <<owner, slot, made, lock, faults>>
    BY DEF Defer
<1> HIDE DEF D
<1>2. ASSUME NEW g \in Goals
      PROVE  row'[g] \in RowType /\ row'[g].state = row[g].state /\ row'[g].task = row[g].task
    <2>1. row[g] \in RowType
        BY DEF IInv, Types
    <2>2. CASE g \in D
        <3>1. row'[g] = [row[g] EXCEPT !.why = "deferred"]
            BY <1>1, <2>2
        <3> QED BY <2>1, <3>1 DEF RowType, Reasons
    <2>3. CASE g \notin D
        BY <1>1, <2>1, <2>3
    <2> QED BY <2>2, <2>3
<1>3. row' \in [Goals -> RowType]
    <2>1. row' = [g \in Goals |-> row'[g]]
        BY <1>1
    <2> QED BY <1>2, <2>1
<1>4. left' \in [Goals -> Nat]
    <2>1. Backoff - run[p].age \in Nat
        BY ScheduleAssumption DEF ScheduleAssumption, IInv, Types, RunType
    <2> QED BY <1>1, <2>1 DEF IInv, Types
<1>5. /\ run' \in [Runners -> RunType] /\ run'[p].locked = {} /\ run'[p].pc # "plan" /\ OnlyRun(p)
    BY <1>1, EndedRecord, SetRun DEF IInv, Types
<1>6. Types'
    BY <1>1, <1>3, <1>4, <1>5 DEF IInv, Types
<1>7. TaskIsStarted'
    BY <1>2 DEF IInv, TaskIsStarted
<1>8. LocksHold'
    <2>1. \A q \in Runners : q # p => run'[q] = run[q] /\ \A g \in run[q].locked : g \in Goals
        BY <1>5 DEF OnlyRun, IInv, Types, RunType
    <2> QED BY <1>2, <1>5, <2>1 DEF IInv, LocksHold
<1>9. Occurrence!ANext
    <2>1. \A g \in Goals : Moved(g)
        BY <1>2 DEF Moved
    <2> QED BY <1>1, <1>6, <2>1, QuietMove DEF IInv
<1> QED BY <1>6, <1>7, <1>8, <1>9 DEF IInv

LEMMA TickStep ==
    ASSUME IInv, Tick
    PROVE  IInv' /\ Occurrence!ANext
<1>1. /\ left' = [g \in Goals |-> Minus(left[g], 0)]
      /\ slot' = [g \in Goals |-> IF row[g].state = "absent" THEN 0 ELSE Minus(slot[g], -(Lateness + 1))]
      /\ run' = [p \in Runners |->
                   IF run[p].pc = "idle" \/ p \in Manuals \/ run[p].age = Backoff THEN run[p]
                   ELSE [run[p] EXCEPT !.age = @ + 1]]
      /\ UNCHANGED <<owner, row, made, lock, faults>>
    BY DEF Tick
<1>2. left' \in [Goals -> Nat] /\ slot' \in [Goals -> Int]
    BY <1>1, ScheduleAssumption DEF ScheduleAssumption, Minus, IInv, Types
<1>3. ASSUME NEW p \in Runners
      PROVE  /\ run'[p] \in RunType /\ run'[p].pc = run[p].pc /\ run'[p].locked = run[p].locked
             /\ run'[p].items = run[p].items /\ run'[p].planned = run[p].planned
    <2>1. run[p] \in RunType
        BY DEF IInv, Types
    <2>2. CASE run'[p] = run[p]
        BY <2>1, <2>2
    <2>3. CASE run[p].age # Backoff /\ run'[p] = [run[p] EXCEPT !.age = @ + 1]
        <3>1. run[p].age + 1 \in 0 .. Backoff
            BY <2>1, <2>3, ScheduleAssumption DEF ScheduleAssumption, RunType
        <3> QED BY <2>1, <2>3, <3>1 DEF RunType
    <2> QED BY <1>1, <2>2, <2>3
<1>4. run' \in [Runners -> RunType]
    <2>1. run' = [p \in Runners |-> run'[p]]
        BY <1>1
    <2> QED BY <1>3, <2>1
<1>5. Types'
    BY <1>1, <1>2, <1>4 DEF IInv, Types
<1>6. TaskIsStarted' /\ LocksHold'
    BY <1>1, <1>3 DEF IInv, TaskIsStarted, LocksHold
<1>7. Occurrence!ANext
    <2>1. \A g \in Goals : Moved(g)
        BY <1>1 DEF Moved
    <2> QED BY <1>1, <1>5, <2>1, QuietMove DEF IInv
<1> QED BY <1>5, <1>6, <1>7 DEF IInv

-----------------------------------------------------------------------------
(* The theorems *)

LEMMA InitIInv == Init => IInv /\ Occurrence!AInit
<1> SUFFICES ASSUME Init PROVE IInv /\ Occurrence!AInit
    OBVIOUS
<1> USE DEF Init
<1>1. Types
    BY RestType, ScheduleAssumption DEF ScheduleAssumption, Types, NoRow, RowType, States, Reasons
<1>2. \A g \in Goals : row[g].state = "absent" /\ row[g].task = FALSE
    BY DEF NoRow
<1>3. TaskIsStarted
    BY <1>2 DEF TaskIsStarted
<1>4. \A p \in Runners : run[p].pc = "idle" /\ run[p].locked = {}
    BY DEF Rest
<1>5. LocksHold
    BY <1>4 DEF LocksHold
<1>6. \A g \in Goals : Fate(g) = "absent"
    BY <1>2 DEF Fate, Open
<1>7. Occurrence!AInit
    BY <1>6 DEF Occurrence!AInit
<1> QED BY <1>1, <1>3, <1>5, <1>7 DEF IInv

LEMMA NextIInv == IInv /\ [Next]_vars => IInv' /\ [Occurrence!ANext]_(Occurrence!avars)
<1> SUFFICES ASSUME IInv, [Next]_vars PROVE IInv' /\ [Occurrence!ANext]_(Occurrence!avars)
    OBVIOUS
<1>1. CASE \E g \in Goals : \/ Create(g) \/ Cancel(g) \/ DeleteTask(g)
                           \/ \E completed \in BOOLEAN : Mark(g, completed)
    BY <1>1, CreateStep, CancelStep, DeleteTaskStep, MarkStep
<1>2. CASE \E o \in Owners : ListDue(o)
    BY <1>2, ListDueStep
<1>3. ASSUME NEW p \in Runners, TryLock(p) \/ ManualRun(p) \/ Scan(p) \/ NextOwner(p) \/ Plan(p) \/ Commit(p)
      PROVE  IInv' /\ Occurrence!ANext
    BY <1>3, TryLockStep, ManualRunStep, ScanStep, NextOwnerStep, PlanStep, CommitStep
<1>4. ASSUME NEW p \in Runners, Defer(p) \/ OwnerFails(p) \/ DeferFails(p)
      PROVE  IInv' /\ Occurrence!ANext
    BY <1>4, DeferStep, OwnerFailsStep, DeferFailsStep
<1>5. ASSUME NEW p \in Runners, Unlock(p) \/ Crash(p)
      PROVE  IInv' /\ Occurrence!ANext
    BY <1>5, RestStep, FaultType DEF Unlock, Crash, IInv, Types
<1>6. CASE Tick
    BY <1>6, TickStep
<1>7. CASE UNCHANGED vars
    <2>1. IInv'
        BY <1>7 DEF vars, IInv, Types, TaskIsStarted, LocksHold
    <2>2. UNCHANGED Occurrence!avars
        BY <1>7 DEF vars, Occurrence!avars, Fate
    <2> QED BY <2>1, <2>2
<1> QED BY <1>1, <1>2, <1>3, <1>4, <1>5, <1>6, <1>7 DEF Next, RunnerStep

\* The invariant holds in every state.
THEOREM Invariance == Spec => []IInv
BY InitIInv, NextIInv, PTL DEF Spec

LEMMA TypesSuffice == Types => TypeOK
<1> SUFFICES ASSUME Types PROVE TypeOK
    OBVIOUS
<1>1. Cardinality(lock) <= 1
    <2>1. CASE lock = {}
        BY <2>1, FS_EmptySet
    <2>2. CASE \E p \in lock : lock = {p}
        BY <2>2, FS_Singleton
    <2> QED BY <2>1, <2>2 DEF Types
<1> QED BY <1>1 DEF Types, TypeOK, RowType, RunType

\* Every variable keeps its type, and the advisory lock has one holder at most.
THEOREM TypeCorrect == Spec => []TypeOK
BY Invariance, TypesSuffice, PTL DEF IInv

\* Cron, the manual route, people, outcomes, crashes and the clock implement the
\* life of a goal: it becomes one task or none, and what was called off or completed
\* stays so.
THEOREM RunnersImplementOccurrence == Spec => OneTaskPerGoal
BY InitIInv, NextIInv, PTL DEF Spec, OneTaskPerGoal, Occurrence!ASpec

\* What one step may do to the time of a goal.
SlotKept == \A g \in Goals : row[g].state \notin Open \union {"absent"} => left'[g] <= left[g]

LEMMA NextKeepsSlot == IInv /\ [Next]_vars => SlotKept
<1> SUFFICES ASSUME IInv, [Next]_vars, NEW g \in Goals, row[g].state \notin Open \union {"absent"}
             PROVE  left'[g] <= left[g]
    BY DEF SlotKept
<1>1. left \in [Goals -> Nat]
    BY DEF IInv, Types
<1>2. CASE left' = left
    BY <1>1, <1>2
<1>3. CASE \E h \in Goals : Create(h)
    BY <1>1, <1>3 DEF Create
<1>4. CASE \E p \in Runners : Defer(p)
    BY <1>1, <1>4 DEF Defer, Deferrable, Due
<1>5. CASE Tick
    BY <1>1, <1>5 DEF Tick, Minus
<1> QED
    BY <1>2, <1>3, <1>4, <1>5 DEF Next, RunnerStep, Cancel, DeleteTask, Mark, ListDue, TryLock,
       ManualRun, Scan, NextOwner, Plan, Commit, OwnerFails, DeferFails, Unlock, Crash, vars

\* The retry of a failed owner never moves a goal that has its task already, or that
\* is settled, whoever attached it in the meantime.
THEOREM AttachedGoalsStay == Spec => AttachedKeepsSlot
BY Invariance, NextKeepsSlot, PTL DEF Spec, AttachedKeepsSlot, SlotKept

-----------------------------------------------------------------------------
(* A goal that may not run late *)

\* The original slot of a goal lies as far back as its state says: not after its next
\* attempt, by the backoff before it once a failure deferred the goal, and before the
\* moment of every batch that found the goal due.
SlotBehind(g, n) == slot[g] <= -n \/ slot[g] <= -(Lateness + 1)
SlotFits(g) ==
    /\ row[g].state # "absent" => slot[g] <= left[g]
    /\ row[g].why = "deferred" => row[g].state # "absent" /\ SlotBehind(g, Backoff - left[g])
\* Hence whoever plans a goal of the skip policy has found it before its first failure.
Found(p, l) ==
    /\ l.old # {} => p \in Crons /\ l.pc # "idle"
    /\ \A g \in l.old : row[g].state # "absent" /\ SlotBehind(g, l.age)
    /\ l.pc = "plan" =>
          \A g \in l.items \union l.planned : Policy[g] = "skip" => row[g].why # "deferred"
SkipInv ==
    /\ Backoff > Lateness
    /\ \A g \in Goals : SlotFits(g)
    /\ \A p \in Runners : Found(p, run[p])

\* A step that leaves the clock alone and defers nothing.
LEMMA SkipKept ==
    ASSUME IInv, SkipInv, UNCHANGED <<left, slot>>,
           \A g \in Goals : /\ row'[g].state = "absent" <=> row[g].state = "absent"
                            /\ row'[g].why = "deferred" => row[g].why = "deferred",
           \A q \in Runners : run'[q] \in RunType /\ Found(q, run'[q])
    PROVE  SkipInv'
<1>1. \A g \in Goals : SlotFits(g)'
    BY DEF SkipInv, SlotFits, SlotBehind
<1>2. ASSUME NEW q \in Runners PROVE Found(q, run[q])'
    <2>1. run'[q].old \subseteq Goals /\ run'[q].items \subseteq Goals /\ run'[q].planned \subseteq Goals
        BY DEF RunType
    <2> QED BY <2>1 DEF Found, SlotBehind
<1> QED BY <1>1, <1>2 DEF SkipInv

LEMMA SkipRunMoves ==
    ASSUME IInv, SkipInv, NEW p \in Runners, NEW r \in RunType, run' = [run EXCEPT ![p] = r],
           UNCHANGED <<row, left, slot>>, Found(p, r)
    PROVE  SkipInv'
<1>1. run' \in [Runners -> RunType] /\ run'[p] = r /\ OnlyRun(p)
    BY SetRun DEF IInv, Types
<1>2. \A q \in Runners : Found(q, run'[q])
    BY <1>1 DEF OnlyRun, SkipInv
<1> QED BY <1>1, <1>2, SkipKept

\* What a transaction finds to plan was never deferred.
LEMMA SkipBegins ==
    ASSUME IInv, SkipInv, NEW p \in Runners, NEW o \in Owners, NEW r \in RunType, Begin(p, o, r),
           UNCHANGED <<row, left, slot>>, r.old # {} => p \in Crons,
           \A g \in r.old : row[g].state # "absent" /\ SlotBehind(g, r.age)
    PROVE  SkipInv'
<1> DEFINE b == [r EXCEPT !.pc = "plan", !.owner = o, !.locked = DueOf(o),
                          !.items = {g \in DueOf(o) : ~Missed(g)}, !.planned = {}]
<1>1. /\ b \in RunType /\ b.pc = "plan" /\ b.items \subseteq DueOf(o) /\ b.planned = {}
      /\ (\A g \in b.items : ~Missed(g)) /\ b.old = r.old /\ b.age = r.age
    BY BeginRecord
<1>2. run' = [run EXCEPT ![p] = b]
    BY DEF Begin
<1> HIDE DEF b
<1>3. ASSUME NEW g \in b.items, Policy[g] = "skip" PROVE row[g].why # "deferred"
    <2>1. g \in Goals /\ left[g] = 0 /\ ~(slot[g] < -Lateness) /\ slot[g] \in Int
        BY <1>1, <1>3 DEF DueOf, Due, Missed, IInv, Types
    <2>2. ~SlotBehind(g, Backoff - left[g])
        BY <2>1, ScheduleAssumption DEF ScheduleAssumption, SlotBehind, SkipInv
    <2> QED BY <2>1, <2>2 DEF SkipInv, SlotFits
<1>4. Found(p, b)
    BY <1>1, <1>3 DEF Found
<1> QED BY <1>1, <1>2, <1>4, SkipRunMoves

LEMMA SkipRunnerSteps ==
    ASSUME IInv, SkipInv, NEW p \in Runners,
           \/ TryLock(p) \/ ManualRun(p) \/ Scan(p) \/ NextOwner(p) \/ Unlock(p) \/ Plan(p)
           \/ OwnerFails(p) \/ DeferFails(p) \/ Crash(p)
    PROVE  SkipInv'
<1> DEFINE l == run[p]
<1>1. l \in RunType /\ Found(p, l)
    BY DEF IInv, Types, SkipInv
<1>2. UNCHANGED <<row, left, slot>>
    BY DEF TryLock, ManualRun, Scan, NextOwner, Unlock, Plan, OwnerFails, DeferFails, Crash
<1>3. Found(p, Rest) /\ Rest \in RunType /\ Rest.old = {} /\ Rest.age = 0
    <2>1. Rest.old = {} /\ Rest.pc = "idle" /\ Rest.age = 0
        BY DEF Rest
    <2> QED BY <2>1, RestType DEF Found
<1>4. CASE TryLock(p)
    <2> DEFINE old == {g \in Goals : row[g].state # "absent" /\ left[g] = 0}
               r == [Rest EXCEPT !.pc = "scan", !.old = old]
    <2>1. old \in SUBSET Goals
        OBVIOUS
    <2>2. \A g \in old : row[g].state # "absent" /\ SlotBehind(g, 0)
        BY DEF SkipInv, SlotFits, SlotBehind, IInv, Types
    <2>3. run' = [run EXCEPT ![p] = r] /\ p \in Crons
        BY <1>4 DEF TryLock
    <2> HIDE DEF old
    <2>4. r \in RunType /\ r.pc = "scan" /\ r.old = old /\ r.age = 0
        BY <1>3, <2>1 DEF RunType, Pcs
    <2> HIDE DEF r
    <2>5. Found(p, r)
        BY <2>2, <2>3, <2>4 DEF Found
    <2> QED BY <1>2, <2>3, <2>4, <2>5, SkipRunMoves
<1>5. CASE ManualRun(p)
    <2>1. PICK o \in Owners : Begin(p, o, Rest)
        BY <1>5 DEF ManualRun
    <2> QED BY <1>2, <1>3, <2>1, SkipBegins
<1>6. CASE NextOwner(p)
    <2>1. PICK o \in l.todo : Begin(p, o, [l EXCEPT !.todo = @ \ {o}])
        BY <1>6 DEF NextOwner
    <2> DEFINE r == [l EXCEPT !.todo = @ \ {o}]
    <2> HIDE DEF l
    <2>2. o \in Owners /\ r \in RunType /\ r.old = l.old /\ r.age = l.age
        BY <1>1 DEF RunType
    <2>3. Begin(p, o, r)
        BY <2>1
    <2> HIDE DEF r
    <2>4. /\ r.old # {} => p \in Crons
          /\ \A g \in r.old : row[g].state # "absent" /\ SlotBehind(g, r.age)
        BY <1>1, <2>2 DEF Found
    <2> QED BY <1>2, <2>2, <2>3, <2>4, SkipBegins
<1>7. CASE Unlock(p) \/ Crash(p)
    <2>1. run' = [run EXCEPT ![p] = Rest]
        BY <1>7 DEF Unlock, Crash
    <2> QED BY <1>2, <1>3, <2>1, SkipRunMoves
\* Going on in the same batch, not to the transaction of an owner.
<1>8. ASSUME NEW r \in RunType, run' = [run EXCEPT ![p] = r],
             r.old = {} \/ (r.old = l.old /\ r.age = l.age /\ r.pc # "idle"),
             r.pc = "plan" => l.pc = "plan" /\ r.items \union r.planned \subseteq l.items \union l.planned
      PROVE  SkipInv'
    <2>1. Found(p, r)
        BY <1>1, <1>8 DEF Found
    <2> QED BY <1>2, <1>8, <2>1, SkipRunMoves
<1>9. CASE Scan(p)
    <2> DEFINE todo == {o \in DueOwners(p) : Cardinality({q \in DueOwners(p) : q < o}) < MaxOwners}
               r == [l EXCEPT !.pc = "next", !.todo = todo]
    <2>1. DueOwners(p) \subseteq Owners
        <3>1. owner \in Ownerships /\ run[p].old \subseteq Goals
            BY <1>1 DEF IInv, Types, RunType
        <3> QED BY <3>1 DEF DueOwners, Owners
    <2>2. todo \in SUBSET Owners /\ run' = [run EXCEPT ![p] = r]
        BY <1>9, <2>1 DEF Scan
    <2> HIDE DEF l, todo
    <2>3. r \in RunType /\ r.pc = "next" /\ r.old = l.old /\ r.age = l.age
        BY <1>1, <2>2 DEF RunType, Pcs
    <2> HIDE DEF r
    <2> QED BY <1>8, <2>2, <2>3
<1>10. CASE Plan(p)
    <2>1. PICK g \in l.items : run' = [run EXCEPT ![p] = [l EXCEPT !.items = @ \ {g}, !.planned = @ \union {g}]]
        BY <1>10 DEF Plan
    <2> DEFINE r == [l EXCEPT !.items = @ \ {g}, !.planned = @ \union {g}]
    <2>2. run' = [run EXCEPT ![p] = r] /\ l.pc = "plan"
        BY <1>10, <2>1 DEF Plan
    <2> HIDE DEF l
    <2>3. /\ r \in RunType /\ r.pc = "plan" /\ r.old = l.old /\ r.age = l.age
          /\ r.items = l.items \ {g} /\ r.planned = l.planned \union {g}
        BY <1>1, <2>2 DEF RunType
    <2> HIDE DEF r
    <2> QED BY <1>8, <2>2, <2>3
<1>11. CASE OwnerFails(p)
    <2> DEFINE r == [l EXCEPT !.pc = "defer", !.locked = {}]
    <2>1. run' = [run EXCEPT ![p] = Rest] \/ run' = [run EXCEPT ![p] = r]
        BY <1>11 DEF OwnerFails
    <2> HIDE DEF l
    <2>2. r \in RunType /\ r.pc = "defer" /\ r.old = l.old /\ r.age = l.age
        BY <1>1 DEF RunType, Pcs
    <2> HIDE DEF r
    <2>3. CASE run' = [run EXCEPT ![p] = Rest]
        BY <1>2, <1>3, <2>3, SkipRunMoves
    <2>4. CASE run' = [run EXCEPT ![p] = r]
        BY <1>8, <2>2, <2>4
    <2> QED BY <2>1, <2>3, <2>4
<1>12. CASE DeferFails(p)
    <2>1. run' = [run EXCEPT ![p] = Ended(p)]
        BY <1>12 DEF DeferFails
    <2>2. /\ Ended(p) \in RunType /\ Ended(p).pc \in {"idle", "next"}
          /\ Ended(p).old = {} \/ (Ended(p).old = l.old /\ Ended(p).age = l.age /\ Ended(p).pc = "next")
        BY EndedRecord
    <2> QED BY <1>8, <2>1, <2>2
<1> QED BY <1>4, <1>5, <1>6, <1>7, <1>9, <1>10, <1>11, <1>12

\* The person, the task, and the listing: nothing is deferred.
LEMMA SkipRowSteps ==
    ASSUME IInv, SkipInv, run' = run, UNCHANGED <<left, slot>>,
           \A g \in Goals : /\ row'[g].state = "absent" <=> row[g].state = "absent"
                            /\ row'[g].why = "deferred" => row[g].why = "deferred"
    PROVE  SkipInv'
<1>1. \A q \in Runners : run'[q] \in RunType /\ Found(q, run'[q])
    BY DEF IInv, Types, SkipInv
<1> QED BY <1>1, SkipKept

LEMMA SkipPeople ==
    ASSUME IInv, SkipInv, NEW g \in Goals,
           \/ Cancel(g) \/ DeleteTask(g)
           \/ \E completed \in BOOLEAN : Mark(g, completed)
    PROVE  SkipInv'
<1>1. run' = run /\ UNCHANGED <<left, slot>> /\ row \in [Goals -> RowType]
    BY DEF Cancel, DeleteTask, Mark, IInv, Types
<1>2. CASE Cancel(g)
    <2>1. row' = [row EXCEPT ![g].state = "cancelled", ![g].why = "cancelled"] /\ row[g].state # "absent"
        BY <1>2 DEF Cancel
    <2>2. \A h \in Goals : /\ row'[h].state = "absent" <=> row[h].state = "absent"
                           /\ row'[h].why = "deferred" => row[h].why = "deferred"
        BY <1>1, <2>1 DEF RowType
    <2> QED BY <1>1, <2>2, SkipRowSteps
<1>3. CASE DeleteTask(g)
    <2>1. row' = [row EXCEPT ![g].task = FALSE]
        BY <1>3 DEF DeleteTask
    <2>2. \A h \in Goals : /\ row'[h].state = "absent" <=> row[h].state = "absent"
                           /\ row'[h].why = "deferred" => row[h].why = "deferred"
        BY <1>1, <2>1 DEF RowType
    <2> QED BY <1>1, <2>2, SkipRowSteps
<1>4. ASSUME NEW completed \in BOOLEAN, Mark(g, completed) PROVE SkipInv'
    <2>1. PICK s \in {"completed", "failed"}, w \in {"none", "failed"} :
             row' = [row EXCEPT ![g].state = s, ![g].why = w]
        BY <1>4 DEF Mark
    <2>2. row[g].state # "absent"
        BY <1>4 DEF Mark, IInv, TaskIsStarted, Types, RowType
    <2>3. \A h \in Goals : /\ row'[h].state = "absent" <=> row[h].state = "absent"
                           /\ row'[h].why = "deferred" => row[h].why = "deferred"
        BY <1>1, <2>1, <2>2 DEF RowType
    <2> QED BY <1>1, <2>3, SkipRowSteps
<1> QED BY <1>2, <1>3, <1>4

LEMMA SkipListDue ==
    ASSUME IInv, SkipInv, NEW o \in Owners, ListDue(o)
    PROVE  SkipInv'
<1>1. run' = run /\ UNCHANGED <<left, slot>> /\ row \in [Goals -> RowType]
    BY DEF ListDue, IInv, Types
<1>2. ASSUME NEW h \in Goals
      PROVE  /\ row'[h].state = "absent" <=> row[h].state = "absent"
             /\ row'[h].why = "deferred" => row[h].why = "deferred"
    <2>1. row'[h] = IF h \notin DueOf(o) THEN row[h]
                    ELSE IF Missed(h) THEN [row[h] EXCEPT !.state = "cancelled", !.why = "missed"]
                    ELSE [row[h] EXCEPT !.state = "due"]
        BY DEF ListDue
    <2>2. h \in DueOf(o) => row[h].state # "absent"
        BY DEF DueOf, Due, Open
    <2>3. row[h] \in RowType
        BY <1>1
    <2> QED BY <2>1, <2>2, <2>3 DEF RowType
<1> QED BY <1>1, <1>2, SkipRowSteps

LEMMA SkipCommit ==
    ASSUME IInv, SkipInv, NEW p \in Runners, Commit(p)
    PROVE  SkipInv'
<1> DEFINE l == run[p]
<1>1. UNCHANGED <<left, slot>> /\ run' = [run EXCEPT ![p] = Ended(p)] /\ row \in [Goals -> RowType]
    BY DEF Commit, IInv, Types
<1>2. ASSUME NEW h \in Goals
      PROVE  /\ row'[h].state = "absent" <=> row[h].state = "absent"
             /\ row'[h].why = "deferred" => row[h].why = "deferred"
    <2>1. row'[h] = IF h \in l.planned THEN [row[h] EXCEPT !.state = "running", !.task = TRUE]
                    ELSE IF h \in l.locked THEN [row[h] EXCEPT !.state = "cancelled", !.why = "missed"]
                    ELSE row[h]
        BY DEF Commit
    <2>2. h \in l.planned \union l.locked => row[h].state # "absent"
        BY DEF Commit, IInv, LocksHold, Open
    <2>3. row[h] \in RowType
        BY <1>1
    <2> QED BY <2>1, <2>2, <2>3 DEF RowType
<1>3. /\ run' \in [Runners -> RunType] /\ run'[p] = Ended(p) /\ OnlyRun(p)
    BY <1>1, EndedRecord, SetRun DEF IInv, Types
<1>4. Found(p, Ended(p))
    BY EndedRecord DEF Found, SkipInv
<1>5. \A q \in Runners : run'[q] \in RunType /\ Found(q, run'[q])
    BY <1>3, <1>4 DEF OnlyRun, SkipInv
<1> QED BY <1>1, <1>2, <1>5, SkipKept

\* A goal that is recorded is in no runner's hands.
LEMMA SkipCreate ==
    ASSUME IInv, SkipInv, NEW g \in Goals, Create(g)
    PROVE  SkipInv'
<1>1. PICK d \in Delays : /\ row' = [row EXCEPT ![g].state = IF d = 0 THEN "due" ELSE "pending"]
                          /\ left' = [left EXCEPT ![g] = d] /\ slot' = [slot EXCEPT ![g] = d]
    BY DEF Create
<1>2. run' = run /\ row[g].state = "absent" /\ d \in Nat
    BY ScheduleAssumption DEF Create, ScheduleAssumption
<1>3. row \in [Goals -> RowType] /\ left \in [Goals -> Nat] /\ slot \in [Goals -> Int] /\ run \in [Runners -> RunType]
    BY DEF IInv, Types
<1>4. \A h \in Goals : /\ row'[h].why = row[h].why
                       /\ row[h].state # "absent" => row'[h].state = row[h].state /\ left'[h] = left[h] /\ slot'[h] = slot[h]
                       /\ h # g => row'[h] = row[h]
    BY <1>1, <1>2, <1>3 DEF RowType
<1>5. row[g].why # "deferred" /\ left'[g] = d /\ slot'[g] = d
    BY <1>1, <1>2, <1>3 DEF SkipInv, SlotFits
<1>6. ASSUME NEW h \in Goals PROVE SlotFits(h)'
    <2>1. CASE h = g
        BY <1>2, <1>4, <1>5, <2>1 DEF SlotFits
    <2>2. CASE h # g
        BY <1>1, <1>3, <1>4, <2>2 DEF SkipInv, SlotFits, SlotBehind
    <2> QED BY <2>1, <2>2
<1>7. ASSUME NEW p \in Runners PROVE Found(p, run[p])'
    <2>1. run[p].old \subseteq Goals /\ run[p].items \subseteq Goals /\ run[p].planned \subseteq Goals
        BY <1>3 DEF RunType
    <2>2. Found(p, run[p])
        BY DEF SkipInv
    <2> QED BY <1>2, <1>4, <2>1, <2>2 DEF Found, SlotBehind
<1> QED BY <1>6, <1>7 DEF SkipInv

\* The retry of a failed owner is the backoff after the batch, which was not before
\* the slot.
LEMMA SkipDefer ==
    ASSUME IInv, SkipInv, NEW p \in Runners, Defer(p)
    PROVE  SkipInv'
<1> DEFINE D == Deferrable(p)
<1>1. /\ row' = [g \in Goals |-> IF g \in D THEN [row[g] EXCEPT !.why = "deferred"] ELSE row[g]]
      /\ left' = [g \in Goals |-> IF g \in D THEN Backoff - run[p].age ELSE left[g]]
      /\ run' = [run EXCEPT ![p] = Ended(p)] /\ slot' = slot /\ D \intersect Locked = {}
    BY DEF Defer
<1>2. \A g \in D : g \in run[p].old /\ left[g] = 0 /\ row[g].state # "absent"
    BY DEF Deferrable, Due, Open
<1> HIDE DEF D
<1>3. row \in [Goals -> RowType] /\ left \in [Goals -> Nat] /\ slot \in [Goals -> Int] /\ run \in [Runners -> RunType]
      /\ run[p].age \in 0 .. Backoff /\ Backoff \in Nat /\ Lateness \in Nat
    BY ScheduleAssumption DEF IInv, Types, RunType, ScheduleAssumption
<1>4. ASSUME NEW g \in Goals
      PROVE  /\ row'[g].state = row[g].state /\ slot'[g] = slot[g]
             /\ g \in D => left'[g] = Backoff - run[p].age
             /\ g \notin D => row'[g] = row[g] /\ left'[g] = left[g]
    <2>1. row[g] \in RowType
        BY <1>3
    <2> QED BY <1>1, <2>1 DEF RowType
<1>5. ASSUME NEW g \in Goals PROVE SlotFits(g)'
    <2>1. CASE g \in D
        <3>1. SlotBehind(g, run[p].age) /\ slot[g] <= 0 /\ slot[g] \in Int
            BY <1>2, <1>3, <2>1 DEF SkipInv, Found, SlotFits
        <3>2. left'[g] = Backoff - run[p].age /\ slot'[g] = slot[g] /\ row'[g].state # "absent"
            BY <1>2, <1>4, <2>1
        <3>3. slot'[g] <= left'[g]
            BY <1>3, <3>1, <3>2
        <3>4. Backoff - left'[g] = run[p].age
            BY <1>3, <3>2
        <3>5. slot'[g] <= -(Backoff - left'[g]) \/ slot'[g] <= -(Lateness + 1)
            BY <3>1, <3>2, <3>4 DEF SlotBehind
        <3> QED BY <3>2, <3>3, <3>5 DEF SlotFits, SlotBehind
    <2>2. CASE g \notin D
        BY <1>4, <2>2 DEF SkipInv, SlotFits, SlotBehind
    <2> QED BY <2>1, <2>2
<1>6. /\ run' \in [Runners -> RunType] /\ run'[p] = Ended(p) /\ OnlyRun(p)
    BY <1>1, EndedRecord, SetRun DEF IInv, Types
<1>7. Found(p, Ended(p))
    BY EndedRecord DEF Found, SkipInv
<1>8. ASSUME NEW q \in Runners PROVE Found(q, run[q])'
    <2>1. run'[q].old \subseteq Goals /\ Found(q, run'[q]) /\ run'[q] \in RunType
        BY <1>6, <1>7 DEF OnlyRun, SkipInv, RunType
    <2>2. ASSUME run'[q].pc = "plan", NEW g \in run'[q].items \union run'[q].planned, Policy[g] = "skip"
          PROVE  row'[g].why # "deferred"
        <3>1. run'[q] = run[q]
            BY <1>6, <2>2, EndedRecord DEF OnlyRun
        <3>2. g \in run[q].locked /\ g \in Goals
            BY <2>2, <3>1 DEF IInv, Types, LocksHold, RunType
        <3>3. g \notin D
            BY <1>1, <3>2 DEF Locked
        <3> QED BY <1>4, <2>1, <2>2, <3>2, <3>3 DEF Found
    <2>3. ASSUME NEW g \in run'[q].old
          PROVE  /\ row'[g].state # "absent"
                 /\ slot'[g] <= -(run'[q].age) \/ slot'[g] <= -(Lateness + 1)
        <3>1. g \in Goals /\ row[g].state # "absent" /\ SlotBehind(g, run'[q].age)
            BY <2>1 DEF Found
        <3> QED BY <1>1, <1>4, <3>1 DEF SlotBehind
    <2> QED BY <2>1, <2>2, <2>3 DEF Found, SlotBehind
<1> QED BY <1>5, <1>8 DEF SkipInv

\* The clock moves the slot back as fast as it brings the next attempt and ages the batch.
LEMMA SkipTick ==
    ASSUME IInv, SkipInv, Tick
    PROVE  SkipInv'
<1>1. /\ row' = row
      /\ left' = [g \in Goals |-> Minus(left[g], 0)]
      /\ slot' = [g \in Goals |-> IF row[g].state = "absent" THEN 0 ELSE Minus(slot[g], -(Lateness + 1))]
      /\ run' = [p \in Runners |->
                   IF run[p].pc = "idle" \/ p \in Manuals \/ run[p].age = Backoff THEN run[p]
                   ELSE [run[p] EXCEPT !.age = run[p].age + 1]]
    BY DEF Tick
<1>2. left \in [Goals -> Nat] /\ slot \in [Goals -> Int] /\ run \in [Runners -> RunType] /\ Lateness \in Nat /\ Backoff \in Nat
    BY ScheduleAssumption DEF IInv, Types, ScheduleAssumption
<1>3. ASSUME NEW g \in Goals, row[g].state # "absent"
      PROVE  /\ slot'[g] = slot[g] - 1 \/ (slot'[g] = slot[g] /\ slot[g] <= -(Lateness + 1))
             /\ left'[g] = left[g] - 1 \/ (left'[g] = left[g] /\ left[g] = 0)
             /\ left'[g] \in Nat /\ slot'[g] \in Int
    BY <1>1, <1>2, <1>3 DEF Minus
<1>4. ASSUME NEW g \in Goals PROVE SlotFits(g)'
    <2>1. CASE row[g].state = "absent"
        BY <1>1, <2>1 DEF SkipInv, SlotFits
    <2>2. CASE row[g].state # "absent"
        <3>1. slot[g] <= left[g] /\ (row[g].why = "deferred" => SlotBehind(g, Backoff - left[g]))
            BY <2>2 DEF SkipInv, SlotFits
        <3>2. left[g] \in Nat /\ slot[g] \in Int
            BY <1>2
        <3>3. slot'[g] <= left'[g]
            BY <1>2, <1>3, <2>2, <3>1, <3>2
        <3>4. row[g].why = "deferred" => slot'[g] <= -(Backoff - left'[g]) \/ slot'[g] <= -(Lateness + 1)
            BY <1>2, <1>3, <2>2, <3>1, <3>2 DEF SlotBehind
        <3> QED BY <1>1, <2>2, <3>3, <3>4 DEF SlotFits, SlotBehind
    <2> QED BY <2>1, <2>2
<1>5. ASSUME NEW p \in Runners PROVE Found(p, run[p])'
    <2>1. run[p] \in RunType /\ run[p].age \in Nat /\ run[p].old \subseteq Goals
          /\ run[p].items \subseteq Goals /\ run[p].planned \subseteq Goals
        BY <1>2 DEF RunType
    <2>2. /\ run'[p].old = run[p].old /\ run'[p].pc = run[p].pc
          /\ run'[p].items = run[p].items /\ run'[p].planned = run[p].planned
          /\ run'[p].age = run[p].age \/ run'[p].age = run[p].age + 1
        BY <1>1, <2>1 DEF RunType
    <2>3. Found(p, run[p])
        BY DEF SkipInv
    <2>4. ASSUME NEW g \in run'[p].old
          PROVE  slot'[g] <= -(run'[p].age) \/ slot'[g] <= -(Lateness + 1)
        <3>1. g \in Goals /\ row[g].state # "absent" /\ SlotBehind(g, run[p].age) /\ slot[g] \in Int
            BY <1>2, <2>1, <2>2, <2>3, <2>4 DEF Found
        <3>2. \/ run[p].age + 1 = run'[p].age /\ slot'[g] <= slot[g]
              \/ run'[p].age = run[p].age /\ slot'[g] <= slot[g]
            BY <1>2, <1>3, <2>2, <3>1
        <3>3. slot'[g] = slot[g] - 1 \/ (slot'[g] = slot[g] /\ slot[g] <= -(Lateness + 1))
            BY <1>3, <3>1
        <3> QED BY <1>2, <2>1, <3>1, <3>2, <3>3 DEF SlotBehind
    <2> QED BY <1>1, <2>2, <2>3, <2>4 DEF Found, SlotBehind
<1> QED BY <1>4, <1>5 DEF SkipInv

\* A backoff longer than the lateness is all this rests on.
SkipHolds == Backoff > Lateness => SkipInv

LEMMA InitSkip == Init => SkipHolds
<1> SUFFICES ASSUME Init, Backoff > Lateness PROVE SkipInv
    BY DEF SkipHolds
<1>1. \A g \in Goals : SlotFits(g)
    BY DEF Init, SlotFits, NoRow
<1>2. Rest.pc = "idle" /\ Rest.old = {}
    BY DEF Rest
<1>3. \A p \in Runners : Found(p, run[p])
    BY <1>2 DEF Init, Found
<1> QED BY <1>1, <1>3 DEF SkipInv

LEMMA NextSkip == IInv /\ SkipHolds /\ [Next]_vars => SkipHolds'
<1> SUFFICES ASSUME IInv, SkipInv, [Next]_vars PROVE SkipInv'
    BY DEF SkipHolds, SkipInv
<1>1. CASE \E g \in Goals : \/ Create(g) \/ Cancel(g) \/ DeleteTask(g)
                           \/ \E completed \in BOOLEAN : Mark(g, completed)
    BY <1>1, SkipCreate, SkipPeople
<1>2. CASE \E o \in Owners : ListDue(o)
    BY <1>2, SkipListDue
<1>3. CASE \E p \in Runners : \/ TryLock(p) \/ ManualRun(p) \/ RunnerStep(p)
                              \/ OwnerFails(p) \/ DeferFails(p) \/ Crash(p)
    BY <1>3, SkipRunnerSteps, SkipCommit, SkipDefer DEF RunnerStep
<1>4. CASE Tick
    BY <1>4, SkipTick
<1>5. CASE UNCHANGED vars
    <2>1. run' = run /\ UNCHANGED <<row, left, slot>>
        BY <1>5 DEF vars
    <2> QED BY <2>1, SkipRowSteps
<1> QED BY <1>1, <1>2, <1>3, <1>4, <1>5 DEF Next

\* What one step may do to the tasks of a goal that was deferred past its lateness.
NotRetried ==
    \A g \in Goals :
        Policy[g] = "skip" /\ row[g].why = "deferred" /\ Backoff > Lateness => made'[g] = made[g]

LEMMA NextNotRetried == IInv /\ SkipHolds /\ [Next]_vars => NotRetried
<1> SUFFICES ASSUME IInv, SkipInv, [Next]_vars,
                    NEW g \in Goals, Policy[g] = "skip", row[g].why = "deferred"
             PROVE  made'[g] = made[g]
    BY DEF NotRetried, SkipHolds
<1>1. CASE \E p \in Runners : Commit(p)
    <2>1. PICK p \in Runners : Commit(p)
        BY <1>1
    <2>2. run[p].pc = "plan" /\ made' = [h \in Goals |-> IF h \in run[p].planned THEN made[h] + 1 ELSE made[h]]
        BY <2>1 DEF Commit
    <2>3. g \notin run[p].planned
        BY <2>2 DEF SkipInv, Found
    <2> QED BY <2>2, <2>3
<1>2. CASE UNCHANGED made
    BY <1>2
<1> QED
    BY <1>1, <1>2 DEF Next, RunnerStep, Create, Cancel, DeleteTask, Mark, ListDue, TryLock, ManualRun,
       Scan, NextOwner, Plan, OwnerFails, Defer, DeferFails, Unlock, Crash, Tick, vars

\* Where the backoff is longer than the lateness, a goal that must not run late is not
\* brought back by its retry, whoever plans it in the meantime: a failed owner's goals
\* of the skip policy never become tasks.
THEOREM SkippedStaysSkipped == Spec => SkippedNeverRetried
BY Invariance, InitSkip, NextSkip, NextNotRetried, PTL DEF Spec, SkippedNeverRetried, NotRetried
=============================================================================
