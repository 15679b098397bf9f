----------------------------- MODULE DispatchProofs -----------------------------
(***************************************************************************)
(* Dispatchers that overlap, because the advisory lock is gone before the  *)
(* commit, still start a slot once: what keeps them apart is the row that  *)
(* each of them updates, held to the commit.  For any workflows, calendar, *)
(* deployments, edits, faults and crashes.  And next_slot, whatever the    *)
(* calendar and the cadence, is the first firing after its instant.        *)
(***************************************************************************)
EXTENDS Dispatch, FiniteSetTheorems, TLAPS

Partial(S) == UNION {[D -> S] : D \in SUBSET Workflows}
Pcs == {"idle", "moment", "select", "loop", "start", "run", "commit"}
Locals == [pc : Pcs, at : 0 .. MaxTime, due : Partial(Slots), timed : SUBSET Workflows, cur : Nat,
           new : Partial(Slots \union {NoSlot}), mine : SUBSET (Workflows \X Slots), open : SUBSET Workflows]

Types ==
    /\ site \in Sites /\ now \in 0 .. MaxTime
    /\ active \in [Workflows -> BOOLEAN] /\ hourly \in [Workflows -> BOOLEAN]
    /\ next \in [Workflows -> Slots \union {NoSlot}]
    /\ fired \in [Workflows -> [Slots -> Nat]] /\ firedAt \in [Workflows -> [Slots -> Nat]]
    /\ gate \subseteq Workflows /\ lock \subseteq Dispatchers /\ disp \in [Dispatchers -> Locals]
    /\ saves \in Nat /\ faults \in Nat

\* A batch: what it selected had passed, it holds the row of every workflow it moved,
\* and of a slot it started nothing is committed.
InBatch(p) ==
    LET l == disp[p]
    IN  /\ l.at <= now
        /\ Cardinality(DOMAIN l.due) <= site.batch
        /\ \A w \in DOMAIN l.due : l.due[w] <= l.at /\ (LockedBy(p, w) => l.pc = "run" /\ w = l.cur)
        /\ l.pc \in {"idle", "moment", "select"} => DOMAIN l.due = {} /\ DOMAIN l.new = {}
        /\ l.pc \in {"start", "run"} => l.cur \in DOMAIN l.due
        /\ l.pc = "run" => LockedBy(p, l.cur)
        /\ \A w \in DOMAIN l.new : l.new[w] = NoSlot \/ l.new[w] > l.at
        /\ \A w \in Workflows, s \in Slots :
              <<w, s>> \in l.mine =>
                 /\ LockedBy(p, w) /\ w \notin DOMAIN l.due /\ s <= l.at /\ fired[w][s] = 0
                 /\ \A t \in Slots : <<w, t>> \in l.mine => t = s

\* A row has one uncommitted update, the advisory lock one holder.
Exclusive ==
    /\ \A p, q \in Dispatchers : \A w \in Workflows : LockedBy(p, w) /\ LockedBy(q, w) => p = q
    /\ \A p, q \in lock : p = q

\* The dispatcher that is alone: whatever it looks at lies after all it has started.
After(s, w, p) ==
    /\ s <= firedAt[w][s] /\ firedAt[w][s] <= now
    /\ next[w] # NoSlot => next[w] > firedAt[w][s]
    /\ ~Is(p, "idle") => firedAt[w][s] <= disp[p].at
    /\ w \in DOMAIN disp[p].due => disp[p].due[w] > firedAt[w][s]
    /\ \A t \in Slots : <<w, t>> \in disp[p].mine => t > firedAt[w][s]
Lonely ==
    \A p \in Dispatchers : site.crons = {p} =>
        /\ \A q \in Dispatchers : q # p => Is(q, "idle")
        /\ \A w \in Workflows, s \in Slots : fired[w][s] > 0 => After(s, w, p)
        /\ MovesOn

IInv == Types /\ (\A p \in Dispatchers : InBatch(p)) /\ Exclusive /\ Lonely

-----------------------------------------------------------------------------
(* Slots and locals *)

\* The slot after an instant lies after it.
LEMMA SlotLater ==
    ASSUME NEW t \in Nat
    PROVE  NextSlot(t) \in Nat /\ NextSlot(t) > t
<1> DEFINE k == t \div Minutes
<1>1. Minutes \in Nat \ {0}
    BY DispatchAssumption DEF DispatchAssumption
<1>2. k \in Nat /\ k * Minutes <= t /\ t < k * Minutes + Minutes
    BY <1>1
<1>3. k * Minutes \in Nat
    BY <1>1, <1>2
<1>4. NextSlot(t) = IF k * Minutes <= t THEN k * Minutes + Minutes ELSE k * Minutes
    <2>1. Calendar!Hour = Minutes
        BY <1>1 DEF Calendar!Hour
    <2>2. OnTheHour.kind = "hourly" /\ OnTheHour.minute = 0
        BY DEF OnTheHour
    <2>3. Calendar!SameHour(OnTheHour, t) = k * Minutes
        BY <1>3, <2>1, <2>2 DEF Calendar!SameHour
    <2>4. Calendar!Candidate(OnTheHour, t) = k * Minutes
        BY <2>2, <2>3 DEF Calendar!Candidate
    <2>5. Calendar!Period(OnTheHour) = Minutes
        BY <2>1, <2>2 DEF Calendar!Period
    <2> HIDE DEF k
    <2> QED BY <2>4, <2>5 DEF NextSlot, Calendar!NextSlot
<1> HIDE DEF k
<1> QED BY <1>1, <1>2, <1>3, <1>4

LEMMA SlotsAreTimes == Slots \subseteq Nat /\ NoSlot \notin Slots /\ \A t \in 0 .. MaxTime : NextSlot(t) \in Slots
<1>1. \A t \in 0 .. MaxTime : NextSlot(t) \in Nat /\ NextSlot(t) > t /\ t \in Nat
    BY SlotLater, DispatchAssumption DEF DispatchAssumption
<1> QED BY <1>1 DEF Slots, NoSlot

LEMMA PartialFacts ==
    ASSUME NEW S
    PROVE  /\ \A f \in Partial(S) : DOMAIN f \subseteq Workflows /\ \A w \in DOMAIN f : f[w] \in S
           /\ \A f \in Partial(S) : \A w : Without(f, w) \in Partial(S)
           /\ \A f \in Partial(S) : \A w \in Workflows : \A x \in S : With(f, w, x) \in Partial(S)
           /\ [w \in {} |-> 0] \in Partial(S)
<1>1. \A f \in Partial(S) : DOMAIN f \subseteq Workflows /\ \A w \in DOMAIN f : f[w] \in S
    BY DEF Partial
<1>2. ASSUME NEW f \in Partial(S), NEW w PROVE Without(f, w) \in Partial(S)
    <2> DEFINE D == DOMAIN f \ {w}
    <2>1. D \in SUBSET Workflows
        BY <1>1
    <2>2. Without(f, w) \in [D -> S]
        BY <1>1 DEF Without
    <2> QED BY <2>1, <2>2 DEF Partial
<1>3. ASSUME NEW f \in Partial(S), NEW w \in Workflows, NEW x \in S PROVE With(f, w, x) \in Partial(S)
    <2> DEFINE D == DOMAIN f \union {w}
    <2>1. D \in SUBSET Workflows
        BY <1>1
    <2>2. With(f, w, x) \in [D -> S]
        BY <1>1 DEF With
    <2> QED BY <2>1, <2>2 DEF Partial
<1>4. [w \in {} |-> 0] \in Partial(S)
    <2>1. {} \in SUBSET Workflows /\ [w \in {} |-> 0] \in [{} -> S]
        OBVIOUS
    <2> QED BY <2>1 DEF Partial
<1> QED BY <1>1, <1>2, <1>3, <1>4

LEMMA WithoutDomain ==
    ASSUME NEW f, NEW w
    PROVE  DOMAIN Without(f, w) = DOMAIN f \ {w} /\ \A v \in DOMAIN f \ {w} : Without(f, w)[v] = f[v]
BY DEF Without

LEMMA RestLocal ==
    /\ Rest \in Locals /\ Rest.pc = "idle" /\ Rest.at = 0 /\ DOMAIN Rest.due = {} /\ DOMAIN Rest.new = {}
    /\ Rest.mine = {} /\ Rest.timed = {} /\ Rest.open = {} /\ Rest.cur = 0
<1>1. [w \in {} |-> 0] \in Partial(Slots) /\ [w \in {} |-> 0] \in Partial(Slots \union {NoSlot})
    BY PartialFacts
<1>2. DOMAIN [w \in {} |-> 0] = {} /\ 0 \in 0 .. MaxTime
    BY DispatchAssumption DEF DispatchAssumption
<1> QED BY <1>1, <1>2 DEF Rest, Locals, Pcs

LEMMA FieldsOf ==
    ASSUME Types, NEW p \in Dispatchers
    PROVE  /\ disp[p] \in Locals /\ disp[p].pc \in Pcs /\ disp[p].at \in 0 .. MaxTime /\ disp[p].at \in Nat
           /\ disp[p].due \in Partial(Slots) /\ DOMAIN disp[p].due \subseteq Workflows
           /\ \A w \in DOMAIN disp[p].due : disp[p].due[w] \in Slots
           /\ disp[p].new \in Partial(Slots \union {NoSlot}) /\ DOMAIN disp[p].new \subseteq Workflows
           /\ \A w \in DOMAIN disp[p].new : disp[p].new[w] \in Slots \union {NoSlot}
           /\ disp[p].timed \subseteq Workflows /\ disp[p].cur \in Nat
           /\ disp[p].mine \subseteq Workflows \X Slots /\ disp[p].open \subseteq Workflows
<1>1. disp[p] \in Locals
    BY DEF Types
<1>2. \A t \in 0 .. MaxTime : t \in Nat
    BY DispatchAssumption DEF DispatchAssumption
<1>3. /\ disp[p].pc \in Pcs /\ disp[p].at \in 0 .. MaxTime /\ disp[p].due \in Partial(Slots)
      /\ disp[p].new \in Partial(Slots \union {NoSlot})
      /\ disp[p].timed \subseteq Workflows /\ disp[p].cur \in Nat
      /\ disp[p].mine \subseteq Workflows \X Slots /\ disp[p].open \subseteq Workflows
    BY <1>1 DEF Locals
<1> QED BY <1>1, <1>2, <1>3, PartialFacts

-----------------------------------------------------------------------------
(* What one step leaves of the others *)

Only(p) == \A q \in Dispatchers : q # p => disp'[q] = disp[q]

LEMMA Moved ==
    ASSUME Types, NEW p \in Dispatchers, NEW l \in Locals, Becomes(p, l)
    PROVE  disp'[p] = l /\ Only(p) /\ disp' \in [Dispatchers -> Locals]
BY DEF Types, Becomes, Only

LEMMA OthersBatch ==
    ASSUME Types, NEW q \in Dispatchers, InBatch(q), disp'[q] = disp[q], site' = site, now' \in 0 .. MaxTime, now <= now',
           \A w \in Workflows, s \in Slots : <<w, s>> \in disp[q].mine => fired'[w][s] = fired[w][s]
    PROVE  InBatch(q)'
<1>1. disp[q].at \in Nat /\ now \in Nat /\ now' \in Nat
    BY FieldsOf, DispatchAssumption DEF Types, DispatchAssumption
<1>2. disp'[q].at <= now'
    BY <1>1 DEF InBatch
<1>3. \A w : LockedBy(q, w)' <=> LockedBy(q, w)
    BY DEF LockedBy
<1> QED BY <1>2, <1>3 DEF InBatch

\* A step inside a batch: the tables stay.
LEMMA LocalStep ==
    ASSUME IInv, NEW p \in Dispatchers, NEW l \in Locals, Becomes(p, l), UNCHANGED tables, faults' \in Nat,
           lock' \subseteq Dispatchers, \A q, r \in lock' : q = r,
           InBatch(p)',
           \A w \in DOMAIN l.new : LockedBy(p, w) \/ FreeFor(p, w),
           Is(p, "idle") => p \in site.crons /\ l.at = now,
           ~Is(p, "idle") => l.at = disp[p].at \/ l.pc = "idle",
           \A w \in DOMAIN l.due : \/ w \in DOMAIN disp[p].due /\ l.due[w] = disp[p].due[w]
                                   \/ next[w] # NoSlot /\ l.due[w] = next[w],
           \A w \in Workflows, t \in Slots : <<w, t>> \in l.mine =>
                \/ <<w, t>> \in disp[p].mine
                \/ w \in DOMAIN disp[p].due /\ t = disp[p].due[w]
    PROVE  IInv' /\ UNCHANGED Firing!avars
<1>1. Types
    BY DEF IInv
<1>2. disp'[p] = l /\ Only(p) /\ disp' \in [Dispatchers -> Locals]
    BY <1>1, Moved
<1>3. /\ site' = site /\ now' = now /\ active' = active /\ hourly' = hourly /\ next' = next /\ fired' = fired
      /\ firedAt' = firedAt /\ gate' = gate /\ saves' = saves
    BY DEF tables
<1>4. Types'
    BY <1>1, <1>2, <1>3 DEF Types
<1>5. \A q \in Dispatchers : InBatch(q)'
    <2>1. ASSUME NEW q \in Dispatchers, q # p PROVE InBatch(q)'
        <3>1. now <= now' /\ now' \in 0 .. MaxTime
            BY <1>1, <1>3, DispatchAssumption DEF Types, DispatchAssumption
        <3> QED BY <1>1, <1>2, <1>3, <2>1, <3>1, OthersBatch DEF IInv, Only
    <2> QED BY <2>1
<1>6. Exclusive'
    <2>1. ASSUME NEW q \in Dispatchers, NEW r \in Dispatchers, NEW w \in Workflows, LockedBy(q, w)', LockedBy(r, w)'
          PROVE  q = r
        <3>1. \A x \in Dispatchers : x # p => (LockedBy(x, w)' <=> LockedBy(x, w))
            BY <1>2 DEF LockedBy, Only
        <3>2. LockedBy(p, w)' => LockedBy(p, w) \/ FreeFor(p, w)
            BY <1>2 DEF LockedBy
        <3> QED BY <2>1, <3>1, <3>2 DEF IInv, Exclusive, FreeFor
    <2> QED BY <2>1 DEF Exclusive
<1>7. Lonely'
    <2>1. SUFFICES ASSUME NEW o \in Dispatchers, site.crons = {o}
                   PROVE  /\ \A q \in Dispatchers : q # o => Is(q, "idle")'
                          /\ \A w \in Workflows, s \in Slots : fired[w][s] > 0 => After(s, w, o)'
                          /\ MovesOn'
        BY <1>3 DEF Lonely
    <2>2. /\ \A q \in Dispatchers : q # o => Is(q, "idle")
          /\ \A w \in Workflows, s \in Slots : fired[w][s] > 0 => After(s, w, o)
          /\ MovesOn
        BY <2>1 DEF IInv, Lonely
    <2>3. p = o
        BY <2>1, <2>2
    <2>4. \A q \in Dispatchers : q # o => Is(q, "idle")'
        BY <1>2, <2>2, <2>3 DEF Only, Is
    <2>5. ASSUME NEW w \in Workflows, NEW s \in Slots, fired[w][s] > 0 PROVE After(s, w, o)'
        <3>1. After(s, w, p)
            BY <2>2, <2>3, <2>5
        <3>2. l.pc # "idle" => firedAt[w][s] <= l.at
            BY <3>1 DEF After, Is
        <3>3. w \in DOMAIN l.due => l.due[w] > firedAt[w][s]
            BY <3>1 DEF After
        <3>4. \A t \in Slots : <<w, t>> \in l.mine => t > firedAt[w][s]
            BY <3>1 DEF After
        <3> QED BY <1>2, <1>3, <2>3, <3>1, <3>2, <3>3, <3>4 DEF After, Is
    <2>6. MovesOn'
        BY <1>3, <2>2 DEF MovesOn
    <2> QED BY <2>4, <2>5, <2>6
<1> QED BY <1>3, <1>4, <1>5, <1>6, <1>7 DEF IInv, Firing!avars

-----------------------------------------------------------------------------
(* The steps of a batch *)

\* A page of a batch: the workflows with fewer than its size before them.
LEMMA PageFits ==
    ASSUME Types, NEW at \in Nat
    PROVE  IsFiniteSet(Chosen(at)) /\ Cardinality(Chosen(at)) <= site.batch
<1> DEFINE D == {v \in Workflows : Due(v, at)}
           Earlier(w) == {v \in Workflows : Due(v, at) /\ Before(v, w)}
           r == [w \in Chosen(at) |-> Cardinality(Earlier(w))]
<1>1. IsFiniteSet(Workflows) /\ Workflows \subseteq Nat /\ site.batch \in Nat \ {0}
    BY DispatchAssumption DEF DispatchAssumption, Types
<1>2. \A w \in D : next[w] \in Nat
    BY SlotsAreTimes DEF Types, Due
<1>3. \A w \in Workflows : IsFiniteSet(Earlier(w)) /\ Cardinality(Earlier(w)) \in Nat
    <2>1. ASSUME NEW w \in Workflows PROVE IsFiniteSet(Earlier(w)) /\ Cardinality(Earlier(w)) \in Nat
        <3>1. Earlier(w) \in SUBSET Workflows
            OBVIOUS
        <3> HIDE DEF Earlier
        <3> QED BY <1>1, <3>1, FS_Subset, FS_CardinalityType
    <2> QED BY <2>1
<1>4. ASSUME NEW v \in D, NEW w \in D, Before(v, w)
      PROVE  Cardinality(Earlier(v)) < Cardinality(Earlier(w))
    <2>1. v \notin Earlier(v)
        BY <1>1, <1>2 DEF Before
    <2>2. Earlier(v) \union {v} \in SUBSET Earlier(w)
        <3>1. v \in Earlier(w)
            BY <1>4
        <3>2. ASSUME NEW u \in Earlier(v) PROVE u \in Earlier(w)
            <4>1. u \in Workflows /\ Due(u, at) /\ Before(u, v) /\ u \in D
                BY <3>2
            <4>2. u \in Nat /\ v \in Nat /\ w \in Nat /\ next[u] \in Nat /\ next[v] \in Nat /\ next[w] \in Nat
                BY <1>1, <1>2, <4>1
            <4>3. Before(u, w)
                BY <1>4, <4>1, <4>2 DEF Before
            <4> QED BY <4>1, <4>3
        <3> HIDE DEF Earlier
        <3> QED BY <3>1, <3>2
    <2>3. IsFiniteSet(Earlier(v)) /\ Cardinality(Earlier(v)) \in Nat /\ IsFiniteSet(Earlier(w)) /\ Cardinality(Earlier(w)) \in Nat
        BY <1>3
    <2> HIDE DEF Earlier
    <2>4. Cardinality(Earlier(v) \union {v}) = Cardinality(Earlier(v)) + 1
        BY <2>1, <2>3, FS_AddElement
    <2>5. Cardinality(Earlier(v) \union {v}) <= Cardinality(Earlier(w))
        BY <2>2, <2>3, FS_Subset
    <2> QED BY <2>3, <2>4, <2>5
<1>5. \A v, w \in D : v # w => Before(v, w) \/ Before(w, v)
    BY <1>1, <1>2 DEF Before
<1>6. Chosen(at) \subseteq D /\ \A w \in Chosen(at) : Cardinality(Earlier(w)) < site.batch
    BY DEF Chosen
<1>7. r \in Injection(Chosen(at), 0 .. site.batch - 1)
    <2>1. r \in [Chosen(at) -> 0 .. site.batch - 1]
        <3>1. \A w \in Chosen(at) : w \in Workflows
            BY <1>6
        <3> HIDE DEF Earlier
        <3>2. ASSUME NEW w \in Chosen(at) PROVE Cardinality(Earlier(w)) \in 0 .. site.batch - 1
            <4>1. Cardinality(Earlier(w)) \in Nat /\ Cardinality(Earlier(w)) < site.batch
                BY <1>3, <1>6, <3>1
            <4> QED BY <1>1, <4>1
        <3> QED BY <3>2
    <2>2. ASSUME NEW v \in Chosen(at), NEW w \in Chosen(at), v # w PROVE r[v] # r[w]
        <3>1. Cardinality(Earlier(v)) # Cardinality(Earlier(w))
            <4>1. v \in D /\ w \in D
                BY <1>6
            <4>2. Cardinality(Earlier(v)) \in Nat /\ Cardinality(Earlier(w)) \in Nat
                BY <1>3, <4>1
            <4> HIDE DEF D, Earlier
            <4> QED BY <1>4, <1>5, <2>2, <4>1, <4>2
        <3> HIDE DEF Earlier
        <3> QED BY <3>1
    <2> QED BY <2>1, <2>2 DEF Injection, IsInjective
<1> HIDE DEF r
<1>8. IsFiniteSet(0 .. site.batch - 1) /\ Cardinality(0 .. site.batch - 1) = site.batch
    BY <1>1, FS_Interval, SMTT(30)
<1> QED BY <1>7, <1>8, FS_Injection

\* What a batch selected is finite, and a part of it smaller.
LEMMA PartFits ==
    ASSUME Types, NEW p \in Dispatchers, NEW D \in SUBSET DOMAIN disp[p].due,
           Cardinality(DOMAIN disp[p].due) <= site.batch
    PROVE  Cardinality(D) <= site.batch
<1>1. IsFiniteSet(Workflows) /\ DOMAIN disp[p].due \in SUBSET Workflows /\ site.batch \in Nat
    BY FieldsOf, DispatchAssumption DEF DispatchAssumption, Types
<1>2. IsFiniteSet(DOMAIN disp[p].due)
    BY <1>1, FS_Subset
<1>3. IsFiniteSet(D) /\ Cardinality(D) <= Cardinality(DOMAIN disp[p].due)
    BY <1>2, FS_Subset
<1>4. Cardinality(D) \in Nat /\ Cardinality(DOMAIN disp[p].due) \in Nat
    BY <1>2, <1>3, FS_CardinalityType
<1> QED BY <1>1, <1>3, <1>4

\* A batch ends, and what it had not committed is gone.
LEMMA EndStep ==
    ASSUME IInv, NEW p \in Dispatchers, ~Is(p, "idle"), Becomes(p, Rest), UNCHANGED tables, faults' \in Nat,
           lock' \in {lock, lock \ {p}}
    PROVE  IInv' /\ UNCHANGED Firing!avars
<1>1. Types /\ disp'[p] = Rest /\ now' = now /\ site' = site
    BY RestLocal, Moved DEF IInv, tables
<1>2. InBatch(p)'
    <2>1. 0 <= now /\ site.batch \in Nat /\ Cardinality({}) = 0
        BY <1>1, DispatchAssumption, FS_EmptySet DEF DispatchAssumption, Types
    <2> QED BY <1>1, <2>1, RestLocal DEF InBatch, LockedBy
<1>3. lock' \subseteq Dispatchers /\ \A q, r \in lock' : q = r
    BY DEF IInv, Types, Exclusive
<1> QED BY <1>2, <1>3, RestLocal, LocalStep

LEMMA WakeStep ==
    ASSUME IInv, NEW p \in Dispatchers, Wake(p)
    PROVE  IInv' /\ UNCHANGED Firing!avars
<1> DEFINE l == [Rest EXCEPT !.pc = "moment", !.at = now]
<1>1. Types /\ Becomes(p, l) /\ UNCHANGED <<tables, lock, faults>> /\ Is(p, "idle") /\ p \in site.crons
    BY DEF Wake, IInv
<1>2. now \in 0 .. MaxTime /\ now \in Nat /\ site.batch \in Nat
    BY <1>1, DispatchAssumption DEF DispatchAssumption, Types
<1>3. /\ l \in Locals /\ l.pc = "moment" /\ l.at = now /\ DOMAIN l.due = {} /\ DOMAIN l.new = {} /\ l.mine = {}
    BY <1>2, RestLocal DEF Locals, Pcs
<1> HIDE DEF l
<1>4. disp'[p] = l /\ now' = now /\ site' = site
    BY <1>1, <1>3, Moved DEF tables
<1>5. InBatch(p)'
    <2>1. Cardinality({}) = 0
        BY FS_EmptySet
    <2> QED BY <1>2, <1>3, <1>4, <2>1 DEF InBatch, LockedBy
<1>6. lock' \subseteq Dispatchers /\ (\A q, r \in lock' : q = r) /\ faults' \in Nat
    BY <1>1 DEF IInv, Types, Exclusive
<1> QED BY <1>1, <1>3, <1>5, <1>6, LocalStep

LEMMA TryLockStep ==
    ASSUME IInv, NEW p \in Dispatchers, TryLock(p)
    PROVE  IInv' /\ UNCHANGED Firing!avars
<1> DEFINE l == [disp[p] EXCEPT !.pc = "select"]
<1>1. Types /\ UNCHANGED <<tables, faults>> /\ Is(p, "moment") /\ InBatch(p)
    BY DEF TryLock, IInv
<1>2. CASE lock = {} /\ lock' = {p} /\ Becomes(p, l)
    <2>1. /\ l \in Locals /\ l.pc = "select" /\ l.at = disp[p].at /\ l.due = disp[p].due /\ l.new = disp[p].new
          /\ l.mine = disp[p].mine
        BY <1>1, FieldsOf DEF Locals, Pcs
    <2> HIDE DEF l
    <2>2. disp'[p] = l /\ now' = now /\ site' = site /\ fired' = fired
        BY <1>1, <1>2, <2>1, Moved DEF tables
    <2>3. InBatch(p)'
        BY <1>1, <2>1, <2>2 DEF InBatch, LockedBy, Is
    <2>4. lock' \subseteq Dispatchers /\ (\A q, r \in lock' : q = r) /\ faults' \in Nat
        BY <1>1, <1>2 DEF Types
    <2>5. /\ \A w \in DOMAIN l.new : LockedBy(p, w)
          /\ \A w \in DOMAIN l.due : w \in DOMAIN disp[p].due /\ l.due[w] = disp[p].due[w]
        BY <2>1 DEF LockedBy
    <2> QED BY <1>1, <1>2, <2>1, <2>3, <2>4, <2>5, LocalStep DEF Is
<1>3. CASE Becomes(p, Rest) /\ UNCHANGED lock
    BY <1>1, <1>3, EndStep DEF Is, Types
<1> QED BY <1>2, <1>3 DEF TryLock

LEMMA CrashStep ==
    ASSUME IInv, NEW p \in Dispatchers, Crash(p)
    PROVE  IInv' /\ UNCHANGED Firing!avars
<1>1. faults' \in Nat
    BY DEF Crash, Fault, IInv, Types
<1> QED BY <1>1, EndStep DEF Crash

LEMMA SelectStep ==
    ASSUME IInv, NEW p \in Dispatchers, Select(p)
    PROVE  IInv' /\ UNCHANGED Firing!avars
<1> DEFINE C == Chosen(disp[p].at)
           d == [w \in C |-> next[w]]
           t == {w \in C : hourly[w]}
           l == [disp[p] EXCEPT !.pc = "loop", !.due = d, !.timed = t]
<1>1. Types /\ UNCHANGED <<tables, lock, faults>> /\ disp[p].pc = "select" /\ InBatch(p) /\ Becomes(p, l)
    BY DEF Select, IInv, Is
<1>2. \A w \in C : w \in Workflows /\ next[w] # NoSlot /\ next[w] <= disp[p].at /\ next[w] \in Slots
    BY <1>1 DEF Chosen, Due, Types
<1>3. Cardinality(C) <= site.batch
    BY <1>1, FieldsOf, PageFits
<1> HIDE DEF C
<1>4. DOMAIN d = C /\ (\A w \in C : d[w] = next[w]) /\ d \in Partial(Slots)
    <2>1. C \in SUBSET Workflows /\ d \in [C -> Slots]
        BY <1>2
    <2> QED BY <2>1 DEF Partial
<1>5. t \subseteq Workflows
    BY <1>2
<1> HIDE DEF d, t
<1>6. /\ l \in Locals /\ l.pc = "loop" /\ l.at = disp[p].at /\ l.due = d /\ l.new = disp[p].new
      /\ l.mine = disp[p].mine
    BY <1>1, <1>4, <1>5, FieldsOf, ZenonT(30) DEF Locals, Pcs
<1> HIDE DEF l
<1>7. disp'[p] = l /\ now' = now /\ site' = site /\ fired' = fired
    BY <1>1, <1>6, Moved DEF tables
<1>8. l.mine = {} /\ DOMAIN l.new = {}
    <2>1. \A w \in Workflows, s \in Slots : <<w, s>> \notin disp[p].mine
        BY <1>1 DEF InBatch, LockedBy
    <2> QED BY <1>1, <1>6, <2>1, FieldsOf DEF InBatch
<1>9. InBatch(p)'
    BY <1>1, <1>2, <1>3, <1>4, <1>6, <1>7, <1>8 DEF InBatch, LockedBy
<1>10. lock' \subseteq Dispatchers /\ (\A q, r \in lock' : q = r) /\ faults' \in Nat
    BY <1>1 DEF IInv, Types, Exclusive
<1>11. \A w \in DOMAIN l.due : next[w] # NoSlot /\ l.due[w] = next[w]
    BY <1>2, <1>4, <1>6
<1> QED BY <1>1, <1>6, <1>8, <1>9, <1>10, <1>11, LocalStep DEF Is

\* The workflow's new slot lies after the batch.
LEMMA AdvanceLater ==
    ASSUME Types, NEW p \in Dispatchers, NEW w
    PROVE  Advance(p, w) \in Slots \union {NoSlot} /\ (Advance(p, w) = NoSlot \/ Advance(p, w) > disp[p].at)
BY FieldsOf, SlotLater, SlotsAreTimes DEF Advance

\* A workflow is done with: its slot moves on, and no run of it is kept by the batch.
LEMMA PassedStep ==
    ASSUME IInv, NEW p \in Dispatchers, NEW w \in DOMAIN disp[p].due, disp[p].pc \in {"loop", "start"}, FreeFor(p, w),
           NEW l \in Locals, l.pc = "loop", l.due = Without(disp[p].due, w),
           l.new = With(disp[p].new, w, Advance(p, w)), l.at = disp[p].at, l.mine = disp[p].mine,
           Becomes(p, l), UNCHANGED <<tables, lock>>, faults' \in Nat
    PROVE  IInv' /\ UNCHANGED Firing!avars
<1>1. Types /\ InBatch(p)
    BY DEF IInv
<1>2. disp'[p] = l /\ now' = now /\ site' = site /\ fired' = fired
    BY <1>1, Moved DEF tables
<1>3. /\ DOMAIN l.due = DOMAIN disp[p].due \ {w} /\ (\A v \in DOMAIN l.due : l.due[v] = disp[p].due[v])
      /\ DOMAIN l.new = DOMAIN disp[p].new \union {w} /\ l.new[w] = Advance(p, w)
      /\ \A v \in DOMAIN disp[p].new : v # w => l.new[v] = disp[p].new[v]
    <2>1. DOMAIN l.due = DOMAIN disp[p].due \ {w} /\ \A v \in DOMAIN l.due : l.due[v] = disp[p].due[v]
        <3> DEFINE f == disp[p].due
                   g == l.due
        <3>1. g = Without(f, w)
            OBVIOUS
        <3> HIDE DEF f, g
        <3>2. DOMAIN g = DOMAIN f \ {w} /\ \A v \in DOMAIN f \ {w} : g[v] = f[v]
            BY <3>1 DEF Without
        <3>3. DOMAIN g = DOMAIN f \ {w} /\ \A v \in DOMAIN g : g[v] = f[v]
            BY <3>2
        <3> QED BY <3>3 DEF f, g
    <2>2. /\ DOMAIN l.new = DOMAIN disp[p].new \union {w} /\ l.new[w] = Advance(p, w)
          /\ \A v \in DOMAIN disp[p].new : v # w => l.new[v] = disp[p].new[v]
        <3> DEFINE f == disp[p].new
                   g == l.new
                   x == Advance(p, w)
        <3>1. g = With(f, w, x)
            OBVIOUS
        <3> HIDE DEF f, g, x
        <3>2. DOMAIN g = DOMAIN f \union {w} /\ g[w] = x /\ \A v \in DOMAIN f : v # w => g[v] = f[v]
            BY <3>1 DEF With
        <3> QED BY <3>2 DEF f, g, x
    <2> QED BY <2>1, <2>2
<1>4. Cardinality(DOMAIN l.due) <= site.batch
    <2>1. DOMAIN l.due \in SUBSET DOMAIN disp[p].due
        BY <1>3
    <2> QED BY <1>1, <2>1, PartFits DEF InBatch
<1>5. \A v \in DOMAIN l.new : l.new[v] = NoSlot \/ l.new[v] > l.at
    BY <1>1, <1>3, AdvanceLater DEF InBatch
<1>6. InBatch(p)'
    BY <1>1, <1>2, <1>3, <1>4, <1>5 DEF InBatch, LockedBy
<1>7. lock' \subseteq Dispatchers /\ \A q, r \in lock' : q = r
    BY <1>1 DEF IInv, Types, Exclusive
<1>8. \A v \in DOMAIN l.new : LockedBy(p, v) \/ FreeFor(p, v)
    BY <1>3 DEF LockedBy
<1> QED BY <1>3, <1>6, <1>7, <1>8, LocalStep DEF Is

LEMMA SkipStep ==
    ASSUME IInv, NEW p \in Dispatchers, Skip(p)
    PROVE  IInv' /\ UNCHANGED Firing!avars
<1>1. PICK w \in Workflows :
         /\ First(disp[p].due, w) /\ FreeFor(p, w)
         /\ Becomes(p, [disp[p] EXCEPT !.due = Without(@, w), !.new = With(@, w, Advance(p, w))])
    BY DEF Skip
<1> DEFINE d == Without(disp[p].due, w)
           n == With(disp[p].new, w, Advance(p, w))
           l == [disp[p] EXCEPT !.due = d, !.new = n]
<1>2. Types /\ UNCHANGED <<tables, lock, faults>> /\ disp[p].pc = "loop"
    BY DEF Skip, IInv, Is
<1>3. Becomes(p, l)
    BY <1>1, <1>2, FieldsOf DEF Locals
<1>4. d \in Partial(Slots) /\ n \in Partial(Slots \union {NoSlot})
    BY <1>2, FieldsOf, PartialFacts, AdvanceLater
<1> HIDE DEF d, n
<1>5. /\ l \in Locals /\ l.pc = "loop" /\ l.due = d /\ l.new = n /\ l.at = disp[p].at /\ l.mine = disp[p].mine
    BY <1>2, <1>4, FieldsOf DEF Locals
<1> HIDE DEF l
<1>6. w \in DOMAIN disp[p].due /\ faults' \in Nat
    BY <1>1, <1>2 DEF First, Types
<1> QED BY <1>1, <1>2, <1>3, <1>5, <1>6, PassedStep DEF d, n

LEMMA FailOneStep ==
    ASSUME IInv, NEW p \in Dispatchers, FailOne(p)
    PROVE  IInv' /\ UNCHANGED Firing!avars
<1> DEFINE w == disp[p].cur
           d == Without(disp[p].due, w)
           n == With(disp[p].new, w, Advance(p, w))
           k == [disp[p] EXCEPT !.pc = "loop", !.cur = 0]
           l == [k EXCEPT !.due = d, !.new = n]
<1>1. /\ Types /\ UNCHANGED <<tables, lock>> /\ faults' \in Nat /\ disp[p].pc = "start" /\ FreeFor(p, w)
      /\ w \in DOMAIN disp[p].due
    BY DEF FailOne, Fault, IInv, Is, Types, InBatch
<1>2. w \in Workflows
    BY <1>1, FieldsOf
<1>3. Becomes(p, l)
    BY <1>1, FieldsOf DEF FailOne, Locals
<1>4. d \in Partial(Slots) /\ n \in Partial(Slots \union {NoSlot})
    BY <1>1, <1>2, FieldsOf, PartialFacts, AdvanceLater
<1> HIDE DEF d, n
<1>5. k \in Locals /\ k.pc = "loop" /\ k.at = disp[p].at /\ k.mine = disp[p].mine
    BY <1>1, FieldsOf DEF Locals, Pcs
<1> HIDE DEF k
<1>6. /\ l \in Locals /\ l.pc = "loop" /\ l.due = d /\ l.new = n /\ l.at = disp[p].at /\ l.mine = disp[p].mine
    BY <1>4, <1>5 DEF Locals
<1> HIDE DEF l
<1> QED BY <1>1, <1>3, <1>6, PassedStep DEF d, n

LEMMA StartRunStep ==
    ASSUME IInv, NEW p \in Dispatchers, StartRun(p)
    PROVE  IInv' /\ UNCHANGED Firing!avars
<1>1. PICK w \in Workflows : First(disp[p].due, w) /\ Becomes(p, [disp[p] EXCEPT !.pc = "start", !.cur = w])
    BY DEF StartRun
<1> DEFINE l == [disp[p] EXCEPT !.pc = "start", !.cur = w]
<1>2. Types /\ UNCHANGED <<tables, lock, faults>> /\ disp[p].pc = "loop" /\ InBatch(p) /\ w \in DOMAIN disp[p].due
    BY <1>1 DEF StartRun, IInv, Is, First
<1>3. w \in Nat
    BY DispatchAssumption DEF DispatchAssumption
<1>4. /\ l \in Locals /\ l.pc = "start" /\ l.cur = w /\ l.due = disp[p].due /\ l.new = disp[p].new
      /\ l.at = disp[p].at /\ l.mine = disp[p].mine
    BY <1>2, <1>3, FieldsOf DEF Locals, Pcs
<1>5. Becomes(p, l)
    BY <1>1
<1> HIDE DEF l
<1>6. disp'[p] = l /\ now' = now /\ site' = site /\ fired' = fired
    BY <1>2, <1>4, <1>5, Moved DEF tables
<1>7. InBatch(p)'
    BY <1>2, <1>4, <1>6 DEF InBatch, LockedBy
<1>8. lock' \subseteq Dispatchers /\ (\A q, r \in lock' : q = r) /\ faults' \in Nat
    BY <1>2 DEF IInv, Types, Exclusive
<1> QED BY <1>2, <1>4, <1>5, <1>7, <1>8, LocalStep DEF Is, LockedBy

LEMMA FlushRunStep ==
    ASSUME IInv, NEW p \in Dispatchers, FlushRun(p)
    PROVE  IInv' /\ UNCHANGED Firing!avars
<1> DEFINE w == disp[p].cur
           n == With(disp[p].new, w, Advance(p, w))
           l == [disp[p] EXCEPT !.pc = "run", !.new = n]
<1>1. /\ Types /\ UNCHANGED <<tables, lock, faults>> /\ disp[p].pc = "start" /\ FreeFor(p, w)
      /\ InBatch(p) /\ w \in DOMAIN disp[p].due
    BY DEF FlushRun, IInv, Is, InBatch
<1>2. Becomes(p, l)
    BY <1>1, FieldsOf DEF FlushRun, Locals
<1>3. n \in Partial(Slots \union {NoSlot})
    BY <1>1, FieldsOf, PartialFacts, AdvanceLater
<1>4. /\ DOMAIN n = DOMAIN disp[p].new \union {w} /\ n[w] = Advance(p, w)
      /\ \A v \in DOMAIN disp[p].new : v # w => n[v] = disp[p].new[v]
    <2> DEFINE f == disp[p].new
               x == Advance(p, w)
    <2>1. n = With(f, w, x)
        OBVIOUS
    <2> HIDE DEF f, n, x, w
    <2>2. DOMAIN n = DOMAIN f \union {w} /\ n[w] = x /\ \A v \in DOMAIN f : v # w => n[v] = f[v]
        BY <2>1 DEF With
    <2> QED BY <2>2 DEF f, x
<1> HIDE DEF n
<1>5. /\ l \in Locals /\ l.pc = "run" /\ l.cur = disp[p].cur /\ l.due = disp[p].due /\ l.new = n
      /\ l.at = disp[p].at /\ l.mine = disp[p].mine
    BY <1>1, <1>3, FieldsOf DEF Locals, Pcs
<1> HIDE DEF l
<1>6. disp'[p] = l /\ now' = now /\ site' = site /\ fired' = fired
    BY <1>1, <1>2, <1>5, Moved DEF tables
<1>7. \A v \in DOMAIN l.new : l.new[v] = NoSlot \/ l.new[v] > l.at
    BY <1>1, <1>4, <1>5, AdvanceLater DEF InBatch
<1>8. InBatch(p)'
    BY <1>1, <1>4, <1>5, <1>6, <1>7 DEF InBatch, LockedBy
<1>9. lock' \subseteq Dispatchers /\ (\A q, r \in lock' : q = r) /\ faults' \in Nat
    BY <1>1 DEF IInv, Types, Exclusive
<1>10. \A v \in DOMAIN l.new : LockedBy(p, v) \/ FreeFor(p, v)
    BY <1>1, <1>4, <1>5 DEF LockedBy
<1> QED BY <1>1, <1>2, <1>5, <1>8, <1>9, <1>10, LocalStep DEF Is

\* The run's key is not taken: the slot is this batch's, with the row of its workflow.
LEMMA KeyedStep ==
    ASSUME IInv, NEW p \in Dispatchers, Keyed(p)
    PROVE  IInv' /\ UNCHANGED Firing!avars
<1> DEFINE w == disp[p].cur
           s == disp[p].due[w]
           d == Without(disp[p].due, w)
           m == disp[p].mine \union {<<w, s>>}
<1>1. /\ Types /\ UNCHANGED <<tables, lock, faults>> /\ disp[p].pc = "run" /\ ~Collides(p, w)
      /\ InBatch(p) /\ w \in DOMAIN disp[p].due /\ LockedBy(p, w) /\ w \in Workflows /\ s \in Slots
    BY FieldsOf DEF Keyed, IInv, Is, InBatch
<1>2. PICK o \in BOOLEAN :
         Becomes(p, [disp[p] EXCEPT !.pc = "loop", !.cur = 0, !.due = Without(@, w),
                                    !.mine = @ \union {<<w, disp[p].due[w]>>},
                                    !.open = IF o THEN @ \union {w} ELSE @])
    BY DEF Keyed
<1> DEFINE g == IF o THEN disp[p].open \union {w} ELSE disp[p].open
           k == [disp[p] EXCEPT !.pc = "loop", !.cur = 0]
           l == [k EXCEPT !.due = d, !.mine = m, !.open = g]
<1>3. Becomes(p, l)
    BY <1>1, <1>2, FieldsOf DEF Locals
<1>4. d \in Partial(Slots) /\ m \subseteq Workflows \X Slots /\ g \subseteq Workflows
    BY <1>1, FieldsOf, PartialFacts
<1>5. DOMAIN d = DOMAIN disp[p].due \ {w} /\ \A v \in DOMAIN d : d[v] = disp[p].due[v]
    BY WithoutDomain, Zenon
<1> HIDE DEF d, g
<1>6. k \in Locals /\ k.pc = "loop" /\ k.at = disp[p].at /\ k.new = disp[p].new
    BY <1>1, FieldsOf DEF Locals, Pcs
<1> HIDE DEF k
<1>7. l \in Locals /\ l.pc = "loop" /\ l.at = disp[p].at /\ l.new = disp[p].new /\ l.due = d /\ l.mine = m
    BY <1>4, <1>6 DEF Locals
<1> HIDE DEF l
<1>8. disp'[p] = l /\ now' = now /\ site' = site /\ fired' = fired
    BY <1>1, <1>3, <1>7, Moved DEF tables
<1>9. Cardinality(DOMAIN l.due) <= site.batch
    <2>1. DOMAIN l.due \in SUBSET DOMAIN disp[p].due
        BY <1>5, <1>7
    <2> QED BY <1>1, <2>1, PartFits DEF InBatch
<1>10. fired[w][s] = 0 /\ s <= disp[p].at
    BY <1>1 DEF Collides, InBatch, Types
<1>11. \A v \in Workflows, t \in Slots : <<v, t>> \in m => <<v, t>> \in disp[p].mine \/ (v = w /\ t = s)
    OBVIOUS
<1> HIDE DEF m, s, w
<1>12. \A v \in Workflows, t \in Slots : <<v, t>> \in l.mine =>
                 /\ v \in DOMAIN l.new /\ v \notin DOMAIN l.due /\ t <= l.at /\ fired[v][t] = 0
                 /\ \A u \in Slots : <<v, u>> \in l.mine => u = t
    <2>1. w \in DOMAIN disp[p].due /\ \A t \in Slots : <<w, t>> \notin disp[p].mine
        BY <1>1 DEF InBatch
    <2>2. \A v \in Workflows, t \in Slots : <<v, t>> \in disp[p].mine =>
                 /\ v \in DOMAIN disp[p].new /\ v \notin DOMAIN disp[p].due /\ t <= disp[p].at /\ fired[v][t] = 0
                 /\ \A u \in Slots : <<v, u>> \in disp[p].mine => u = t
        BY <1>1 DEF InBatch, LockedBy
    <2>3. w \in DOMAIN disp[p].new
        BY <1>1 DEF LockedBy
    <2>4. ASSUME NEW v \in Workflows, NEW t \in Slots, <<v, t>> \in l.mine
          PROVE  /\ v \in DOMAIN l.new /\ v \notin DOMAIN l.due /\ t <= l.at /\ fired[v][t] = 0
                 /\ \A u \in Slots : <<v, u>> \in l.mine => u = t
        <3>1. CASE v = w
            BY <1>5, <1>7, <1>10, <1>11, <2>1, <2>3, <2>4, <3>1
        <3>2. CASE v # w
            BY <1>5, <1>7, <1>11, <2>2, <2>4, <3>2
        <3> QED BY <3>1, <3>2
    <2> QED BY <2>4
<1>13. InBatch(p)'
    <2>1. \A v \in DOMAIN l.due : l.due[v] <= l.at /\ v \notin DOMAIN l.new
        BY <1>1, <1>5, <1>7 DEF InBatch, LockedBy, w
    <2>2. l.at <= now /\ \A v \in DOMAIN l.new : l.new[v] = NoSlot \/ l.new[v] > l.at
        BY <1>1, <1>7 DEF InBatch
    <2> QED BY <1>7, <1>8, <1>9, <1>12, <2>1, <2>2 DEF InBatch, LockedBy
<1>14. lock' \subseteq Dispatchers /\ (\A q, r \in lock' : q = r) /\ faults' \in Nat
    BY <1>1 DEF IInv, Types, Exclusive
<1>15. /\ \A v \in DOMAIN l.new : LockedBy(p, v)
       /\ \A v \in DOMAIN l.due : v \in DOMAIN disp[p].due /\ l.due[v] = disp[p].due[v]
       /\ \A v \in Workflows, t \in Slots : <<v, t>> \in l.mine =>
             <<v, t>> \in disp[p].mine \/ (v \in DOMAIN disp[p].due /\ t = disp[p].due[v])
    BY <1>1, <1>5, <1>7, <1>11 DEF LockedBy, s
<1> QED BY <1>1, <1>3, <1>7, <1>13, <1>14, <1>15, LocalStep DEF Is

LEMMA LostRaceStep ==
    ASSUME IInv, NEW p \in Dispatchers, LostRace(p)
    PROVE  IInv' /\ UNCHANGED Firing!avars
<1> DEFINE l == [Rest EXCEPT !.pc = "loop", !.at = disp[p].at]
<1>1. Types /\ UNCHANGED <<tables, lock, faults>> /\ disp[p].pc = "run" /\ InBatch(p) /\ Becomes(p, l)
    BY DEF LostRace, IInv, Is
<1>2. l \in Locals /\ l.pc = "loop" /\ l.at = disp[p].at /\ DOMAIN l.due = {} /\ DOMAIN l.new = {} /\ l.mine = {}
    BY <1>1, RestLocal, FieldsOf DEF Locals, Pcs
<1> HIDE DEF l
<1>3. disp'[p] = l /\ now' = now /\ site' = site
    BY <1>1, <1>2, Moved DEF tables
<1>4. InBatch(p)'
    <2>1. site.batch \in Nat /\ Cardinality({}) = 0
        BY <1>1, DispatchAssumption, FS_EmptySet DEF DispatchAssumption, Types
    <2> QED BY <1>1, <1>2, <1>3, <2>1, SMTT(30) DEF InBatch, LockedBy
<1>5. lock' \subseteq Dispatchers /\ (\A q, r \in lock' : q = r) /\ faults' \in Nat
    BY <1>1 DEF IInv, Types, Exclusive
<1> QED BY <1>1, <1>2, <1>4, <1>5, LocalStep DEF Is

LEMMA UnlockStep ==
    ASSUME IInv, NEW p \in Dispatchers, Unlock(p)
    PROVE  IInv' /\ UNCHANGED Firing!avars
<1> DEFINE l == [disp[p] EXCEPT !.pc = "commit"]
<1>1. /\ Types /\ UNCHANGED <<tables, faults>> /\ disp[p].pc = "loop" /\ InBatch(p) /\ Becomes(p, l)
      /\ lock' = lock \ {p}
    BY DEF Unlock, IInv, Is
<1>2. /\ l \in Locals /\ l.pc = "commit" /\ l.at = disp[p].at /\ l.due = disp[p].due /\ l.new = disp[p].new
      /\ l.mine = disp[p].mine
    BY <1>1, FieldsOf DEF Locals, Pcs
<1> HIDE DEF l
<1>3. disp'[p] = l /\ now' = now /\ site' = site /\ fired' = fired
    BY <1>1, <1>2, Moved DEF tables
<1>4. InBatch(p)'
    BY <1>1, <1>2, <1>3 DEF InBatch, LockedBy
<1>5. lock' \subseteq Dispatchers /\ (\A q, r \in lock' : q = r) /\ faults' \in Nat
    BY <1>1 DEF IInv, Types, Exclusive
<1>6. /\ \A w \in DOMAIN l.new : LockedBy(p, w)
      /\ \A w \in DOMAIN l.due : w \in DOMAIN disp[p].due /\ l.due[w] = disp[p].due[w]
    BY <1>2 DEF LockedBy
<1> QED BY <1>1, <1>2, <1>4, <1>5, <1>6, LocalStep DEF Is

-----------------------------------------------------------------------------
(* The commit *)

LEMMA CommitFacts ==
    ASSUME IInv, NEW p \in Dispatchers, Commit(p)
    PROVE  /\ \A w \in Workflows : next'[w] = IF w \in DOMAIN disp[p].new THEN disp[p].new[w] ELSE next[w]
           /\ \A w \in Workflows, s \in Slots :
                 /\ fired'[w][s] = IF <<w, s>> \in disp[p].mine THEN 1 ELSE fired[w][s]
                 /\ firedAt'[w][s] = IF <<w, s>> \in disp[p].mine THEN disp[p].at ELSE firedAt[w][s]
           /\ disp'[p] = Rest /\ Only(p) /\ Types'
<1>1. Types /\ InBatch(p) /\ UNCHANGED <<site, now, active, hourly, saves, lock, faults>> /\ Becomes(p, Rest)
    BY DEF Commit, IInv
<1>2. /\ next' = [w \in Workflows |-> IF w \in DOMAIN disp[p].new THEN disp[p].new[w] ELSE next[w]]
      /\ fired' = [w \in Workflows |-> [s \in Slots |->
                     IF <<w, s>> \in disp[p].mine THEN fired[w][s] + 1 ELSE fired[w][s]]]
      /\ firedAt' = [w \in Workflows |-> [s \in Slots |->
                     IF <<w, s>> \in disp[p].mine THEN disp[p].at ELSE firedAt[w][s]]]
      /\ gate' = gate \union disp[p].open
    BY DEF Commit
<1>3. \A w \in Workflows, s \in Slots : <<w, s>> \in disp[p].mine => fired[w][s] = 0
    BY <1>1 DEF InBatch
<1>4. \A w \in Workflows, s \in Slots :
         /\ fired'[w][s] = IF <<w, s>> \in disp[p].mine THEN 1 ELSE fired[w][s]
         /\ firedAt'[w][s] = IF <<w, s>> \in disp[p].mine THEN disp[p].at ELSE firedAt[w][s]
    <2>1. ASSUME NEW w \in Workflows, NEW s \in Slots
          PROVE  /\ fired'[w][s] = IF <<w, s>> \in disp[p].mine THEN fired[w][s] + 1 ELSE fired[w][s]
                 /\ firedAt'[w][s] = IF <<w, s>> \in disp[p].mine THEN disp[p].at ELSE firedAt[w][s]
        BY <1>2
    <2>2. ASSUME NEW w \in Workflows, NEW s \in Slots
          PROVE  /\ fired'[w][s] = IF <<w, s>> \in disp[p].mine THEN 1 ELSE fired[w][s]
                 /\ firedAt'[w][s] = IF <<w, s>> \in disp[p].mine THEN disp[p].at ELSE firedAt[w][s]
        <3>1. CASE <<w, s>> \in disp[p].mine
            BY <1>3, <2>1, <3>1
        <3>2. CASE <<w, s>> \notin disp[p].mine
            BY <2>1, <3>2
        <3> QED BY <3>1, <3>2
    <2> QED BY <2>2
<1>5. disp'[p] = Rest /\ Only(p) /\ disp' \in [Dispatchers -> Locals]
    BY <1>1, RestLocal, Moved
<1>6. next' \in [Workflows -> Slots \union {NoSlot}]
    <2>1. \A w \in Workflows : (IF w \in DOMAIN disp[p].new THEN disp[p].new[w] ELSE next[w]) \in Slots \union {NoSlot}
        BY <1>1, FieldsOf DEF Types
    <2> QED BY <1>2, <2>1
<1>7. fired' \in [Workflows -> [Slots -> Nat]]
    <2>1. \A w \in Workflows, s \in Slots :
             (IF <<w, s>> \in disp[p].mine THEN fired[w][s] + 1 ELSE fired[w][s]) \in Nat
        BY <1>1 DEF Types
    <2> QED BY <1>2, <2>1
<1>8. firedAt' \in [Workflows -> [Slots -> Nat]]
    <2>1. \A w \in Workflows, s \in Slots :
             (IF <<w, s>> \in disp[p].mine THEN disp[p].at ELSE firedAt[w][s]) \in Nat
        BY <1>1, FieldsOf DEF Types
    <2> QED BY <1>2, <2>1
<1>9. gate' \subseteq Workflows
    BY <1>1, <1>2, FieldsOf DEF Types
<1>10. Types'
    BY <1>1, <1>5, <1>6, <1>7, <1>8, <1>9 DEF Types
<1>11. \A w \in Workflows : next'[w] = IF w \in DOMAIN disp[p].new THEN disp[p].new[w] ELSE next[w]
    BY <1>2
<1> QED BY <1>4, <1>5, <1>10, <1>11

\* What the batch started had no run, and lies after everything that was started
\* before by the dispatcher that is alone.
LEMMA CommitStep ==
    ASSUME IInv, NEW p \in Dispatchers, Commit(p)
    PROVE  IInv' /\ [Firing!AFire \/ Firing!ATick]_Firing!avars
<1> DEFINE l == disp[p]
<1>1. Types /\ Types' /\ InBatch(p) /\ site' = site /\ now' = now /\ lock' = lock /\ l.pc = "commit"
    BY CommitFacts DEF Commit, IInv, Is
<1>2. disp'[p] = Rest /\ Only(p)
    BY CommitFacts
<1>3. \A w \in Workflows, s \in Slots :
         <<w, s>> \in l.mine =>
            /\ w \in DOMAIN l.new /\ s <= l.at /\ fired[w][s] = 0
            /\ \A t \in Slots : <<w, t>> \in l.mine => t = s
    BY <1>1 DEF InBatch, LockedBy
<1>4. now \in Nat /\ l.at \in Nat /\ l.at <= now /\ Slots \subseteq Nat
    BY <1>1, FieldsOf, SlotsAreTimes, DispatchAssumption DEF InBatch, Types, DispatchAssumption
<1>5. \A q \in Dispatchers : InBatch(q)'
    <2>1. InBatch(p)'
        <3>1. site.batch \in Nat /\ Cardinality({}) = 0
            BY <1>1, DispatchAssumption, FS_EmptySet DEF DispatchAssumption, Types
        <3> QED BY <1>1, <1>2, <1>4, <3>1, RestLocal DEF InBatch, LockedBy
    <2>2. ASSUME NEW q \in Dispatchers, q # p PROVE InBatch(q)'
        <3>1. \A w \in Workflows, s \in Slots : <<w, s>> \in disp[q].mine => <<w, s>> \notin disp[p].mine
            <4>1. \A w \in Workflows, s \in Slots : <<w, s>> \in disp[q].mine => LockedBy(q, w)
                BY DEF IInv, InBatch
            <4>2. \A w \in Workflows, s \in Slots : <<w, s>> \in disp[p].mine => LockedBy(p, w)
                BY <1>1 DEF InBatch
            <4> QED BY <2>2, <4>1, <4>2 DEF IInv, Exclusive
        <3>2. \A w \in Workflows, s \in Slots : <<w, s>> \in disp[q].mine => fired'[w][s] = fired[w][s]
            BY <3>1, CommitFacts
        <3>3. now <= now' /\ now' \in 0 .. MaxTime /\ InBatch(q) /\ disp'[q] = disp[q]
            BY <1>1, <1>2, <1>4, <2>2 DEF Types, IInv, Only
        <3> QED BY <1>1, <3>2, <3>3, OthersBatch
    <2> QED BY <2>1, <2>2
<1>6. Exclusive'
    <2>1. \A q \in Dispatchers : \A w : LockedBy(q, w)' => LockedBy(q, w) /\ q # p
        BY <1>2, RestLocal DEF LockedBy, Only
    <2> QED BY <1>1, <2>1 DEF IInv, Exclusive
<1>7. Lonely'
    <2>1. SUFFICES ASSUME NEW o \in Dispatchers, site.crons = {o}
                   PROVE  /\ \A q \in Dispatchers : q # o => Is(q, "idle")'
                          /\ \A w \in Workflows, s \in Slots : fired'[w][s] > 0 => After(s, w, o)'
                          /\ MovesOn'
        BY <1>1 DEF Lonely
    <2>2. /\ \A q \in Dispatchers : q # o => Is(q, "idle")
          /\ \A w \in Workflows, s \in Slots : fired[w][s] > 0 => After(s, w, o)
          /\ MovesOn
        BY <2>1 DEF IInv, Lonely
    <2>3. p = o
        BY <1>1, <2>2 DEF Is
    <2>4. \A q \in Dispatchers : q # o => Is(q, "idle")'
        BY <1>2, <2>2, <2>3 DEF Only, Is
    <2>5. \A w \in Workflows, s \in Slots : fired[w][s] > 0 =>
             /\ s <= firedAt[w][s] /\ firedAt[w][s] <= l.at
             /\ \A t \in Slots : <<w, t>> \in l.mine => t > firedAt[w][s]
             /\ next[w] # NoSlot => next[w] > firedAt[w][s]
        BY <1>1, <2>2, <2>3 DEF After, Is
    <2>6. \A w \in DOMAIN l.new : l.new[w] = NoSlot \/ l.new[w] > l.at
        BY <1>1 DEF InBatch
    <2>7. ASSUME NEW w \in Workflows, NEW s \in Slots, fired'[w][s] > 0 PROVE After(s, w, o)'
        <3>1. s <= firedAt'[w][s] /\ firedAt'[w][s] <= l.at /\ firedAt'[w][s] \in Nat
            <4>1. CASE <<w, s>> \in l.mine
                <5>1. firedAt'[w][s] = l.at
                    BY <4>1, CommitFacts
                <5> QED BY <1>3, <1>4, <4>1, <5>1
            <4>2. CASE <<w, s>> \notin l.mine
                <5>1. fired'[w][s] = fired[w][s] /\ firedAt'[w][s] = firedAt[w][s] /\ firedAt[w][s] \in Nat
                    BY <1>1, <4>2, CommitFacts DEF Types
                <5> QED BY <2>5, <2>7, <5>1
            <4> QED BY <4>1, <4>2
        <3>2. next'[w] # NoSlot => next'[w] > firedAt'[w][s]
            <4>1. CASE w \in DOMAIN l.new
                <5>1. next'[w] = l.new[w] /\ (l.new[w] # NoSlot => l.new[w] \in Nat)
                    BY <1>1, <1>4, <4>1, CommitFacts, FieldsOf
                <5> QED BY <1>4, <2>6, <3>1, <4>1, <5>1
            <4>2. CASE w \notin DOMAIN l.new
                <5>1. <<w, s>> \notin l.mine
                    BY <1>3, <4>2
                <5>2. next'[w] = next[w] /\ fired'[w][s] = fired[w][s] /\ firedAt'[w][s] = firedAt[w][s]
                    BY <4>2, <5>1, CommitFacts
                <5> QED BY <2>5, <2>7, <5>2
            <4> QED BY <4>1, <4>2
        <3> QED BY <1>1, <1>2, <1>4, <2>3, <3>1, <3>2, RestLocal DEF After, Is
    <2>8. MovesOn'
        <3>1. SUFFICES ASSUME NEW w \in Workflows, NEW s \in Slots, NEW t \in Slots,
                              s < t, fired'[w][s] > 0, fired'[w][t] > 0
                       PROVE  t > firedAt'[w][s]
            BY DEF MovesOn
        <3>2. s \in Nat /\ t \in Nat /\ firedAt[w][s] \in Nat /\ firedAt[w][t] \in Nat
            BY <1>1, <1>4 DEF Types
        <3>3. CASE <<w, s>> \notin l.mine /\ <<w, t>> \notin l.mine
            <4>1. fired'[w][s] = fired[w][s] /\ fired'[w][t] = fired[w][t] /\ firedAt'[w][s] = firedAt[w][s]
                BY <3>3, CommitFacts
            <4> QED BY <2>2, <3>1, <4>1 DEF MovesOn
        <3>4. CASE <<w, s>> \notin l.mine /\ <<w, t>> \in l.mine
            <4>1. fired'[w][s] = fired[w][s] /\ firedAt'[w][s] = firedAt[w][s]
                BY <3>4, CommitFacts
            <4> QED BY <2>5, <3>1, <3>4, <4>1
        <3>5. CASE <<w, s>> \in l.mine /\ <<w, t>> \notin l.mine
            <4>1. fired'[w][t] = fired[w][t]
                BY <3>5, CommitFacts
            <4>2. s > firedAt[w][t] /\ t <= firedAt[w][t]
                BY <2>5, <3>1, <3>5, <4>1
            <4> QED BY <3>1, <3>2, <4>2
        <3>6. CASE <<w, s>> \in l.mine /\ <<w, t>> \in l.mine
            BY <1>3, <3>1, <3>2, <3>6
        <3> QED BY <3>3, <3>4, <3>5, <3>6
    <2> QED BY <2>4, <2>7, <2>8
<1>8. Firing!AFire
    <2>1. fired' \in [Workflows -> [Slots -> Nat]] /\ UNCHANGED now
        BY <1>1 DEF Types
    <2>2. \A w \in Workflows, s \in Slots :
             fired'[w][s] # fired[w][s] => <<w, s>> \in l.mine /\ fired'[w][s] = 1
        BY CommitFacts
    <2>3. \A w \in Workflows, s \in Slots :
             fired'[w][s] # fired[w][s] => fired[w][s] = 0 /\ fired'[w][s] = 1 /\ s <= now
        <3>1. ASSUME NEW w \in Workflows, NEW s \in Slots, <<w, s>> \in l.mine
              PROVE  fired[w][s] = 0 /\ s <= now
            <4>1. s \in Nat /\ s <= l.at /\ fired[w][s] = 0
                BY <1>3, <1>4, <3>1
            <4> QED BY <1>4, <4>1
        <3> QED BY <2>2, <3>1
    <2>4. \A w \in Workflows : \A s, t \in Slots :
             fired'[w][s] # fired[w][s] /\ fired'[w][t] # fired[w][t] => s = t
        BY <1>3, <2>2
    <2> QED BY <2>1, <2>3, <2>4 DEF Firing!AFire
<1> QED BY <1>1, <1>5, <1>6, <1>7, <1>8 DEF IInv

-----------------------------------------------------------------------------
(* The owner and the clock *)

LEMMA OutsideStep ==
    ASSUME IInv, Types', UNCHANGED <<site, fired, firedAt, lock, disp>>, now <= now',
           \A w \in Workflows : next'[w] \in {next[w], NoSlot} \/ next'[w] > now
    PROVE  IInv'
<1>1. \A q \in Dispatchers : InBatch(q)'
    BY OthersBatch DEF IInv, Types
<1>2. Exclusive'
    BY DEF IInv, Exclusive, LockedBy
<1>3. Lonely'
    <2>1. SUFFICES ASSUME NEW o \in Dispatchers, site.crons = {o}
                   PROVE  /\ \A q \in Dispatchers : q # o => Is(q, "idle")'
                          /\ \A w \in Workflows, s \in Slots : fired[w][s] > 0 => After(s, w, o)'
                          /\ MovesOn'
        BY DEF Lonely
    <2>2. /\ \A q \in Dispatchers : q # o => Is(q, "idle")
          /\ \A w \in Workflows, s \in Slots : fired[w][s] > 0 => After(s, w, o)
          /\ MovesOn
        BY <2>1 DEF IInv, Lonely
    <2>3. ASSUME NEW w \in Workflows, NEW s \in Slots, fired[w][s] > 0 PROVE After(s, w, o)'
        <3>1. After(s, w, o)
            BY <2>2, <2>3
        <3>2. firedAt[w][s] \in Nat /\ now \in Nat /\ now' \in Nat
            BY DispatchAssumption DEF IInv, Types, DispatchAssumption
        <3>3. next'[w] # NoSlot => next'[w] > firedAt[w][s]
            <4>1. next'[w] # NoSlot => next'[w] \in Nat
                BY SlotsAreTimes DEF Types
            <4> QED BY <3>1, <3>2, <4>1 DEF After
        <3> QED BY <3>1, <3>2, <3>3 DEF After, Is
    <2> QED BY <2>2, <2>3 DEF MovesOn, Is
<1> QED BY <1>1, <1>2, <1>3 DEF IInv

LEMMA SaveStep ==
    ASSUME IInv, NEW w \in Workflows, Save(w)
    PROVE  IInv' /\ UNCHANGED Firing!avars
<1>1. Types /\ UNCHANGED <<site, now, fired, firedAt, gate, lock, disp, faults>> /\ saves' = saves + 1
    BY DEF IInv, Save
<1>2. PICK a \in BOOLEAN, h \in BOOLEAN :
         /\ active' = [active EXCEPT ![w] = a] /\ hourly' = [hourly EXCEPT ![w] = h]
         /\ next' = [next EXCEPT ![w] = IF h THEN NextSlot(now) ELSE NoSlot]
    BY DEF Save
<1> DEFINE x == IF h THEN NextSlot(now) ELSE NoSlot
<1>3. now \in 0 .. MaxTime /\ now \in Nat
    BY <1>1, DispatchAssumption DEF Types, DispatchAssumption
<1>4. x \in Slots \union {NoSlot} /\ (x = NoSlot \/ x > now)
    BY <1>3, SlotLater, SlotsAreTimes
<1>5. next' = [next EXCEPT ![w] = x]
    BY <1>2
<1> HIDE DEF x
<1>6. Types' /\ \A v \in Workflows : next'[v] \in {next[v], NoSlot} \/ next'[v] > now
    BY <1>1, <1>2, <1>4, <1>5 DEF Types
<1> QED BY <1>1, <1>3, <1>6, OutsideStep DEF Firing!avars

LEMMA TickStep ==
    ASSUME IInv, Tick
    PROVE  IInv' /\ Firing!ATick
<1>1. Types /\ now' = now + 1 /\ now < MaxTime /\ now \in Nat /\ MaxTime \in Nat
      /\ UNCHANGED <<site, active, hourly, next, fired, firedAt, gate, lock, disp, saves, faults>>
    BY DispatchAssumption DEF IInv, Tick, Types, DispatchAssumption
<1>2. Types' /\ now <= now'
    BY <1>1 DEF Types
<1> QED BY <1>1, <1>2, OutsideStep DEF Firing!ATick

LEMMA DecideStep ==
    ASSUME IInv, NEW w \in Workflows, Decide(w)
    PROVE  IInv' /\ UNCHANGED Firing!avars
<1>1. Types /\ now \in Nat /\ UNCHANGED <<site, now, active, hourly, next, fired, firedAt, lock, disp, saves, faults>>
      /\ gate' = gate \ {w}
    BY DispatchAssumption DEF IInv, Decide, Types, DispatchAssumption
<1>2. Types' /\ now <= now'
    BY <1>1 DEF Types
<1> QED BY <1>1, <1>2, OutsideStep DEF Firing!avars

LEMMA StutterStep ==
    ASSUME IInv, UNCHANGED vars
    PROVE  IInv' /\ UNCHANGED Firing!avars
<1>1. Types /\ now \in Nat /\ UNCHANGED <<site, now, active, hourly, next, fired, firedAt, gate, lock, disp, saves, faults>>
    BY DispatchAssumption DEF IInv, vars, Types, DispatchAssumption
<1>2. Types' /\ now <= now'
    BY <1>1 DEF Types
<1> QED BY <1>1, <1>2, OutsideStep DEF Firing!avars

-----------------------------------------------------------------------------
(* The invariant, and the firing of slots that it implements *)

LEMMA InitHolds == Init => IInv /\ Firing!AInit
<1>1. SUFFICES ASSUME Init PROVE IInv /\ Firing!AInit
    OBVIOUS
<1>2. 0 \in 0 .. MaxTime /\ 0 \in Nat
    BY DispatchAssumption DEF DispatchAssumption
<1>3. disp \in [Dispatchers -> Locals] /\ \A p \in Dispatchers : disp[p] = Rest
    <2>1. Rest \in Locals
        BY RestLocal
    <2> QED BY <1>1, <2>1 DEF Init
<1>4. Types
    <2>1. next \in [Workflows -> Slots \union {NoSlot}]
        <3>1. NextSlot(0) \in Slots
            BY <1>2, SlotsAreTimes
        <3> QED BY <1>1, <3>1 DEF Init
    <2> QED BY <1>1, <1>2, <1>3, <2>1 DEF Init, Types
<1>5. \A p \in Dispatchers : InBatch(p)
    <2>1. site.batch \in Nat /\ Cardinality({}) = 0 /\ now = 0
        BY <1>1, <1>4, DispatchAssumption, FS_EmptySet DEF DispatchAssumption, Types, Init
    <2> QED BY <1>3, <2>1, RestLocal DEF InBatch, LockedBy
<1>6. Exclusive
    BY <1>1, <1>3, RestLocal DEF Exclusive, LockedBy, Init
<1>7. \A w \in Workflows, s \in Slots : ~(fired[w][s] > 0)
    BY <1>1 DEF Init
<1>8. Lonely
    BY <1>3, <1>7, RestLocal DEF Lonely, MovesOn, Is
<1> QED BY <1>1, <1>4, <1>5, <1>6, <1>8 DEF IInv, Firing!AInit, Init

LEMMA NextKeeps == IInv /\ [Next]_vars => IInv' /\ [Firing!AFire \/ Firing!ATick]_Firing!avars
<1>1. SUFFICES ASSUME IInv, [Next]_vars PROVE IInv' /\ [Firing!AFire \/ Firing!ATick]_Firing!avars
    OBVIOUS
<1>2. ASSUME NEW p \in Dispatchers, Wake(p) \/ Batch(p) \/ FailOne(p) \/ Crash(p)
      PROVE  IInv' /\ [Firing!AFire \/ Firing!ATick]_Firing!avars
    <2>1. CASE Commit(p)
        BY <1>1, <2>1, CommitStep
    <2>2. CASE Wake(p) \/ FailOne(p) \/ Crash(p) \/ TryLock(p) \/ Select(p)
        BY <1>1, <2>2, WakeStep, FailOneStep, CrashStep, TryLockStep, SelectStep
    <2>3. CASE Skip(p) \/ StartRun(p) \/ FlushRun(p) \/ Keyed(p) \/ LostRace(p) \/ Unlock(p)
        BY <1>1, <2>3, SkipStep, StartRunStep, FlushRunStep, KeyedStep, LostRaceStep, UnlockStep
    <2> QED BY <1>2, <2>1, <2>2, <2>3 DEF Batch
<1>3. ASSUME NEW w \in Workflows, Save(w) \/ Decide(w)
      PROVE  IInv' /\ [Firing!AFire \/ Firing!ATick]_Firing!avars
    BY <1>1, <1>3, SaveStep, DecideStep
<1>4. CASE Tick
    BY <1>1, <1>4, TickStep
<1>5. CASE UNCHANGED vars
    BY <1>1, <1>5, StutterStep
<1> QED BY <1>1, <1>2, <1>3, <1>4, <1>5 DEF Next

\* The invariant holds of every behaviour, whatever the dispatchers and the calendar.
THEOREM Invariance == Spec => []IInv
<1>1. Init => IInv
    BY InitHolds
<1>2. IInv /\ [Next]_vars => IInv'
    BY NextKeeps
<1> QED BY <1>1, <1>2, PTL DEF Spec

\* However dispatchers overlap, fail, crash and are overtaken by an owner's edits, a
\* slot of a workflow starts one run or none, and not before its time.
THEOREM DispatchIsFiring == Spec => SlotsFireOnce
<1>1. Init => Firing!AInit
    BY InitHolds
<1>2. IInv /\ [Next]_vars => [Firing!AFire \/ Firing!ATick]_Firing!avars
    BY NextKeeps
<1> QED BY <1>1, <1>2, Invariance, PTL DEF Spec, SlotsFireOnce, Firing!ASpec

\* A page is no larger than its limit, the advisory lock has one holder and a row one
\* uncommitted update.
THEOREM TypeCorrect == Spec => []TypeOK
<1>1. IInv => TypeOK
    <2>1. SUFFICES ASSUME IInv PROVE TypeOK
        OBVIOUS
    <2>2. Types
        BY <2>1 DEF IInv
    <2>3. Cardinality(lock) <= 1
        <3>1. CASE lock = {}
            BY <3>1, FS_EmptySet
        <3>2. CASE lock # {}
            <4>1. PICK x \in lock : TRUE
                BY <3>2
            <4>2. lock = {x}
                BY <2>1, <4>1 DEF IInv, Exclusive
            <4>3. Cardinality({x}) = 1
                BY FS_Singleton
            <4> QED BY <4>2, <4>3
        <3> QED BY <3>1, <3>2
    <2>4. ASSUME NEW p \in Dispatchers
          PROVE  /\ disp[p].pc \in {"idle", "moment", "select", "loop", "start", "run", "commit"}
                 /\ Cardinality(DOMAIN disp[p].due) <= site.batch
                 /\ disp[p].pc = "run" => LockedBy(p, disp[p].cur)
                 /\ \A w \in Workflows : LockedBy(p, w) => FreeFor(p, w)
        <3>1. InBatch(p) /\ disp[p].pc \in Pcs
            BY <2>1, <2>2, FieldsOf DEF IInv
        <3> QED BY <2>1, <3>1 DEF InBatch, Pcs, IInv, Exclusive, FreeFor
    <2> QED BY <2>2, <2>3, <2>4 DEF TypeOK, Types
<1> QED BY <1>1, Invariance, PTL

\* One dispatcher alone fires once and moves on: a slot that had passed when an earlier
\* one of its workflow was started is never started, whatever its owner edits.
THEOREM LonelyDispatcherMovesOn == Spec => []BacklogIsSkipped
<1>1. IInv => BacklogIsSkipped
    <2>1. SUFFICES ASSUME IInv, Cardinality(site.crons) = 1 PROVE MovesOn
        BY DEF BacklogIsSkipped
    <2>2. IsFiniteSet(Dispatchers) /\ site.crons \in SUBSET Dispatchers
        BY <2>1, DispatchAssumption DEF DispatchAssumption, IInv, Types
    <2>3. IsFiniteSet(site.crons)
        BY <2>2, FS_Subset
    <2>4. PICK o : site.crons = {o}
        BY <2>1, <2>3, FS_Singleton
    <2>5. o \in Dispatchers
        BY <2>2, <2>4
    <2> QED BY <2>1, <2>4, <2>5 DEF IInv, Lonely
<1> QED BY <1>1, Invariance, PTL

-----------------------------------------------------------------------------
(* Residues *)

Positive == Nat \ {0}

\* Quotient and remainder, the digits of an instant in a unit of time.
LEMMA DivMod ==
    ASSUME NEW P \in Positive, NEW t \in Int
    PROVE  t \div P \in Int /\ t % P \in 0 .. P - 1 /\ t = P * (t \div P) + (t % P)
BY DEF Positive

LEMMA UniqueDigits ==
    ASSUME NEW P \in Positive, NEW a \in Int, NEW b \in Int, NEW r \in 0 .. P - 1, NEW s \in 0 .. P - 1,
           P * a + r = P * b + s
    PROVE  a = b /\ r = s
<1> USE DEF Positive
<1>1. P * (a - b) = s - r
    OBVIOUS
<1>2. \A c \in Int : c >= 1 => P * c >= P
    OBVIOUS
<1>3. \A c \in Int : c <= -1 => P * c <= -P
    OBVIOUS
<1>4. a - b = 0
    BY <1>1, <1>2, <1>3
<1> QED BY <1>4

LEMMA DigitsAre ==
    ASSUME NEW P \in Positive, NEW t \in Int, NEW a \in Int, NEW r \in 0 .. P - 1, t = P * a + r
    PROVE  t \div P = a /\ t % P = r
<1>1. t \div P \in Int /\ t % P \in 0 .. P - 1 /\ P * (t \div P) + (t % P) = P * a + r
    BY DivMod
<1> HIDE DEF Positive
<1> DEFINE b == t \div P
           s == t % P
<1>2. b \in Int /\ s \in 0 .. P - 1 /\ P * b + s = P * a + r
    BY <1>1
<1> HIDE DEF b, s
<1>3. b = a /\ s = r
    BY <1>2, UniqueDigits
<1> QED BY <1>3 DEF b, s

\* Two units, one a multiple of the other: the remainder by the larger is written with
\* the digits of both.
LEMMA TwoDigits ==
    ASSUME NEW A \in Positive, NEW B \in Positive, NEW t \in Int
    PROVE  /\ A * B \in Positive
           /\ t % (A * B) = A * ((t \div A) % B) + (t % A)
           /\ (t % (A * B)) \div A = (t \div A) % B
<1> DEFINE q == t \div A
           r == t % A
           y == q \div B
           x == q % B
<1>1. q \in Int /\ r \in 0 .. A - 1 /\ t = A * q + r
    BY DivMod
<1> HIDE DEF q, r
<1>2. y \in Int /\ x \in 0 .. B - 1 /\ q = B * y + x
    BY <1>1, DivMod
<1> HIDE DEF x, y
<1>3. A \in Nat /\ B \in Nat /\ A > 0 /\ B > 0 /\ A * B \in Positive /\ A * B \in Int
    BY DEF Positive
<1>4. t = (A * B) * y + (A * x + r)
    <2>1. A * q = A * (B * y) + A * x
        BY <1>2, <1>3
    <2>2. A * (B * y) = (A * B) * y
        BY <1>2, <1>3
    <2> QED BY <1>1, <2>1, <2>2, <1>2, <1>3
<1>5. A * x + r \in 0 .. (A * B) - 1
    <2>1. A * x \in Nat /\ A * x <= A * (B - 1)
        BY <1>2, <1>3
    <2>2. A * (B - 1) = A * B - A
        BY <1>3
    <2> QED BY <1>1, <1>3, <2>1, <2>2
<1>6. t % (A * B) = A * x + r
    BY <1>2, <1>3, <1>4, <1>5, DigitsAre
<1>7. A * x + r \in Int /\ (A * x + r) \div A = x
    <2> DEFINE z == A * x + r
    <2>1. z \in Int /\ x \in Int /\ r \in 0 .. A - 1 /\ z = A * x + r
        BY <1>1, <1>2, <1>3
    <2> HIDE DEF z
    <2>2. z \div A = x
        BY <2>1, DigitsAre
    <2> QED BY <2>1, <2>2 DEF z
<1> QED BY <1>3, <1>6, <1>7 DEF q, r, x

\* The candidate lies on the firing's residue, and less than a period from the instant.
LEMMA FirstOnResidue ==
    ASSUME NEW P \in Positive, NEW o \in 0 .. P - 1, NEW t \in Int, NEW a \in Int,
           a % P = o, t - P < a, a <= t + P
    PROVE  LET n == IF a <= t THEN a + P ELSE a
           IN  n \in Int /\ n > t /\ n % P = o /\ \A u \in t + 1 .. n - 1 : u % P # o
<1> DEFINE n == IF a <= t THEN a + P ELSE a
<1>1. P \in Nat /\ P > 0
    BY DEF Positive
<1>2. a \div P \in Int /\ a = P * (a \div P) + o
    BY DivMod
<1>3. PICK y \in Int : n = P * y + o
    <2> DEFINE b == a \div P
    <2>1. b \in Int /\ a = P * b + o
        BY <1>2
    <2> HIDE DEF b
    <2>2. a + P = P * (b + 1) + o
        BY <1>1, <2>1
    <2>3. n = P * b + o \/ n = P * (b + 1) + o
        BY <2>1, <2>2
    <2> QED BY <2>1, <2>3
<1>4. n \in Int /\ n > t /\ n <= t + P
    BY <1>1
<1> HIDE DEF n
<1>5. n % P = o
    BY <1>3, <1>4, DigitsAre
<1>6. ASSUME NEW u \in t + 1 .. n - 1, u % P = o PROVE FALSE
    <2> DEFINE z == u \div P
    <2>1. u \in Int /\ z \in Int /\ u = P * z + o
        BY <1>4, <1>6, DivMod
    <2> HIDE DEF z
    <2>2. z < y
        <3>1. z >= y => P * z >= P * y
            BY <1>1, <1>3, <2>1
        <3> QED BY <1>1, <1>3, <1>4, <1>6, <2>1, <3>1
    <2>3. P * z <= P * (y - 1) /\ P * (y - 1) = P * y - P
        BY <1>1, <1>3, <2>1, <2>2
    <2> QED BY <1>1, <1>3, <1>4, <1>6, <2>1, <2>3
<1> QED BY <1>4, <1>5, <1>6 DEF n

LEMMA DigitsFit ==
    ASSUME NEW A \in Positive, NEW B \in Positive, NEW x \in 0 .. B - 1, NEW r \in 0 .. A - 1
    PROVE  x * A + r \in 0 .. (A * B) - 1 /\ x * A + r = A * x + r /\ A * B \in Positive
<1>1. A \in Nat /\ B \in Nat /\ A > 0 /\ B > 0 /\ A * B \in Nat /\ A * B > 0
    BY DEF Positive
<1>2. A * x \in Nat /\ A * x <= A * (B - 1) /\ A * (B - 1) = A * B - A /\ x * A = A * x
    BY <1>1
<1> QED BY <1>1, <1>2 DEF Positive

LEMMA SameDigits ==
    ASSUME NEW A \in Positive, NEW B \in Positive, NEW u \in Int, NEW x \in 0 .. B - 1, NEW r \in 0 .. A - 1
    PROVE  u % (A * B) = x * A + r <=> (u \div A) % B = x /\ u % A = r
<1> DEFINE y == (u \div A) % B
           s == u % A
<1>1. y \in 0 .. B - 1 /\ s \in 0 .. A - 1 /\ u % (A * B) = A * y + s
    BY TwoDigits, DivMod
<1> HIDE DEF y, s
<1>2. A * y + s = A * x + r <=> y = x /\ s = r
    BY <1>1, UniqueDigits
<1>3. x * A + r = A * x + r
    BY DigitsFit
<1> QED BY <1>1, <1>2, <1>3 DEF y, s

\* The instant of this period at which it fires.
LEMMA OfThisPeriod ==
    ASSUME NEW P \in Positive, NEW t \in Int, NEW o \in 0 .. P - 1, NEW a, a = (t \div P) * P + o
    PROVE  a \in Int /\ a % P = o /\ a \div P = t \div P /\ t - P < a /\ a <= t + P
<1> DEFINE q == t \div P
           r == t % P
<1>1. q \in Int /\ r \in 0 .. P - 1 /\ t = P * q + r /\ a = q * P + o
    BY DivMod
<1> HIDE DEF q, r
<1>2. P \in Nat /\ P > 0 /\ P * q \in Int /\ q * P = P * q
    BY <1>1 DEF Positive
<1>3. a \in Int /\ a = P * q + o
    BY <1>1, <1>2
<1>4. a \div P = q /\ a % P = o
    BY <1>1, <1>3, DigitsAre
<1>5. t - P < a /\ a <= t + P
    BY <1>1, <1>2, <1>3
<1> QED BY <1>3, <1>4, <1>5 DEF q

\* The same time of the day that is asked for, less than a week on.
LEMMA OfThisWeek ==
    ASSUME NEW D \in Positive, NEW d \in Positive, NEW t \in Int, NEW w \in 0 .. d - 1, NEW r \in 0 .. D - 1,
           NEW b, b = (t \div D) * D + r,
           NEW a, a = b + ((w - ((b \div D) % d)) % d) * D
    PROVE  a \in Int /\ a % (D * d) = w * D + r /\ t - (D * d) < a /\ a <= t + (D * d)
<1> DEFINE q == t \div D
           y == q % d
           n == (w - y) % d
<1>1. b \in Int /\ b \div D = q /\ t - D < b /\ q \in Int /\ b = q * D + r /\ t = D * q + (t % D) /\ t % D \in 0 .. D - 1
    BY OfThisPeriod, DivMod
<1>2. q \div d \in Int /\ y \in 0 .. d - 1 /\ q = d * (q \div d) + y
    BY <1>1, DivMod
<1>3. w - y \in Int
    BY <1>2
<1>4. n \in 0 .. d - 1 /\ (w - y) \div d \in Int /\ w - y = d * ((w - y) \div d) + n
    BY <1>3, DivMod
<1>5. a = b + n * D
    BY <1>1
<1> DEFINE i == q \div d
           j == (w - y) \div d
           f == t % D
<1>6. i \in Int /\ q = d * i + y /\ j \in Int /\ w - y = d * j + n /\ f \in 0 .. D - 1 /\ t = D * q + f
    BY <1>1, <1>2, <1>4
<1> HIDE DEF q, y, n, i, j, f
<1>7. /\ D \in Nat /\ D > 0 /\ d \in Nat /\ d > 0 /\ q \in Int /\ n \in 0 .. d - 1 /\ y \in 0 .. d - 1
      /\ D * d \in Positive
    BY <1>1, <1>2, <1>4 DEF Positive
\* The day that is reached is the one that is asked for.
<1>8. q + n = d * (i - j) + w
    <2>1. d * (i - j) = d * i - d * j
        BY <1>6, <1>7
    <2> QED BY <1>6, <1>7, <2>1
<1>9. a \in Int /\ a = D * (q + n) + r
    <2>1. D * (q + n) = D * q + D * n /\ q * D = D * q /\ n * D = D * n
        BY <1>7
    <2> QED BY <1>1, <1>5, <1>7, <2>1
<1>10. a = (D * d) * (i - j) + (w * D + r)
    <2>1. D * (d * (i - j) + w) = (D * d) * (i - j) + w * D
        BY <1>6, <1>7
    <2> QED BY <1>6, <1>7, <1>8, <1>9, <2>1
<1>11. w * D + r \in 0 .. (D * d) - 1
    BY DigitsFit
<1>12. a % (D * d) = w * D + r
    <2> DEFINE W == D * d
               o == w * D + r
               v == i - j
    <2>1. W \in Positive /\ o \in 0 .. W - 1 /\ v \in Int /\ a \in Int /\ a = W * v + o
        BY <1>6, <1>7, <1>9, <1>10, <1>11
    <2> HIDE DEF W, o, v
    <2>2. a % W = o
        BY <2>1, DigitsAre
    <2> QED BY <2>2 DEF W, o
<1>13. D * n \in Nat /\ D * n <= D * d - D /\ D * d >= D /\ D * (q + n) = D * q + D * n
    <2>1. D * n <= D * (d - 1) /\ D * (d - 1) = D * d - D /\ D * n \in Nat
        BY <1>7
    <2>2. D * (q + n) = D * q + D * n
        BY <1>7
    <2> QED BY <1>7, <2>1, <2>2
<1>14. t - (D * d) < a /\ a <= t + (D * d)
    BY <1>6, <1>7, <1>9, <1>13
<1> QED BY <1>9, <1>12, <1>14

-----------------------------------------------------------------------------
(* The next slot of any cadence in any calendar *)

LEMMA UnitsOf ==
    ASSUME NEW k \in Calendars
    PROVE  /\ k.minute \in Positive /\ k.minutes \in Positive /\ k.hours \in Positive /\ k.days \in Positive
           /\ Of(k)!Hour = k.minute * k.minutes /\ Of(k)!Hour \in Positive
           /\ Of(k)!Day = Of(k)!Hour * k.hours /\ Of(k)!Day \in Positive
           /\ Of(k)!Week = Of(k)!Day * k.days /\ Of(k)!Week \in Positive
<1>1. k.minute \in Positive /\ k.minutes \in Positive /\ k.hours \in Positive /\ k.days \in Positive
    BY DispatchAssumption DEF DispatchAssumption, Positive
<1>2. \A a, b \in Positive : a * b \in Positive
    BY DEF Positive
<1> HIDE DEF Positive
<1>3. Of(k)!Hour = k.minute * k.minutes /\ Of(k)!Hour \in Positive
    BY <1>1, <1>2 DEF Of!Hour
<1>4. Of(k)!Day = Of(k)!Hour * k.hours /\ Of(k)!Day \in Positive
    BY <1>1, <1>2, <1>3 DEF Of!Day
<1>5. Of(k)!Week = Of(k)!Day * k.days /\ Of(k)!Week \in Positive
    BY <1>1, <1>2, <1>4 DEF Of!Week
<1> QED BY <1>1, <1>3, <1>4, <1>5

\* A cadence fires on one residue of its period.
InHour(k, c) == c.minute * k.minute
InDay(k, c) == c.hour * Of(k)!Hour + InHour(k, c)
InWeek(k, c) == c.weekday * Of(k)!Day + InDay(k, c)
Residue(k, c) == CASE c.kind = "hourly" -> InHour(k, c) [] c.kind = "daily" -> InDay(k, c) [] OTHER -> InWeek(k, c)

LEMMA CadenceFields ==
    ASSUME NEW k \in Calendars, NEW c \in Of(k)!Cadences
    PROVE  /\ c.kind \in {"hourly", "daily", "weekly"}
           /\ c.minute \in 0 .. k.minutes - 1 /\ InHour(k, c) \in 0 .. Of(k)!Hour - 1
           /\ c.kind # "hourly" => c.hour \in 0 .. k.hours - 1 /\ InDay(k, c) \in 0 .. Of(k)!Day - 1
           /\ c.kind = "weekly" => c.weekday \in 0 .. k.days - 1 /\ InWeek(k, c) \in 0 .. Of(k)!Week - 1
<1>1. /\ c.kind \in {"hourly", "daily", "weekly"} /\ c.minute \in 0 .. k.minutes - 1
      /\ c.kind # "hourly" => c.hour \in 0 .. k.hours - 1
      /\ c.kind = "weekly" => c.weekday \in 0 .. k.days - 1
    BY DEF Of!Cadences
<1>2. InHour(k, c) \in 0 .. Of(k)!Hour - 1
    <2>1. 0 \in 0 .. k.minute - 1 /\ k.minute \in Nat
        BY UnitsOf DEF Positive
    <2>2. c.minute * k.minute + 0 \in 0 .. (k.minute * k.minutes) - 1
        BY <1>1, <2>1, UnitsOf, DigitsFit
    <2>3. c.minute * k.minute \in Int
        BY <1>1, <2>1
    <2> QED BY <2>2, <2>3, UnitsOf DEF InHour
<1>3. c.kind # "hourly" => InDay(k, c) \in 0 .. Of(k)!Day - 1
    BY <1>1, <1>2, UnitsOf, DigitsFit DEF InDay
<1>4. c.kind = "weekly" => InWeek(k, c) \in 0 .. Of(k)!Week - 1
    BY <1>1, <1>3, UnitsOf, DigitsFit DEF InWeek
<1> QED BY <1>1, <1>2, <1>3, <1>4

LEMMA FiresOnResidue ==
    ASSUME NEW k \in Calendars, NEW c \in Of(k)!Cadences, NEW u \in Int
    PROVE  /\ Of(k)!Period(c) \in Positive /\ Residue(k, c) \in 0 .. Of(k)!Period(c) - 1
           /\ Of(k)!Fires(c, u) <=> u % Of(k)!Period(c) = Residue(k, c)
<1> DEFINE H == Of(k)!Hour
           D == Of(k)!Day
           W == Of(k)!Week
<1>1. /\ H \in Positive /\ D \in Positive /\ W \in Positive /\ k.hours \in Positive /\ k.days \in Positive
      /\ D = H * k.hours /\ W = D * k.days
    BY UnitsOf
<1>2. Of(k)!Fires(c, u) <=> /\ u % H = InHour(k, c)
                            /\ c.kind # "hourly" => (u % D) \div H = c.hour
                            /\ c.kind = "weekly" => (u \div D) % k.days = c.weekday
    BY DEF Of!Fires, Of!Weekday, InHour
<1>3. (u % D) \div H = (u \div H) % k.hours
    BY <1>1, TwoDigits
<1> HIDE DEF H, D, W
<1>4. ASSUME c.kind # "hourly"
      PROVE  u % D = InDay(k, c) <=> (u % D) \div H = c.hour /\ u % H = InHour(k, c)
    <2>1. c.hour \in 0 .. k.hours - 1 /\ InHour(k, c) \in 0 .. H - 1 /\ InDay(k, c) = c.hour * H + InHour(k, c)
        BY <1>4, CadenceFields DEF InDay, H
    <2> DEFINE h == k.hours
               x == c.hour
               r == InHour(k, c)
    <2>2. H \in Positive /\ h \in Positive /\ x \in 0 .. h - 1 /\ r \in 0 .. H - 1
        BY <1>1, <2>1
    <2> HIDE DEF h, x, r
    <2>3. u % (H * h) = x * H + r <=> (u \div H) % h = x /\ u % H = r
        BY <2>2, SameDigits
    <2> QED BY <1>1, <1>3, <2>1, <2>3 DEF h, x, r
<1>5. ASSUME c.kind = "weekly"
      PROVE  u % W = InWeek(k, c) <=> (u \div D) % k.days = c.weekday /\ u % D = InDay(k, c)
    <2>1. c.weekday \in 0 .. k.days - 1 /\ InDay(k, c) \in 0 .. D - 1 /\ InWeek(k, c) = c.weekday * D + InDay(k, c)
        BY <1>5, CadenceFields DEF InWeek, D
    <2> DEFINE d == k.days
               x == c.weekday
               r == InDay(k, c)
    <2>2. D \in Positive /\ d \in Positive /\ x \in 0 .. d - 1 /\ r \in 0 .. D - 1
        BY <1>1, <2>1
    <2> HIDE DEF d, x, r
    <2>3. u % (D * d) = x * D + r <=> (u \div D) % d = x /\ u % D = r
        BY <2>2, SameDigits
    <2> QED BY <1>1, <2>1, <2>3 DEF d, x, r
<1>6. CASE c.kind = "hourly"
    BY <1>1, <1>2, <1>6, CadenceFields DEF Of!Period, Residue, H
<1>7. CASE c.kind = "daily"
    BY <1>1, <1>2, <1>4, <1>7, CadenceFields DEF Of!Period, Residue, D
<1>8. CASE c.kind = "weekly"
    BY <1>1, <1>2, <1>4, <1>5, <1>8, CadenceFields DEF Of!Period, Residue, W
<1> QED BY <1>6, <1>7, <1>8, CadenceFields

LEMMA CandidateIsNear ==
    ASSUME NEW k \in Calendars, NEW c \in Of(k)!Cadences, NEW t \in Int
    PROVE  LET P == Of(k)!Period(c)
               a == Of(k)!Candidate(c, t)
           IN  a \in Int /\ a % P = Residue(k, c) /\ t - P < a /\ a <= t + P
<1> DEFINE P == Of(k)!Period(c)
           a == Of(k)!Candidate(c, t)
           H == Of(k)!Hour
           D == Of(k)!Day
           W == Of(k)!Week
           b == (t \div D) * D + InDay(k, c)
<1>1. /\ H \in Positive /\ D \in Positive /\ W \in Positive /\ k.days \in Positive /\ W = D * k.days
    BY UnitsOf
<1>2. CASE c.kind = "hourly"
    <2>1. a = (t \div H) * H + InHour(k, c) /\ P = H /\ Residue(k, c) = InHour(k, c)
        BY <1>2 DEF Of!Candidate, Of!SameHour, Of!Period, Residue, InHour
    <2> HIDE DEF a, P, H
    <2>2. InHour(k, c) \in 0 .. H - 1
        BY CadenceFields DEF H
    <2> QED BY <1>1, <2>1, <2>2, OfThisPeriod DEF a, P
<1>3. ASSUME c.kind # "hourly" PROVE Of(k)!SameDay(c, t) = b
    <2>1. c.hour * H \in Int /\ InHour(k, c) \in Int /\ (t \div D) * D \in Int
        <3>1. c.hour \in 0 .. k.hours - 1 /\ InHour(k, c) \in 0 .. H - 1
            BY <1>3, CadenceFields
        <3> HIDE DEF H, D
        <3>2. H \in Int /\ D \in Int
            BY <1>1 DEF Positive
        <3>3. t \div D \in Int
            BY <1>1, DivMod
        <3>4. (t \div D) * D \in Int
            BY <3>2, <3>3
        <3>5. c.hour \in Int /\ InHour(k, c) \in Int
            BY <3>1
        <3> QED BY <3>2, <3>4, <3>5
    <2>2. Of(k)!SameDay(c, t) = (t \div D) * D + c.hour * H + InHour(k, c)
        BY DEF Of!SameDay, InHour
    <2> HIDE DEF H, D
    <2> QED BY <2>1, <2>2 DEF InDay, H
<1>4. CASE c.kind = "daily"
    <2>1. a = b /\ P = D /\ Residue(k, c) = InDay(k, c)
        BY <1>3, <1>4 DEF Of!Candidate, Of!Period, Residue
    <2> HIDE DEF a, P, D
    <2>2. InDay(k, c) \in 0 .. D - 1
        BY <1>4, CadenceFields DEF D
    <2> QED BY <1>1, <2>1, <2>2, OfThisPeriod DEF a, P
<1>5. CASE c.kind = "weekly"
    <2>1. a = b + ((c.weekday - ((b \div D) % k.days)) % k.days) * D /\ P = W /\ Residue(k, c) = InWeek(k, c)
        BY <1>3, <1>5 DEF Of!Candidate, Of!Weekday, Of!Period, Residue
    <2> HIDE DEF a, P, D, W
    <2>2. InDay(k, c) \in 0 .. D - 1 /\ c.weekday \in 0 .. k.days - 1 /\ InWeek(k, c) = c.weekday * D + InDay(k, c)
        BY <1>5, CadenceFields DEF D, InWeek
    <2> DEFINE d == k.days
               w == c.weekday
               r == InDay(k, c)
    <2>3. /\ D \in Positive /\ d \in Positive /\ w \in 0 .. d - 1 /\ r \in 0 .. D - 1
          /\ b = (t \div D) * D + r /\ a = b + ((w - ((b \div D) % d)) % d) * D
        BY <1>1, <2>1, <2>2
    <2> HIDE DEF b, d, w, r
    <2>4. a \in Int /\ a % (D * d) = w * D + r /\ t - (D * d) < a /\ a <= t + (D * d)
        BY <2>3, OfThisWeek
    <2> QED BY <1>1, <2>1, <2>2, <2>4 DEF a, P, d, w, r
<1> QED BY <1>2, <1>4, <1>5, CadenceFields

LEMMA NextSlotIsFirst ==
    ASSUME NEW k \in Calendars
    PROVE  Of(k)!FirstStrictlyAfter
<1> SUFFICES ASSUME NEW c \in Of(k)!Cadences, NEW t \in 0 .. Of(k)!Week - 1
             PROVE  LET n == Of(k)!NextSlot(c, t)
                    IN  n > t /\ Of(k)!Fires(c, n) /\ \A u \in t + 1 .. n - 1 : ~Of(k)!Fires(c, u)
    BY DEF Of!FirstStrictlyAfter
<1> DEFINE P == Of(k)!Period(c)
           a == Of(k)!Candidate(c, t)
           o == Residue(k, c)
           n == Of(k)!NextSlot(c, t)
<1>1. t \in Int
    OBVIOUS
<1>2. P \in Positive /\ o \in 0 .. P - 1 /\ \A u \in Int : Of(k)!Fires(c, u) <=> u % P = o
    BY FiresOnResidue
<1>3. a \in Int /\ a % P = o /\ t - P < a /\ a <= t + P
    BY <1>1, CandidateIsNear
<1>4. n = IF a <= t THEN a + P ELSE a
    BY DEF Of!NextSlot
<1> HIDE DEF P, a, o, n
<1>5. n \in Int /\ n > t /\ n % P = o /\ \A u \in t + 1 .. n - 1 : u % P # o
    BY <1>1, <1>2, <1>3, <1>4, FirstOnResidue
<1> QED BY <1>1, <1>2, <1>5 DEF n

\* next_slot returns the first firing strictly after the instant it is asked from: for
\* hourly, daily and weekly cadences, at the instant of a firing, within its minute or
\* across the end of a day or week, however fine the clock and long the units.
THEOREM NextSlotIsTheFirst == Spec => []FirstStrictlyAfter
<1>1. FirstStrictlyAfter
    BY NextSlotIsFirst DEF FirstStrictlyAfter
<1> QED BY <1>1, PTL
=============================================================================
