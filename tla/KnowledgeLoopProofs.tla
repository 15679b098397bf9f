--------------------------- MODULE KnowledgeLoopProofs ---------------------------
(***************************************************************************)
(* What the knowledge loop does last it has written first, and the ledger  *)
(* it leaves is one that every append has judged: for any callers, any     *)
(* events asked for by the event route, and any errors, lost               *)
(* acknowledgements and crashes.                                           *)
(***************************************************************************)
EXTENDS KnowledgeLoop, FiniteSetTheorems, SequenceTheorems, TLAPS

LawNames == {"INTENT_RECEIVED"} \union DOMAIN Requires
Entry == [name : LawNames, req : BOOLEAN, no : Nat]
Moves == {"none", "approved", "consumed", "refused"}
Locals == [pc : Pcs, stage : {"plain", "started", "spent", "failing"},
           event : [name : LawNames \union Posts \union {"none"}, req : BOOLEAN], to : Moves,
           read : Nat, was : States, new : Seq(Entry), set : States, cert : Nat, rowSet : Moves]

Types ==
    /\ log \in Seq(Entry) /\ col \in States /\ receipt \in Nat /\ row \in Rows /\ card \in Rows
    /\ overdue \in BOOLEAN /\ stopped \in BOOLEAN
    /\ latch \in Callers \union {Nobody} /\ c \in [Callers -> Locals]
    /\ effects \in Nat /\ calls \in 0 .. MaxCalls /\ faults \in 0 .. MaxFaults

\* Every event has the number of its place and was legal there.
Chain(s) == \A i \in 1 .. Len(s) : s[i].no = i /\ Legal(s[i].name, Names(SubSeq(s, 1, i - 1)), FALSE)
Certified(s, n) == n \in 1 .. Len(s) /\ Receiptable(Names(SubSeq(s, 1, n)))

\* What the card's fate lets a caller tell the ledger's row.
CardSays(s) ==
    /\ s = "approved" => card \in {"approved", "consumed"}
    /\ s \in {"consumed", "refused", "expired"} => card = s

\* A call: what it knows of the card and what it is about to write.
Decided(p) ==
    LET l == c[p]
    IN  /\ l.pc \in {"rest", "propose"} => l = [Rest EXCEPT !.pc = l.pc]
        /\ CardSays(l.to) /\ l.rowSet \in {"none", l.to}
        /\ l.pc \in {"rowRead", "rowWrite"} => l.to # "none"
        /\ l.stage = "spent" => l.to = "consumed"
        /\ l.pc = "effect" => l.stage = "spent"

\* A commit: the approval is on the ledger, the start is written before it spends.
Starting(p) ==
    LET l == c[p]
    IN  /\ l.pc \in {"latch", "spend"} => l.stage = "started"
        /\ l.stage = "started" =>
              /\ "APPROVAL_GRANTED" \in Names(log)
              /\ l.pc \in {"latch", "append", "flush", "save", "spend"} /\ l.to = "none"
              /\ l.pc \in {"append", "flush"} => l.event = Event("ACTION_STARTED", TRUE)
              /\ l.pc = "save" => StartedFor(l.new)
              /\ l.pc = "spend" => StartedFor(log)

\* An append: what was judged, and what is written and not committed, continues the log.
Writing(p) ==
    LET l == c[p]
    IN  /\ Writes(p) => l.pc \in {"receipt", "save"}
        /\ l.pc = "flush" => l.read <= Len(log) /\ Legal(l.event.name, Names(SubSeq(log, 1, l.read)), FALSE)
        /\ l.new # <<>> => l.read = Len(log) /\ Chain(log \o l.new)
        /\ l.pc = "receipt" => l.read <= Len(log) /\ Certified(log \o l.new, l.read + Len(l.new))
        /\ l.cert # 0 => Certified(log \o l.new, l.cert)

Alone ==
    /\ \A p, q \in Callers : Writes(p) /\ Writes(q) => p = q
    /\ \A p, q \in Callers : c[p].rowSet # "none" /\ c[q].rowSet # "none" => p = q
    /\ \A p, q \in Callers : c[p].stage = "spent" /\ c[q].stage = "spent" => p = q
    /\ latch # Nobody => c[latch].stage = "started" /\ c[latch].pc \in {"append", "flush", "save"}

\* The proposal comes first.
Proposed ==
    /\ \A p, q \in Callers : At(p, "propose") /\ At(q, "propose") => p = q
    /\ card = "none" => log = <<>> /\ \A p \in Callers : At(p, "rest")
    /\ log = <<>> => row = "none" /\ receipt = 0 /\ card \in {"none", "pending", "expired"}
                     /\ \A p \in Callers : c[p].pc \in {"rest", "propose"}
    /\ log # <<>> => row # "none" /\ \A p \in Callers : ~At(p, "propose")

Performed ==
    /\ effects \in {0, 1}
    /\ effects = 1 => card = "consumed"
    /\ effects = 1 => \A p \in Callers : c[p].stage = "spent" => c[p].pc \in {"append", "flush", "receipt", "save"}

Durable ==
    /\ card = "consumed" => StartedFor(log) /\ "APPROVAL_GRANTED" \in Names(log)
    /\ CardSays(row)
    /\ Chain(log) /\ (receipt # 0 => Certified(log, receipt))

Callings == \A p \in Callers : Decided(p) /\ Starting(p) /\ Writing(p)
IInv == Types /\ Callings /\ Alone /\ Proposed /\ Performed /\ Durable

-----------------------------------------------------------------------------
(* Logs *)

LEMMA NamesOf ==
    ASSUME NEW s \in Seq(Entry)
    PROVE  /\ Names(s) = {s[i].name : i \in 1 .. Len(s)} /\ Names(s) \subseteq LawNames
           /\ Len(s) \in Nat /\ DOMAIN s = 1 .. Len(s) /\ \A i \in 1 .. Len(s) : s[i] \in Entry
<1>1. Len(s) \in Nat /\ DOMAIN s = 1 .. Len(s) /\ \A i \in 1 .. Len(s) : s[i] \in Entry
    OBVIOUS
<1>2. Names(s) = {s[i].name : i \in 1 .. Len(s)}
    BY <1>1, Zenon DEF Names
<1>3. \A x \in Entry : x.name \in LawNames
    BY DEF Entry
<1> QED BY <1>1, <1>2, <1>3

LEMMA ConcatNames ==
    ASSUME NEW s \in Seq(Entry), NEW t \in Seq(Entry)
    PROVE  /\ s \o t \in Seq(Entry) /\ Len(s \o t) = Len(s) + Len(t)
           /\ Names(s \o t) = Names(s) \union Names(t)
           /\ StartedFor(s) \/ StartedFor(t) => StartedFor(s \o t)
<1> DEFINE u == s \o t
<1>1. /\ u \in Seq(Entry) /\ Len(u) = Len(s) + Len(t)
      /\ \A i \in 1 .. Len(s) + Len(t) : u[i] = IF i <= Len(s) THEN s[i] ELSE t[i - Len(s)]
    BY ConcatProperties
<1> HIDE DEF u
<1>2. Len(s) \in Nat /\ Len(t) \in Nat /\ DOMAIN s = 1 .. Len(s) /\ DOMAIN t = 1 .. Len(t) /\ DOMAIN u = 1 .. Len(u)
    BY <1>1
<1>3. \A i \in 1 .. Len(s) : i \in 1 .. Len(u) /\ u[i] = s[i]
    BY <1>1, <1>2
<1>4. \A i \in 1 .. Len(t) : Len(s) + i \in 1 .. Len(u) /\ u[Len(s) + i] = t[i]
    BY <1>1, <1>2, SMTT(30)
<1>5. \A i \in 1 .. Len(u) : i \in 1 .. Len(s) \/ (i - Len(s) \in 1 .. Len(t) /\ u[i] = t[i - Len(s)])
    BY <1>1, <1>2
<1>6. Names(u) = Names(s) \union Names(t)
    <2>1. ASSUME NEW x \in Names(u) PROVE x \in Names(s) \union Names(t)
        <3>1. PICK i \in 1 .. Len(u) : x = u[i].name
            BY <1>2 DEF Names
        <3>2. CASE i \in 1 .. Len(s)
            BY <1>2, <1>3, <3>1, <3>2 DEF Names
        <3>3. CASE i - Len(s) \in 1 .. Len(t) /\ u[i] = t[i - Len(s)]
            BY <1>2, <3>1, <3>3 DEF Names
        <3> QED BY <1>5, <3>2, <3>3
    <2>2. Names(s) \subseteq Names(u)
        BY <1>2, <1>3 DEF Names
    <2>3. Names(t) \subseteq Names(u)
        <3>1. ASSUME NEW i \in 1 .. Len(t) PROVE t[i].name \in Names(u)
            BY <1>2, <1>4 DEF Names
        <3> QED BY <1>2, <3>1 DEF Names
    <2> QED BY <2>1, <2>2, <2>3
<1>7. StartedFor(s) => StartedFor(u)
    BY <1>2, <1>3 DEF StartedFor
<1>8. StartedFor(t) => StartedFor(u)
    <2>1. ASSUME NEW i \in 1 .. Len(t), t[i].name = "ACTION_STARTED" /\ t[i].req PROVE StartedFor(u)
        <3>1. Len(s) + i \in DOMAIN u /\ u[Len(s) + i] = t[i]
            BY <1>2, <1>4
        <3> QED BY <2>1, <3>1 DEF StartedFor
    <2> QED BY <1>2, <2>1 DEF StartedFor
<1> QED BY <1>1, <1>6, <1>7, <1>8 DEF u

\* What comes later does not change a prefix.
LEMMA PrefixKept ==
    ASSUME NEW s \in Seq(Entry), NEW t \in Seq(Entry), NEW n \in 0 .. Len(s)
    PROVE  SubSeq(s \o t, 1, n) = SubSeq(s, 1, n)
<1>1. CASE n = 0
    BY <1>1, SubSeqEmpty
<1>2. CASE n # 0
    BY <1>2, SubSeqOfConcat1
<1> QED BY <1>1, <1>2

LEMMA CertifiedKept ==
    ASSUME NEW s \in Seq(Entry), NEW t \in Seq(Entry), NEW n, Certified(s, n)
    PROVE  Certified(s \o t, n)
<1>1. n \in 1 .. Len(s) /\ n \in 0 .. Len(s) /\ n \in 1 .. Len(s \o t)
    BY ConcatProperties DEF Certified
<1> QED BY <1>1, PrefixKept DEF Certified

\* One legal event with the next number.
LEMMA ChainAppend ==
    ASSUME NEW s \in Seq(Entry), Chain(s), NEW e \in Entry, e.no = Len(s) + 1, Legal(e.name, Names(s), FALSE)
    PROVE  Append(s, e) \in Seq(Entry) /\ Chain(Append(s, e)) /\ Names(Append(s, e)) = Names(s) \union {e.name}
           /\ Len(Append(s, e)) = Len(s) + 1
<1> DEFINE u == Append(s, e)
<1>1. u = s \o <<e>> /\ <<e>> \in Seq(Entry)
    BY AppendIsConcat
<1>2. /\ u \in Seq(Entry) /\ Len(u) = Len(s) + 1 /\ u[Len(s) + 1] = e
      /\ \A i \in 1 .. Len(s) : u[i] = s[i]
    BY AppendProperties
<1>3. Names(u) = Names(s) \union {e.name}
    <2>1. Names(<<e>>) = {e.name}
        BY DEF Names
    <2> QED BY <1>1, <2>1, ConcatNames
<1> HIDE DEF u
<1>4. \A n \in 0 .. Len(s) : SubSeq(u, 1, n) = SubSeq(s, 1, n)
    BY <1>1, PrefixKept
<1>5. SubSeq(s, 1, Len(s)) = s /\ Len(s) \in Nat
    BY SubSeqFull
<1>6. ASSUME NEW i \in 1 .. Len(u)
      PROVE  u[i].no = i /\ Legal(u[i].name, Names(SubSeq(u, 1, i - 1)), FALSE)
    <2>1. CASE i = Len(s) + 1
        <3>1. SubSeq(u, 1, i - 1) = s
            BY <1>4, <1>5, <2>1
        <3> QED BY <1>2, <2>1, <3>1
    <2>2. CASE i # Len(s) + 1
        <3>1. i \in 1 .. Len(s) /\ i - 1 \in 0 .. Len(s)
            BY <1>2, <1>5, <2>2
        <3> QED BY <1>2, <1>4, <3>1 DEF Chain
    <2> QED BY <2>1, <2>2
<1>7. Chain(u)
    BY <1>6 DEF Chain
<1> QED BY <1>2, <1>3, <1>7 DEF u

\* A log begins with its intent.
LEMMA FirstIsIntent ==
    ASSUME NEW s \in Seq(Entry), Chain(s), s # <<>>
    PROVE  "INTENT_RECEIVED" \in Names(s)
<1>1. 1 \in 1 .. Len(s) /\ DOMAIN s = 1 .. Len(s)
    BY EmptySeq
<1>2. SubSeq(s, 1, 0) = <<>>
    BY SubSeqEmpty
<1>3. Names(<<>>) = {}
    BY DEF Names
<1>4. Legal(s[1].name, {}, FALSE)
    <2>1. Legal(s[1].name, Names(SubSeq(s, 1, 1 - 1)), FALSE)
        BY <1>1, Zenon DEF Chain
    <2>2. 1 - 1 = 0
        OBVIOUS
    <2> QED BY <1>2, <1>3, <2>1, <2>2
<1> QED BY <1>1, <1>4 DEF Legal, Names

\* The proposal's four events.
LEMMA OpeningChain ==
    LET o == [i \in 1 .. 4 |-> [name |-> Opening[i], req |-> i > 2, no |-> i]]
    IN  o \in Seq(Entry) /\ Chain(o) /\ o # <<>>
<1> DEFINE e(i) == [name |-> Opening[i], req |-> i > 2, no |-> i]
           o == [i \in 1 .. 4 |-> e(i)]
           s1 == Append(<<>>, e(1))
           s2 == Append(s1, e(2))
           s3 == Append(s2, e(3))
           s4 == Append(s3, e(4))
<1>1. /\ Opening[1] = "INTENT_RECEIVED" /\ Opening[2] = "CONTEXT_LOADED"
      /\ Opening[3] = "PLAN_CREATED" /\ Opening[4] = "APPROVAL_REQUESTED"
    BY DEF Opening
<1>2. /\ e(1) \in Entry /\ e(1).no = 1 /\ e(1).name = "INTENT_RECEIVED"
      /\ e(2) \in Entry /\ e(2).no = 2 /\ e(2).name = "CONTEXT_LOADED"
      /\ e(3) \in Entry /\ e(3).no = 3 /\ e(3).name = "PLAN_CREATED"
      /\ e(4) \in Entry /\ e(4).no = 4 /\ e(4).name = "APPROVAL_REQUESTED"
    BY <1>1 DEF Entry, LawNames, Requires
<1>3. o = s4
    OBVIOUS
<1> HIDE DEF e, o
<1>4. <<>> \in Seq(Entry) /\ Chain(<<>>) /\ Names(<<>>) = {} /\ Len(<<>>) = 0
    BY DEF Chain, Names
<1>5. /\ Legal("INTENT_RECEIVED", {}, FALSE)
      /\ Legal("CONTEXT_LOADED", {"INTENT_RECEIVED"}, FALSE)
      /\ Legal("PLAN_CREATED", {"INTENT_RECEIVED", "CONTEXT_LOADED"}, FALSE)
      /\ Legal("APPROVAL_REQUESTED", {"INTENT_RECEIVED", "CONTEXT_LOADED", "PLAN_CREATED"}, FALSE)
    BY DEF Legal, Once, Requires
<1>6. s1 \in Seq(Entry) /\ Chain(s1) /\ Names(s1) = {"INTENT_RECEIVED"} /\ Len(s1) = 1
    <2>1. Legal(e(1).name, Names(<<>>), FALSE)
        BY <1>2, <1>4, <1>5, Zenon
    <2>2. e(1).no = Len(<<>>) + 1
        BY <1>2, <1>4
    <2>3. /\ Append(<<>>, e(1)) \in Seq(Entry) /\ Chain(Append(<<>>, e(1)))
          /\ Names(Append(<<>>, e(1))) = Names(<<>>) \union {e(1).name}
          /\ Len(Append(<<>>, e(1))) = Len(<<>>) + 1
        BY <1>2, <1>4, <2>1, <2>2, ChainAppend
    <2> QED BY <1>2, <1>4, <2>3
<1> HIDE DEF s1
<1>7. s2 \in Seq(Entry) /\ Chain(s2) /\ Names(s2) = {"INTENT_RECEIVED", "CONTEXT_LOADED"} /\ Len(s2) = 2
    <2>1. Legal(e(2).name, Names(s1), FALSE)
        BY <1>2, <1>6, <1>5, Zenon
    <2>2. e(2).no = Len(s1) + 1
        BY <1>2, <1>6
    <2>3. /\ Append(s1, e(2)) \in Seq(Entry) /\ Chain(Append(s1, e(2)))
          /\ Names(Append(s1, e(2))) = Names(s1) \union {e(2).name}
          /\ Len(Append(s1, e(2))) = Len(s1) + 1
        BY <1>2, <1>6, <2>1, <2>2, ChainAppend
    <2> QED BY <1>2, <1>6, <2>3
<1> HIDE DEF s2
<1>8. /\ s3 \in Seq(Entry) /\ Chain(s3) /\ Names(s3) = {"INTENT_RECEIVED", "CONTEXT_LOADED", "PLAN_CREATED"}
      /\ Len(s3) = 3
    <2>1. Legal(e(3).name, Names(s2), FALSE)
        BY <1>2, <1>7, <1>5, Zenon
    <2>2. e(3).no = Len(s2) + 1
        BY <1>2, <1>7
    <2>3. /\ Append(s2, e(3)) \in Seq(Entry) /\ Chain(Append(s2, e(3)))
          /\ Names(Append(s2, e(3))) = Names(s2) \union {e(3).name}
          /\ Len(Append(s2, e(3))) = Len(s2) + 1
        BY <1>2, <1>7, <2>1, <2>2, ChainAppend
    <2> QED BY <1>2, <1>7, <2>3
<1> HIDE DEF s3
<1>9. s4 \in Seq(Entry) /\ Chain(s4) /\ Len(s4) = 4
    <2>1. Legal(e(4).name, Names(s3), FALSE)
        BY <1>2, <1>8, <1>5, Zenon
    <2>2. e(4).no = Len(s3) + 1
        BY <1>2, <1>8
    <2>3. /\ Append(s3, e(4)) \in Seq(Entry) /\ Chain(Append(s3, e(4)))
          /\ Names(Append(s3, e(4))) = Names(s3) \union {e(4).name}
          /\ Len(Append(s3, e(4))) = Len(s3) + 1
        BY <1>2, <1>8, <2>1, <2>2, ChainAppend
    <2> QED BY <1>2, <1>8, <2>3
<1>10. s4 # <<>>
    BY <1>4, <1>9
<1> HIDE DEF s4
<1> QED BY <1>3, <1>9, <1>10 DEF o, e

-----------------------------------------------------------------------------
(* What one step leaves of the others *)

Only(p) == \A q \in Callers : q # p => c'[q] = c[q]
Grows == \E t \in Seq(Entry) : log' = log \o t
CardKept ==
    /\ card = "approved" => card' \in {"approved", "consumed"}
    /\ card \in {"consumed", "refused", "expired"} => card' = card

LEMMA SameLog == ASSUME Types, log' = log PROVE Grows
BY ConcatEmptySeq, EmptySeq DEF Types, Grows

LEMMA GrownLog ==
    ASSUME Types, Grows
    PROVE  /\ log' \in Seq(Entry) /\ Len(log) <= Len(log') /\ Names(log) \subseteq Names(log')
           /\ StartedFor(log) => StartedFor(log')
           /\ \A n \in 0 .. Len(log) : SubSeq(log', 1, n) = SubSeq(log, 1, n)
           /\ \A n : Certified(log, n) => Certified(log', n)
<1>1. PICK t \in Seq(Entry) : log' = log \o t
    BY DEF Grows
<1>2. log \in Seq(Entry) /\ Len(log) \in Nat /\ Len(t) \in Nat
    BY DEF Types
<1> QED BY <1>1, <1>2, ConcatNames, PrefixKept, CertifiedKept

LEMMA CardSaysKept ==
    ASSUME CardKept, NEW s, CardSays(s), card' \in Rows
    PROVE  CardSays(s)'
BY DEF CardKept, CardSays

LEMMA OthersStep ==
    ASSUME Types, Types', Grows, CardKept, NEW q \in Callers, Decided(q), Starting(q), Writing(q),
           c'[q] = c[q], Writes(q) => log' = log
    PROVE  Decided(q)' /\ Starting(q)' /\ Writing(q)'
<1>1. Decided(q)'
    BY CardSaysKept DEF Decided, Types
<1>2. Starting(q)'
    BY GrownLog DEF Starting
<1>3. Writing(q)'
    <2> DEFINE l == c[q]
    <2>1. l.new \in Seq(Entry) /\ l.read \in Nat /\ l.cert \in Nat /\ Len(log) \in Nat /\ log \in Seq(Entry)
        <3>1. c[q] \in Locals /\ log \in Seq(Entry)
            BY DEF Types
        <3> QED BY <3>1 DEF Locals
    <2>2. c'[q] = l /\ (Writes(q)' <=> Writes(q))
        BY DEF Writes
    <2>3. CASE Writes(q)
        BY <2>2, <2>3 DEF Writing
    <2>4. CASE ~Writes(q)
        <3>1. l.new = <<>> /\ l.cert = 0 /\ Len(l.new) = 0
            BY <2>4 DEF Writes
        <3>2. log \o l.new = log /\ log' \o l.new = log'
            BY <2>1, <3>1, GrownLog, ConcatEmptySeq
        <3>3. Len(log) <= Len(log') /\ Len(log') \in Nat
            BY GrownLog
        <3>4. l.pc = "flush" => /\ l.read <= Len(log')
                                /\ Legal(l.event.name, Names(SubSeq(log', 1, l.read)), FALSE)
            <4>1. SUFFICES ASSUME l.pc = "flush"
                           PROVE /\ l.read <= Len(log')
                                 /\ Legal(l.event.name, Names(SubSeq(log', 1, l.read)), FALSE)
                OBVIOUS
            <4>2. l.read <= Len(log) /\ Legal(l.event.name, Names(SubSeq(log, 1, l.read)), FALSE)
                BY <4>1 DEF Writing
            <4>3. SubSeq(log', 1, l.read) = SubSeq(log, 1, l.read)
                BY <2>1, <4>2, GrownLog
            <4>4. l.read <= Len(log')
                BY <2>1, <3>3, <4>2
            <4> QED BY <4>2, <4>3, <4>4, Zenon
        <3>5. l.pc = "receipt" => l.read <= Len(log') /\ Certified(log' \o l.new, l.read + Len(l.new))
            <4>1. l.pc = "receipt" => l.read <= Len(log) /\ Certified(log \o l.new, l.read + Len(l.new))
                BY DEF Writing
            <4> QED BY <2>1, <3>2, <3>3, <4>1, GrownLog
        <3> HIDE DEF l
        <3> QED BY <2>2, <2>4, <3>1, <3>4, <3>5 DEF Writing
    <2> QED BY <2>3, <2>4
<1> QED BY <1>1, <1>2, <1>3

\* A step of p that writes nothing to the tables.
LEMMA CallStep ==
    ASSUME IInv, Types', NEW p \in Callers, Only(p), UNCHANGED tables, Performed',
           CardKept, card' \in {"none", "pending"} => card' = card, log = <<>> => card' = card,
           card' = "consumed" => card = "consumed" \/ (StartedFor(log) /\ "APPROVAL_GRANTED" \in Names(log)),
           Decided(p)', Starting(p)', Writing(p)',
           Writes(p)' => Writes(p) \/ IntentFree(p),
           c'[p].rowSet # "none" => c[p].rowSet # "none" \/ RowFree(p),
           c'[p].stage = "spent" => c[p].stage = "spent" \/ card # "consumed",
           latch' \in {latch, p, Nobody},
           latch' = p => c'[p].stage = "started" /\ c'[p].pc \in {"append", "flush", "save"},
           c'[p].pc # "propose", log = <<>> => c'[p].pc = "rest"
    PROVE  IInv'
<1>1. Grows
    BY SameLog DEF IInv, tables
<1>2. \A q \in Callers : Decided(q)' /\ Starting(q)' /\ Writing(q)'
    BY <1>1, OthersStep DEF IInv, Callings, Only, tables
<1>3. Alone'
    <2>1. \A q \in Callers : q # p => (Writes(q)' <=> Writes(q))
        BY DEF Only, Writes
    <2>2. \A q, r \in Callers : Writes(q)' /\ Writes(r)' => q = r
        BY <2>1 DEF IInv, Alone, IntentFree
    <2>3. \A q, r \in Callers : c'[q].rowSet # "none" /\ c'[r].rowSet # "none" => q = r
        BY DEF IInv, Alone, Only, RowFree
    <2>4. \A q, r \in Callers : c'[q].stage = "spent" /\ c'[r].stage = "spent" => q = r
        <3>1. \A q \in Callers : c[q].stage = "spent" => card = "consumed"
            BY DEF IInv, Callings, Decided, CardSays
        <3> QED BY <3>1 DEF IInv, Alone, Only
    <2>5. latch' # Nobody => c'[latch'].stage = "started" /\ c'[latch'].pc \in {"append", "flush", "save"}
        <3>1. CASE latch' = p
            BY <3>1
        <3>2. CASE latch' # p /\ latch' = latch /\ latch # Nobody
            BY <3>2, LoopAssumption DEF IInv, Alone, Only, Types
        <3> QED BY <3>1, <3>2
    <2> QED BY <2>2, <2>3, <2>4, <2>5 DEF Alone
<1>4. Proposed'
    BY DEF IInv, Proposed, Only, At, tables
<1>5. Durable'
    <2>1. row' = row /\ log' = log /\ receipt' = receipt
        BY DEF tables
    <2>2. CardSays(row)'
        BY <2>1, CardSaysKept DEF IInv, Durable, Types
    <2> QED BY <2>1, <2>2 DEF IInv, Durable
<1> QED BY <1>2, <1>3, <1>4, <1>5 DEF IInv, Callings

\* One that leaves the card and the connectors alone, too.
LEMMA QuietStep ==
    ASSUME IInv, Types', NEW p \in Callers, Only(p), UNCHANGED <<tables, card, effects>>,
           Decided(p)', Starting(p)', Writing(p)',
           Writes(p)' => Writes(p) \/ IntentFree(p),
           c'[p].rowSet # "none" => c[p].rowSet # "none" \/ RowFree(p),
           c'[p].stage = "spent" =>
               c[p].stage = "spent" /\ (effects = 1 => c'[p].pc \in {"append", "flush", "receipt", "save"}),
           latch' \in {latch, p, Nobody},
           latch' = p => c'[p].stage = "started" /\ c'[p].pc \in {"append", "flush", "save"},
           c'[p].pc # "propose", log = <<>> => c'[p].pc = "rest"
    PROVE  IInv'
<1>1. Performed'
    BY DEF IInv, Performed, Only
<1> QED BY <1>1, CallStep DEF CardKept

LEMMA Moved ==
    ASSUME Types, NEW p \in Callers, NEW l \in Locals, c' = [c EXCEPT ![p] = l]
    PROVE  c'[p] = l /\ Only(p) /\ c' \in [Callers -> Locals]
BY DEF Types, Only

LEMMA RestLocal ==
    /\ Rest \in Locals /\ Rest.pc = "rest" /\ Rest.stage = "plain" /\ Rest.event = NoEvent /\ Rest.to = "none"
    /\ Rest.read = 0 /\ Rest.was = "none" /\ Rest.new = <<>> /\ Rest.set = "none" /\ Rest.cert = 0
    /\ Rest.rowSet = "none"
<1>1. <<>> \in Seq(Entry)
    OBVIOUS
<1> QED BY <1>1 DEF Rest, Locals, NoEvent, Event, Pcs, Moves, States

\* An error: the call ends, or goes on to record what was spent.
LEMMA RaiseStep ==
    ASSUME IInv, NEW p \in Callers, Raise(p), UNCHANGED <<tables, card, effects>>,
           overdue' \in BOOLEAN, stopped' \in BOOLEAN, calls' \in 0 .. MaxCalls, faults' \in 0 .. MaxFaults
    PROVE  IInv'
<1> DEFINE l == Failing(p)
           f == [Rest EXCEPT !.stage = "failing", !.pc = "rowRead", !.to = "consumed"]
<1>1. f \in Locals /\ f.pc = "rowRead" /\ f.stage = "failing" /\ f.to = "consumed" /\ f.new = <<>> /\ f.cert = 0
      /\ f.rowSet = "none"
    BY RestLocal DEF Locals, Rest, Pcs, Moves
<1>2. l = IF c[p].stage = "spent" THEN f ELSE Rest
    BY DEF Failing
<1> HIDE DEF f, l
<1>3. l \in Locals /\ l.new = <<>> /\ l.cert = 0 /\ l.rowSet = "none" /\ l.stage \in {"plain", "failing"}
      /\ l.pc \in {"rest", "rowRead"} /\ (l.pc = "rest" => l = Rest)
      /\ (l.pc = "rowRead" => c[p].stage = "spent" /\ l.to = "consumed")
    BY <1>1, <1>2, RestLocal
<1>4. c'[p] = l /\ Only(p) /\ c' \in [Callers -> Locals]
    BY <1>3, Moved DEF Raise, l, IInv
<1>5. latch' \in {latch, Nobody} /\ latch' # p
    BY LoopAssumption DEF Raise, Freed
<1>6. Types'
    BY <1>4, <1>5 DEF IInv, Types, tables
<1>7. Decided(p) /\ Starting(p) /\ Writing(p)
    BY DEF IInv, Callings
<1>8. Rest = [Rest EXCEPT !.pc = Rest.pc] /\ Rest.to = "none"
    BY DEF Rest
<1>9. Decided(p)'
    <2>1. c[p].stage = "spent" => CardSays("consumed")
        BY <1>7 DEF Decided
    <2>2. CardSays("none")
        BY DEF CardSays
    <2>3. CardSays(l.to)
        BY <1>3, <1>8, <2>1, <2>2
    <2>4. CardSays(c[p].to)'
        BY <1>4, <2>3 DEF CardSays
    <2> QED BY <1>3, <1>4, <1>8, <2>4 DEF Decided
<1>10. Starting(p)'
    BY <1>3, <1>4 DEF Starting
<1>11. Writing(p)'
    BY <1>3, <1>4 DEF Writing, Writes
<1>12. log = <<>> => l.pc = "rest"
    <2>1. log = <<>> => c[p].stage = "plain"
        BY <1>7 DEF IInv, Proposed, Decided, Rest
    <2> QED BY <1>3, <2>1
<1> QED BY <1>3, <1>4, <1>5, <1>6, <1>9, <1>10, <1>11, <1>12, QuietStep DEF Writes

LEMMA FieldsOf ==
    ASSUME Types, NEW p \in Callers
    PROVE  /\ c[p] \in Locals /\ c[p].pc \in Pcs /\ c[p].stage \in {"plain", "started", "spent", "failing"}
           /\ c[p].event.name \in LawNames \union Posts \union {"none"} /\ c[p].event.req \in BOOLEAN
           /\ c[p].to \in Moves /\ c[p].read \in Nat /\ c[p].was \in States /\ c[p].new \in Seq(Entry)
           /\ c[p].set \in States /\ c[p].cert \in Nat /\ c[p].rowSet \in Moves
           /\ log \in Seq(Entry) /\ Len(log) \in Nat
<1>1. c[p] \in Locals /\ log \in Seq(Entry)
    BY DEF Types
<1> QED BY <1>1 DEF Locals

\* Whoever is neither about to save nor about to certify has written nothing.
LEMMA NothingNew ==
    ASSUME IInv, NEW p \in Callers, c[p].pc \notin {"receipt", "save"}
    PROVE  ~Writes(p) /\ c[p].new = <<>> /\ c[p].cert = 0 /\ log \o c[p].new = log
<1>1. ~Writes(p)
    BY DEF IInv, Callings, Writing
<1>2. c[p].new = <<>> /\ c[p].cert = 0
    BY <1>1 DEF Writes
<1>3. log \o <<>> = log
    BY ConcatEmptySeq DEF IInv, Types
<1> QED BY <1>1, <1>2, <1>3

\* No call is under way before the proposal's events.
LEMMA UnderWay ==
    ASSUME IInv, NEW p \in Callers, ~At(p, "rest"), ~At(p, "propose")
    PROVE  log # <<>>
BY DEF IInv, Proposed, At

LEMMA AppendReadStep ==
    ASSUME IInv, NEW p \in Callers, AppendRead(p)
    PROVE  IInv'
<1>1. CASE Legal(c[p].event.name, Names(log \o c[p].new), stopped)
    <2> DEFINE w == IF c[p].set # "none" THEN c[p].set ELSE col
               l == [c[p] EXCEPT !.pc = "flush", !.read = Len(log), !.was = w]
    <2>1. Types /\ c[p].pc = "append" /\ Decided(p) /\ Starting(p) /\ Writing(p)
        BY DEF IInv, Callings, AppendRead, At
    <2>2. w \in States
        BY <2>1, FieldsOf DEF Types
    <2>3. c' = [c EXCEPT ![p] = l] /\ UNCHANGED <<tables, card, overdue, stopped, effects, budget, latch>>
        BY <1>1, <2>1 DEF AppendRead, Types
    <2> HIDE DEF w
    <2>4. /\ l \in Locals /\ l.pc = "flush" /\ l.read = Len(log) /\ l.stage = c[p].stage /\ l.event = c[p].event
          /\ l.to = c[p].to /\ l.new = c[p].new /\ l.cert = c[p].cert /\ l.rowSet = c[p].rowSet
        BY <2>1, <2>2, FieldsOf, ZenonT(30) DEF Locals, Pcs
    <2> HIDE DEF l
    <2>5. c'[p] = l /\ Only(p) /\ c' \in [Callers -> Locals]
        BY <2>1, <2>3, <2>4, Moved
    <2>6. Types'
        BY <2>1, <2>3, <2>5 DEF Types, tables, budget
    <2>7. Decided(p)'
        BY <2>1, <2>3, <2>4, <2>5 DEF Decided, CardSays
    <2>8. Starting(p)'
        BY <2>1, <2>3, <2>4, <2>5 DEF Starting, tables
    <2>9. c[p].new = <<>> /\ c[p].cert = 0 /\ log \o c[p].new = log
        BY <2>1, NothingNew
    <2>10. Legal(c[p].event.name, Names(log), FALSE)
        BY <1>1, <2>9 DEF Legal
    <2>11. SubSeq(log, 1, Len(log)) = log /\ Len(log) \in Nat
        BY <2>1, SubSeqFull DEF Types
    <2>12. Legal(c[p].event.name, Names(SubSeq(log, 1, Len(log))), FALSE)
        BY <2>10, <2>11, Zenon
    <2>13. Writing(p)'
        <3>1. log' = log /\ c'[p].read = Len(log) /\ c'[p].event = c[p].event
            BY <2>3, <2>4, <2>5 DEF tables
        <3>2. Legal(c'[p].event.name, Names(SubSeq(log', 1, c'[p].read)), FALSE)
            BY <2>12, <3>1, Zenon
        <3>3. c'[p].new = <<>> /\ c'[p].cert = 0 /\ c'[p].pc = "flush" /\ c'[p].read <= Len(log')
            BY <2>4, <2>5, <2>9, <2>11, <3>1
        <3> QED BY <3>2, <3>3 DEF Writing, Writes
    <2>14. log # <<>>
        BY <2>1, UnderWay DEF At
    <2>15. latch = p => c[p].stage = "started"
        BY <2>1, LoopAssumption DEF IInv, Alone
    <2> QED BY <2>3, <2>4, <2>5, <2>6, <2>7, <2>8, <2>9, <2>13, <2>14, <2>15, QuietStep DEF Writes
<1>2. CASE ~Legal(c[p].event.name, Names(log \o c[p].new), stopped)
    BY <1>2, RaiseStep DEF AppendRead, IInv, Types, budget
<1> QED BY <1>1, <1>2

LEMMA IssueReceiptStep ==
    ASSUME IInv, NEW p \in Callers, IssueReceipt(p)
    PROVE  IInv'
<1>1. CASE receipt = 0
    <2> DEFINE n == c[p].read + Len(c[p].new)
               l == [c[p] EXCEPT !.cert = n, !.set = "receipted", !.pc = "save"]
    <2>1. Types /\ c[p].pc = "receipt" /\ Decided(p) /\ Starting(p) /\ Writing(p) /\ IntentFree(p)
        BY DEF IInv, Callings, IssueReceipt, At
    <2>2. n \in Nat
        BY <2>1, FieldsOf
    <2>3. c' = [c EXCEPT ![p] = l] /\ UNCHANGED <<tables, card, overdue, stopped, effects, budget, latch>>
        BY <1>1, <2>1 DEF IssueReceipt, Types
    <2>4. Certified(log \o c[p].new, n)
        BY <2>1 DEF Writing
    <2> HIDE DEF n
    <2>5. /\ l \in Locals /\ l.pc = "save" /\ l.cert = n /\ l.stage = c[p].stage /\ l.event = c[p].event
          /\ l.to = c[p].to /\ l.new = c[p].new /\ l.read = c[p].read /\ l.rowSet = c[p].rowSet
        BY <2>1, <2>2, FieldsOf, ZenonT(30) DEF Locals, Pcs, States
    <2> HIDE DEF l
    <2>6. c'[p] = l /\ Only(p) /\ c' \in [Callers -> Locals]
        BY <2>1, <2>3, <2>5, Moved
    <2>7. Types'
        BY <2>1, <2>3, <2>6 DEF Types, tables, budget
    <2>8. Decided(p)'
        BY <2>1, <2>3, <2>5, <2>6 DEF Decided, CardSays
    <2>9. Starting(p)'
        BY <2>1, <2>3, <2>5, <2>6 DEF Starting, tables
    <2>10. Writing(p)'
        BY <2>1, <2>3, <2>4, <2>5, <2>6 DEF Writing, Writes, tables
    <2>11. log # <<>>
        BY <2>1, UnderWay DEF At
    <2>12. latch # p
        BY <2>1, LoopAssumption DEF IInv, Alone
    <2> QED BY <2>1, <2>3, <2>5, <2>6, <2>7, <2>8, <2>9, <2>10, <2>11, <2>12, QuietStep
<1>2. CASE receipt # 0
    BY <1>2, RaiseStep DEF IssueReceipt, IInv, Types, budget
<1> QED BY <1>1, <1>2

LEMMA FailStep ==
    ASSUME IInv, NEW p \in Callers, StatementFails(p)
    PROVE  IInv'
BY RaiseStep, LoopAssumption DEF StatementFails, IInv, Types, Fault

\* The call is over: nothing of it is left.
LEMMA RestStep ==
    ASSUME IInv, NEW p \in Callers, c' = [c EXCEPT ![p] = Rest], latch' \in {latch, Freed(p)},
           latch' # p, UNCHANGED <<tables, effects>>, card' \in Rows, Performed',
           CardKept, card' \in {"none", "pending"} => card' = card, log = <<>> => card' = card,
           card' = "consumed" => card = "consumed" \/ (StartedFor(log) /\ "APPROVAL_GRANTED" \in Names(log)),
           overdue' \in BOOLEAN, stopped' \in BOOLEAN, calls' \in 0 .. MaxCalls, faults' \in 0 .. MaxFaults
    PROVE  IInv'
<1>1. c'[p] = Rest /\ Only(p) /\ c' \in [Callers -> Locals]
    BY RestLocal, Moved DEF IInv
<1>2. latch' \in {latch, Nobody}
    BY DEF Freed
<1>3. Types'
    BY <1>1, <1>2 DEF IInv, Types, tables
<1>4. Rest = [Rest EXCEPT !.pc = Rest.pc]
    BY DEF Rest
<1>5. Decided(p)'
    BY <1>1, <1>4, RestLocal DEF Decided, CardSays
<1>6. Starting(p)' /\ Writing(p)'
    BY <1>1, RestLocal DEF Starting, Writing, Writes
<1> QED BY <1>1, <1>2, <1>3, <1>5, <1>6, RestLocal, CallStep DEF Writes

LEMMA CrashStep ==
    ASSUME IInv, NEW p \in Callers, Crash(p)
    PROVE  IInv'
<1>1. c' = [c EXCEPT ![p] = Rest] /\ latch' = Freed(p) /\ UNCHANGED <<tables, card, overdue, stopped, effects, calls>>
      /\ faults' \in 0 .. MaxFaults
    BY LoopAssumption DEF Crash, Fault, IInv, Types
<1>2. c'[p] = Rest /\ Only(p)
    BY <1>1, RestLocal, Moved DEF IInv
<1>3. Performed'
    BY <1>1, <1>2, RestLocal DEF IInv, Performed, Only
<1>4. latch' # p
    BY <1>1, LoopAssumption DEF Freed
<1> QED BY <1>1, <1>3, <1>4, RestStep DEF CardKept, IInv, Types

\* What is recorded of the row, and where the call goes from there.
LEMMA RecordedFields ==
    ASSUME IInv, NEW p \in Callers, c[p].pc \in {"rowRead", "rowWrite"}
    PROVE  LET l == Recorded(p)
           IN  /\ l \in Locals /\ l.pc \in {"grant", "save", "effect", "append"} /\ l.stage = c[p].stage
               /\ l.to = c[p].to /\ l.read = c[p].read /\ l.was = c[p].was /\ l.new = c[p].new
               /\ l.set = c[p].set /\ l.cert = c[p].cert /\ l.rowSet = c[p].rowSet
               /\ l.pc = "effect" => l.stage = "spent"
<1>1. c[p] \in Locals /\ c[p].to # "none" /\ (c[p].stage = "spent" => c[p].to = "consumed")
    BY DEF IInv, Callings, Decided, Types
<1>2. Event("ACTION_FAILED", TRUE) \in [name : LawNames \union Posts \union {"none"}, req : BOOLEAN]
    BY DEF Event, LawNames, Requires
<1>3. CASE c[p].to = "approved"
    BY <1>1, <1>3 DEF Recorded, Locals, Pcs
<1>4. CASE c[p].to = "refused"
    BY <1>1, <1>4 DEF Recorded, Locals, Pcs
<1>5. CASE c[p].to = "consumed" /\ c[p].stage = "spent"
    BY <1>1, <1>5 DEF Recorded, Locals, Pcs
<1>6. CASE c[p].to = "consumed" /\ c[p].stage # "spent"
    BY <1>1, <1>2, <1>6 DEF Recorded, Locals, Pcs
<1> QED BY <1>1, <1>3, <1>4, <1>5, <1>6 DEF Locals, Moves

LEMMA RecordedStep ==
    ASSUME IInv, NEW p \in Callers, c[p].pc \in {"rowRead", "rowWrite"}, NEW s \in {c[p].rowSet, c[p].to},
           s = c[p].to => RowFree(p) \/ s = c[p].rowSet,
           c' = [c EXCEPT ![p] = [Recorded(p) EXCEPT !.rowSet = s]],
           UNCHANGED <<tables, card, overdue, stopped, latch, effects, budget>>
    PROVE  IInv'
<1> DEFINE l == [Recorded(p) EXCEPT !.rowSet = s]
<1>1. Types /\ Decided(p) /\ Starting(p) /\ Writing(p)
    BY DEF IInv, Callings
<1>2. c[p].stage # "started"
    BY <1>1 DEF Starting
<1>3. c[p].new = <<>> /\ c[p].cert = 0
    BY NothingNew
<1>4. /\ l \in Locals /\ l.pc \in {"grant", "save", "effect", "append"} /\ l.stage = c[p].stage
      /\ l.to = c[p].to /\ l.new = <<>> /\ l.cert = 0 /\ l.rowSet = s /\ (l.pc = "effect" => l.stage = "spent")
    BY <1>1, <1>3, RecordedFields, FieldsOf DEF Locals
<1> HIDE DEF l
<1>5. c'[p] = l /\ Only(p) /\ c' \in [Callers -> Locals]
    BY <1>1, <1>4, Moved DEF l
<1>6. Types'
    BY <1>1, <1>5 DEF Types, tables, budget
<1>7. Decided(p)'
    BY <1>1, <1>4, <1>5 DEF Decided, CardSays
<1>8. Starting(p)'
    BY <1>2, <1>4, <1>5 DEF Starting
<1>9. Writing(p)'
    BY <1>4, <1>5 DEF Writing, Writes
<1>10. log # <<>>
    BY UnderWay DEF At
<1>11. latch # p /\ (c[p].stage = "spent" => effects # 1)
    BY LoopAssumption DEF IInv, Alone, Performed
<1>12. c'[p].rowSet # "none" => c[p].rowSet # "none" \/ RowFree(p)
    BY <1>4, <1>5
<1>13. ~Writes(p)'
    BY <1>4, <1>5 DEF Writes
<1> QED BY <1>4, <1>5, <1>6, <1>7, <1>8, <1>9, <1>10, <1>11, <1>12, <1>13, QuietStep

LEMMA RowReadStep ==
    ASSUME IInv, NEW p \in Callers, RowRead(p)
    PROVE  IInv'
<1>1. c[p].pc = "rowRead" /\ UNCHANGED <<tables, card, overdue, stopped, effects, budget>> /\ Types
    BY DEF RowRead, At, IInv
<1>2. CASE c' = [c EXCEPT ![p] = Recorded(p)] /\ UNCHANGED latch
    <2>1. Recorded(p) = [Recorded(p) EXCEPT !.rowSet = c[p].rowSet]
        BY <1>1, RecordedFields DEF Locals
    <2> QED BY <1>1, <1>2, <2>1, RecordedStep
<1>3. CASE c' = [c EXCEPT ![p].pc = "rowWrite"] /\ UNCHANGED latch
    <2> DEFINE l == [c[p] EXCEPT !.pc = "rowWrite"]
    <2>1. Decided(p) /\ Starting(p) /\ Writing(p) /\ c[p].new = <<>> /\ c[p].cert = 0
        BY <1>1, NothingNew DEF IInv, Callings
    <2>2. /\ l \in Locals /\ l.pc = "rowWrite" /\ l.stage = c[p].stage
          /\ l.to = c[p].to /\ l.new = <<>> /\ l.cert = 0 /\ l.rowSet = c[p].rowSet
        BY <1>1, <2>1, FieldsOf DEF Locals, Pcs
    <2>3. c' = [c EXCEPT ![p] = l]
        BY <1>3
    <2> HIDE DEF l
    <2>4. c'[p] = l /\ Only(p) /\ c' \in [Callers -> Locals]
        BY <1>1, <2>2, <2>3, Moved
    <2>5. Types'
        BY <1>1, <1>3, <2>4 DEF Types, tables, budget
    <2>6. Decided(p)'
        BY <1>1, <2>1, <2>2, <2>4 DEF Decided, CardSays
    <2>7. Starting(p)' /\ Writing(p)' /\ ~Writes(p)'
        BY <1>1, <2>1, <2>2, <2>4 DEF Starting, Writing, Writes
    <2>8. log # <<>> /\ latch # p /\ (c[p].stage = "spent" => effects # 1)
        BY <1>1, UnderWay, LoopAssumption DEF At, IInv, Alone, Performed
    <2> QED BY <1>1, <1>3, <2>2, <2>4, <2>5, <2>6, <2>7, <2>8, QuietStep
<1>4. CASE Raise(p)
    BY <1>1, <1>4, RaiseStep DEF IInv, Types, budget
<1> QED BY <1>2, <1>3, <1>4 DEF RowRead

LEMMA RowWriteStep ==
    ASSUME IInv, NEW p \in Callers, RowWrite(p)
    PROVE  IInv'
BY RecordedStep DEF RowWrite, At

LEMMA LatchStep ==
    ASSUME IInv, NEW p \in Callers, Latch(p)
    PROVE  IInv'
<1>1. /\ c[p].pc = "latch" /\ UNCHANGED <<tables, card, overdue, stopped, effects, budget>> /\ latch = Nobody
      /\ Types /\ Decided(p) /\ Starting(p) /\ Writing(p)
    BY DEF Latch, At, IInv, Callings
<1>2. CASE StartedFor(log)
    <2>1. c' = [c EXCEPT ![p] = Rest] /\ latch' = latch /\ latch' # p
        BY <1>1, <1>2, LoopAssumption DEF Latch
    <2>2. Performed'
        BY <1>1, <2>1, RestLocal, Moved DEF IInv, Performed, Only
    <2> QED BY <1>1, <2>1, <2>2, RestStep DEF CardKept, Types, budget
<1>3. CASE ~StartedFor(log)
    <2> DEFINE e == Event("ACTION_STARTED", TRUE)
               l == [c[p] EXCEPT !.pc = "append", !.event = e]
    <2>1. c[p].new = <<>> /\ c[p].cert = 0 /\ c[p].stage = "started"
        BY <1>1, NothingNew DEF Starting
    <2>2. e \in [name : LawNames \union Posts \union {"none"}, req : BOOLEAN]
        BY DEF Event, LawNames, Requires
    <2>3. c' = [c EXCEPT ![p] = l] /\ latch' = p
        BY <1>1, <1>3 DEF Latch, Types
    <2> HIDE DEF e
    <2>4. /\ l \in Locals /\ l.pc = "append" /\ l.stage = "started" /\ l.event = e
          /\ l.to = c[p].to /\ l.new = <<>> /\ l.cert = 0 /\ l.rowSet = c[p].rowSet
        BY <1>1, <2>1, <2>2, FieldsOf, ZenonT(30) DEF Locals, Pcs
    <2> HIDE DEF l
    <2>5. c'[p] = l /\ Only(p) /\ c' \in [Callers -> Locals]
        BY <1>1, <2>3, <2>4, Moved
    <2>6. Types'
        BY <1>1, <2>3, <2>5 DEF Types, tables, budget
    <2>7. Decided(p)'
        BY <1>1, <2>4, <2>5 DEF Decided, CardSays
    <2>8. Starting(p)' /\ Writing(p)' /\ ~Writes(p)'
        BY <1>1, <2>1, <2>4, <2>5 DEF Starting, Writing, Writes, e, tables
    <2>9. log # <<>>
        BY <1>1, UnderWay DEF At
    <2> QED BY <1>1, <2>3, <2>4, <2>5, <2>6, <2>7, <2>8, <2>9, QuietStep
<1> QED BY <1>2, <1>3

\* A call goes on, and has written nothing.
LEMMA MoveStep ==
    ASSUME IInv, NEW p \in Callers, NEW l \in Locals, c' = [c EXCEPT ![p] = l], UNCHANGED <<tables, effects>>,
           overdue' \in BOOLEAN, stopped' \in BOOLEAN, calls' \in 0 .. MaxCalls, faults' \in 0 .. MaxFaults,
           card' \in Rows, CardKept, card' \in {"none", "pending"} => card' = card,
           card' = "consumed" => card = "consumed" \/ (StartedFor(log) /\ "APPROVAL_GRANTED" \in Names(log)),
           log # <<>>, latch' \in {latch, Nobody}, latch' # p,
           l.pc \notin {"rest", "propose", "flush"}, l.new = <<>>, l.cert = 0,
           l.to \in {"none", c[p].to, card'}, l.rowSet # "none" => l.rowSet = c[p].rowSet /\ l.to = c[p].to,
           l.pc \in {"rowRead", "rowWrite"} => l.to # "none",
           l.stage = "spent" => /\ l.to = "consumed" /\ effects # 1
                                /\ c[p].stage = "spent" \/ card # "consumed",
           l.pc = "effect" => l.stage = "spent",
           l.pc \in {"latch", "spend"} => l.stage = "started",
           l.stage = "started" => "APPROVAL_GRANTED" \in Names(log) /\ l.pc = "latch" /\ l.to = "none",
           l.pc = "receipt" => l.read <= Len(log) /\ Certified(log, l.read)
    PROVE  IInv'
<1>1. Types /\ Decided(p)
    BY DEF IInv, Callings
<1>2. c'[p] = l /\ Only(p) /\ c' \in [Callers -> Locals]
    BY <1>1, Moved
<1>3. Types'
    BY <1>1, <1>2 DEF Types, tables
<1>4. CardSays(c[p].to)'
    <2>1. CASE l.to = "none"
        BY <1>2, <2>1 DEF CardSays
    <2>2. CASE l.to = c[p].to
        <3>1. CardSays(l.to) /\ card \in Rows
            BY <1>1, <2>2 DEF Decided, Types
        <3> QED BY <1>2, <3>1 DEF CardSays, CardKept
    <2>3. CASE l.to = card'
        BY <1>2, <2>3 DEF CardSays
    <2> QED BY <2>1, <2>2, <2>3
<1>5. Decided(p)'
    BY <1>1, <1>2, <1>4 DEF Decided
<1>6. Starting(p)'
    BY <1>2 DEF Starting, tables
<1>7. Writing(p)'
    <2>1. log' = log /\ log \o <<>> = log /\ l.read \in Nat
        BY <1>1, ConcatEmptySeq DEF tables, Types, Locals
    <2>2. l.pc = "receipt" => l.read <= Len(log') /\ Certified(log' \o l.new, l.read + Len(l.new))
        BY <2>1, EmptySeq
    <2> QED BY <1>2, <2>2 DEF Writing, Writes
<1>8. Performed'
    <2>1. effects' = effects /\ Performed
        BY DEF IInv
    <2>2. effects = 1 => card' = "consumed"
        BY <2>1 DEF Performed, CardKept
    <2>3. ASSUME effects = 1, NEW q \in Callers, c'[q].stage = "spent"
          PROVE  c'[q].pc \in {"append", "flush", "receipt", "save"}
        <3>1. q # p
            BY <1>2, <2>3
        <3>2. c'[q] = c[q]
            BY <1>2, <3>1 DEF Only
        <3> QED BY <2>1, <2>3, <3>2 DEF Performed
    <2> QED BY <2>1, <2>2, <2>3 DEF Performed
<1>9. ~Writes(p)'
    BY <1>2 DEF Writes
<1>10. c'[p].rowSet # "none" => c[p].rowSet # "none"
    BY <1>2
<1>11. c'[p].stage = "spent" => c[p].stage = "spent" \/ card # "consumed"
    BY <1>2
<1>12. c'[p].pc # "propose"
    BY <1>2
<1> QED BY <1>2, <1>3, <1>5, <1>6, <1>7, <1>8, <1>9, <1>10, <1>11, <1>12, CallStep

LEMMA GrantStep ==
    ASSUME IInv, NEW p \in Callers, Grant(p)
    PROVE  IInv'
<1> DEFINE e == Event("APPROVAL_GRANTED", TRUE)
           l == [c[p] EXCEPT !.pc = "save"]
           m == [c[p] EXCEPT !.pc = "append", !.event = e]
<1>1. /\ c[p].pc = "grant" /\ UNCHANGED <<tables, card, overdue, stopped, latch, effects, budget>>
      /\ Types /\ Decided(p) /\ Starting(p)
    BY DEF Grant, At, IInv, Callings
<1>2. c' = [c EXCEPT ![p] = l] \/ c' = [c EXCEPT ![p] = m]
    BY <1>1 DEF Grant, Types
<1>3. c[p].new = <<>> /\ c[p].cert = 0
    BY <1>1, NothingNew
<1>4. e \in [name : LawNames \union Posts \union {"none"}, req : BOOLEAN]
    BY DEF Event, LawNames, Requires
<1> HIDE DEF e
<1>5. /\ l \in Locals /\ l.pc = "save" /\ l.stage = c[p].stage /\ l.to = c[p].to /\ l.new = <<>>
      /\ l.cert = 0 /\ l.rowSet = c[p].rowSet
    BY <1>1, <1>3, FieldsOf DEF Locals, Pcs
<1>6. /\ m \in Locals /\ m.pc = "append" /\ m.stage = c[p].stage /\ m.to = c[p].to /\ m.new = <<>>
      /\ m.cert = 0 /\ m.rowSet = c[p].rowSet
    BY <1>1, <1>3, <1>4, FieldsOf, ZenonT(30) DEF Locals, Pcs
<1> HIDE DEF l, m
<1>7. c[p].stage # "started" /\ (c[p].stage = "spent" => c[p].to = "consumed")
    BY <1>1 DEF Starting, Decided
<1>8. log # <<>> /\ latch # p /\ (c[p].stage = "spent" => effects # 1)
    BY <1>1, UnderWay, LoopAssumption DEF At, IInv, Alone, Performed
<1>9. CardKept /\ card' \in Rows /\ overdue' \in BOOLEAN /\ stopped' \in BOOLEAN
      /\ calls' \in 0 .. MaxCalls /\ faults' \in 0 .. MaxFaults
    BY <1>1 DEF CardKept, Types, budget
<1>10. CASE c' = [c EXCEPT ![p] = l]
    BY <1>1, <1>5, <1>7, <1>8, <1>9, <1>10, MoveStep
<1>11. CASE c' = [c EXCEPT ![p] = m]
    BY <1>1, <1>6, <1>7, <1>8, <1>9, <1>11, MoveStep
<1> QED BY <1>2, <1>10, <1>11

\* A call begins: the caller was at rest.
LEMMA AtRest ==
    ASSUME IInv, NEW p \in Callers, Call(p)
    PROVE  /\ c[p].pc = "rest" /\ c[p] = Rest /\ latch # p
           /\ calls' \in 0 .. MaxCalls /\ faults' \in 0 .. MaxFaults
<1>1. Decided(p) /\ c[p].pc = "rest"
    BY DEF IInv, Callings, Call, At
<1>2. [Rest EXCEPT !.pc = "rest"] = Rest
    BY DEF Rest
<1>3. c[p] = Rest
    BY <1>1, <1>2 DEF Decided
<1>4. latch # p
    BY <1>1, LoopAssumption DEF IInv, Alone
<1> QED BY <1>1, <1>3, <1>4, LoopAssumption DEF Call, IInv, Types

LEMMA ApproveStep ==
    ASSUME IInv, NEW p \in Callers, Approve(p)
    PROVE  IInv'
<1> DEFINE l == [Rest EXCEPT !.pc = "rowRead", !.to = "approved"]
<1>1. /\ Types /\ Call(p) /\ UNCHANGED <<tables, overdue, stopped, latch, effects>> /\ row \in {"pending", "approved"}
      /\ card' = IF card # "pending" THEN card ELSE IF overdue THEN "expired" ELSE "approved"
      /\ (card' = "approved" /\ c' = [c EXCEPT ![p] = l]) \/ c' = [c EXCEPT ![p] = Rest]
    BY DEF Approve, IInv
<1>2. /\ c[p] = Rest /\ latch # p /\ calls' \in 0 .. MaxCalls /\ faults' \in 0 .. MaxFaults
    BY <1>1, AtRest
<1>3. CardKept /\ card' \in Rows /\ (card' \in {"none", "pending"} => card' = card)
      /\ (card' = "consumed" => card = "consumed")
    BY <1>1 DEF CardKept, Types, Rows
<1>4. log # <<>>
    BY <1>1 DEF IInv, Proposed
<1>5. l \in Locals /\ l.pc = "rowRead" /\ l.to = "approved" /\ l.stage = "plain" /\ l.new = <<>> /\ l.cert = 0
      /\ l.rowSet = "none"
    BY RestLocal DEF Locals, Pcs, Moves, Rest
<1> HIDE DEF l
<1>6. CASE card' = "approved" /\ c' = [c EXCEPT ![p] = l]
    BY <1>1, <1>2, <1>3, <1>4, <1>5, <1>6, MoveStep DEF Types
<1>7. CASE c' = [c EXCEPT ![p] = Rest]
    <2>1. Performed'
        <3>1. c'[p] = Rest /\ Only(p)
            BY <1>1, <1>7, RestLocal, Moved
        <3> QED BY <1>1, <1>3, <3>1, RestLocal DEF IInv, Performed, Only, CardKept
    <2> QED BY <1>1, <1>2, <1>3, <1>4, <1>7, <2>1, RestStep DEF Types
<1> QED BY <1>1, <1>6, <1>7

LEMMA RefuseCardStep ==
    ASSUME IInv, NEW p \in Callers, RefuseCard(p)
    PROVE  IInv'
<1> DEFINE l == [Rest EXCEPT !.pc = "rowRead", !.to = "refused"]
<1>1. /\ Types /\ Call(p) /\ UNCHANGED <<tables, overdue, stopped, latch, effects>> /\ row # "none"
      /\ card = "pending" /\ card' = "refused" /\ c' = [c EXCEPT ![p] = l]
    BY DEF RefuseCard, IInv
<1>2. /\ c[p] = Rest /\ latch # p /\ calls' \in 0 .. MaxCalls /\ faults' \in 0 .. MaxFaults
    BY <1>1, AtRest
<1>3. log # <<>>
    BY <1>1 DEF IInv, Proposed
<1>4. l \in Locals /\ l.pc = "rowRead" /\ l.to = "refused" /\ l.stage = "plain" /\ l.new = <<>> /\ l.cert = 0
      /\ l.rowSet = "none"
    BY RestLocal DEF Locals, Pcs, Moves, Rest
<1> HIDE DEF l
<1> QED BY <1>1, <1>2, <1>3, <1>4, MoveStep DEF Types, CardKept, Rows

LEMMA CommitStep ==
    ASSUME IInv, NEW p \in Callers, Commit(p)
    PROVE  IInv'
<1> DEFINE l == [Rest EXCEPT !.pc = "latch", !.stage = "started"]
<1>1. /\ Types /\ Call(p) /\ UNCHANGED <<tables, card, overdue, stopped, latch, effects>> /\ row = "approved"
      /\ "APPROVAL_GRANTED" \in Names(log) /\ c' = [c EXCEPT ![p] = l]
    BY DEF Commit, IInv
<1>2. /\ c[p] = Rest /\ latch # p /\ calls' \in 0 .. MaxCalls /\ faults' \in 0 .. MaxFaults
    BY <1>1, AtRest
<1>3. log # <<>>
    BY <1>1 DEF IInv, Proposed
<1>4. l \in Locals /\ l.pc = "latch" /\ l.to = "none" /\ l.stage = "started" /\ l.new = <<>> /\ l.cert = 0
      /\ l.rowSet = "none"
    BY RestLocal DEF Locals, Pcs, Rest
<1> HIDE DEF l
<1> QED BY <1>1, <1>2, <1>3, <1>4, MoveStep DEF Types, CardKept

LEMMA PostStep ==
    ASSUME IInv, NEW p \in Callers, NEW name \in Posts, Post(p, name)
    PROVE  IInv'
<1>1. PICK r \in BOOLEAN : c' = [c EXCEPT ![p] = [Rest EXCEPT !.pc = "append", !.event = Event(name, r)]]
    BY DEF Post
<1> DEFINE l == [Rest EXCEPT !.pc = "append", !.event = Event(name, r)]
<1>2. Types /\ Call(p) /\ UNCHANGED <<tables, card, overdue, stopped, latch, effects>> /\ log # <<>>
    BY DEF Post, IInv
<1>3. /\ c[p] = Rest /\ latch # p /\ calls' \in 0 .. MaxCalls /\ faults' \in 0 .. MaxFaults
    BY <1>2, AtRest
<1>4. l \in Locals /\ l.pc = "append" /\ l.to = "none" /\ l.stage = "plain" /\ l.new = <<>> /\ l.cert = 0
      /\ l.rowSet = "none"
    BY RestLocal DEF Locals, Pcs, Rest, Event
<1>5. c' = [c EXCEPT ![p] = l]
    BY <1>1
<1> HIDE DEF l
<1> QED BY <1>2, <1>3, <1>4, <1>5, MoveStep DEF Types, CardKept

LEMMA PostReceiptStep ==
    ASSUME IInv, NEW p \in Callers, PostReceipt(p)
    PROVE  IInv'
<1> DEFINE l == [Rest EXCEPT !.pc = "receipt", !.read = Len(log), !.was = col]
<1>1. /\ Types /\ Call(p) /\ UNCHANGED <<tables, card, overdue, stopped, latch, effects>>
      /\ Receiptable(Names(log)) /\ c' = [c EXCEPT ![p] = l]
    BY DEF PostReceipt, IInv
<1>2. /\ c[p] = Rest /\ latch # p /\ calls' \in 0 .. MaxCalls /\ faults' \in 0 .. MaxFaults
    BY <1>1, AtRest
<1>3. log \in Seq(Entry) /\ Len(log) \in Nat /\ col \in States /\ log # <<>>
    BY <1>1 DEF Types, Receiptable, Names
<1>4. Certified(log, Len(log))
    <2>1. Len(log) \in 1 .. Len(log) /\ SubSeq(log, 1, Len(log)) = log
        BY <1>3, EmptySeq, SubSeqFull
    <2> QED BY <1>1, <2>1 DEF Certified
<1>5. l \in Locals /\ l.pc = "receipt" /\ l.to = "none" /\ l.stage = "plain" /\ l.new = <<>> /\ l.cert = 0
      /\ l.rowSet = "none" /\ l.read = Len(log)
    BY <1>3, RestLocal DEF Locals, Pcs, Rest
<1> HIDE DEF l
<1>6. l.read <= Len(log) /\ Certified(log, l.read)
    BY <1>3, <1>4, <1>5
<1>7. CardKept /\ card' = card /\ card \in Rows /\ overdue' \in BOOLEAN /\ stopped' \in BOOLEAN
    BY <1>1 DEF Types, CardKept
<1> QED BY <1>1, <1>2, <1>3, <1>5, <1>6, <1>7, MoveStep

\* The card is spent under a start that is durable, and once.
LEMMA SpendStep ==
    ASSUME IInv, NEW p \in Callers, Spend(p)
    PROVE  IInv'
<1> DEFINE l == [c[p] EXCEPT !.pc = "rowRead", !.to = "consumed", !.stage = "spent"]
           e == Event("ACTION_FAILED", TRUE)
           m == [c[p] EXCEPT !.pc = "append", !.stage = "failing", !.event = e]
<1>1. /\ Types /\ c[p].pc = "spend" /\ UNCHANGED <<tables, overdue, stopped, latch, effects, budget>>
      /\ Decided(p) /\ Starting(p)
    BY DEF Spend, At, IInv, Callings
<1>2. StartedFor(log) /\ "APPROVAL_GRANTED" \in Names(log) /\ c[p].to = "none"
    BY <1>1 DEF Starting
<1>3. c[p].new = <<>> /\ c[p].cert = 0
    BY <1>1, NothingNew
<1>4. c[p].rowSet = "none"
    BY <1>1, <1>2 DEF Decided
<1>5. log # <<>> /\ latch # p
    BY <1>1, UnderWay, LoopAssumption DEF At, IInv, Alone
<1>6. e \in [name : LawNames \union Posts \union {"none"}, req : BOOLEAN]
    BY DEF Event, LawNames, Requires
<1> HIDE DEF e
<1>7. /\ l \in Locals /\ l.pc = "rowRead" /\ l.stage = "spent" /\ l.to = "consumed" /\ l.new = <<>>
      /\ l.cert = 0 /\ l.rowSet = "none"
    <2>1. "rowRead" \in Pcs /\ "consumed" \in Moves
        BY DEF Pcs, Moves
    <2>2. l \in Locals
        BY <1>1, <2>1, FieldsOf DEF Locals
    <2>3. l.pc = "rowRead" /\ l.stage = "spent" /\ l.to = "consumed"
        BY <1>1, FieldsOf DEF Locals
    <2>4. l.new = c[p].new /\ l.cert = c[p].cert /\ l.rowSet = c[p].rowSet
        BY <1>1, FieldsOf DEF Locals
    <2> QED BY <1>3, <1>4, <2>2, <2>3, <2>4
<1>8. /\ m \in Locals /\ m.pc = "append" /\ m.stage = "failing" /\ m.to = "none" /\ m.new = <<>>
      /\ m.cert = 0 /\ m.rowSet = "none"
    BY <1>1, <1>2, <1>3, <1>4, <1>6, FieldsOf, ZenonT(30) DEF Locals, Pcs
<1>9. \/ card = "approved" /\ card' = "consumed" /\ c' = [c EXCEPT ![p] = l]
      \/ card' = card /\ c' = [c EXCEPT ![p] = m]
    BY <1>1 DEF Spend, Types, e
<1> HIDE DEF l, m
<1>10. CASE card = "approved" /\ card' = "consumed" /\ c' = [c EXCEPT ![p] = l]
    <2>1. effects # 1
        BY <1>10 DEF IInv, Performed
    <2> QED BY <1>1, <1>2, <1>5, <1>7, <1>10, <2>1, MoveStep DEF Types, Rows, CardKept, budget
<1>11. CASE card' = card /\ c' = [c EXCEPT ![p] = m]
    BY <1>1, <1>5, <1>8, <1>11, MoveStep DEF Types, CardKept, budget
<1> QED BY <1>9, <1>10, <1>11

LEMMA SpendUnknownStep ==
    ASSUME IInv, NEW p \in Callers, SpendUnknown(p)
    PROVE  IInv'
<1>1. /\ Types /\ c[p].pc = "spend" /\ UNCHANGED <<tables, overdue, stopped, effects, calls>>
      /\ c' = [c EXCEPT ![p] = Rest] /\ latch' = Freed(p) /\ faults' \in 0 .. MaxFaults
      /\ card' = card \/ (card = "approved" /\ card' = "consumed")
    BY LoopAssumption DEF SpendUnknown, At, IInv, Fault, Types
<1>2. StartedFor(log) /\ "APPROVAL_GRANTED" \in Names(log)
    BY <1>1 DEF IInv, Callings, Starting
<1>3. log # <<>> /\ latch' # p
    BY <1>1, UnderWay, LoopAssumption DEF At, Freed
<1>4. Performed'
    <2>1. c'[p] = Rest /\ Only(p)
        BY <1>1, RestLocal, Moved
    <2> QED BY <1>1, <2>1, RestLocal DEF IInv, Performed, Only
<1> QED BY <1>1, <1>2, <1>3, <1>4, RestStep DEF Types, Rows, CardKept

\* The connectors are called by the one who spent the card.
LEMMA EffectStep ==
    ASSUME IInv, NEW p \in Callers, Effect(p)
    PROVE  IInv'
<1> DEFINE e == Event("ACTION_COMPLETED", TRUE)
           l == [c[p] EXCEPT !.pc = "append", !.event = e]
<1>1. /\ Types /\ c[p].pc = "effect" /\ UNCHANGED <<tables, card, overdue, stopped, latch, budget>>
      /\ effects' = effects + 1 /\ c' = [c EXCEPT ![p] = l] /\ Decided(p) /\ Starting(p)
    BY DEF Effect, At, IInv, Callings, Types
<1>2. c[p].stage = "spent" /\ card = "consumed"
    BY <1>1 DEF Decided, CardSays
<1>3. c[p].new = <<>> /\ c[p].cert = 0
    BY <1>1, NothingNew
<1>4. log # <<>> /\ latch # p
    BY <1>1, UnderWay, LoopAssumption DEF At, IInv, Alone
<1>5. effects = 0
    BY <1>1, <1>2 DEF IInv, Performed
<1>6. e \in [name : LawNames \union Posts \union {"none"}, req : BOOLEAN]
    BY DEF Event, LawNames, Requires
<1> HIDE DEF e
<1>7. /\ l \in Locals /\ l.pc = "append" /\ l.stage = "spent" /\ l.to = c[p].to /\ l.new = <<>>
      /\ l.cert = 0 /\ l.rowSet = c[p].rowSet
    BY <1>1, <1>2, <1>3, <1>6, FieldsOf, ZenonT(30) DEF Locals, Pcs
<1> HIDE DEF l
<1>8. c'[p] = l /\ Only(p) /\ c' \in [Callers -> Locals]
    BY <1>1, <1>7, Moved
<1>9. Types'
    BY <1>1, <1>5, <1>8 DEF Types, tables, budget
<1>10. Decided(p)'
    BY <1>1, <1>2, <1>7, <1>8 DEF Decided, CardSays
<1>11. Starting(p)' /\ Writing(p)' /\ ~Writes(p)'
    BY <1>7, <1>8 DEF Starting, Writing, Writes
<1>12. Performed'
    <2>1. \A q \in Callers : c'[q].stage = "spent" => q = p
        BY <1>2, <1>8 DEF IInv, Alone, Only
    <2> QED BY <1>1, <1>2, <1>5, <1>7, <1>8, <2>1 DEF Performed
<1> QED BY <1>1, <1>2, <1>4, <1>7, <1>8, <1>9, <1>10, <1>11, <1>12, CallStep DEF CardKept

LEMMA ProposeStep ==
    ASSUME IInv, NEW p \in Callers, Propose(p)
    PROVE  IInv'
<1> DEFINE l == [c[p] EXCEPT !.pc = "propose"]
<1>1. /\ Types /\ Call(p) /\ card = "none" /\ card' = "pending" /\ c' = [c EXCEPT ![p] = l]
      /\ UNCHANGED <<tables, overdue, stopped, latch, effects>>
    BY DEF Propose, IInv
<1>2. /\ c[p] = Rest /\ latch # p /\ calls' \in 0 .. MaxCalls /\ faults' \in 0 .. MaxFaults
    BY <1>1, AtRest
<1>3. l = [Rest EXCEPT !.pc = "propose"] /\ l \in Locals /\ l.pc = "propose" /\ l.new = <<>> /\ l.cert = 0
      /\ l.to = "none" /\ l.rowSet = "none" /\ l.stage = "plain"
    BY <1>2, RestLocal DEF Locals, Pcs
<1> HIDE DEF l
<1>4. c'[p] = l /\ Only(p) /\ c' \in [Callers -> Locals]
    BY <1>1, <1>3, Moved
<1>5. Types'
    BY <1>1, <1>2, <1>4 DEF Types, tables, Rows
<1>6. log = <<>> /\ log' = log /\ row' = row /\ receipt' = receipt /\ \A q \in Callers : c[q].pc = "rest"
    BY <1>1 DEF IInv, Proposed, At, tables
<1>7. Grows /\ CardKept
    BY <1>1, <1>6, SameLog DEF CardKept
<1>8. Decided(p)' /\ Starting(p)' /\ Writing(p)' /\ ~Writes(p)'
    BY <1>3, <1>4 DEF Decided, Starting, Writing, Writes, CardSays
<1>9. \A q \in Callers : Decided(q)' /\ Starting(q)' /\ Writing(q)'
    BY <1>1, <1>4, <1>5, <1>6, <1>7, <1>8, OthersStep DEF IInv, Callings, Only
<1>10. Alone'
    <2>1. \A q \in Callers : ~Writes(q) /\ c[q] = [Rest EXCEPT !.pc = c[q].pc]
        BY <1>6 DEF IInv, Callings, Writing, Decided
    <2>2. \A q \in Callers : c[q].rowSet = "none" /\ c[q].stage = "plain"
        BY <2>1 DEF Rest
    <2>3. \A q \in Callers : ~Writes(q)' /\ c'[q].rowSet = "none" /\ c'[q].stage = "plain"
        BY <1>3, <1>4, <1>8, <2>1, <2>2, ZenonT(30) DEF Only, Writes
    <2>4. latch = Nobody
        BY <1>1, <2>2 DEF IInv, Alone, Types
    <2> QED BY <1>1, <2>3, <2>4 DEF Alone
<1>11. Proposed'
    BY <1>1, <1>3, <1>4, <1>6 DEF IInv, Proposed, Only, At
<1>12. Performed'
    BY <1>1 DEF IInv, Performed
<1>13. Durable'
    BY <1>1, <1>6 DEF IInv, Durable, CardSays, Proposed
<1> QED BY <1>5, <1>9, <1>10, <1>11, <1>12, <1>13 DEF IInv, Callings

\* The proposal's transaction: the log it finds is empty, and nobody else is at work.
LEMMA BindStep ==
    ASSUME IInv, NEW p \in Callers, Bind(p)
    PROVE  IInv'
<1> DEFINE o == [i \in 1 .. 4 |-> [name |-> Opening[i], req |-> i > 2, no |-> i]]
<1>1. /\ Types /\ c[p].pc = "propose" /\ log' = o /\ row' = "pending" /\ col' = "awaiting_approval"
      /\ c' = [c EXCEPT ![p] = Rest] /\ UNCHANGED <<receipt, card, overdue, stopped, latch, effects, budget>>
    BY DEF Bind, At, IInv
<1>2. o \in Seq(Entry) /\ Chain(o) /\ o # <<>>
    BY OpeningChain
<1> HIDE DEF o
<1>3. c'[p] = Rest /\ Only(p) /\ c' \in [Callers -> Locals]
    BY <1>1, RestLocal, Moved
<1>4. Types'
    BY <1>1, <1>2, <1>3 DEF Types, States, Rows, budget
<1>5. log = <<>> /\ receipt = 0 /\ card \in {"pending", "expired"} /\ \A q \in Callers : q # p => c[q].pc = "rest"
    <2>1. log = <<>>
        BY <1>1 DEF IInv, Proposed, At
    <2>2. receipt = 0 /\ card \in {"pending", "expired"}
        BY <1>1, <2>1 DEF IInv, Proposed, At
    <2>3. \A q \in Callers : c[q].pc \in {"rest", "propose"} /\ (c[q].pc = "propose" => q = p)
        BY <1>1, <2>1 DEF IInv, Proposed, At
    <2> QED BY <2>1, <2>2, <2>3
<1>6. \A q \in Callers : c'[q] = Rest
    <2>1. [Rest EXCEPT !.pc = "rest"] = Rest
        BY DEF Rest
    <2>2. \A q \in Callers : q # p => c[q] = Rest
        BY <1>5, <2>1 DEF IInv, Callings, Decided
    <2> QED BY <1>3, <2>2 DEF Only
<1>7. \A q \in Callers : Decided(q)' /\ Starting(q)' /\ Writing(q)'
    <2>1. Rest = [Rest EXCEPT !.pc = Rest.pc]
        BY DEF Rest
    <2> QED BY <1>6, <2>1, RestLocal DEF Decided, Starting, Writing, Writes, CardSays
<1>8. Alone'
    <2>1. latch' = Nobody
        BY <1>1, <1>5 DEF IInv, Alone, Types
    <2> QED BY <1>6, <2>1, RestLocal DEF Alone, Writes
<1>9. Proposed'
    BY <1>1, <1>2, <1>5, <1>6, RestLocal DEF Proposed, At
<1>10. Performed'
    BY <1>1, <1>6, RestLocal DEF IInv, Performed
<1>11. Durable'
    BY <1>1, <1>2, <1>5 DEF Durable, CardSays
<1> QED BY <1>4, <1>7, <1>8, <1>9, <1>10, <1>11 DEF IInv, Callings

\* The next event, numbered after the log that was judged.
LEMMA FlushStep ==
    ASSUME IInv, NEW p \in Callers, Flush(p)
    PROVE  IInv'
<1> DEFINE e == c[p].event
           num == Numbered(p, e)
           art == [name |-> "ARTIFACT_CREATED", req |-> FALSE, no |-> c[p].read + 2]
           two == c[p].stage # "plain" /\ e.name = "ACTION_STARTED"
           first == Append(c[p].new, num)
           new == IF two THEN Append(first, art) ELSE first
           state == Derived(Names(log \o new))
           set == IF c[p].was \in {"receipted", state} THEN "none" ELSE state
           pc == IF c[p].stage # "plain" /\ e.name = "ACTION_COMPLETED" THEN "receipt" ELSE "save"
           l == [c[p] EXCEPT !.new = new, !.set = set, !.pc = pc]
<1>1. /\ Types /\ c[p].pc = "flush" /\ UNCHANGED <<tables, card, overdue, stopped, effects, budget>>
      /\ IntentFree(p) /\ Decided(p) /\ Starting(p) /\ Writing(p)
    BY DEF Flush, At, IInv, Callings
<1>2. CASE Taken(p)
    BY <1>1, <1>2, RaiseStep DEF Flush, Types, budget
<1>3. CASE ~Taken(p)
    <2>1. Len(log) = c[p].read /\ c[p].new = <<>> /\ c[p].cert = 0 /\ log \in Seq(Entry) /\ Len(log) \in Nat
        BY <1>1, <1>3, NothingNew, FieldsOf DEF Taken
    <2>2. c' = [c EXCEPT ![p] = l] /\ latch' = latch
        BY <1>1, <1>3, Zenon DEF Flush, After
    <2>3. Legal(e.name, Names(log), FALSE)
        <3>1. SubSeq(log, 1, c[p].read) = log
            BY <2>1, SubSeqFull
        <3>2. Legal(e.name, Names(SubSeq(log, 1, c[p].read)), FALSE)
            BY <1>1 DEF Writing
        <3> QED BY <3>1, <3>2, Zenon
    <2>4. num \in Entry /\ num.no = Len(log) + 1 /\ num.name = e.name /\ num.req = e.req
        <3>1. e.name \in LawNames /\ e.req \in BOOLEAN
            BY <1>1, <2>3, FieldsOf DEF Legal, LawNames
        <3>2. Len(c[p].new) = 0
            BY <2>1
        <3>3. num = [name |-> e.name, req |-> e.req, no |-> Len(log) + 1]
            BY <2>1, <3>2 DEF Numbered
        <3> QED BY <2>1, <3>1, <3>3 DEF Entry
    <2> HIDE DEF num
    <2>5. first = <<num>> /\ first \in Seq(Entry) /\ log \o first = Append(log, num)
        BY <2>1, <2>4, AppendIsConcat
    <2>6. LET s == Append(log, num)
          IN  s \in Seq(Entry) /\ Chain(s) /\ Names(s) = Names(log) \union {e.name} /\ Len(s) = Len(log) + 1
        <3>1. Chain(log)
            BY DEF IInv, Durable
        <3>2. Legal(num.name, Names(log), FALSE)
            BY <2>3, <2>4, Zenon
        <3> QED BY <2>1, <2>4, <3>1, <3>2, ChainAppend
    <2>7. /\ new \in Seq(Entry) /\ new # <<>> /\ log \o new \in Seq(Entry) /\ Chain(log \o new)
          /\ e.name \in Names(log \o new)
        <3>1. CASE ~two
            <4>1. new = first /\ first # <<>>
                BY <2>5, <3>1
            <4> HIDE DEF new, first
            <4>2. new \in Seq(Entry) /\ new # <<>> /\ log \o new = Append(log, num)
                BY <2>5, <4>1
            <4> QED BY <2>6, <4>2, Zenon
        <3>2. CASE two
            <4> DEFINE s == Append(log, num)
            <4>1. s \in Seq(Entry) /\ Chain(s) /\ Names(s) = Names(log) \union {"ACTION_STARTED"}
                  /\ Len(s) = Len(log) + 1
                BY <2>6, <3>2
            <4>2. log \o first = s
                BY <2>5
            <4>3. art \in Entry /\ art.no = Len(log) + 2 /\ art.name = "ARTIFACT_CREATED"
                BY <2>1 DEF Entry, LawNames, Requires
            <4> HIDE DEF s, art, first
            <4>4. Legal("ARTIFACT_CREATED", Names(s), FALSE)
                BY <4>1 DEF Legal, Once, Requires
            <4>5. Legal(art.name, Names(s), FALSE)
                BY <4>3, <4>4, Zenon
            <4>6. art.no = Len(s) + 1
                BY <2>1, <4>1, <4>3
            <4>7. Append(s, art) \in Seq(Entry) /\ Chain(Append(s, art)) /\ Names(Append(s, art)) = Names(s) \union {art.name}
                BY <4>1, <4>3, <4>5, <4>6, ChainAppend
            <4>8. log \o Append(first, art) = Append(s, art)
                <5>1. Append(first, art) = first \o <<art>> /\ Append(s, art) = s \o <<art>> /\ <<art>> \in Seq(Entry)
                    BY <2>5, <4>1, <4>3, AppendIsConcat
                <5>2. log \o (first \o <<art>>) = (log \o first) \o <<art>>
                    BY <2>1, <2>5, <5>1, ConcatAssociative
                <5> QED BY <4>2, <5>1, <5>2
            <4>9. Append(first, art) \in Seq(Entry) /\ Append(first, art) # <<>>
                BY <2>5, <4>3, AppendProperties
            <4>10. new = Append(first, art)
                BY <3>2
            <4> QED BY <3>2, <4>1, <4>7, <4>8, <4>9, <4>10
        <3> QED BY <3>1, <3>2
    <2>8. two /\ e.req => StartedFor(new)
        <3>1. SUFFICES ASSUME two, e.req PROVE StartedFor(new)
            OBVIOUS
        <3>2. new = Append(<<num>>, art)
            BY <2>5, <3>1
        <3>3. new[1] = num /\ 1 \in DOMAIN new
            BY <3>2
        <3> HIDE DEF new, two
        <3> QED BY <2>4, <3>1, <3>3 DEF StartedFor, two
    <2> HIDE DEF new
    <2>9. state \in States
        BY DEF Derived, States
    <2> HIDE DEF state
    <2>10. set \in States
        BY <2>9 DEF States
    <2> HIDE DEF set
    <2>11. pc \in {"receipt", "save"} /\ (pc = "receipt" => e.name = "ACTION_COMPLETED")
        OBVIOUS
    <2> HIDE DEF pc
    <2>12. /\ l \in Locals /\ l.pc = pc /\ l.new = new /\ l.cert = 0 /\ l.stage = c[p].stage /\ l.event = e
           /\ l.to = c[p].to /\ l.rowSet = c[p].rowSet /\ l.read = Len(log)
        BY <1>1, <2>1, <2>7, <2>10, <2>11, FieldsOf, ZenonT(30) DEF Locals, Pcs
    <2> HIDE DEF l
    <2>13. c'[p] = l /\ Only(p) /\ c' \in [Callers -> Locals]
        BY <1>1, <2>2, <2>12, Moved
    <2>14. Types'
        BY <1>1, <2>2, <2>13 DEF Types, tables, budget
    <2>15. Decided(p)'
        BY <1>1, <2>11, <2>12, <2>13 DEF Decided, CardSays
    <2>16. Starting(p)'
        <3>1. CASE c[p].stage # "started"
            BY <2>11, <2>12, <2>13, <3>1 DEF Starting
        <3>2. CASE c[p].stage = "started"
            <4>1. e = Event("ACTION_STARTED", TRUE) /\ "APPROVAL_GRANTED" \in Names(log) /\ c[p].to = "none"
                BY <1>1, <3>2 DEF Starting
            <4>2. e.name = "ACTION_STARTED" /\ e.req
                BY <4>1 DEF Event
            <4>3. pc = "save" /\ StartedFor(new)
                BY <2>8, <2>11, <3>2, <4>2
            <4> QED BY <1>1, <2>12, <2>13, <3>2, <4>1, <4>3 DEF Starting, tables
        <3> QED BY <3>1, <3>2
    <2>17. Writing(p)'
        <3>1. log' = log /\ log \o new \in Seq(Entry) /\ Chain(log \o new) /\ new \in Seq(Entry) /\ new # <<>>
            BY <1>1, <2>7 DEF tables
        <3>2. pc = "receipt" => Certified(log \o new, Len(log) + Len(new))
            <4>1. SUFFICES ASSUME pc = "receipt" PROVE Certified(log \o new, Len(log) + Len(new))
                OBVIOUS
            <4> DEFINE s == log \o new
            <4>2. "ACTION_COMPLETED" \in Names(s)
                BY <2>7, <2>11, <4>1
            <4>3. Len(s) = Len(log) + Len(new) /\ Len(new) \in Nat /\ Len(new) # 0
                BY <2>1, <3>1, ConcatProperties, EmptySeq
            <4>4. s \in Seq(Entry) /\ Chain(s)
                BY <3>1
            <4> HIDE DEF s
            <4>5. s # <<>>
                BY <2>1, <4>3
            <4>6. "INTENT_RECEIVED" \in Names(s)
                BY <4>4, <4>5, FirstIsIntent
            <4>7. SubSeq(s, 1, Len(s)) = s /\ Len(s) \in 1 .. Len(s)
                BY <2>1, <4>3, <4>4, SubSeqFull
            <4>8. Certified(s, Len(s))
                BY <4>2, <4>6, <4>7 DEF Certified, Receiptable, Ends
            <4> QED BY <4>3, <4>8 DEF s
        <3>3. c'[p].new = new /\ c'[p].read = Len(log') /\ c'[p].pc = pc /\ c'[p].cert = 0 /\ Len(log') \in Nat
            BY <2>1, <2>12, <2>13, <3>1
        <3>4. Chain(log' \o c'[p].new)
            BY <3>1, <3>3
        <3>5. c'[p].pc = "receipt" => Certified(log' \o c'[p].new, c'[p].read + Len(c'[p].new))
            BY <3>1, <3>2, <3>3, Zenon
        <3>6. /\ c'[p].pc \in {"receipt", "save"} /\ c'[p].read <= Len(log')
              /\ c'[p].new # <<>> => c'[p].read = Len(log')
            BY <2>11, <3>3
        <3>7. Writes(p)' => c'[p].pc \in {"receipt", "save"}
            BY <3>6
        <3>8. c'[p].cert # 0 => Certified(log' \o c'[p].new, c'[p].cert)
            BY <3>3
        <3>9. c'[p].pc = "flush" =>
                c'[p].read <= Len(log') /\ Legal(c'[p].event.name, Names(SubSeq(log', 1, c'[p].read)), FALSE)
            BY <3>6
        <3> QED BY <3>4, <3>5, <3>6, <3>7, <3>8, <3>9, Zenon DEF Writing
    <2>18. log # <<>> /\ (latch = p => c[p].stage = "started")
        BY <1>1, UnderWay, LoopAssumption DEF At, IInv, Alone
    <2>19. latch' = p => c'[p].pc = "save"
        <3>1. SUFFICES ASSUME latch' = p PROVE c'[p].pc = "save"
            OBVIOUS
        <3>2. e.name = "ACTION_STARTED"
            BY <1>1, <2>2, <2>18, <3>1 DEF Starting, Event
        <3> QED BY <2>11, <2>12, <2>13, <3>2
    <2> QED BY <1>1, <2>2, <2>11, <2>12, <2>13, <2>14, <2>15, <2>16, <2>17, <2>18, <2>19, QuietStep
<1> QED BY <1>2, <1>3

\* A transaction is written: the log grows by what its writer had judged.
LEMMA CommittedStep ==
    ASSUME IInv, NEW p \in Callers, c[p].pc = "save", Committed(p), NEW l \in Locals, c' = [c EXCEPT ![p] = l],
           \/ l = Rest
           \/ l.pc = "spend" /\ l.stage = "started" /\ l.to = "none" /\ c[p].stage = "started"
           \/ l.pc = "rowRead" /\ l.stage = "failing" /\ l.to = "consumed" /\ c[p].stage = "spent",
           l.new = <<>>, l.cert = 0, l.rowSet = "none",
           latch' = Freed(p), UNCHANGED <<card, overdue, stopped, effects, calls>>, faults' \in 0 .. MaxFaults
    PROVE  IInv'
<1> DEFINE n == c[p].new
<1>1. Types /\ Decided(p) /\ Starting(p) /\ Writing(p)
    BY DEF IInv, Callings
<1>2. n \in Seq(Entry) /\ log \in Seq(Entry) /\ log' = log \o n
    BY <1>1, FieldsOf DEF Committed
<1>3. Grows /\ CardKept
    BY <1>2 DEF Grows, CardKept
<1>4. c'[p] = l /\ Only(p) /\ c' \in [Callers -> Locals]
    BY <1>1, Moved
<1>5. latch' \in {latch, Nobody} /\ latch' # p
    BY LoopAssumption DEF Freed
<1>6. Types'
    <2>1. log' \in Seq(Entry)
        BY <1>1, <1>3, GrownLog
    <2>2. col' \in States /\ receipt' \in Nat /\ row' \in Rows
        BY <1>1, FieldsOf DEF Committed, Types, Moves, Rows
    <2> QED BY <1>1, <1>4, <1>5, <2>1, <2>2 DEF Types
<1>7. log # <<>> /\ log' # <<>>
    <2>1. log # <<>>
        BY UnderWay DEF At
    <2>2. Len(log) # 0 /\ Len(log') # 0
        BY <1>1, <1>2, <1>3, <2>1, GrownLog, EmptySeq
    <2> QED BY <2>1, <2>2
<1>8. Decided(p)'
    <2>1. CASE l = Rest
        <3>1. Rest = [Rest EXCEPT !.pc = Rest.pc]
            BY DEF Rest
        <3> QED BY <1>4, <2>1, <3>1, RestLocal DEF Decided, CardSays
    <2>2. CASE l.pc = "spend" /\ l.stage = "started" /\ l.to = "none"
        BY <1>4, <2>2 DEF Decided, CardSays
    <2>3. CASE l.pc = "rowRead" /\ l.stage = "failing" /\ l.to = "consumed" /\ c[p].stage = "spent"
        BY <1>1, <1>4, <2>3 DEF Decided, CardSays
    <2> QED BY <2>1, <2>2, <2>3
<1>9. Starting(p)'
    <2>1. CASE l.stage # "started"
        BY <1>4, <2>1, RestLocal DEF Starting
    <2>2. CASE l.stage = "started"
        <3>1. l.pc = "spend" /\ l.to = "none" /\ c[p].stage = "started"
            BY <2>2, RestLocal
        <3>2. "APPROVAL_GRANTED" \in Names(log) /\ StartedFor(n)
            BY <1>1, <3>1 DEF Starting
        <3>3. "APPROVAL_GRANTED" \in Names(log') /\ StartedFor(log')
            BY <1>1, <1>2, <1>3, <3>2, GrownLog, ConcatNames
        <3> QED BY <1>4, <2>2, <3>1, <3>3 DEF Starting
    <2> QED BY <2>1, <2>2
<1>10. Writing(p)' /\ ~Writes(p)'
    BY <1>4, RestLocal DEF Writing, Writes
<1>11. \A q \in Callers : Decided(q)' /\ Starting(q)' /\ Writing(q)'
    <2>1. SUFFICES ASSUME NEW q \in Callers, q # p PROVE Decided(q)' /\ Starting(q)' /\ Writing(q)'
        BY <1>8, <1>9, <1>10
    <2>2. Writes(q) => log' = log
        <3>1. SUFFICES ASSUME Writes(q) PROVE log' = log
            OBVIOUS
        <3>2. n = <<>>
            BY <2>1, <3>1 DEF IInv, Alone, Writes
        <3> QED BY <1>2, <3>2, ConcatEmptySeq
    <2>3. Decided(q) /\ Starting(q) /\ Writing(q) /\ c'[q] = c[q]
        BY <1>4, <2>1 DEF IInv, Callings, Only
    <2> QED BY <1>1, <1>3, <1>6, <2>2, <2>3, OthersStep
<1>12. Alone'
    <2>1. \A q \in Callers : q # p => (Writes(q)' <=> Writes(q)) /\ c'[q] = c[q]
        BY <1>4 DEF Only, Writes
    <2>2. c'[p].stage # "spent" /\ c'[p].rowSet = "none"
        BY <1>4, RestLocal
    <2>3. latch' # Nobody => c'[latch'].stage = "started" /\ c'[latch'].pc \in {"append", "flush", "save"}
        <3>1. SUFFICES ASSUME latch' # Nobody
                       PROVE c'[latch'].stage = "started" /\ c'[latch'].pc \in {"append", "flush", "save"}
            OBVIOUS
        <3>2. latch' = latch /\ latch \in Callers /\ latch # p
            BY <1>1, <1>5, <3>1 DEF Types
        <3>3. c'[latch] = c[latch]
            BY <2>1, <3>2
        <3> QED BY <3>1, <3>2, <3>3 DEF IInv, Alone
    <2> QED BY <1>10, <2>1, <2>2, <2>3 DEF IInv, Alone
<1>13. Proposed'
    <2>1. row' # "none"
        BY <1>7 DEF IInv, Proposed, Committed
    <2>2. \A q \in Callers : ~At(q, "propose")'
        BY <1>4, <1>7, RestLocal DEF IInv, Proposed, Only, At
    <2>3. card' # "none"
        BY <1>7 DEF IInv, Proposed
    <2> QED BY <1>7, <2>1, <2>2, <2>3 DEF Proposed
<1>14. Performed'
    BY <1>4, RestLocal DEF IInv, Performed, Only
<1>15. Durable'
    <2>1. card' = "consumed" => StartedFor(log') /\ "APPROVAL_GRANTED" \in Names(log')
        BY <1>1, <1>3, GrownLog DEF IInv, Durable
    <2>2. CardSays(row)'
        BY <1>1 DEF IInv, Durable, Decided, Committed, CardSays
    <2>3. Chain(log')
        <3>1. CASE n = <<>>
            BY <1>2, <3>1, ConcatEmptySeq DEF IInv, Durable
        <3>2. CASE n # <<>>
            BY <1>1, <1>2, <3>2 DEF Writing
        <3> QED BY <3>1, <3>2
    <2>4. receipt' # 0 => Certified(log', receipt')
        <3>1. CASE c[p].cert = 0
            BY <1>1, <1>3, <3>1, GrownLog DEF IInv, Durable, Committed
        <3>2. CASE c[p].cert # 0
            BY <1>1, <1>2, <3>2 DEF Writing, Committed
        <3> QED BY <3>1, <3>2
    <2> QED BY <2>1, <2>2, <2>3, <2>4 DEF Durable
<1> QED BY <1>6, <1>11, <1>12, <1>13, <1>14, <1>15 DEF IInv, Callings

LEMMA SaveStep ==
    ASSUME IInv, NEW p \in Callers, Save(p)
    PROVE  IInv'
<1> DEFINE m == [Rest EXCEPT !.pc = "spend", !.stage = "started"]
<1>1. m \in Locals /\ m.pc = "spend" /\ m.stage = "started" /\ m.to = "none" /\ m.new = <<>> /\ m.cert = 0
      /\ m.rowSet = "none"
    BY RestLocal DEF Locals, Pcs, Rest
<1>2. /\ c[p].pc = "save" /\ Committed(p) /\ latch' = Freed(p)
      /\ UNCHANGED <<card, overdue, stopped, effects, calls>> /\ faults' \in 0 .. MaxFaults
    BY DEF Save, At, budget, IInv, Types
<1>3. (c[p].stage = "started" /\ c' = [c EXCEPT ![p] = m]) \/ c' = [c EXCEPT ![p] = Rest]
    BY DEF Save
<1> HIDE DEF m
<1>4. CASE c[p].stage = "started" /\ c' = [c EXCEPT ![p] = m]
    BY <1>1, <1>2, <1>4, CommittedStep
<1>5. CASE c' = [c EXCEPT ![p] = Rest]
    BY <1>2, <1>5, RestLocal, CommittedStep
<1> QED BY <1>3, <1>4, <1>5

LEMMA AckLostStep ==
    ASSUME IInv, NEW p \in Callers, AckLost(p)
    PROVE  IInv'
<1> DEFINE f == [Rest EXCEPT !.stage = "failing", !.pc = "rowRead", !.to = "consumed"]
<1>1. f \in Locals /\ f.pc = "rowRead" /\ f.stage = "failing" /\ f.to = "consumed" /\ f.new = <<>> /\ f.cert = 0
      /\ f.rowSet = "none"
    BY RestLocal DEF Locals, Rest, Pcs, Moves
<1>2. /\ c[p].pc = "save" /\ Committed(p) /\ latch' = Freed(p)
      /\ UNCHANGED <<card, overdue, stopped, effects, calls>> /\ faults' \in 0 .. MaxFaults
    BY LoopAssumption DEF AckLost, Raise, Fault, At, IInv, Types
<1>3. (c[p].stage = "spent" /\ c' = [c EXCEPT ![p] = f]) \/ c' = [c EXCEPT ![p] = Rest]
    BY DEF AckLost, Raise, Failing
<1> HIDE DEF f
<1>4. CASE c[p].stage = "spent" /\ c' = [c EXCEPT ![p] = f]
    BY <1>1, <1>2, <1>4, CommittedStep
<1>5. CASE c' = [c EXCEPT ![p] = Rest]
    BY <1>2, <1>5, RestLocal, CommittedStep
<1> QED BY <1>3, <1>4, <1>5

\* What no caller does: the stop, the sweep and the clock.
LEMMA UnmovedStep ==
    ASSUME IInv, UNCHANGED <<log, col, receipt, latch, c, effects, faults>>, calls' \in 0 .. MaxCalls,
           overdue' \in BOOLEAN, stopped' \in BOOLEAN,
           \/ UNCHANGED <<card, row>>
           \/ card = "pending" /\ card' = "expired" /\ row' = IF row = "pending" THEN "expired" ELSE row
    PROVE  IInv'
<1>1. Types'
    BY DEF IInv, Types, Rows
<1>2. Grows /\ CardKept
    BY SameLog DEF IInv, CardKept
<1>3. Callings'
    <2>1. ASSUME NEW q \in Callers PROVE Decided(q)' /\ Starting(q)' /\ Writing(q)'
        BY <1>1, <1>2, OthersStep DEF IInv, Callings
    <2> QED BY <2>1 DEF Callings
<1>4. Alone'
    BY DEF IInv, Alone, Writes
<1>5. Proposed'
    BY DEF IInv, Proposed, At
<1>6. Performed'
    BY DEF IInv, Performed
<1>7. Durable'
    BY DEF IInv, Durable, CardSays
<1> QED BY <1>1, <1>3, <1>4, <1>5, <1>6, <1>7 DEF IInv

-----------------------------------------------------------------------------
(* The invariant *)

LEMMA InitHolds == Init => IInv
<1>1. SUFFICES ASSUME Init PROVE IInv
    OBVIOUS
<1>2. \A p \in Callers : c[p] = Rest
    BY <1>1 DEF Init
<1>3. log = <<>> /\ <<>> \in Seq(Entry) /\ Len(<<>>) = 0
    BY <1>1 DEF Init
<1>4. Types
    <2>1. c \in [Callers -> Locals]
        <3>1. Rest \in Locals
            BY RestLocal
        <3> QED BY <1>1, <3>1 DEF Init
    <2>2. 0 \in 0 .. MaxCalls /\ 0 \in 0 .. MaxFaults
        BY LoopAssumption
    <2> QED BY <1>1, <1>3, <2>1, <2>2 DEF Init, Types, States, Rows
<1>5. Callings
    <2>1. Rest = [Rest EXCEPT !.pc = Rest.pc]
        BY DEF Rest
    <2> QED BY <1>2, <2>1, RestLocal DEF Callings, Decided, Starting, Writing, Writes, CardSays
<1>6. Alone
    BY <1>1, <1>2, RestLocal DEF Alone, Writes, Init
<1>7. Proposed
    BY <1>1, <1>2, RestLocal DEF Proposed, At, Init
<1>8. Performed
    BY <1>1, <1>2, RestLocal DEF Performed, Init
<1>9. Durable
    BY <1>1, <1>3 DEF Durable, Chain, CardSays, Init
<1> QED BY <1>4, <1>5, <1>6, <1>7, <1>8, <1>9 DEF IInv

LEMMA NextKeeps == IInv /\ [Next]_vars => IInv'
<1>1. SUFFICES ASSUME IInv, [Next]_vars PROVE IInv'
    OBVIOUS
<1>2. ASSUME NEW p \in Callers,
             \/ Propose(p) \/ Bind(p) \/ Approve(p) \/ Grant(p) \/ RefuseCard(p)
             \/ Commit(p) \/ Latch(p) \/ Spend(p) \/ SpendUnknown(p) \/ Effect(p)
             \/ AppendRead(p) \/ Flush(p) \/ IssueReceipt(p) \/ RowRead(p) \/ RowWrite(p)
             \/ Save(p) \/ AckLost(p) \/ StatementFails(p) \/ Crash(p)
             \/ PostReceipt(p) \/ \E name \in Posts : Post(p, name)
      PROVE  IInv'
    BY <1>1, <1>2, ProposeStep, BindStep, ApproveStep, GrantStep, RefuseCardStep, CommitStep, LatchStep,
       SpendStep, SpendUnknownStep, EffectStep, AppendReadStep, FlushStep, IssueReceiptStep, RowReadStep,
       RowWriteStep, SaveStep, AckLostStep, FailStep, CrashStep, PostReceiptStep, PostStep
<1>3. CASE TurnStop
    BY <1>1, <1>3, UnmovedStep, LoopAssumption DEF TurnStop, tables, IInv, Types
<1>4. CASE Sweep
    BY <1>1, <1>4, UnmovedStep DEF Sweep, budget, IInv, Types
<1>5. CASE Lapse
    BY <1>1, <1>5, UnmovedStep DEF Lapse, tables, budget, IInv, Types
<1>6. CASE UNCHANGED vars
    BY <1>1, <1>6, UnmovedStep DEF vars, tables, budget, IInv, Types
<1> QED BY <1>1, <1>2, <1>3, <1>4, <1>5, <1>6 DEF Next

\* The invariant holds of every behaviour, for any callers, event names and faults.
THEOREM Invariance == Spec => []IInv
<1>1. Init => IInv
    BY InitHolds
<1>2. IInv /\ [Next]_vars => IInv'
    BY NextKeeps
<1> QED BY <1>1, <1>2, PTL DEF Spec

LEMMA AtMostOne ==
    ASSUME NEW S, \A x, y \in S : x = y
    PROVE  Cardinality(S) <= 1
<1>1. CASE S = {}
    BY <1>1, FS_EmptySet
<1>2. CASE S # {}
    <2>1. PICK x \in S : TRUE
        BY <1>2
    <2>2. S = {x}
        BY <2>1
    <2> QED BY <2>2, FS_Singleton
<1> QED BY <1>1, <1>2

\* One transaction at a time has written the intent and one its row, and the advisory
\* lock of the second half of a commit is in the hands of a commit that starts.
THEOREM TypeCorrect == Spec => []TypeOK
<1>1. IInv => TypeOK
    <2>1. SUFFICES ASSUME IInv PROVE TypeOK
        OBVIOUS
    <2>2. Types /\ log \in Seq(Entry)
        BY <2>1 DEF IInv, Types
    <2>3. \A i \in DOMAIN log : log[i].name \in {"INTENT_RECEIVED"} \union DOMAIN Requires
        <3>1. \A x \in Entry : x.name \in {"INTENT_RECEIVED"} \union DOMAIN Requires
            BY DEF Entry, LawNames
        <3> QED BY <2>2, <3>1, NamesOf
    <2>4. receipt \in 0 .. Len(log)
        BY <2>1, <2>2 DEF IInv, Types, Durable, Certified
    <2>5. \A p \in Callers : c[p].pc \in Pcs /\ c[p].stage \in {"plain", "started", "spent", "failing"}
        BY <2>2, FieldsOf
    <2>6. Cardinality({p \in Callers : Writes(p)}) <= 1
        <3> DEFINE S == {p \in Callers : Writes(p)}
        <3>1. \A x, y \in S : x = y
            BY <2>1 DEF IInv, Alone
        <3> HIDE DEF S
        <3>2. Cardinality(S) <= 1
            BY <3>1, AtMostOne
        <3> QED BY <3>2 DEF S
    <2>7. Cardinality({p \in Callers : c[p].rowSet # "none"}) <= 1
        <3> DEFINE S == {p \in Callers : c[p].rowSet # "none"}
        <3>1. \A x, y \in S : x = y
            BY <2>1 DEF IInv, Alone
        <3> HIDE DEF S
        <3>2. Cardinality(S) <= 1
            BY <3>1, AtMostOne
        <3> QED BY <3>2 DEF S
    <2>8. latch # Nobody => c[latch].stage = "started" /\ c[latch].pc \in {"append", "flush", "save"}
        BY <2>1 DEF IInv, Alone
    <2>9. col \in States /\ row \in Rows /\ card \in Rows /\ {overdue, stopped} \subseteq BOOLEAN
          /\ calls \in 0 .. MaxCalls /\ faults \in 0 .. MaxFaults
        BY <2>2 DEF Types
    <2> QED BY <2>3, <2>4, <2>5, <2>6, <2>7, <2>8, <2>9 DEF TypeOK
<1> QED BY <1>1, Invariance, PTL

\* What is done last was written first: one effect at most, for a card that was spent
\* under a ruling and a start that are durable, and no row ahead of its card; whatever
\* overlaps, fails or crashes.
THEOREM WrittenBeforeDone == Spec => []OrderOfDurability
<1>1. IInv => OrderOfDurability
    BY DEF IInv, Performed, Durable, CardSays, OrderOfDurability
<1> QED BY <1>1, Invariance, PTL

\* Two appends that read the same log do not both stay: the log is gapless, every event
\* was legal where it stands, and the receipt certifies a prefix that had ended.
THEOREM LogStaysLegal == Spec => []ChainHolds
<1>1. IInv => ChainHolds
    <2>1. SUFFICES ASSUME IInv PROVE ChainHolds
        OBVIOUS
    <2>2. DOMAIN log = 1 .. Len(log)
        BY <2>1, NamesOf DEF IInv, Types
    <2> QED BY <2>1, <2>2 DEF IInv, Durable, Chain, Certified, ChainHolds
<1> QED BY <1>1, Invariance, PTL
=============================================================================
