----------------------------- MODULE KnowledgeLoop -----------------------------
(***************************************************************************)
(* One capture of the knowledge loop, from its proposal to its receipt, on *)
(* the live state ledger: the intent's log of numbered events, its state   *)
(* column, its receipt and the row that observes the capture's approval.   *)
(* The card itself is the approval queue's, on connections of its own      *)
(* (ApprovalGate); here it moves at once.                                  *)
(*                                                                         *)
(* A call reads what is committed, keeps what it writes to itself until it *)
(* commits, and holds the rows it wrote: the next writer of the intent or  *)
(* of the approval's row waits.  Of the checks before the commit's first   *)
(* lock, those on the row, the card and the log stay true or are made      *)
(* again, so they are one step.                                            *)
(***************************************************************************)
EXTENDS Integers, Sequences, FiniteSets

CONSTANTS
    Callers,    \* bound: requests at a time
    Nobody,
    Posts,      \* names the event route is asked to append
    MaxCalls,   \* bound: requests
    MaxFaults   \* bound: database errors, lost acknowledgements, crashes

ASSUME LoopAssumption == Nobody \notin Callers /\ MaxCalls \in Nat /\ MaxFaults \in Nat

VARIABLES
    log,        \* events: committed, in the order of their numbers
    col,        \* intents.state
    receipt,    \* universal_receipts: how many events it certifies, 0 when there is none
    row,        \* approvals.state, "none" before the proposal
    card,       \* devon_approvals.state
    overdue,    \* the card's window is closed
    stopped,    \* the emergency stop
    latch,      \* who holds the loop's advisory lock
    c,          \* the callers
    effects,    \* history: times the connectors were called
    calls, faults

tables == <<log, col, receipt, row>>
budget == <<calls, faults>>
vars == <<tables, card, overdue, stopped, latch, c, effects, budget>>

Event(n, r) == [name |-> n, req |-> r]
NoEvent == Event("none", FALSE)
\* pc: rest; latch, append, flush, rowRead, rowWrite, grant, receipt, save, spend,
\* effect.  stage is plain, started (the commit's second half), spent or failing;
\* read and was are the log's length and the state column as they were read; new,
\* set, cert and rowSet are what this transaction wrote.
Rest == [pc |-> "rest", stage |-> "plain", event |-> NoEvent, to |-> "none", read |-> 0, was |-> "none",
         new |-> <<>>, set |-> "none", cert |-> 0, rowSet |-> "none"]

Init ==
    /\ log = <<>> /\ col = "none" /\ receipt = 0 /\ row = "none"
    /\ card = "none" /\ overdue = FALSE /\ stopped = FALSE
    /\ latch = Nobody /\ c = [p \in Callers |-> Rest]
    /\ effects = 0 /\ calls = 0 /\ faults = 0

At(p, pc) == c[p].pc = pc
Call(p) == At(p, "rest") /\ calls < MaxCalls /\ calls' = calls + 1 /\ UNCHANGED faults
Fault == faults < MaxFaults /\ faults' = faults + 1 /\ UNCHANGED calls
Names(s) == {s[i].name : i \in DOMAIN s}
StartedFor(s) == \E i \in DOMAIN s : s[i].name = "ACTION_STARTED" /\ s[i].req
Writes(p) == c[p].new # <<>> \/ c[p].cert # 0
IntentFree(p) == \A q \in Callers \ {p} : ~Writes(q)
RowFree(p) == \A q \in Callers \ {p} : c[q].rowSet = "none"

-----------------------------------------------------------------------------
(* services/devon/ecosystem.py: the laws of the log *)

Requires == [CONTEXT_LOADED |-> {"INTENT_RECEIVED"}, SOUL_READ |-> {"INTENT_RECEIVED"},
             SUBCONSCIOUS_RECALLED |-> {"INTENT_RECEIVED"}, PLAN_CREATED |-> {"CONTEXT_LOADED"},
             APPROVAL_REQUESTED |-> {"PLAN_CREATED"}, APPROVAL_GRANTED |-> {"APPROVAL_REQUESTED"},
             ACTION_STARTED |-> {"PLAN_CREATED", "APPROVAL_GRANTED"}, ACTION_COMPLETED |-> {"ACTION_STARTED"},
             ACTION_FAILED |-> {"ACTION_STARTED"}, VERIFICATION_PASSED |-> {"ACTION_COMPLETED"},
             ARTIFACT_CREATED |-> {"ACTION_STARTED"}, LEARNING_CAPTURED |-> {"INTENT_RECEIVED"}]
Once == {"INTENT_RECEIVED", "CONTEXT_LOADED", "PLAN_CREATED"}

\* check_event, for an intent that is an effect.
Legal(name, seen, halted) ==
    /\ name \in Once => name \notin seen
    /\ IF seen = {} THEN name = "INTENT_RECEIVED" ELSE name \in DOMAIN Requires /\ Requires[name] \subseteq seen
    /\ name = "ACTION_STARTED" => ~halted

\* derive_state; a failure outweighs a completion.
Derived(seen) ==
    IF "ACTION_FAILED" \in seen THEN "failed"
    ELSE IF seen \intersect {"ACTION_COMPLETED", "VERIFICATION_PASSED"} # {} THEN "completed"
    ELSE IF "ACTION_STARTED" \in seen THEN "executing"
    ELSE IF "APPROVAL_REQUESTED" \in seen /\ "APPROVAL_GRANTED" \notin seen THEN "awaiting_approval"
    ELSE "planned"

Ends == {"ACTION_COMPLETED", "ACTION_FAILED", "VERIFICATION_PASSED"}
Receiptable(seen) == seen \intersect Ends # {} /\ "INTENT_RECEIVED" \in seen

-----------------------------------------------------------------------------
(* Transactions *)

\* Mutant: the advisory lock belongs to the session, not to the transaction.
FreedNever(p) == latch
\* Rolled back, and the advisory lock with it.
Freed(p) == IF latch = p THEN Nobody ELSE latch
\* An error ends the call; after the spending it is recorded first.
Failing(p) ==
    IF c[p].stage = "spent"
    THEN [Rest EXCEPT !.stage = "failing", !.pc = "rowRead", !.to = "consumed"]
    ELSE Rest
Raise(p) == c' = [c EXCEPT ![p] = Failing(p)] /\ latch' = Freed(p)

\* append_event up to its flush: who may not append is refused.
AppendRead(p) ==
    /\ At(p, "append")
    /\ IF Legal(c[p].event.name, Names(log \o c[p].new), stopped)
       THEN /\ c' = [c EXCEPT ![p].pc = "flush", ![p].read = Len(log),
                              ![p].was = IF c[p].set # "none" THEN c[p].set ELSE col]
            /\ UNCHANGED latch
       ELSE Raise(p)
    /\ UNCHANGED <<tables, card, overdue, stopped, effects, budget>>

\* Mutant: two events may bear one number.
NeverTaken(p) == FALSE
\* UNIQUE (intent_id, sequence_no).
Taken(p) == Len(log) # c[p].read
\* Mutant: the approval is spent before the start is durable.
AfterUnsaved(e) == IF e.name = "ACTION_STARTED" /\ e.req THEN "spend" ELSE "save"
After(e) == "save"
Numbered(p, e) == [name |-> e.name, req |-> e.req, no |-> c[p].read + Len(c[p].new) + 1]

\* The commit's start carries its artifact, its completion its receipt.
Flush(p) ==
    LET e == c[p].event
        loop == c[p].stage # "plain"
        first == Append(c[p].new, Numbered(p, e))
        new == IF loop /\ e.name = "ACTION_STARTED"
               THEN Append(first, [name |-> "ARTIFACT_CREATED", req |-> FALSE, no |-> c[p].read + 2])
               ELSE first
        state == Derived(Names(log \o new))
    IN  /\ At(p, "flush") /\ IntentFree(p)
        /\ IF Taken(p) THEN Raise(p)
           ELSE /\ c' = [c EXCEPT ![p].new = new,
                                  ![p].set = IF c[p].was \in {"receipted", state} THEN "none" ELSE state,
                                  ![p].pc = IF loop /\ e.name = "ACTION_COMPLETED" THEN "receipt" ELSE After(e)]
                /\ UNCHANGED latch
        /\ UNCHANGED <<tables, card, overdue, stopped, effects, budget>>

\* issue_receipt after its reads; an intent holds one receipt.
IssueReceipt(p) ==
    /\ At(p, "receipt") /\ IntentFree(p)
    /\ IF receipt # 0 THEN Raise(p)
       ELSE /\ c' = [c EXCEPT ![p].cert = c[p].read + Len(c[p].new), ![p].set = "receipted", ![p].pc = "save"]
            /\ UNCHANGED latch
    /\ UNCHANGED <<tables, card, overdue, stopped, effects, budget>>

Committed(p) ==
    /\ log' = log \o c[p].new
    /\ col' = IF c[p].set = "none" THEN col ELSE c[p].set
    /\ receipt' = IF c[p].cert = 0 THEN receipt ELSE c[p].cert
    /\ row' = IF c[p].rowSet = "none" THEN row ELSE c[p].rowSet
Save(p) ==
    /\ At(p, "save") /\ Committed(p)
    /\ c' = [c EXCEPT ![p] = IF c[p].stage = "started" THEN [Rest EXCEPT !.pc = "spend", !.stage = "started"]
                             ELSE Rest]
    /\ latch' = Freed(p)
    /\ UNCHANGED <<card, overdue, stopped, effects, budget>>
\* Committed, and the caller is told otherwise.
AckLost(p) ==
    /\ At(p, "save") /\ Committed(p) /\ Fault /\ Raise(p)
    /\ UNCHANGED <<card, overdue, stopped, effects>>
StatementFails(p) ==
    /\ ~At(p, "rest") /\ ~At(p, "spend") /\ Fault /\ Raise(p)
    /\ UNCHANGED <<tables, card, overdue, stopped, effects>>
Crash(p) ==
    /\ ~At(p, "rest") /\ Fault
    /\ c' = [c EXCEPT ![p] = Rest] /\ latch' = Freed(p)
    /\ UNCHANGED <<tables, card, overdue, stopped, effects>>

-----------------------------------------------------------------------------
(* The approval's row: rule_approval and settle_approval *)

\* The state a move needs.
From == [approved |-> "pending", consumed |-> "approved", refused |-> "pending"]
Recorded(p) ==
    CASE c[p].to = "approved" -> [c[p] EXCEPT !.pc = "grant"]
      [] c[p].to = "refused" -> [c[p] EXCEPT !.pc = "save"]
      [] c[p].stage = "spent" -> [c[p] EXCEPT !.pc = "effect"]
      [] OTHER -> [c[p] EXCEPT !.pc = "append", !.event = Event("ACTION_FAILED", TRUE)]

Movable(p) == row = From[c[p].to]
RowRead(p) ==
    /\ At(p, "rowRead")
    /\ \/ row = c[p].to /\ c' = [c EXCEPT ![p] = Recorded(p)] /\ UNCHANGED latch
       \/ row # c[p].to /\ Movable(p) /\ c' = [c EXCEPT ![p].pc = "rowWrite"] /\ UNCHANGED latch
       \/ row # c[p].to /\ ~Movable(p) /\ Raise(p)
    /\ UNCHANGED <<tables, card, overdue, stopped, effects, budget>>
\* Nothing is compared again when the row is written.
RowWrite(p) ==
    /\ At(p, "rowWrite") /\ RowFree(p)
    /\ c' = [c EXCEPT ![p] = [Recorded(p) EXCEPT !.rowSet = c[p].to]]
    /\ UNCHANGED <<tables, card, overdue, stopped, latch, effects, budget>>

-----------------------------------------------------------------------------
(* KnowledgeLoop *)

\* The card is raised first, on the queue's connection.
Propose(p) ==
    /\ Call(p) /\ card = "none"
    /\ card' = "pending"
    /\ c' = [c EXCEPT ![p].pc = "propose"]
    /\ UNCHANGED <<tables, overdue, stopped, latch, effects>>
Opening == <<"INTENT_RECEIVED", "CONTEXT_LOADED", "PLAN_CREATED", "APPROVAL_REQUESTED">>
Bind(p) ==
    /\ At(p, "propose")
    /\ log' = [i \in 1 .. 4 |-> [name |-> Opening[i], req |-> i > 2, no |-> i]]
    /\ col' = "awaiting_approval" /\ row' = "pending"
    /\ c' = [c EXCEPT ![p] = Rest]
    /\ UNCHANGED <<receipt, card, overdue, stopped, latch, effects, budget>>

\* approve up to the queue's answer.  A row that was refused, spent or expired has a
\* card that was, and an approved card past its window is refused.
Approve(p) ==
    /\ Call(p) /\ row \in {"pending", "approved"}
    /\ card' = IF card # "pending" THEN card ELSE IF overdue THEN "expired" ELSE "approved"
    /\ c' = [c EXCEPT ![p] = IF card' = "approved" /\ ~overdue THEN [Rest EXCEPT !.pc = "rowRead", !.to = "approved"]
                             ELSE Rest]
    /\ UNCHANGED <<tables, overdue, stopped, latch, effects>>
Grant(p) ==
    /\ At(p, "grant")
    /\ c' = [c EXCEPT ![p] = IF "APPROVAL_GRANTED" \in Names(log) THEN [@ EXCEPT !.pc = "save"]
                             ELSE [@ EXCEPT !.pc = "append", !.event = Event("APPROVAL_GRANTED", TRUE)]]
    /\ UNCHANGED <<tables, card, overdue, stopped, latch, effects, budget>>

\* The shared decide route may refuse the card and then tells the ledger.
RefuseCard(p) ==
    /\ Call(p) /\ card = "pending" /\ ~overdue /\ row # "none"
    /\ card' = "refused"
    /\ c' = [c EXCEPT ![p] = [Rest EXCEPT !.pc = "rowRead", !.to = "refused"]]
    /\ UNCHANGED <<tables, overdue, stopped, latch, effects>>

\* commit up to its advisory lock.
Commit(p) ==
    /\ Call(p)
    /\ row = "approved" /\ card = "approved" /\ ~overdue /\ ~stopped
    /\ {"PLAN_CREATED", "APPROVAL_GRANTED"} \subseteq Names(log)
    /\ c' = [c EXCEPT ![p] = [Rest EXCEPT !.pc = "latch", !.stage = "started"]]
    /\ UNCHANGED <<tables, card, overdue, stopped, latch, effects>>
Latch(p) ==
    /\ At(p, "latch") /\ latch = Nobody
    /\ IF StartedFor(log) THEN c' = [c EXCEPT ![p] = Rest] /\ UNCHANGED latch
       ELSE /\ latch' = p
            /\ c' = [c EXCEPT ![p].pc = "append", ![p].event = Event("ACTION_STARTED", TRUE)]
    /\ UNCHANGED <<tables, card, overdue, stopped, effects, budget>>

\* consume.  A card that is not spent leaves a failed action.
Spend(p) ==
    /\ At(p, "spend")
    /\ IF card = "approved" /\ ~overdue
       THEN card' = "consumed" /\ c' = [c EXCEPT ![p].pc = "rowRead", ![p].to = "consumed", ![p].stage = "spent"]
       ELSE /\ UNCHANGED card
            /\ c' = [c EXCEPT ![p].pc = "append", ![p].stage = "failing", ![p].event = Event("ACTION_FAILED", TRUE)]
    /\ UNCHANGED <<tables, overdue, stopped, latch, effects, budget>>
\* The store is unavailable, before or after it spent the card: the error is not caught.
SpendUnknown(p) ==
    /\ At(p, "spend") /\ Fault
    /\ card' \in {card} \union (IF card = "approved" /\ ~overdue THEN {"consumed"} ELSE {})
    /\ c' = [c EXCEPT ![p] = Rest] /\ latch' = Freed(p)
    /\ UNCHANGED <<tables, overdue, stopped, effects>>
\* The soul layer and the webhook; what they answer is recorded, never raised.
Effect(p) ==
    /\ At(p, "effect")
    /\ effects' = effects + 1
    /\ c' = [c EXCEPT ![p].pc = "append", ![p].event = Event("ACTION_COMPLETED", TRUE)]
    /\ UNCHANGED <<tables, card, overdue, stopped, latch, budget>>

-----------------------------------------------------------------------------
(* The ledger's routes, the sweep and the clock *)

\* The event route; what it names as the request is the caller's word.
Post(p, name) ==
    /\ Call(p) /\ log # <<>>
    /\ \E r \in BOOLEAN : c' = [c EXCEPT ![p] = [Rest EXCEPT !.pc = "append", !.event = Event(name, r)]]
    /\ UNCHANGED <<tables, card, overdue, stopped, latch, effects>>
PostReceipt(p) ==
    /\ Call(p) /\ Receiptable(Names(log)) /\ receipt = 0
    /\ c' = [c EXCEPT ![p] = [Rest EXCEPT !.pc = "receipt", !.read = Len(log), !.was = col]]
    /\ UNCHANGED <<tables, card, overdue, stopped, latch, effects>>
\* Engaged by anyone, released by Tee.
TurnStop ==
    /\ calls < MaxCalls /\ calls' = calls + 1 /\ UNCHANGED faults
    /\ stopped' = ~stopped
    /\ UNCHANGED <<tables, card, overdue, latch, c, effects>>
\* PostgresApprovalStore.pending expires the card and the ledger's row together.
Sweep ==
    /\ card = "pending" /\ overdue /\ \A p \in Callers : c[p].rowSet = "none"
    /\ card' = "expired"
    /\ row' = IF row = "pending" THEN "expired" ELSE row
    /\ UNCHANGED <<log, col, receipt, overdue, stopped, latch, c, effects, budget>>
Lapse ==
    /\ card # "none" /\ ~overdue /\ overdue' = TRUE
    /\ UNCHANGED <<tables, card, stopped, latch, c, effects, budget>>

Next ==
    \/ \E p \in Callers :
          \/ Propose(p) \/ Bind(p) \/ Approve(p) \/ Grant(p) \/ RefuseCard(p)
          \/ Commit(p) \/ Latch(p) \/ Spend(p) \/ SpendUnknown(p) \/ Effect(p)
          \/ AppendRead(p) \/ Flush(p) \/ IssueReceipt(p) \/ RowRead(p) \/ RowWrite(p)
          \/ Save(p) \/ AckLost(p) \/ StatementFails(p) \/ Crash(p)
          \/ PostReceipt(p) \/ \E name \in Posts : Post(p, name)
    \/ TurnStop \/ Sweep \/ Lapse

Spec == Init /\ [][Next]_vars

-----------------------------------------------------------------------------
(* Properties *)

Pcs == {"rest", "propose", "latch", "append", "flush", "rowRead", "rowWrite", "grant", "receipt", "save",
        "spend", "effect"}
States == {"none", "awaiting_approval", "planned", "executing", "completed", "failed", "receipted"}
Rows == {"none", "pending", "approved", "consumed", "refused", "expired"}
\* Every variable keeps its type; one transaction at a time has written the intent and
\* one its approval's row, and the advisory lock is in the hands of a commit.
TypeOK ==
    /\ \A i \in DOMAIN log : log[i].name \in {"INTENT_RECEIVED"} \union DOMAIN Requires
    /\ col \in States /\ receipt \in 0 .. Len(log) /\ row \in Rows /\ card \in Rows
    /\ {overdue, stopped} \subseteq BOOLEAN
    /\ \A p \in Callers : c[p].pc \in Pcs /\ c[p].stage \in {"plain", "started", "spent", "failing"}
    /\ Cardinality({p \in Callers : Writes(p)}) <= 1
    /\ Cardinality({p \in Callers : c[p].rowSet # "none"}) <= 1
    /\ latch # Nobody => c[latch].stage = "started" /\ c[latch].pc \in {"append", "flush", "save"}
    /\ calls \in 0 .. MaxCalls /\ faults \in 0 .. MaxFaults

\* What is done last was written first, whatever fails or overlaps: the connectors are
\* called at most once and for a spent card, a card is spent under a ruling and a start
\* that are durable on the ledger, and the ledger's row says nothing of the card that
\* the queue did not decide before.
OrderOfDurability ==
    /\ effects <= 1 /\ (effects = 1 => card = "consumed")
    /\ card = "consumed" => StartedFor(log) /\ "APPROVAL_GRANTED" \in Names(log)
    /\ row = "approved" => card \in {"approved", "consumed"}
    /\ row \in {"consumed", "refused", "expired"} => card = row

\* Whoever appends has judged the whole log before: every event has the number of its
\* place and was legal there, and the one receipt certifies a prefix that had ended.
ChainHolds ==
    /\ \A i \in DOMAIN log : log[i].no = i /\ Legal(log[i].name, Names(SubSeq(log, 1, i - 1)), FALSE)
    /\ receipt # 0 => Receiptable(Names(SubSeq(log, 1, receipt)))

\* "the summary column and the event log can never disagree".
StateTellsEvents ==
    log # <<>> => col = IF receipt # 0 THEN "receipted" ELSE Derived(Names(log))

\* "a consumed row cannot go back".
RowStaysSpent == [][row = "consumed" => row' = row]_vars

\* "no action starts while it holds".
StopHolds ==
    [][stopped => \A i \in Len(log) + 1 .. Len(log') : log'[i].name # "ACTION_STARTED"]_vars
=============================================================================
