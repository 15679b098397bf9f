-------------------------------- MODULE AgentTurn --------------------------------
(***************************************************************************)
(* Conversation turns in one API process.  A turn is one or more legs, an  *)
(* HTTP stream each: a leg that proposes something irreversible stops with *)
(* a question, and a yes to the question's handle resumes the turn in a    *)
(* leg of its own.  The process keeps two registries in memory, of         *)
(* questions (pending.py) and of brakes (halt.py).  It runs one step at a  *)
(* time; a leg gives way where it awaits the provider, a tool or the       *)
(* client.                                                                 *)
(*                                                                         *)
(* A turn, a brake and a question are named by the leg that made them.     *)
(***************************************************************************)
EXTENDS Integers, FiniteSets, FiniteSetsExt

CONSTANTS
    Legs,           \* bound: requests, numbered in the order they arrive
    Turns,          \* bound: those of them that may start a turn
    NoLeg,
    MaxSteps,       \* MAX_TURN_STEPS
    CouncilBudget,  \* PER_TURN_TOOL_BUDGET of the council
    Seats,          \* max_concurrency: agents of one council that ask at once
    Settings,       \* MAX_PENDING, and PROVIDER_DAILY_TOKEN_CAP or 0 when there is none
    Cost,           \* the most one completion is charged
    MaxFaults       \* bound: database errors, lost records, restarts

ASSUME TurnAssumption ==
    /\ Legs \subseteq Nat \ {0} /\ NoLeg \notin Legs /\ Turns \subseteq Legs
    /\ MaxSteps \in Nat \ {0} /\ CouncilBudget \in Nat /\ Seats \in Nat \ {0}
    /\ Settings \subseteq [room : Nat, cap : Nat] /\ Cost \in Nat /\ MaxFaults \in Nat

VARIABLES
    leg,        \* the locals of each stream
    brake,      \* HaltRegistry: the signal of each turn
    stopped,    \* the signals that were set
    shelf,      \* PendingConfirmationRegistry
    lapsed,     \* the questions on it whose time is over
    settings,   \* this deployment's settings
    booked,     \* the account's recorded use of the day
    flight,     \* completions that passed the cap and are not recorded yet
    loose,      \* councils that nobody waits for and whose agents go on
    peak,       \* history: the most there ever were in flight
    faults,
    calls,      \* history: tools that ran in each turn,
    councils,   \* ... the councils among them,
    stamps,     \* ... and the numbers of the steps they ran under
    acted,      \* history: irreversible effects under each question's yes
    told        \* history: what the person heard from a halt of the turn

registries == <<brake, stopped, shelf, lapsed>>
history == <<calls, councils, stamps, acted, told>>
asking == <<flight, loose, peak>>
vars == <<leg, registries, settings, booked, asking, faults, history>>

(***************************************************************************)
(* pc: new; setup (the history is read, the message written); ask (top of  *)
(* the loop); wait (for the provider); call (a tool was announced); run    *)
(* (in its handler); asked (a question was sent); close (in the stream's   *)
(* finally); done.  spare is what is left of the loop's range, seen the    *)
(* number of observations, sure that the call was confirmed under yes.     *)
(***************************************************************************)
Tools == {"plain", "council", "final", "refused"}
NewLeg == [pc |-> "new", turn |-> NoLeg, sig |-> NoLeg, yes |-> NoLeg, sure |-> FALSE,
           tool |-> "plain", spare |-> 0, used |-> 0, council |-> 0, seen |-> 0]

Init ==
    /\ leg = [l \in Legs |-> NewLeg]
    /\ brake = [t \in Turns |-> NoLeg]
    /\ stopped = {} /\ shelf = {} /\ lapsed = {}
    /\ settings \in Settings /\ booked = 0 /\ faults = 0
    /\ flight = {} /\ loose = {} /\ peak = 0
    /\ calls = [t \in Turns |-> 0] /\ councils = [t \in Turns |-> 0]
    /\ stamps = [t \in Turns |-> {}]
    /\ acted = [h \in Legs |-> 0]
    /\ told = [t \in Turns |-> "nothing"]

At(l, pc) == leg[l].pc = pc
Goto(l, pc) == leg' = [leg EXCEPT ![l].pc = pc]
Arrives(l) == At(l, "new") /\ \A k \in Legs : k < l => ~At(k, "new")
Fault == faults < MaxFaults /\ faults' = faults + 1
\* A stream that is over leaves nothing but what the registries hold.
Over == [NewLeg EXCEPT !.pc = "done"]
OnShelf == {q.id : q \in shelf}
\* What a question remembers: the turn, how far it has come, and created_at as a rank.
Asked(l, n) == [id |-> l, turn |-> leg[l].turn, used |-> leg[l].used, council |-> leg[l].council,
                seen |-> leg[l].seen, at |-> n]

-----------------------------------------------------------------------------
(* POST /act/stream *)

\* HaltRegistry.open: an id that is registered keeps its signal.
Opened(t, l) == IF brake[t] # NoLeg THEN brake[t] ELSE l

Start(l) ==
    /\ Arrives(l) /\ l \in Turns
    /\ leg' = [leg EXCEPT ![l] = [NewLeg EXCEPT !.pc = "setup", !.turn = l, !.sig = l, !.spare = MaxSteps]]
    /\ brake' = [brake EXCEPT ![l] = l]
    /\ UNCHANGED <<stopped, shelf, lapsed, settings, booked, asking, faults, history>>

\* Mutant: a spent handle stays.
SpentStays(q) == shelf
\* PendingConfirmationRegistry.claim removes what it finds, expired or not.
Spent(q) == shelf \ {q}

\* Mutant: the resumed leg gets a fresh allowance.
ResumedAfresh(l, q) ==
    [pc |-> "setup", turn |-> q.turn, sig |-> Opened(q.turn, l), yes |-> q.id, sure |-> TRUE,
     tool |-> "final", spare |-> MaxSteps, used |-> 0, council |-> 0, seen |-> q.seen]
\* The leg that answers q goes on with the observations and the counts of the leg
\* that asked.
Resumed(l, q) ==
    [pc |-> "setup", turn |-> q.turn, sig |-> Opened(q.turn, l), yes |-> q.id, sure |-> TRUE,
     tool |-> "final", spare |-> MaxSteps - q.used,
     used |-> q.used, council |-> q.council, seen |-> q.seen]

Confirm(l, q) ==
    /\ Arrives(l)
    /\ shelf' = Spent(q)
    /\ lapsed' = lapsed \ {q.id}
    /\ IF q.id \in lapsed THEN UNCHANGED <<leg, brake, told>>
       ELSE /\ leg' = [leg EXCEPT ![l] = Resumed(l, q)]
            /\ brake' = [brake EXCEPT ![q.turn] = Opened(q.turn, l)]
            /\ told' = [told EXCEPT ![q.turn] = IF @ = "stopped" THEN "answered since" ELSE @]
    /\ UNCHANGED <<stopped, settings, booked, asking, faults, calls, councils, stamps, acted>>

\* Before the stream exists its finally does not: the brake stays.
SetupFails(l) ==
    /\ At(l, "setup") /\ Fault
    /\ leg' = [leg EXCEPT ![l] = Over]
    /\ UNCHANGED <<registries, settings, booked, asking, history>>
Stream(l) ==
    /\ At(l, "setup")
    /\ Goto(l, IF leg[l].sure THEN "call" ELSE "ask")
    /\ UNCHANGED <<registries, settings, booked, asking, faults, history>>

-----------------------------------------------------------------------------
(* AgentTurn.run *)

Halted(l) == leg[l].sig \in stopped
\* A leg asks for one completion at a time, each agent of a council in a seat for one.
Own(l) == <<<<l, 0>>, 0>>
Councils == Turns \X (1 .. CouncilBudget)
Convened(l) == <<leg[l].turn, leg[l].council>>
Sits(l) == At(l, "run") /\ leg[l].tool = "council"
OfCouncil(c) == {<<c, s>> : s \in 1 .. Seats}
\* What the stream of l waits for, itself or in its council.
Awaited(l) == flight \intersect ({Own(l)} \union IF Sits(l) THEN OfCouncil(Convened(l)) ELSE {})

\* refuse_if_capped: without a cap nothing is read, and nothing is followed here.
Metered == settings.cap > 0
Capped == Metered /\ booked >= settings.cap
MayAsk == Metered /\ ~Capped
\* MeteredProvider.complete: in flight from the cap's check to the record.
Sends(x) ==
    LET n == Cardinality(flight \union {x})
    IN  /\ flight' = flight \union {x}
        /\ peak' = IF n > peak THEN n ELSE peak
        /\ UNCHANGED loose
Ends(x) == flight' = flight \ {x} /\ UNCHANGED <<loose, peak>>

\* The loop's top: out of steps, stopped or refused the spending, or the model is asked.
AskOrEnd(l) ==
    /\ At(l, "ask")
    /\ IF leg[l].spare = 0 \/ Halted(l) \/ Capped THEN Goto(l, "close") /\ UNCHANGED asking
       ELSE /\ leg' = [leg EXCEPT ![l].pc = "wait", ![l].spare = @ - 1]
            /\ IF Metered THEN Sends(Own(l)) ELSE UNCHANGED asking
    /\ UNCHANGED <<registries, settings, booked, faults, history>>
\* The day's use could not be read: the turn fails.
AskFails(l) ==
    /\ At(l, "ask") /\ Metered /\ Fault
    /\ Goto(l, "close")
    /\ UNCHANGED <<registries, settings, booked, asking, history>>

\* _record_or_log: a record that fails is logged and the answer kept.
Book ==
    IF settings.cap = 0 THEN UNCHANGED <<booked, faults>>
    ELSE \/ \E c \in 1 .. Cost : booked' = booked + c /\ UNCHANGED faults
         \/ Fault /\ UNCHANGED booked

\* An answer, or nothing the loop can use.
ReplyEnds(l) ==
    /\ At(l, "wait") /\ Book /\ Ends(Own(l))
    /\ Goto(l, "close")
    /\ UNCHANGED <<registries, settings, history>>
\* The provider failed: nothing was answered and nothing is recorded.
ProviderFails(l) ==
    /\ At(l, "wait") /\ Ends(Own(l))
    /\ Goto(l, "close")
    /\ UNCHANGED <<registries, settings, booked, faults, history>>
\* A capped council is an observation and no step.
ReplyCapped(l) ==
    /\ At(l, "wait") /\ Book /\ Ends(Own(l))
    /\ leg[l].council >= CouncilBudget
    /\ leg' = [leg EXCEPT ![l].pc = "ask", ![l].seen = @ + 1]
    /\ UNCHANGED <<registries, settings, history>>
ReplyTool(l, k) ==
    /\ At(l, "wait") /\ Book /\ Ends(Own(l))
    /\ k = "council" => leg[l].council < CouncilBudget
    /\ leg' = [leg EXCEPT ![l].pc = "call", ![l].tool = k, ![l].used = @ + 1,
                          ![l].council = IF k = "council" THEN @ + 1 ELSE @]
    /\ UNCHANGED <<registries, settings, history>>

-----------------------------------------------------------------------------
(* PresenceExecutor.run_step *)

\* Unknown names, unknown arguments, blocked tools: an observation.
Refuse(l) ==
    /\ At(l, "call") /\ leg[l].tool = "refused"
    /\ leg' = [leg EXCEPT ![l].pc = "ask", ![l].seen = @ + 1]
    /\ UNCHANGED <<registries, settings, booked, asking, faults, history>>

\* Mutant: nothing is pruned.
KeptAll == shelf
\* _prune_locked, before an insert: the expired, then the oldest above the limit.
Kept ==
    LET live == {q \in shelf : q.id \notin lapsed}
    IN  {q \in live : Cardinality({r \in live : r.at > q.at}) < settings.room}

\* Irreversible and not confirmed: the question is put on the shelf and sent.
Offer(l) ==
    /\ At(l, "call") /\ leg[l].tool = "final" /\ ~leg[l].sure
    /\ shelf' = Kept \union {Asked(l, 1 + Max({0} \union {q.at : q \in Kept}))}
    /\ lapsed' = lapsed \intersect {q.id : q \in Kept}
    /\ Goto(l, "asked")
    /\ UNCHANGED <<brake, stopped, settings, booked, asking, faults, history>>

Ready(l) == At(l, "call") /\ leg[l].tool # "refused" /\ (leg[l].tool = "final" => leg[l].sure)
\* Mutant: the brake is looked at on the top of the loop only.
BrakedNever(l) == FALSE
Braked(l) == Halted(l)

StopHere(l) ==
    /\ Ready(l) /\ Braked(l)
    /\ Goto(l, "close")
    /\ UNCHANGED <<registries, settings, booked, asking, faults, history>>
\* _authorise: a queue that cannot record the effect fails the step.
AuthoriseFails(l) ==
    /\ Ready(l) /\ ~Braked(l) /\ leg[l].tool # "council"
    /\ Fault
    /\ leg' = [leg EXCEPT ![l].pc = "ask", ![l].seen = @ + 1, ![l].sure = FALSE]
    /\ UNCHANGED <<registries, settings, booked, asking, history>>
Invoke(l) ==
    LET t == leg[l].turn
    IN  /\ Ready(l) /\ ~Braked(l)
        /\ Goto(l, "run")
        /\ calls' = [calls EXCEPT ![t] = @ + 1]
        /\ councils' = [councils EXCEPT ![t] = IF leg[l].tool = "council" THEN @ + 1 ELSE @]
        /\ stamps' = [stamps EXCEPT ![t] = @ \union {leg[l].seen + 1}]
        /\ acted' = IF leg[l].sure THEN [acted EXCEPT ![leg[l].yes] = @ + 1] ELSE acted
        /\ UNCHANGED <<registries, settings, booked, asking, faults, told>>
\* A tool whose handler calls the provider, as vision.describe does.
ToolAsks(l) ==
    /\ At(l, "run") /\ ~Sits(l)
    /\ MayAsk /\ Own(l) \notin flight
    /\ Sends(Own(l))
    /\ UNCHANGED <<leg, registries, settings, booked, faults, history>>
\* Mutant: a council's agents are given the provider without its meter.
CouncilAsksFreely(c, s) ==
    /\ c \in loose \/ \E l \in Legs : Sits(l) /\ Convened(l) = c
    /\ Metered /\ <<c, s>> \notin flight
    /\ Sends(<<c, s>>)
    /\ UNCHANGED <<leg, registries, settings, booked, faults, history>>
\* Intent, agents and their repairs, a second round, the synthesis: whichever it is, a
\* seat is free and the cap is read.
CouncilAsks(c, s) ==
    /\ c \in loose \/ \E l \in Legs : Sits(l) /\ Convened(l) = c
    /\ MayAsk /\ <<c, s>> \notin flight
    /\ Sends(<<c, s>>)
    /\ UNCHANGED <<leg, registries, settings, booked, faults, history>>
\* A completion that no leg's loop waits for is answered and recorded, or fails.
Lands(x) ==
    /\ x \in flight /\ \A l \in Legs : At(l, "wait") => x # Own(l)
    /\ Book \/ UNCHANGED <<booked, faults>>
    /\ Ends(x)
    /\ UNCHANGED <<leg, registries, settings, history>>
\* An agent could not read the day's use: gather raises, and leaves the others running.
CouncilBreaks(l) ==
    /\ Sits(l) /\ Metered /\ Fault
    /\ loose' = loose \union {Convened(l)}
    /\ leg' = [leg EXCEPT ![l].pc = "ask", ![l].seen = @ + 1, ![l].sure = FALSE]
    /\ UNCHANGED <<registries, settings, booked, flight, peak, history>>
\* The result, good or bad, is an observation.  A refusal by the cap does not wait for
\* the agents that were let through.
Return(l) ==
    /\ At(l, "run")
    /\ Awaited(l) = {} \/ (Sits(l) /\ Capped)
    /\ leg' = [leg EXCEPT ![l].pc = "ask", ![l].seen = @ + 1, ![l].sure = FALSE]
    /\ UNCHANGED <<registries, settings, booked, asking, faults, history>>

-----------------------------------------------------------------------------
(* Endings *)

\* The stream's finally.  HaltRegistry.close forgets the turn, whoever opened it.
Close(l) ==
    /\ leg[l].pc \in {"asked", "close"}
    /\ brake' = [brake EXCEPT ![leg[l].turn] = NoLeg]
    /\ leg' = [leg EXCEPT ![l] = Over]
    /\ UNCHANGED <<stopped, shelf, lapsed, settings, booked, asking, faults, history>>

\* The client goes away: the stream is cancelled where it awaits, and so is what it
\* awaited; a record that was begun is shielded and ends by itself.
Disconnect(l) ==
    /\ leg[l].pc \in {"wait", "call", "run", "asked"}
    /\ Goto(l, "close")
    /\ \E cancelled \in SUBSET Awaited(l) : flight' = flight \ cancelled
    /\ UNCHANGED <<registries, settings, booked, loose, peak, faults, history>>

\* POST /halt of a turn that is registered: it answers that no further effect will run.
Halt(t) ==
    /\ brake[t] # NoLeg
    /\ stopped' = stopped \union {brake[t]}
    /\ told' = [told EXCEPT ![t] = "stopped"]
    /\ UNCHANGED <<leg, brake, shelf, lapsed, settings, booked, asking, faults, calls, councils, stamps, acted>>

\* Fifteen minutes have passed.
Lapse(h) ==
    /\ h \in OnShelf \ lapsed
    /\ lapsed' = lapsed \union {h}
    /\ UNCHANGED <<leg, brake, stopped, shelf, settings, booked, asking, faults, history>>

\* The process restarts: its streams and its registries are gone.
Restart ==
    /\ Fault
    /\ leg' = [l \in Legs |-> IF At(l, "new") THEN leg[l] ELSE Over]
    /\ brake' = [t \in Turns |-> NoLeg]
    /\ stopped' = {} /\ shelf' = {} /\ lapsed' = {} /\ flight' = {} /\ loose' = {}
    /\ UNCHANGED <<settings, booked, peak, history>>

LegStep(l) ==
    \/ Stream(l) \/ AskOrEnd(l) \/ ReplyEnds(l) \/ ReplyCapped(l) \/ ProviderFails(l)
    \/ \E k \in Tools : ReplyTool(l, k)
    \/ Refuse(l) \/ Offer(l) \/ StopHere(l) \/ Invoke(l) \/ ToolAsks(l) \/ Return(l) \/ Close(l)

Next ==
    \/ \E l \in Legs :
          \/ Start(l) \/ LegStep(l) \/ SetupFails(l) \/ AskFails(l) \/ AuthoriseFails(l)
          \/ CouncilBreaks(l) \/ Disconnect(l) \/ Lapse(l)
          \/ \E q \in shelf : Confirm(l, q)
    \/ \E c \in Councils, s \in 1 .. Seats : CouncilAsks(c, s)
    \/ \E x \in flight : Lands(x)
    \/ \E t \in Turns : Halt(t)
    \/ Restart

Spec == Init /\ [][Next]_vars

-----------------------------------------------------------------------------
(* Properties *)

Pcs == {"new", "setup", "ask", "wait", "call", "run", "asked", "close", "done"}
Hears == {"nothing", "stopped", "answered since"}
Completions == ((Legs \X {0}) \X {0}) \union (Councils \X (1 .. Seats))
\* Every variable keeps its type.  The shelf holds a question once, and at most one
\* more than MAX_PENDING, for it is pruned before the insert.
TypesAndShelf ==
    /\ leg \in [Legs -> [pc : Pcs, turn : Turns \union {NoLeg}, sig : Legs \union {NoLeg},
                         yes : Legs \union {NoLeg}, sure : BOOLEAN, tool : Tools, spare : 0 .. MaxSteps,
                         used : 0 .. MaxSteps, council : 0 .. CouncilBudget, seen : Nat]]
    /\ brake \in [Turns -> Legs \union {NoLeg}] /\ stopped \subseteq Legs
    /\ Cardinality(shelf) <= settings.room + 1 /\ OnShelf \subseteq Legs /\ Cardinality(OnShelf) = Cardinality(shelf)
    /\ lapsed \subseteq OnShelf
    /\ booked \in Nat /\ faults \in 0 .. MaxFaults
    /\ flight \subseteq Completions /\ loose \subseteq Councils /\ peak \in Nat
    /\ told \in [Turns -> Hears]

\* A yes runs the one irreversible call that was shown, once: not when the answer is
\* sent twice, not from a handle that was answered, and whatever became of the leg.
OneEffectPerYes == \A h \in Legs : acted[h] <= 1

\* What a turn may use it may use once, however often it is resumed: no more than
\* MAX_TURN_STEPS calls, one council, and each call under a step number of its own,
\* which is what the approval's binding tells them apart by.
TurnAllowance ==
    \A t \in Turns :
        /\ calls[t] <= MaxSteps
        /\ councils[t] <= CouncilBudget
        /\ Cardinality(stamps[t]) = calls[t]

\* After a halt that was heard nothing runs in the turn until the person has answered
\* a question of the turn, whichever leg was running and whatever it was doing.
HaltHolds == [][\A t \in Turns : told[t] = "stopped" => calls'[t] = calls[t]]_vars

\* The cap is overrun by one completion each of the most that were in flight at once
\* and by no more, as provider_usage.py says of its cap; and what may be in flight is
\* bounded by what runs at once: one of each leg and one in each seat of each council,
\* be it waited for, cancelled, refused half-way or left behind.
SpendOvershoot ==
    Metered =>
        /\ booked <= settings.cap - 1 + Cost * peak
        /\ peak <= Cardinality(Legs) + Cardinality(Turns) * CouncilBudget * Seats

\* What the halt route answers: no further effect will run in this turn.
HaltIsFinal == [][\A t \in Turns : told[t] # "nothing" => calls'[t] = calls[t]]_vars

\* Any surface that can reach the registry can stop a turn by id.
HaltReachesRunning ==
    \A l \in Legs : leg[l].pc \in {"ask", "wait", "call", "run"} => brake[leg[l].turn] = leg[l].sig
=============================================================================
