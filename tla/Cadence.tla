-------------------------------- MODULE Cadence --------------------------------
(***************************************************************************)
(* When a scheduled workflow fires: hourly at a minute, daily at a time,   *)
(* weekly at a time of a day.  Instants count ticks from the start of a    *)
(* week; a minute has several, so an instant need not fall on a minute.    *)
(***************************************************************************)
EXTENDS Integers

CONSTANTS
    Minute,     \* ticks in a minute, a positive number like the others
    Minutes,    \* minutes in an hour
    Hours,      \* hours in a day
    Days        \* days in a week

Hour == Minute * Minutes
Day == Hour * Hours
Week == Day * Days

Cadences ==
    [kind : {"hourly"}, minute : 0 .. Minutes - 1, hour : {0}, weekday : {0}]
    \union [kind : {"daily"}, minute : 0 .. Minutes - 1, hour : 0 .. Hours - 1, weekday : {0}]
    \union [kind : {"weekly"}, minute : 0 .. Minutes - 1, hour : 0 .. Hours - 1, weekday : 0 .. Days - 1]

Period(c) == CASE c.kind = "hourly" -> Hour [] c.kind = "daily" -> Day [] OTHER -> Week

\* after.replace(minute=.., second=0) or after.replace(hour=.., minute=.., second=0).
SameHour(c, t) == (t \div Hour) * Hour + c.minute * Minute
SameDay(c, t) == (t \div Day) * Day + c.hour * Hour + c.minute * Minute
Weekday(t) == (t \div Day) % Days

Candidate(c, t) ==
    CASE c.kind = "hourly" -> SameHour(c, t)
      [] c.kind = "daily" -> SameDay(c, t)
      [] OTHER -> SameDay(c, t) + ((c.weekday - Weekday(SameDay(c, t))) % Days) * Day

\* Mutant: a slot that is just firing is given out again.
NextSlotInclusive(c, t) ==
    IF Candidate(c, t) < t THEN Candidate(c, t) + Period(c) ELSE Candidate(c, t)

\* next_slot: the candidate advanced until it lies strictly after t, which takes
\* one period at most.
NextSlot(c, t) ==
    IF Candidate(c, t) <= t THEN Candidate(c, t) + Period(c) ELSE Candidate(c, t)

-----------------------------------------------------------------------------
\* The cadence names the instant t.
Fires(c, t) ==
    /\ t % Hour = c.minute * Minute
    /\ c.kind # "hourly" => (t % Day) \div Hour = c.hour
    /\ c.kind = "weekly" => Weekday(t) = c.weekday

\* next_slot is the first firing strictly after the instant: it is one, it is
\* later, and no firing lies in between.
FirstStrictlyAfter ==
    \A c \in Cadences, t \in 0 .. Week - 1 :
        LET n == NextSlot(c, t)
        IN  /\ n > t /\ Fires(c, n)
            /\ \A u \in t + 1 .. n - 1 : ~Fires(c, u)
=============================================================================
