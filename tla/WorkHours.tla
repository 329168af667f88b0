------------------------------ MODULE WorkHours ------------------------------
(***************************************************************************)
(* The working-hours engine: src/src/lib/sla/workhours.ts over the          *)
(* conversions of src/src/lib/sla/timezone.ts, as sla.ts uses it.           *)
(*                                                                         *)
(* A behaviour is one deadline, addWorkingHours, and then the working time  *)
(* workingHoursBetween counts up to it; a turn of either loop is one step.  *)
(* Instants are whole numbers of a unit, DayLength of them to a day of      *)
(* twenty-four hours; a zone has one change of its offset.                  *)
(***************************************************************************)
EXTENDS Integers, FiniteSets

CONSTANTS
  DayLength, \* units to a calendar day without a change of offset
  WeekDays,  \* days to a week
  Configs,   \* WorkHoursConfig: [dayStart, dayEnd, days]
  Zones,     \* [base, shift, at]: the offset is base, and base + shift from at on
  Starts,    \* the instants a ticket is created
  Targets,   \* SLA targets, in units
  MaxTurns   \* bound: the guard of the loops, 3650 in the code

ASSUME HoursAssumption ==
  /\ DayLength \in Nat \ {0} /\ WeekDays \in Nat \ {0}
  /\ Configs \subseteq [dayStart : Int, dayEnd : Int, days : (SUBSET (0..(WeekDays - 1))) \ {{}}]
  /\ Zones \subseteq [base : Int, shift : Int, at : Int]
  /\ Starts \subseteq Nat /\ Targets \subseteq Nat /\ MaxTurns \in Nat

VARIABLES
  pc,        \* the loop that runs
  config,    \* the configuration
  zone,      \* its time zone
  start,     \* where the clock starts
  target,    \* the working time to add
  cursor,    \* how far the loop is
  remaining, \* the working time it has still to add
  turns,     \* the turns it has made
  due,       \* what addWorkingHours returned
  total      \* what workingHoursBetween has counted

hoursVars == <<pc, config, zone, start, target, cursor, remaining, turns, due, total>>
input     == <<config, zone, start, target>>

Smaller(a, b) == IF a < b THEN a ELSE b
Larger(a, b)  == IF a < b THEN b ELSE a

-----------------------------------------------------------------------------
(* timezone.ts: local times are numbers too, DayLength of them to a date.   *)

ZoneOffset(u) == IF u < zone.at THEN zone.base ELSE zone.base + zone.shift
Local(u)      == u + ZoneOffset(u)
DayOf(u)      == Local(u) \div DayLength
HourOf(u)     == Local(u) % DayLength

\* Mutant: the offset at the naive instant is good enough.
ZonedOnce(l) == l - ZoneOffset(l)

\* A guess with the offset at the naive instant, and a second pass.
ZonedTimeToUtc(l) ==
  LET firstGuess == l - ZoneOffset(l) IN l - ZoneOffset(firstGuess)

StartOfNextDay(u)   == ZonedTimeToUtc((DayOf(u) + 1) * DayLength)
HourOnSameDay(u, h)  == ZonedTimeToUtc(DayOf(u) * DayLength + h)

IsWorkingDay(u) == (DayOf(u) % WeekDays) \in config.days
Open(u)         == HourOnSameDay(u, config.dayStart)
Close(u)        == HourOnSameDay(u, config.dayEnd)

-----------------------------------------------------------------------------
HoursTypeOK ==
  /\ pc \in {"add", "between", "done"}
  /\ config \in Configs /\ zone \in Zones /\ start \in Starts /\ target \in Targets
  /\ cursor \in Nat /\ due \in Nat
  /\ remaining \in 0..target
  /\ turns \in 0..MaxTurns
  /\ total \in Nat

HoursInit ==
  /\ pc = "add"
  /\ config \in Configs /\ zone \in Zones /\ start \in Starts /\ target \in Targets
  /\ cursor = start /\ remaining = target
  /\ turns = 0 /\ due = start /\ total = 0

\* addWorkingHours returns d, and workingHoursBetween begins.
ReturnDue(d) ==
  /\ due' = d /\ cursor' = start /\ turns' = 0 /\ pc' = "between"
  /\ UNCHANGED <<input, remaining, total>>

AddNothing == pc = "add" /\ target = 0 /\ ReturnDue(start)

\* Mutant: one turn too many.
AddingOnceMore == pc = "add" /\ target > 0 /\ turns <= MaxTurns

Adding == pc = "add" /\ target > 0 /\ turns < MaxTurns

\* The cursor, moved to the opening hour when it is before it.
From == Larger(cursor, Open(cursor))

\* What is left of the working day the cursor is in.
Available == Close(cursor) - From

\* Mutant: a target that ends at closing time runs into the next day.
FitsBeforeClose == remaining < Available

\* The rest of the target ends on this working day.
Fits == remaining <= Available

\* The turn ends at the next midnight, with t units still to add.
NextDay(t) ==
  /\ remaining' = t /\ turns' = turns + 1
  /\ UNCHANGED <<input, pc, due, total>>

\* continue, on a day off; the cursor is as it was.
SkipDayOff ==
  /\ Adding /\ ~IsWorkingDay(cursor)
  /\ cursor' = StartOfNextDay(cursor)
  /\ NextDay(remaining)

\* continue, after closing time.
SkipAfterClose ==
  /\ Adding /\ IsWorkingDay(cursor) /\ From >= Close(cursor)
  /\ cursor' = StartOfNextDay(From)
  /\ NextDay(remaining)

Finish ==
  /\ Adding /\ IsWorkingDay(cursor) /\ From < Close(cursor)
  /\ Fits
  /\ ReturnDue(From + remaining)

\* Mutant: the whole day is charged to a ticket that came in during it.
UseUpWholeDay ==
  /\ Adding /\ IsWorkingDay(cursor) /\ From < Close(cursor)
  /\ ~Fits
  /\ cursor' = StartOfNextDay(From)
  /\ NextDay(Larger(0, remaining - (config.dayEnd - config.dayStart)))

UseUpDay ==
  /\ Adding /\ IsWorkingDay(cursor) /\ From < Close(cursor)
  /\ ~Fits
  /\ cursor' = StartOfNextDay(From)
  /\ NextDay(remaining - Available)

\* The guard of the loop has run out.
GiveUp == pc = "add" /\ target > 0 /\ turns = MaxTurns /\ ReturnDue(cursor)

Counting == pc = "between" /\ turns < MaxTurns /\ cursor < due

\* A turn of workingHoursBetween that counts the instants from a to b.
CountFrom(a, b) ==
  /\ Counting
  /\ total' = total + (IF IsWorkingDay(cursor) /\ b > a THEN b - a ELSE 0)
  /\ cursor' = StartOfNextDay(cursor) /\ turns' = turns + 1
  /\ UNCHANGED <<input, pc, remaining, due>>

\* Mutant: the first day counts from its opening, whenever the start was.
CountFromOpen == CountFrom(Open(cursor), Smaller(due, Close(cursor)))

CountDay == CountFrom(Larger(cursor, Open(cursor)), Smaller(due, Close(cursor)))

CountEnds ==
  /\ pc = "between" /\ ~Counting
  /\ pc' = "done"
  /\ UNCHANGED <<input, cursor, remaining, turns, due, total>>

HoursNext ==
  \/ AddNothing \/ SkipDayOff \/ SkipAfterClose \/ Finish \/ UseUpDay \/ GiveUp
  \/ CountDay \/ CountEnds

HoursSpec == HoursInit /\ [][HoursNext]_hoursVars /\ WF_hoursVars(HoursNext)

-----------------------------------------------------------------------------
(* Correctness, against the plain meaning of working time: an instant is     *)
(* one if the wall clock shows a working hour of a working day.             *)

InHours(u) == IsWorkingDay(u) /\ HourOf(u) >= config.dayStart /\ HourOf(u) < config.dayEnd

Worked(a, b) == Cardinality({u \in a..(b - 1) : InHours(u)})

Sane == config.dayStart < config.dayEnd

\* The deadline leaves exactly the target's working time, and is the first
\* instant that does.
DueAfterTarget ==
  pc # "add" /\ Sane =>
    /\ Worked(start, due) = target
    /\ target > 0 => InHours(due - 1)

\* On the way there, whatever is behind the cursor has been charged once.
NothingLost == pc = "add" /\ Sane => Worked(start, cursor) + remaining = target

\* The two loops agree: from the start to its deadline is the target.
RoundTrip == pc = "done" => total = IF Sane THEN target ELSE 0

\* Both loops compute what Worked counts, at every turn and when they are done.
LoopsCorrect == HoursTypeOK /\ DueAfterTarget /\ NothingLost /\ RoundTrip

\* A turn always gets somewhere, so that a sane configuration never needs the
\* guard; without working hours the guard ends the loop instead.
TurnsAdvance == [][pc' = pc => cursor' > cursor]_hoursVars

-----------------------------------------------------------------------------
(* When the loops are correct.  Opening and closing hours are hours of one   *)
(* day, and the hour that the clocks skip or show twice contains neither of   *)
(* them and no midnight; it may be an hour of work.  In the turns of a loop a   *)
(* sane configuration has as many weeks as a target takes of its working days, *)
(* with the hour that one of them may lack.                                  *)

HoursInDay(c) == c.dayStart \in 0..(DayLength - 1) /\ c.dayEnd \in 0..DayLength

\* The local times that are skipped or shown twice.
ChangeFirst(z) == z.at + z.base + Smaller(0, z.shift)
ChangeEnd(z)   == z.at + z.base + Larger(0, z.shift)

MarksClear(c, z) ==
  \A l \in ChangeFirst(z)..(ChangeEnd(z) - 1) :
    l % DayLength \notin {0, c.dayStart, c.dayEnd % DayLength}

TurnsSuffice(c, z, t) ==
  c.dayStart < c.dayEnd =>
    \E k \in 0..MaxTurns : /\ k * WeekDays < MaxTurns
                           /\ t + Larger(0, z.shift) <= k * (c.dayEnd - c.dayStart)

WellSet ==
  \A c \in Configs, z \in Zones :
    HoursInDay(c) /\ MarksClear(c, z) /\ \A t \in Targets : TurnsSuffice(c, z, t)

-----------------------------------------------------------------------------
\* timezone.ts:3-6 and 78-80: the engine "stays correct" in a zone that changes
\* its offset, because the second pass "makes the result correct across a DST
\* boundary".
CorrectAcrossDst == DueAfterTarget
=============================================================================
