----------------------------- MODULE CalendarDates ------------------------------
(***************************************************************************)
(* The calendar rules of include/event_hub/calendar_scheduler/detail.hpp:  *)
(* how the next occurrence of a daily, weekly or monthly rule is found in  *)
(* a zone whose offset changes once.                                       *)
(*                                                                         *)
(* One unit of time stands for a second.  A zone is the record of the UTC  *)
(* instant at which its offset changes and of the two offsets; a fixed     *)
(* offset is a zone whose offsets agree.  A rule says on which days of its *)
(* period it has which seconds of the day.                                 *)
(***************************************************************************)
EXTENDS Integers, Sequences, FiniteSets, FiniteSetsExt

CONSTANTS
    DayLength,      \* seconds of a day
    WeekLength,     \* days of a week
    MonthDays       \* the day of the month of each day of a year

ASSUME DatesAssumption ==
    /\ DayLength \in Nat \ {0} /\ WeekLength \in Nat \ {0}
    /\ MonthDays \in Seq(Nat \ {0}) /\ MonthDays # <<>>

Never == -1         \* std::nullopt and ERROR_TIMESTAMP

Offset(zone, utc) == IF utc < zone.change THEN zone.before ELSE zone.after

utc_to_local(zone, utc) == utc + Offset(zone, utc)

\* The instants at which the clocks of the zone show a local time.
Showing(zone, local) ==
    {utc \in {local - zone.before, local - zone.after} :
        utc_to_local(zone, utc) = local}

\* The last one instead: the second pass through a fold.
local_to_utc_last(zone, local) ==
    IF Showing(zone, local) = {} THEN Never ELSE Max(Showing(zone, local))

\* AmbiguousTimePolicy::first_occurrence and NonexistentTimePolicy::error.
local_to_utc(zone, local) ==
    IF Showing(zone, local) = {} THEN Never ELSE Min(Showing(zone, local))

\* normalize_seconds(): invalid seconds are dropped, the rest is sorted and
\* free of duplicates, that is, a set.
normalize_seconds(seconds) == {s \in seconds : 0 <= s /\ s < DayLength}

\* A rule with no valid second is refused by add_*_task().
has_any(rule) == \E key \in DOMAIN rule.at : normalize_seconds(rule.at[key]) # {}

\* The index of a day in the rule's table; normalize_monthly() clears the day 0.
KeyOf(rule, day) ==
    CASE rule.every = "day"   -> 0
      [] rule.every = "week"  -> day % WeekLength
      [] rule.every = "month" -> MonthDays[(day % Len(MonthDays)) + 1]

\* seconds_for_day(); a day that is not allowed has none.
SecondsOn(rule, day) ==
    IF KeyOf(rule, day) \in DOMAIN rule.at
    THEN normalize_seconds(rule.at[KeyOf(rule, day)])
    ELSE {}

\* How many days the provider looks ahead: 2, two weeks, more than a year.
MaxDays(rule) ==
    CASE rule.every = "day"   -> 2
      [] rule.every = "week"  -> 2 * WeekLength
      [] rule.every = "month" -> Len(MonthDays) + 1

\* The local times of the days the scan visits, as it meets them: ascending.
Visited(rule, zone, after) ==
    LET first == utc_to_local(zone, after) \div DayLength
    IN  UNION {{d * DayLength + s : s \in SecondsOn(rule, d)}
                  : d \in first .. first + MaxDays(rule)}

\* scan_local_days(): the first one that exists and lies after the bound.
scan_local_days(rule, zone, after) ==
    LET hits == {local \in Visited(rule, zone, after) :
                    local_to_utc(zone, local) > after}
    IN  IF hits = {} THEN Never ELSE local_to_utc(zone, Min(hits))

--------------------------------------------------------------------------------
(* What the rules mean: the instants at which the clocks of the zone show a  *)
(* scheduled time of a scheduled day for the first time.                     *)

Occurs(rule, zone, utc) ==
    LET local == utc_to_local(zone, utc)
    IN  /\ local % DayLength \in SecondsOn(rule, local \div DayLength)
        /\ \A u \in utc - (DayLength + DayLength) .. utc - 1 :
              utc_to_local(zone, u) # local

\* The next occurrence within `ahead' seconds.
NextOccurrence(rule, zone, after, ahead) ==
    LET later == {utc \in after + 1 .. after + ahead : Occurs(rule, zone, utc)}
    IN  IF later = {} THEN Never ELSE Min(later)

\* Clocks are turned by a day at most, as between the ends of the date line ...
RegularZone(zone) == zone.before - zone.after \in -DayLength .. DayLength

\* ... and every day of the month comes at least twice a year.
RegularYear ==
    \A k \in DOMAIN MonthDays : \E j \in DOMAIN MonthDays \ {k} : MonthDays[j] = MonthDays[k]
================================================================================
