-------------------------- MODULE MCCalendarScheduler ---------------------------
(***************************************************************************)
(* CalendarScheduler as TLC checks it: a week of three days of four        *)
(* seconds, and a year with months of three, two and three days.           *)
(***************************************************************************)
EXTENDS CalendarScheduler, TLC

Year == <<1, 2, 3, 1, 2, 1, 2, 3>>

\* A daily rule, one for two days of the week, and one for the third of a
\* month; there is no second 9, and it is dropped; Empty is refused.
Daily   == [every |-> "day",   at |-> (0 :> {1, 9})]
Weekly  == [every |-> "week",  at |-> (0 :> {0, 3}) @@ (2 :> {2})]
Monthly == [every |-> "month", at |-> (3 :> {1})]
Empty   == [every |-> "week",  at |-> (1 :> {4})]

\* UTC, a gap of three seconds, a fold of two, and a whole day left out.
UTC    == [change |-> 0, before |-> 0, after |-> 0]
Gap    == [change |-> 4, before |-> 0, after |-> 3]
Fold   == [change |-> 9, before |-> 2, after |-> 0]
DayOut == [change |-> 7, before |-> 1, after |-> 5]

Rule(provider, zone, last, missed, overlap) ==
    [provider |-> provider, zone |-> zone, last |-> last, missed |-> missed,
     overlap |-> overlap]

RulesAndOptions ==
    { Rule(Daily,   UTC,    Never, "skip",                 "skip"),
      Rule(Daily,   Gap,    2,     "run_once_immediately", "queue_one_after_current"),
      Rule(Daily,   DayOut, Never, "skip",                 "queue_one_after_current"),
      Rule(Weekly,  Fold,   2,     "skip",                 "skip"),
      Rule(Weekly,  DayOut, Never, "skip",                 "skip"),
      Rule(Empty,   UTC,    Never, "skip",                 "skip"),
      Rule(Monthly, DayOut, 2,     "run_once_immediately", "skip"),
      Rule(Custom,  UTC,    2,     "run_once_immediately", "queue_one_after_current") }

\* This instance is one of those for which the scan is proved exact.
ASSUME InstanceIsRegular == RegularCalendar
================================================================================
