--------------------------- MODULE CalendarScheduler ----------------------------
(***************************************************************************)
(* CalendarScheduler of include/event_hub/calendar_scheduler.hpp: rules    *)
(* that keep one task in a TaskManager and submit the next one when the    *)
(* callback is over.                                                       *)
(*                                                                         *)
(* Three threads meet.  "loop" is the consumer of the TaskManager, which   *)
(* runs the tasks one by one.  "adder" is in add_rule(); with AddsOnLoop   *)
(* its steps happen on the loop's thread, between tasks or in a callback.  *)
(* A third one is in cancel(), cancel_all() or the destructor.  Every      *)
(* critical section of core->mutex is one step.                            *)
(*                                                                         *)
(* The TaskManager is what TaskContract promises: a queued task starts at  *)
(* some later moment unless it is cancelled or cleared before.  The wall   *)
(* clock is whatever now_provider says, and it may be set back.            *)
(***************************************************************************)
EXTENDS CalendarDates

CONSTANTS
    MaxRules,       \* bound: rules added
    MaxTasks,       \* bound: tasks submitted to the TaskManager
    Additions,      \* the rules that may be added, with their options
    Walls,          \* what the wall clock may show
    AddsOnLoop      \* rules are added on the thread that processes the tasks

Rules   == 1 .. MaxRules
Tasks   == 1 .. MaxTasks
NoTask  == 0
Threads == {"loop", "adder"}
Custom  == [every |-> "custom"]

ASSUME CalendarAssumption ==
    /\ MaxRules \in Nat /\ MaxTasks \in Nat
    /\ Walls \subseteq Nat /\ AddsOnLoop \in BOOLEAN
    /\ \A a \in Additions :
          /\ DOMAIN a = {"provider", "zone", "last", "missed", "overlap"}
          /\ \/ a.provider = Custom
             \/ /\ a.provider.every \in {"day", "week", "month"}
                /\ \A key \in DOMAIN a.provider.at : a.provider.at[key] \subseteq Int
          /\ a.zone \in [change : Int, before : Int, after : Int]
          /\ a.last \in Nat \cup {Never}
          /\ a.missed \in {"skip", "run_once_immediately"}
          /\ a.overlap \in {"skip", "queue_one_after_current"}

VARIABLES
    added,          \* next_id - 1
    rule,           \* per id: the provider and the options (last: last_due_utc_ms)
    active,         \* the ids in core->tasks
    cancelled,      \* the ids whose state is cancelled
    scheduled,      \* per id: scheduled_task_id
    planned,        \* per id: planned_utc_ms
    closed,         \* core->closed
    managerClosed,  \* the TaskManager is closed
    submitted,      \* tasks the TaskManager has been given
    owner,          \* per task: the rule it belongs to
    queued,         \* the tasks it has still to start
    pc,             \* where each thread is
    my,             \* its locals: rule, planned instant, submitted task
    running,        \* the task the TaskManager runs, or NoTask
    stopped,        \* its context is cancelled
    victim,         \* the task_id of cancel() between its unlock and its end
    doomed,         \* the states of cancel_all() it has still to visit
    lastRun,        \* history: the planned instant of the last callback
    orphaned        \* history: rules whose task was lost

ruleVars    == <<added, rule>>
coreVars    == <<active, cancelled, scheduled, planned, closed>>
managerVars == <<managerClosed, submitted, owner, queued>>
runVars     == <<running, stopped>>
cancelVars  == <<victim, doomed>>
historyVars == <<lastRun, orphaned>>
vars == <<ruleVars, coreVars, managerVars, pc, my, runVars, cancelVars, historyVars>>

Nothing == [rule |-> 0, planned |-> Never, task |-> NoTask]

Init ==
    /\ added = 0 /\ rule = <<>>
    /\ active = {} /\ cancelled = {} /\ closed = FALSE
    /\ scheduled = [r \in Rules |-> NoTask] /\ planned = [r \in Rules |-> 0]
    /\ managerClosed = FALSE /\ submitted = 0
    /\ owner = <<>> /\ queued = {}
    /\ pc = [t \in Threads |-> "idle"] /\ my = [t \in Threads |-> Nothing]
    /\ running = NoTask /\ stopped = FALSE
    /\ victim = NoTask /\ doomed = {}
    /\ lastRun = [r \in Rules |-> Never]
    /\ orphaned = {}

\* Whose turn it is while adder and loop are one thread.
Turn(t) ==
    AddsOnLoop => IF t = "loop" THEN pc["adder"] = "idle"
                                ELSE pc["loop"] \in {"idle", "callback"}

At(t, place) == Turn(t) /\ pc[t] = place

Goto(t, place) ==
    /\ pc' = [pc EXCEPT ![t] = place]
    /\ my' = IF place = "idle" THEN [my EXCEPT ![t] = Nothing] ELSE my

\* The test every critical section makes of a rule.
Dead(r) == r \notin active \/ r \in cancelled \/ closed

--------------------------------------------------------------------------------
(* The providers. *)

\* next_time_provider: what it may return.  A custom one is user code that
\* honours its lower bound; it may also end the rule.
Provided(r, after) ==
    IF rule[r].provider = Custom
    THEN {Never} \cup {w \in Walls : w > after}
    ELSE {scan_local_days(rule[r].provider, rule[r].zone, after)}

\* add_*_task() and add_rule(): an id, and a place in core->tasks.
AddRule ==
    /\ At("adder", "idle") /\ added < MaxRules
    /\ ~closed /\ ~managerClosed
    /\ \E a \in {b \in Additions : b.provider # Custom => has_any(b.provider)} :
          /\ rule' = Append(rule, a)
          /\ lastRun' = [lastRun EXCEPT ![added + 1] = a.last]
    /\ added' = added + 1
    /\ active' = active \cup {added + 1}
    /\ pc' = [pc EXCEPT !["adder"] = "first"]
    /\ my' = [my EXCEPT !["adder"].rule = added + 1]
    /\ UNCHANGED <<cancelled, scheduled, planned, closed, managerVars, runVars,
                   cancelVars, orphaned>>

\* The occurrences first_planned_due() may choose.
FirstDue(r, now) ==
    IF rule[r].last = Never THEN Provided(r, now)
    ELSE UNION {IF m # Never /\ m <= now /\ rule[r].missed = "skip"
                THEN Provided(r, now) ELSE {m} : m \in Provided(r, rule[r].last)}

\* The next occurrence is taken, or there is none and the thread goes elsewhere.
Choose(t, next, otherwise) ==
    IF next = Never
    THEN Goto(t, otherwise)
    ELSE /\ pc' = [pc EXCEPT ![t] = "submit"]
         /\ my' = [my EXCEPT ![t].planned = next]

FirstPlanned ==
    /\ At("adder", "first")
    /\ \E now \in Walls : \E next \in FirstDue(my["adder"].rule, now) :
          Choose("adder", next, "undo")
    /\ UNCHANGED <<ruleVars, coreVars, managerVars, runVars, cancelVars, historyVars>>

\* A custom provider throws: add_rule() catches it.
FirstThrows ==
    /\ At("adder", "first") /\ rule[my["adder"].rule].provider = Custom
    /\ Goto("adder", "undo")
    /\ UNCHANGED <<ruleVars, coreVars, managerVars, runVars, cancelVars, historyVars>>

\* cancel_on_core() of a rule that could not be scheduled: it has no task.
Undo ==
    /\ At("adder", "undo")
    /\ active' = active \ {my["adder"].rule}
    /\ cancelled' = cancelled \cup ({my["adder"].rule} \cap active)
    /\ Goto("adder", "idle")
    /\ UNCHANGED <<ruleVars, scheduled, planned, closed, managerVars, runVars, cancelVars,
                   historyVars>>

--------------------------------------------------------------------------------
(* schedule_one(), called by both threads. *)

\* Where its failure leads: add_rule() undoes, run_due() completes the rule.
Failed(t) == IF t = "adder" THEN "undo" ELSE "complete"

\* The task returns to the TaskManager.
TaskOver == running' = NoTask /\ stopped' = FALSE

\* add_task_at(), before core->mutex is taken; a closed manager takes no task.
Submit(t) ==
    /\ At(t, "submit") /\ ~managerClosed /\ submitted < MaxTasks
    /\ submitted' = submitted + 1
    /\ owner' = Append(owner, my[t].rule)
    /\ queued' = queued \cup {submitted + 1}
    /\ pc' = [pc EXCEPT ![t] = "store"]
    /\ my' = [my EXCEPT ![t].task = submitted + 1]
    /\ UNCHANGED <<ruleVars, coreVars, managerClosed, runVars, cancelVars, historyVars>>

\* The caller does not learn that the task was refused.
SubmitForgotten(t) ==
    /\ At(t, "submit") /\ managerClosed
    /\ Goto(t, "idle")
    /\ IF t = "loop" THEN TaskOver ELSE UNCHANGED runVars
    /\ UNCHANGED <<ruleVars, coreVars, managerVars, cancelVars, historyVars>>

SubmitRefused(t) ==
    /\ At(t, "submit") /\ managerClosed
    /\ Goto(t, Failed(t))
    /\ UNCHANGED <<ruleVars, coreVars, managerVars, runVars, cancelVars, historyVars>>

\* TaskManager::cancel(): a queued task goes, the running one is told.
CancelTask(k) ==
    /\ queued' = queued \ {k}
    /\ stopped' = (stopped \/ (k # NoTask /\ k = running))

\* The rule is not looked at again after the submission.
StoreBlindly(t) ==
    /\ At(t, "store")
    /\ scheduled' = [scheduled EXCEPT ![my[t].rule] = my[t].task]
    /\ planned' = [planned EXCEPT ![my[t].rule] = my[t].planned]
    /\ Goto(t, "idle")
    /\ IF t = "loop" THEN TaskOver ELSE UNCHANGED runVars
    /\ UNCHANGED <<ruleVars, active, cancelled, closed, managerVars, cancelVars, historyVars>>

\* The rule is looked at again under the mutex: it is recorded what was
\* submitted, and the call is over ...
Store(t) ==
    /\ At(t, "store") /\ ~Dead(my[t].rule)
    /\ scheduled' = [scheduled EXCEPT ![my[t].rule] = my[t].task]
    /\ planned' = [planned EXCEPT ![my[t].rule] = my[t].planned]
    /\ Goto(t, "idle")
    /\ IF t = "loop" THEN TaskOver ELSE UNCHANGED runVars
    /\ UNCHANGED <<ruleVars, active, cancelled, closed, managerVars, cancelVars, historyVars>>

\* ... or the task is taken back.
TakeBack(t) ==
    /\ At(t, "store") /\ Dead(my[t].rule)
    /\ CancelTask(my[t].task)
    /\ Goto(t, Failed(t))
    /\ UNCHANGED <<ruleVars, coreVars, managerClosed, submitted, owner, running, cancelVars,
                   historyVars>>

--------------------------------------------------------------------------------
(* run_due() and schedule_after_run(), in the task. *)

\* The TaskManager starts a task whose time has come.
StartTask(k) ==
    /\ At("loop", "idle") /\ k \in queued
    /\ queued' = queued \ {k}
    /\ running' = k
    /\ pc' = [pc EXCEPT !["loop"] = "due"]
    /\ my' = [my EXCEPT !["loop"].rule = owner[k]]
    /\ UNCHANGED <<ruleVars, coreVars, managerClosed, submitted, owner, stopped, cancelVars,
                   historyVars>>

\* A rule that is gone is not run ...
RunDueReturns ==
    /\ At("loop", "due") /\ Dead(my["loop"].rule)
    /\ Goto("loop", "idle") /\ TaskOver
    /\ UNCHANGED <<ruleVars, coreVars, managerVars, cancelVars, historyVars>>

\* ... and any other gives up its task id and is called back.
RunDue ==
    /\ At("loop", "due") /\ ~Dead(my["loop"].rule)
    /\ scheduled' = [scheduled EXCEPT ![my["loop"].rule] = NoTask]
    /\ pc' = [pc EXCEPT !["loop"] = "callback"]
    /\ my' = [my EXCEPT !["loop"].planned = planned[my["loop"].rule]]
    /\ UNCHANGED <<ruleVars, active, cancelled, planned, closed, managerVars, runVars,
                   cancelVars, historyVars>>

\* TaskContext::cancel() in the callback, or cancel() of the running task.
StopTask ==
    /\ At("loop", "callback") /\ ~stopped
    /\ stopped' = TRUE
    /\ UNCHANGED <<ruleVars, coreVars, managerVars, pc, my, running, cancelVars, historyVars>>

Ran == lastRun' = [lastRun EXCEPT ![my["loop"].rule] = my["loop"].planned]

CallbackReturns ==
    /\ At("loop", "callback")
    /\ Goto("loop", "after") /\ Ran
    /\ UNCHANGED <<ruleVars, coreVars, managerVars, runVars, cancelVars, orphaned>>

\* The exception completes the rule and leaves the task.
CallbackThrows ==
    /\ At("loop", "callback")
    /\ Goto("loop", "complete") /\ Ran
    /\ UNCHANGED <<ruleVars, coreVars, managerVars, runVars, cancelVars, orphaned>>

\* The second critical section: a rule cancelled in the meantime stays so.
AfterCallback ==
    /\ At("loop", "after")
    /\ cancelled' = IF Dead(my["loop"].rule) \/ stopped
                    THEN cancelled \cup {my["loop"].rule} ELSE cancelled
    /\ Goto("loop", "check")
    /\ UNCHANGED <<ruleVars, active, scheduled, planned, closed, managerVars, runVars,
                   cancelVars, historyVars>>

\* context.is_cancelled(), is_state_cancelled().
CheckCancelled ==
    /\ At("loop", "check")
    /\ Goto("loop", IF stopped \/ Dead(my["loop"].rule) THEN "complete" ELSE "next")
    /\ UNCHANGED <<ruleVars, coreVars, managerVars, runVars, cancelVars, historyVars>>

\* The next instant counted from the clock, not from the planned instant.
NextDueFromNow(r, previous, now) == Provided(r, now)

\* What schedule_after_run() may choose: an overdue occurrence is run at once,
\* or skipped for the next one after the present.
NextDue(r, previous, now) ==
    UNION {IF m # Never /\ m <= now /\ rule[r].overlap = "skip"
           THEN Provided(r, now) ELSE {m} : m \in Provided(r, previous)}

NextPlanned ==
    /\ At("loop", "next")
    /\ \E now \in Walls : \E next \in NextDue(my["loop"].rule, my["loop"].planned, now) :
          Choose("loop", next, "complete")
    /\ UNCHANGED <<ruleVars, coreVars, managerVars, runVars, cancelVars, historyVars>>

\* A custom provider throws: the exception leaves the task, and the rule stays
\* behind without one.
NextThrows ==
    /\ At("loop", "next") /\ rule[my["loop"].rule].provider = Custom
    /\ orphaned' = orphaned \cup {my["loop"].rule}
    /\ Goto("loop", "idle") /\ TaskOver
    /\ UNCHANGED <<ruleVars, coreVars, managerVars, cancelVars, lastRun>>

\* The state is erased and not marked.
CompleteUnmarked ==
    /\ At("loop", "complete")
    /\ active' = active \ {my["loop"].rule}
    /\ Goto("loop", "idle") /\ TaskOver
    /\ UNCHANGED <<ruleVars, cancelled, scheduled, planned, closed, managerVars, cancelVars,
                   historyVars>>

\* mark_completed().
Complete ==
    /\ At("loop", "complete")
    /\ cancelled' = cancelled \cup {my["loop"].rule}
    /\ active' = active \ {my["loop"].rule}
    /\ Goto("loop", "idle") /\ TaskOver
    /\ UNCHANGED <<ruleVars, scheduled, planned, closed, managerVars, cancelVars, historyVars>>

--------------------------------------------------------------------------------
(* cancel(), cancel_all() and the destructor, on any thread. *)

NoCancel == victim = NoTask /\ doomed = {}

\* cancel_on_core(): the rule goes under the mutex ...
Cancel(r) ==
    /\ NoCancel /\ r \in active \ cancelled
    /\ cancelled' = cancelled \cup {r}
    /\ active' = active \ {r}
    /\ victim' = scheduled[r]
    /\ UNCHANGED <<ruleVars, scheduled, planned, closed, managerVars, pc, my, runVars,
                   doomed, historyVars>>

\* ... and its task afterwards.
CancelVictim ==
    /\ victim # NoTask
    /\ CancelTask(victim)
    /\ victim' = NoTask
    /\ UNCHANGED <<ruleVars, coreVars, managerClosed, submitted, owner, pc, my, running,
                   doomed, historyVars>>

\* cancel_all_on_core(): all rules go under the mutex, and with the destructor
\* the core is closed ...
CancelAll(close) ==
    /\ NoCancel
    /\ closed' = (closed \/ close)
    /\ cancelled' = cancelled \cup active
    /\ active' = {}
    /\ doomed' = active
    /\ UNCHANGED <<ruleVars, scheduled, planned, managerVars, pc, my, runVars, victim,
                   historyVars>>

\* ... and scheduled_task_id is read of each without the mutex.
CancelDoomed ==
    /\ \E r \in doomed : CancelTask(scheduled[r]) /\ doomed' = doomed \ {r}
    /\ UNCHANGED <<ruleVars, coreVars, managerClosed, submitted, owner, pc, my, running,
                   victim, historyVars>>

--------------------------------------------------------------------------------
(* The TaskManager's owner. *)

ManagerCloses ==
    /\ ~managerClosed
    /\ managerClosed' = TRUE
    /\ UNCHANGED <<ruleVars, coreVars, submitted, owner, queued, pc, my, runVars,
                   cancelVars, historyVars>>

\* clear_pending(): the tasks in the snapshot of a pass under way stay, which
\* may be any of them; the rules of the others are not told.
ManagerClears ==
    /\ \E cleared \in (SUBSET queued) \ {{}} :
          /\ queued' = queued \ cleared
          /\ orphaned' = orphaned \cup {owner[k] : k \in cleared}
    /\ UNCHANGED <<ruleVars, coreVars, managerClosed, submitted, owner, pc, my, runVars,
                   cancelVars, lastRun>>

--------------------------------------------------------------------------------

Next ==
    \/ AddRule \/ FirstPlanned \/ FirstThrows \/ Undo
    \/ \E t \in Threads : Submit(t) \/ SubmitRefused(t) \/ Store(t) \/ TakeBack(t)
    \/ \E k \in Tasks : StartTask(k)
    \/ RunDueReturns \/ RunDue \/ StopTask \/ CallbackReturns \/ CallbackThrows
    \/ AfterCallback \/ CheckCancelled \/ NextPlanned \/ NextThrows \/ Complete
    \/ (\E r \in Rules : Cancel(r)) \/ CancelVictim
    \/ (\E close \in BOOLEAN : CancelAll(close)) \/ CancelDoomed
    \/ ManagerCloses \/ ManagerClears

Spec == Init /\ [][Next]_vars

--------------------------------------------------------------------------------
(* What is checked. *)

Locals == [rule : 0 .. MaxRules, planned : Nat \cup {Never}, task : Tasks \cup {NoTask}]

\* Every variable keeps its type, and a rule is cancelled when it is forgotten.
TypeOK ==
    /\ added \in 0 .. MaxRules /\ DOMAIN rule = 1 .. added
    /\ active \subseteq 1 .. added /\ cancelled \subseteq 1 .. added
    /\ 1 .. added \subseteq active \cup cancelled
    /\ scheduled \in [Rules -> Tasks \cup {NoTask}]
    /\ planned \in [Rules -> Nat]
    /\ closed \in BOOLEAN /\ managerClosed \in BOOLEAN
    /\ submitted \in 0 .. MaxTasks /\ owner \in [1 .. submitted -> Rules]
    /\ queued \subseteq 1 .. submitted
    /\ DOMAIN pc = Threads /\ my \in [Threads -> Locals]
    /\ running \in Tasks \cup {NoTask} /\ stopped \in BOOLEAN
    /\ victim \in Tasks \cup {NoTask} /\ doomed \subseteq Rules
    /\ lastRun \in [Rules -> Nat \cup {Never}] /\ orphaned \subseteq Rules

QueuedOf(r) == {k \in queued : owner[k] = r}

\* The threads that are still to submit the rule's next task.
InHand(r) == {t \in Threads : my[t].rule = r /\ pc[t] # "store"}

\* The thread between the submission and its record.
Recording(r) == {t \in Threads : my[t].rule = r /\ pc[t] = "store"}

\* A live rule has exactly one task, queued or in somebody's hands, and once
\* that is recorded cancel() finds it under scheduled_task_id.  The rules whose
\* task was cleared from the TaskManager, or whose provider threw, are excepted.
RuleHasOneTask ==
    \A r \in active \ (cancelled \cup orphaned) :
        /\ Cardinality(QueuedOf(r)) + Cardinality(InHand(r)) = 1
        /\ InHand(r) \cup Recording(r) = {} => QueuedOf(r) = {scheduled[r]}

\* Whatever the interleaving of cancel(), cancel_all() or the destructor with
\* schedule_one(), no task of a cancelled rule outlives the calls under way.
CancelLeavesNothing ==
    \A r \in cancelled :
        QueuedOf(r) # {} =>
            \/ Recording(r) # {}
            \/ r \in doomed
            \/ \E k \in QueuedOf(r) : k = victim

\* The planned instants of a rule's callbacks only move forward, from the
\* persisted one on: no occurrence is run twice, however the wall clock moves.
RunsForward ==
    pc["loop"] = "callback" =>
        my["loop"].planned > lastRun[my["loop"].rule]

\* The scan over local days finds the next instant at which the zone's clocks
\* show a scheduled time for the first time: none is skipped because the bound
\* lies in a gap or a fold, or because the scan gives up too early.
ScanFindsNext ==
    \A t \in Threads :
        LET r == my[t].rule IN
        pc[t] \in {"first", "next"} /\ rule[r].provider # Custom =>
            \A after \in Walls \cup ({my[t].planned} \ {Never}) :
                scan_local_days(rule[r].provider, rule[r].zone, after) =
                    NextOccurrence(rule[r].provider, rule[r].zone, after,
                                   (MaxDays(rule[r].provider) + 3) * DayLength)

\* The calendars for which the scan is exact: with other ones the days it looks
\* ahead may not suffice.
RegularCalendar == RegularYear /\ \A a \in Additions : RegularZone(a.zone)
================================================================================
