-------------------------------- MODULE RunLoop ---------------------------------
(***************************************************************************)
(* RunLoop of include/event_hub/run_loop.hpp, blocking in the SyncNotifier *)
(* of include/event_hub/notifier.hpp, composed with TaskManager and with   *)
(* one EventBus of which only the queue's length matters here.             *)
(*                                                                         *)
(* The loop thread is the consumer of TaskManager.  A generation is only   *)
(* ever compared with the one run_until() recorded, so `signalled' says    *)
(* that the two differ.  The condition variable is explicit: a waiter      *)
(* sleeps until notify_all(), which comes after the increment, outside the *)
(* notifier's mutex.                                                       *)
(***************************************************************************)
EXTENDS TaskManager

CONSTANTS
    MaxEvents       \* bound: events in the bus, captured ones included

ASSUME LoopAssumption == MaxEvents \in Nat

VARIABLES
    at,             \* where the loop thread is in run_until()
    stop,           \* m_stop_requested
    signalled,      \* m_generation differs from the recorded generation
    ringing,        \* notify() calls between the increment and notify_all()
    asleep,         \* the loop thread is blocked in the condition variable
    worked,         \* work_done # 0
    clock,          \* `now' of next_task_wait()
    wait,           \* its result, NoWait for std::nullopt
    wakeAt,         \* when wait_for() gives up, NoWait for wait()
    events,         \* length of the bus's m_event_queue
    captured        \* events left in local_queue of EventBus::process()

notifierVars == <<signalled, ringing, asleep>>
timerVars    == <<clock, wait, wakeAt>>
busVars      == <<events, captured>>
loopVars     == <<at, stop, notifierVars, worked, timerVars, busVars>>
allVars      == <<vars, loopVars>>

NoWait == -1

Places == {"out", "top", "generation", "bus", "dispatching", "tasks",
           "processing", "idle", "anyEvents", "anyReady", "clock", "deadline",
           "wait", "waiting"}

LoopInit ==
    /\ Init
    /\ at = "out" /\ stop = FALSE
    /\ signalled = FALSE /\ ringing = 0 /\ asleep = FALSE
    /\ worked = FALSE
    /\ clock = 0 /\ wait = NoWait /\ wakeAt = NoWait
    /\ events = 0 /\ captured = 0

Go(place) == at' = place

\* The locals of one round go out of scope.
ForgetTimers == clock' = 0 /\ wait' = NoWait /\ wakeAt' = NoWait

--------------------------------------------------------------------------------
(* SyncNotifier::notify(), called by every finished submission, by post() on *)
(* the bus and by request_stop().                                            *)

\* The generation is increased under the notifier's mutex.
Increment ==
    /\ Notify /\ ringing < Producers
    /\ signalled' = TRUE
    /\ ringing' = ringing + 1
    /\ UNCHANGED <<at, stop, asleep, worked, timerVars, busVars>>

\* notify_all() after the unlock.
NotifyAll ==
    /\ ringing > 0
    /\ ringing' = ringing - 1
    /\ asleep' = FALSE
    /\ UNCHANGED <<vars, at, stop, signalled, worked, timerVars, busVars>>

--------------------------------------------------------------------------------
(* Other threads, and user code on the loop thread. *)

\* EventBus::post(): enqueue, then notify().
PostEvent ==
    /\ events + captured < MaxEvents /\ owed < Producers
    /\ events' = events + 1
    /\ owed' = owed + 1
    /\ UNCHANGED <<taskVars, queueVars, consumerVars, cancelVars, envVars, nextId,
                   at, stop, notifierVars, worked, timerVars, captured>>

\* A request_stop() that only stores the flag.
RequestStopSilently ==
    /\ owed < Producers
    /\ stop' = TRUE
    /\ UNCHANGED <<vars, at, notifierVars, worked, timerVars, busVars>>

\* request_stop(): the flag is stored, then notify(); a second call does both
\* again.
RequestStop ==
    /\ owed < Producers
    /\ stop' = TRUE
    /\ owed' = owed + 1
    /\ UNCHANGED <<taskVars, queueVars, consumerVars, cancelVars, envVars, nextId,
                   at, notifierVars, worked, timerVars, busVars>>

\* reset_stop(), between two runs.
ResetStop ==
    /\ at = "out" /\ stop
    /\ stop' = FALSE
    /\ UNCHANGED <<vars, at, notifierVars, worked, timerVars, busVars>>

--------------------------------------------------------------------------------
(* run_until(). *)

frame == <<vars, stop, notifierVars, timerVars, busVars>>

Run ==
    /\ at = "out" /\ Go("top")
    /\ UNCHANGED <<frame, worked>>

\* The loop condition.
Top ==
    /\ at = "top"
    /\ Go(IF stop THEN "out" ELSE "generation")
    /\ UNCHANGED <<frame, worked>>

\* generation() is recorded before any source is looked at.
RecordGeneration ==
    /\ at = "generation" /\ Go("bus")
    /\ signalled' = FALSE
    /\ UNCHANGED <<vars, stop, ringing, asleep, worked, timerVars, busVars>>

\* process_once(): EventBus::process() captures the queue.
BusProcess ==
    /\ at = "bus" /\ Go("dispatching")
    /\ captured' = events /\ events' = 0
    /\ UNCHANGED <<vars, stop, notifierVars, worked, timerVars>>

BusDispatch ==
    /\ at = "dispatching" /\ captured > 0
    /\ captured' = captured - 1
    /\ worked' = TRUE
    /\ UNCHANGED <<vars, at, stop, notifierVars, timerVars, events>>

\* A bus callback's exception restores the rest and leaves run_until().
BusThrows ==
    /\ at = "dispatching" /\ captured > 0
    /\ Go("out") /\ worked' = FALSE
    /\ events' = events + captured - 1 /\ captured' = 0
    /\ UNCHANGED <<vars, stop, notifierVars, timerVars>>

BusReturns ==
    /\ at = "dispatching" /\ captured = 0 /\ Go("tasks")
    /\ UNCHANGED <<frame, worked>>

\* process_once(): TaskManager::process(m_max_tasks_per_manager).
TasksProcess ==
    /\ at = "tasks" /\ Go("processing")
    /\ \E q \in Quotas : ProcessBegin(q)
    /\ UNCHANGED <<stop, notifierVars, worked, timerVars, busVars>>

TaskStarts ==
    /\ StartTask
    /\ worked' = TRUE
    /\ UNCHANGED <<at, stop, notifierVars, timerVars, busVars>>

TasksReturn ==
    /\ ProcessReturn /\ Go("idle")
    /\ UNCHANGED <<stop, notifierVars, worked, timerVars, busVars>>

\* An exception leaves process() and run_until().
TasksThrow ==
    /\ Rethrow /\ Go("out") /\ worked' = FALSE
    /\ UNCHANGED <<stop, notifierVars, timerVars, busVars>>

\* work_done, and the second look at the stop flag.
AfterWork ==
    /\ at = "idle"
    /\ Go(CASE worked -> "top" [] ~worked /\ stop -> "out" [] OTHER -> "anyEvents")
    /\ worked' = FALSE
    /\ UNCHANGED frame

\* has_ready_or_pending_work() asks the bus, then the task manager.
AnyEvents ==
    /\ at = "anyEvents"
    /\ Go(IF events > 0 THEN "top" ELSE "anyReady")
    /\ UNCHANGED <<frame, worked>>

AnyReady ==
    /\ at = "anyReady"
    /\ Go(IF readyCount # 0 THEN "top" ELSE "clock")
    /\ UNCHANGED <<frame, worked>>

\* next_task_wait() reads the clock and asks for ready work once more ...
ReadClock ==
    /\ at = "clock"
    /\ IF readyCount # 0 THEN Go("top") /\ UNCHANGED clock
                         ELSE Go("deadline") /\ clock' = now
    /\ UNCHANGED <<vars, stop, notifierVars, worked, wait, wakeAt, busVars>>

\* ... and then for the earliest deadline that is not cancelled.
LiveTop == CHOOSE i \in DOMAIN delayed : /\ ~Dead(delayed[i])
                                         /\ \A j \in 1 .. i - 1 : Dead(delayed[j])

\* Deadlines forgotten, as if only ready work could end the wait.
EarliestDueIgnored == NoWait

EarliestDue ==
    IF \A i \in DOMAIN delayed : Dead(delayed[i]) THEN NoWait ELSE entry[delayed[LiveTop]].due

ReadDeadline ==
    /\ at = "deadline" /\ MutexFree
    /\ IF delayed # <<>> /\ Dead(Head(delayed)) THEN NextDeadline
                                                ELSE UNCHANGED vars
    /\ IF EarliestDue # NoWait /\ EarliestDue <= clock
       THEN Go("top") /\ ForgetTimers
       ELSE /\ Go("wait")
            /\ wait' = IF EarliestDue = NoWait THEN NoWait ELSE EarliestDue - clock
            /\ UNCHANGED <<clock, wakeAt>>
    /\ UNCHANGED <<stop, notifierVars, worked, busVars>>

\* The predicate of wait() and wait_for().
Sleeps == ~signalled

\* The generation taken only when the thread goes to sleep.
WaitAfresh ==
    /\ at = "wait" /\ Go("waiting")
    /\ asleep' = TRUE /\ signalled' = FALSE
    /\ wakeAt' = IF wait = NoWait THEN NoWait ELSE MaxTime
    /\ UNCHANGED <<vars, stop, ringing, worked, clock, wait, busVars>>

\* wait(generation) or wait_for(generation, wait): the predicate is tested and
\* the thread goes to sleep in one critical section of the notifier's mutex.
\* The instant MaxTime stands for every later one.
Wait ==
    /\ at = "wait" /\ Go("waiting")
    /\ asleep' = Sleeps
    /\ wakeAt' = CASE wait = NoWait -> NoWait
                   [] wait # NoWait /\ now + wait <= MaxTime -> now + wait
                   [] OTHER -> MaxTime
    /\ UNCHANGED <<vars, stop, signalled, ringing, worked, clock, wait, busVars>>

\* Awake: the predicate is tested again, and the thread may go back to sleep.
Wake ==
    /\ at = "waiting" /\ ~asleep
    /\ IF Sleeps THEN asleep' = TRUE /\ UNCHANGED <<at, timerVars>>
                 ELSE Go("top") /\ ForgetTimers /\ UNCHANGED asleep
    /\ UNCHANGED <<vars, stop, signalled, ringing, worked, busVars>>

\* The timeout of wait_for().
WaitExpires ==
    /\ at = "waiting" /\ wakeAt # NoWait /\ now >= wakeAt
    /\ Go("top") /\ ForgetTimers
    /\ asleep' = FALSE
    /\ UNCHANGED <<vars, stop, signalled, ringing, worked, busVars>>

--------------------------------------------------------------------------------

\* The steps of TaskManager that the loop does not see.
TaskSteps ==
    \/ Submit \/ Cancel \/ Tick \/ NextDeadline
    \/ \E h \in Handlers : SetExceptionHandler(h)
    \/ (pc # "idle" \/ at \in {"out", "dispatching"}) /\ (Close \/ ClearPending)
    \/ Finish \/ Callback

\* The steps of process() that the loop does not see.
PassSteps ==
    \/ PruneTop \/ PromoteTop \/ PromoteDone
    \/ \E p \in Priority : TakeOne(p) \/ TakeSkip(p)
    \/ TakeDone \/ SkipTask \/ CountStarted
    \/ ExceptionHandled \/ ExceptionEscapes \/ RestoreOne \/ RestoreSkip

Pass ==
    \/ PassSteps /\ UNCHANGED loopVars
    \/ TaskStarts \/ TasksReturn \/ TasksThrow

Loop ==
    \/ Top \/ RecordGeneration
    \/ BusProcess \/ BusReturns \/ TasksProcess
    \/ AfterWork \/ AnyEvents \/ AnyReady \/ ReadClock \/ ReadDeadline
    \/ Wait \/ Wake \/ WaitExpires

LoopNext ==
    \/ Increment \/ NotifyAll
    \/ PostEvent \/ RequestStop \/ ResetStop
    \/ TaskSteps /\ UNCHANGED loopVars
    \/ Run \/ BusDispatch \/ BusThrows
    \/ Pass \/ Loop

LoopSpec == LoopInit /\ [][LoopNext]_allVars

--------------------------------------------------------------------------------
(* What is checked. *)

\* Every variable of the loop keeps its type, an event is in one queue, and the
\* task manager is inside process() exactly while the loop waits for it.
LoopTypeOK ==
    /\ at \in Places
    /\ stop \in BOOLEAN /\ signalled \in BOOLEAN /\ asleep \in BOOLEAN
    /\ ringing \in Nat /\ worked \in BOOLEAN
    /\ clock \in Nat /\ wait \in Nat \cup {NoWait} /\ wakeAt \in Nat \cup {NoWait}
    /\ events \in Nat /\ captured \in Nat /\ events + captured <= MaxEvents
    /\ pc # "idle" <=> at = "processing"

\* No wake-up is lost: when the loop sleeps and no notify() is still to come,
\* no event and no ready task waits, no stop is requested, and the wait is
\* timed for a deadline no later than that of any delayed task.
NoLostWakeup ==
    asleep /\ owed = 0 /\ ringing = 0 =>
        /\ events = 0 /\ ~stop
        /\ \A id \in Ids :
              /\ state[id] # "queued_ready"
              /\ state[id] = "queued_delayed" =>
                     wait # NoWait /\ clock + wait <= entry[id].due
================================================================================
