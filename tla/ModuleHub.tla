------------------------------- MODULE ModuleHub --------------------------------
(***************************************************************************)
(* ModuleHub of include/event_hub/module_hub.hpp with the modules it owns  *)
(* (include/event_hub/module.hpp): their lifecycle, the hub's loop, the    *)
(* private worker threads and the way failures travel.                     *)
(*                                                                         *)
(* Modules are numbered in registration order.  The hub's code runs on one *)
(* thread at a time: the application's (run(), or initialize(), process()  *)
(* and shutdown() called directly) or the one start() creates; `caller'    *)
(* says for whom.  Every private module has a worker, and one more thread  *)
(* may be in the middle of request_stop().                                 *)
(*                                                                         *)
(* A TaskManager is reduced to the number of its ready and delayed tasks,  *)
(* and the bus to the number of its events; whether a delayed task is due  *)
(* is left open.  A SyncNotifier is reduced to whether its generation      *)
(* differs from the one its waiter recorded (RunLoop models its insides).  *)
(***************************************************************************)
EXTENDS Naturals, FiniteSets, FiniteSetsExt

CONSTANTS
    MaxModules,     \* bound: modules added to the hub
    Inline,         \* the modules in mode inline_in_hub
    Private,        \* the modules in mode private_thread; the rest is manual
    Quota,          \* max_tasks_per_process, after normalize_options()
    MaxTasks,       \* bound: tasks of one module
    MaxEvents,      \* bound: events in the bus
    Uses,           \* how the application drives the hub: run, start, embed
    MaxFails        \* bound: exceptions thrown by user code and std::thread

Modules == 1 .. MaxModules
Bus     == 0                \* the bus as a source of work
Sources == {Bus} \cup Modules
Hub     == 0                \* the hub as a waiter, and as the origin of a failure
Waiters == {Hub} \cup Private
None    == MaxModules + 1   \* no exception

ASSUME HubAssumption ==
    /\ MaxModules \in Nat /\ Quota \in Nat \ {0}
    /\ MaxTasks \in Nat /\ MaxEvents \in Nat /\ MaxFails \in Nat
    /\ Inline \subseteq Modules /\ Private \subseteq Modules
    /\ Inline \cap Private = {}
    /\ Uses \subseteq {"run", "start", "embed"}

VARIABLES
    at,             \* where the thread that runs the hub's code is
    i,              \* the module its current `for' is at
    caller,         \* for whom: run, start, embed, destroy, none
    undoing,        \* it is in the catch block of initialize()
    worked,         \* work_done # 0
    timed,          \* the loop saw a deadline: it will wait_for()
    count,          \* m_modules.size()
    hubUp,          \* m_initialized of the hub
    stop,           \* m_stop_requested
    running,        \* m_running
    thread,         \* m_thread: none (not joinable), live, ended
    app,            \* the application's thread: free, joining, destroying, gone
    stopper,        \* where a call of request_stop() is
    unasked,        \* the private modules it has still to ask
    up,             \* the modules with m_initialized
    stopping,       \* ... m_stopping
    stopped,        \* ... m_stopped
    workerStop,     \* ... m_worker_stop_requested, of private ones
    worker,         \* where each worker thread is; none: m_worker not joinable
    attached,       \* the sources whose notifier is set
    wired,          \* the hub's notifier is set, for worker failures too
    current,        \* the waiters whose recorded generation is the latest one
    owing,          \* the source a producer is still to notify for, or None
    ready, delayed, \* tasks of each module
    events,         \* events in the bus
    flight,         \* the exception run() will rethrow
    background,     \* m_background_exception
    pending,        \* the modules with m_worker_exception
    untold,         \* history: the failures the application has not been told
    fails           \* exceptions thrown so far

placeVars  == <<at, i>>
hubVars    == <<caller, undoing, worked, timed>>
flagVars   == <<count, hubUp, stop, running>>
appVars    == <<thread, app>>
stopVars   == <<stopper, unasked>>
lifeVars   == <<up, stopping, stopped>>
workerVars == <<workerStop, worker>>
wireVars   == <<attached, wired>>
bellVars   == <<current, owing>>
workVars   == <<ready, delayed, events>>
failVars   == <<flight, background, pending, untold, fails>>
vars == <<placeVars, hubVars, flagVars, appVars, stopVars, lifeVars, workerVars,
          wireVars, bellVars, workVars, failVars>>

modVars  == <<lifeVars, workerVars, wireVars>>
flowVars == <<bellVars, workVars>>
callVars == <<placeVars, hubVars, appVars, stopVars>>

\* What steps of the hub's thread leave alone: any of them, those that neither
\* begin nor end a call of the application, and those that throw.
others == <<caller, appVars, stopVars, count>>
still  == <<others, undoing, worked, timed, hubUp, running>>
thrown == <<undoing, flagVars, appVars, stopVars>>

Init ==
    /\ at = "out" /\ i = 1
    /\ caller = "none" /\ undoing = FALSE /\ worked = FALSE /\ timed = FALSE
    /\ count = 0 /\ hubUp = FALSE /\ stop = FALSE /\ running = FALSE
    /\ thread = "none" /\ app = "free"
    /\ stopper = "idle" /\ unasked = {}
    /\ up = {} /\ stopping = {} /\ stopped = {}
    /\ workerStop = {} /\ worker = [m \in Modules |-> "none"]
    /\ attached = {} /\ wired = FALSE
    /\ current = {} /\ owing = None
    /\ ready = [m \in Modules |-> 0] /\ delayed = [m \in Modules |-> 0]
    /\ events = 0
    /\ flight = None /\ background = None /\ pending = {} /\ untold = {}
    /\ fails = 0

Added == 1 .. count

Goto(place, k) == at' = place /\ i' = k

\* The modules process(), has_pending() and next_deadline() look at.
Active == (Added \cap up) \ (stopping \cup stopped)

--------------------------------------------------------------------------------
(* Producers: any thread, one at a time. *)

\* SyncNotifier::notify() of a waiter; a module without a worker has none.
Ring(w) == current' = current \ {w}

\* EventBus::post(), up to the notify().
PostEvent ==
    /\ events < MaxEvents /\ owing = None /\ app # "gone"
    /\ events' = events + 1
    /\ owing' = Bus
    /\ UNCHANGED <<placeVars, still, stop, modVars, current, ready, delayed, failVars>>

\* A submission to m_tasks, up to the notify(); a closed manager takes none.
Submit(m) ==
    /\ m \in Added \ stopped /\ owing = None /\ app # "gone"
    /\ ready[m] + delayed[m] < MaxTasks
    /\ \/ ready' = [ready EXCEPT ![m] = @ + 1] /\ UNCHANGED delayed
       \/ delayed' = [delayed EXCEPT ![m] = @ + 1] /\ UNCHANGED ready
    /\ owing' = m
    /\ UNCHANGED <<placeVars, still, stop, modVars, current, events, failVars>>

\* The waiter behind the notifier that is wired into a source.
WaiterOf(s) == IF s \in Private THEN s ELSE Hub

\* notify() through whatever notifier the source has by now.
Notify ==
    /\ owing # None
    /\ owing' = None
    /\ IF owing \in attached THEN Ring(WaiterOf(owing)) ELSE UNCHANGED current
    /\ UNCHANGED <<placeVars, still, stop, modVars, workVars, failVars>>

--------------------------------------------------------------------------------
(* request_stop(), called by any thread, also from callbacks; a call that finds *)
(* the flag set stores and notifies again.                                      *)

stopFrame == <<placeVars, hubVars, count, hubUp, running, appVars, lifeVars, worker,
               wireVars, owing, workVars, failVars>>

RequestStop ==
    /\ stopper = "idle" /\ app \in {"free", "joining"}
    /\ stopper' = "hub"
    /\ stop' = TRUE
    /\ UNCHANGED <<stopFrame, unasked, workerStop, current>>

\* Both the current and the local notifier.
StopNotifiesHub ==
    /\ stopper = "hub"
    /\ Ring(Hub)
    /\ unasked' = Added \cap Private
    /\ stopper' = IF Added \cap Private = {} THEN "idle" ELSE "flag"
    /\ UNCHANGED <<stopFrame, stop, workerStop>>

\* request_worker_stop() of each module in turn: the flag, then the notifier.
\* It has no effect on a module without a worker.
StopFlagsWorker ==
    /\ stopper = "flag"
    /\ workerStop' = workerStop \cup {Min(unasked)}
    /\ stopper' = "ring"
    /\ UNCHANGED <<stopFrame, stop, unasked, current>>

StopNotifiesWorker ==
    /\ stopper = "ring"
    /\ Ring(Min(unasked))
    /\ unasked' = unasked \ {Min(unasked)}
    /\ stopper' = IF unasked = {Min(unasked)} THEN "idle" ELSE "flag"
    /\ UNCHANGED <<stopFrame, stop, workerStop>>

--------------------------------------------------------------------------------
(* The application's thread. *)

\* No other call of the application is under way.
AppFree == app = "free" /\ caller \in {"none", "start"}
Between == AppFree /\ at = "out"

\* add_module(): refused once initialized or running.
AddModule ==
    /\ Between /\ stopper = "idle"
    /\ ~hubUp /\ ~running /\ count < MaxModules
    /\ count' = count + 1
    /\ UNCHANGED <<callVars, hubUp, stop, running, modVars, flowVars, failVars>>

\* run() and start() clear the stop flag and the last background exception.
Begins(who) ==
    /\ Between /\ ~running /\ who \in Uses
    /\ caller' = who
    /\ running' = TRUE
    /\ background' = None /\ untold' = untold \ {background}
    /\ UNCHANGED <<undoing, worked, timed, count, hubUp, app, stopVars, modVars,
                   flowVars, flight, pending, fails>>

Run ==
    /\ Begins("run")
    /\ stop' = FALSE
    /\ Goto("wire", 1)
    /\ UNCHANGED thread

Start ==
    /\ thread = "none" /\ Begins("start")
    /\ stop' = FALSE
    /\ thread' = "live"
    /\ Goto("wire", 1)

\* The std::thread of start() cannot be created.
StartFails ==
    /\ Between /\ ~running /\ thread = "none" /\ "start" \in Uses /\ fails < MaxFails
    /\ stop' = FALSE
    /\ background' = None /\ untold' = untold \ {background}
    /\ fails' = fails + 1
    /\ UNCHANGED <<placeVars, still, modVars, flowVars, flight, pending>>

\* initialize(), process() and shutdown() of an embedded hub.
Embedded(place) ==
    /\ Between /\ ~running /\ "embed" \in Uses
    /\ caller' = "embed"
    /\ Goto(place, 1)
    /\ UNCHANGED <<thrown, worked, timed, modVars, flowVars, failVars>>

Initialize == ~hubUp /\ Embedded("init")
Process    == Embedded("bus")
Shutdown   == Embedded("stop")

\* join() blocks until the background thread is over ...
Join ==
    /\ AppFree
    /\ app' = "joining"
    /\ UNCHANGED <<placeVars, hubVars, flagVars, thread, stopVars, modVars, flowVars,
                   failVars>>

\* The exception join() throws: the background one, or a module's.
JoinThrows ==
    CASE background # None -> background
      [] background = None /\ pending # {} -> Min(pending)
      [] OTHER -> None

\* Every module's exception, one of which is thrown.
JoinClearsAll == pending

\* The modules whose exception join() takes out.
JoinClears == IF background = None THEN {JoinThrows} ELSE {}

\* ... and rethrows one stored exception, if there is one.
JoinReturns ==
    /\ app = "joining" /\ thread # "live"
    /\ app' = "free" /\ thread' = "none"
    /\ background' = None
    /\ pending' = pending \ JoinClears
    /\ untold' = untold \ {JoinThrows}
    /\ UNCHANGED <<placeVars, hubVars, flagVars, stopVars, modVars, flowVars, flight,
                   fails>>

\* The destructor: request_stop(), join the thread, shutdown(), reset_notifier().
Destroy ==
    /\ AppFree /\ stopper = "idle"
    /\ app' = "destroying"
    /\ stop' = TRUE /\ stopper' = "hub"
    /\ UNCHANGED <<placeVars, hubVars, count, hubUp, running, thread, unasked, modVars,
                   flowVars, failVars>>

DestroyJoins ==
    /\ app = "destroying" /\ stopper = "idle" /\ at = "out" /\ thread # "live"
    /\ caller = "none"
    /\ caller' = "destroy" /\ thread' = "none"
    /\ Goto("stop", 1)
    /\ UNCHANGED <<undoing, worked, timed, flagVars, app, stopVars, modVars, flowVars,
                   failVars>>

--------------------------------------------------------------------------------
(* Exceptions on the hub's thread. *)

\* Where an exception that leaves initialize() or process() goes: start()
\* stores it, run() keeps it until shutdown() is over, and both shut down; an
\* embedding application gets it at once.  `e' is a worker, or the hub itself.
Throws(e) ==
    /\ IF caller = "embed" THEN Goto("out", 1) /\ caller' = "none"
                           ELSE Goto("stop", 1) /\ UNCHANGED caller
    /\ flight' = IF caller = "run" THEN e ELSE flight
    /\ background' = IF caller = "start" THEN e ELSE background
    /\ untold' = CASE caller # "embed" -> untold \cup {e}
                 [] caller = "embed" /\ e # Hub -> untold \ {e}
                 [] OTHER -> untold
    /\ worked' = FALSE /\ timed' = FALSE

\* User code fails on the hub's thread.
MayFail == fails < MaxFails /\ fails' = fails + 1

--------------------------------------------------------------------------------
(* initialize(). *)

\* set_notifier() that forgets the inline modules, or the bus.
WiredBusOnly == {Bus}
WiredModulesOnly == Added \cap Inline

\* The sources that wire_sources_notifier() gives the hub's notifier.
Wired == {Bus} \cup (Added \cap Inline)

\* start() before it was fixed: the background thread clears the stop flag.
WireAndClear ==
    /\ at = "wire"
    /\ Goto(IF hubUp THEN "top" ELSE "init", 1)
    /\ wired' = TRUE /\ attached' = attached \cup Wired
    /\ stop' = FALSE
    /\ UNCHANGED <<still, lifeVars, workerVars, flowVars, failVars>>

\* set_notifier(&m_local_notifier), before initialize() in run() and start().
Wire ==
    /\ at = "wire"
    /\ Goto(IF hubUp THEN "top" ELSE "init", 1)
    /\ wired' = TRUE /\ attached' = attached \cup Wired
    /\ UNCHANGED <<still, stop, lifeVars, workerVars, flowVars, failVars>>

initFrame == <<others, worked, timed, stop, running, stopping, stopped, flowVars,
               flight, background, pending, untold>>

\* Module::initialize().
InitModule ==
    /\ at = "init" /\ i <= count
    /\ i \in up \/ i \notin stopping \cup stopped
    /\ up' = up \cup {i}
    /\ Goto("init", i + 1)
    /\ UNCHANGED <<initFrame, undoing, hubUp, workerVars, wireVars, fails>>

\* The catch block takes over.
Undo ==
    /\ undoing' = TRUE
    /\ Goto("flag", 1)
    /\ UNCHANGED <<initFrame, hubUp, up, workerVars, wireVars>>

\* A module that was shut down cannot be initialized again.
InitRefused ==
    /\ at = "init" /\ i <= count /\ i \notin up /\ i \in stopping \cup stopped
    /\ Undo
    /\ UNCHANGED fails

\* on_initialize() throws.
InitThrows ==
    /\ at = "init" /\ i <= count /\ i \notin up /\ i \notin stopping \cup stopped
    /\ Undo
    /\ MayFail

\* Module::start_worker().
StartWorker ==
    /\ at = "workers" /\ i <= count
    /\ IF i \in Private /\ worker[i] = "none"
       THEN /\ worker' = [worker EXCEPT ![i] = "top"]
            /\ workerStop' = workerStop \ {i}
            /\ pending' = pending \ {i}
            /\ attached' = attached \cup {i}
       ELSE UNCHANGED <<workerVars, pending, attached>>
    /\ Goto("workers", i + 1)
    /\ UNCHANGED <<still, stop, lifeVars, wired, flowVars, flight, background, untold,
                   fails>>

\* The worker's std::thread cannot be created: all but the thread is set up.
StartWorkerThrows ==
    /\ at = "workers" /\ i <= count /\ i \in Private /\ worker[i] = "none"
    /\ MayFail
    /\ workerStop' = workerStop \ {i} /\ attached' = attached \cup {i}
    /\ pending' = pending \ {i}
    /\ undoing' = TRUE
    /\ Goto("flag", 1)
    /\ UNCHANGED <<others, worked, timed, hubUp, stop, running, lifeVars, worker, wired,
                   flowVars, flight, background, untold>>

Initialized ==
    /\ at = "workers" /\ i > count
    /\ hubUp' = TRUE
    /\ IF caller = "embed" THEN Goto("out", 1) /\ caller' = "none"
                           ELSE Goto("top", 1) /\ UNCHANGED caller
    /\ UNCHANGED <<undoing, worked, timed, count, stop, running, appVars, stopVars,
                   modVars, flowVars, failVars>>

--------------------------------------------------------------------------------
(* run_loop() and process(). *)

loopFrame == <<caller, thrown, modVars>>
calm      == <<loopFrame, flowVars, failVars>>

Top ==
    /\ at = "top" /\ Goto(IF stop THEN "stop" ELSE "generation", 1)
    /\ current' = current \ {Hub}
    /\ UNCHANGED <<loopFrame, worked, timed, owing, workVars, failVars>>

RecordGeneration ==
    /\ at = "generation" /\ Goto("bus", 1)
    /\ current' = current \cup {Hub}
    /\ UNCHANGED <<loopFrame, worked, timed, owing, workVars, failVars>>

\* EventBus::process() dispatches what is queued; callbacks may post again.
BusProcess ==
    /\ at = "bus" /\ Goto("tasks", 1)
    /\ worked' = (events > 0)
    /\ events' = 0
    /\ UNCHANGED <<loopFrame, timed, bellVars, ready, delayed, failVars>>

\* A callback's exception leaves the rest of the events in the bus.
BusThrows ==
    /\ at = "bus" /\ events > 0 /\ MayFail
    /\ \E left \in 0 .. events - 1 : events' = left
    /\ Throws(Hub)
    /\ UNCHANGED <<thrown, modVars, bellVars, ready, delayed, pending>>

\* The worker's exception is taken out and dropped.
WorkerSwallowed ==
    /\ at \in {"tasks", "hooks"} /\ i <= count /\ i \in pending
    /\ pending' = pending \ {i}
    /\ UNCHANGED <<placeVars, still, stop, modVars, flowVars, flight, background,
                   untold, fails>>

\* rethrow_worker_exception(), which both passes over the modules call first.
WorkerRethrown ==
    /\ at \in {"tasks", "hooks"} /\ i <= count /\ i \in pending
    /\ pending' = pending \ {i}
    /\ Throws(i)
    /\ UNCHANGED <<thrown, modVars, flowVars, fails>>

\* TaskManager::process(Quota) of module m: due tasks become ready, and at most
\* Quota of the ready ones are taken, k of them.
Takes(m, k) ==
    \E due \in 0 .. delayed[m] :
        /\ k = IF ready[m] + due < Quota THEN ready[m] + due ELSE Quota
        /\ delayed' = [delayed EXCEPT ![m] = @ - due]
        /\ ready' = [ready EXCEPT ![m] = @ + due - k]

\* process() left by the exception of the k-th task it ran: restore_unrun() has
\* put the rest of the snapshot back.
ThrowsAfter(m, k) ==
    \E due \in 0 .. delayed[m] :
        /\ k <= ready[m] + due
        /\ delayed' = [delayed EXCEPT ![m] = @ - due]
        /\ ready' = [ready EXCEPT ![m] = @ + due - k]

InlineTasks ==
    /\ at = "tasks" /\ i <= count /\ i \notin pending
    /\ Goto("tasks", i + 1)
    /\ IF i \in Inline \cap Active
       THEN \E k \in 0 .. Quota : Takes(i, k) /\ worked' = (worked \/ k > 0)
       ELSE UNCHANGED <<ready, delayed, worked>>
    /\ UNCHANGED <<loopFrame, timed, bellVars, events, failVars>>

InlineTaskThrows ==
    /\ at = "tasks" /\ i <= count /\ i \notin pending /\ i \in Inline \cap Active
    /\ MayFail
    /\ \E k \in 1 .. Quota : ThrowsAfter(i, k)
    /\ Throws(Hub)
    /\ UNCHANGED <<thrown, modVars, bellVars, events, pending>>

\* Module::process(): on_process() of an active module may report work.
ProcessHook ==
    /\ at = "hooks" /\ i <= count /\ i \notin pending
    /\ Goto("hooks", i + 1)
    /\ worked' \in IF i \in Active THEN {worked, TRUE} ELSE {worked}
    /\ UNCHANGED <<calm, timed>>

HookThrows ==
    /\ at = "hooks" /\ i <= count /\ i \notin pending /\ i \in Active
    /\ MayFail
    /\ Throws(Hub)
    /\ UNCHANGED <<thrown, modVars, flowVars, pending>>

\* process() returns, to the application or to the loop, which looks at the
\* work done and at the stop flag once more.
ProcessReturns ==
    /\ at = "hooks" /\ i > count
    /\ IF caller = "embed"
       THEN Goto("out", 1) /\ caller' = "none"
       ELSE /\ Goto(CASE worked -> "top" [] ~worked /\ stop -> "stop"
                      [] OTHER -> "pendingBus", 1)
            /\ UNCHANGED caller
    /\ worked' = FALSE
    /\ UNCHANGED <<thrown, timed, modVars, flowVars, failVars>>

\* has_pending() asks the bus and then each module.  A delayed task and the
\* module's own hint may be due.
PendingBus ==
    /\ at = "pendingBus"
    /\ Goto(IF events > 0 THEN "top" ELSE "pending", 1)
    /\ UNCHANGED <<calm, worked, timed>>

PendingModule ==
    /\ at = "pending" /\ i <= count
    /\ \/ Goto("pending", i + 1) /\ ~(i \in Inline \cap Active /\ ready[i] > 0)
       \/ i \in Active /\ Goto("top", 1)
    /\ UNCHANGED <<calm, worked, timed>>

\* next_deadline(): tasks of inline modules, and hints, which are left open.
DeadlineModule ==
    /\ at = "deadline" /\ i <= count
    /\ Goto("deadline", i + 1)
    /\ timed' \in CASE i \in Inline \cap Active /\ delayed[i] > 0 -> {TRUE}
                     [] i \in Active /\ ~(i \in Inline /\ delayed[i] > 0) -> {timed, TRUE}
                     [] OTHER -> {timed}
    /\ UNCHANGED <<calm, worked>>

\* wait(generation), or wait_for() which may time out; both return at once when
\* the generation has moved.
Wait ==
    /\ at = "wait" /\ (Hub \notin current \/ timed)
    /\ Goto("top", 1) /\ timed' = FALSE
    /\ UNCHANGED <<calm, worked>>

\* The end of a `for' over the modules; the last one runs backwards.
After == [init |-> "workers", tasks |-> "hooks", pending |-> "deadline",
          deadline |-> "wait", flag |-> "join"]

LoopEnds ==
    /\ at \in DOMAIN After /\ i > count
    /\ Goto(After[at], 1)
    /\ UNCHANGED <<calm, worked, timed>>

--------------------------------------------------------------------------------
(* shutdown(), and the catch block of initialize(), which lacks its first and *)
(* last step.                                                                 *)

\* request_stop() on this thread, which is itself the waiter it notifies.
ShutdownBegins ==
    /\ at = "stop" /\ Goto("flag", 1)
    /\ stop' = TRUE /\ Ring(Hub)
    /\ UNCHANGED <<still, modVars, owing, workVars, failVars>>

\* request_worker_stop() of each module: the flag ...
FlagWorker ==
    /\ at = "flag" /\ i <= count
    /\ IF i \in Private THEN Goto("ring", i) ELSE Goto("flag", i + 1)
    /\ workerStop' = workerStop \cup ({i} \cap Private)
    /\ UNCHANGED <<still, stop, lifeVars, worker, wireVars, flowVars, failVars>>

\* ... and the notify().
RingWorker ==
    /\ at = "ring" /\ Goto("flag", i + 1)
    /\ Ring(i)
    /\ UNCHANGED <<loopFrame, worked, timed, owing, workVars, failVars>>

\* shutdown() that does not wait for a worker.
JoinWorkerNot ==
    /\ at = "join" /\ i <= count
    /\ attached' = attached \ {i}
    /\ Goto("join", i + 1)
    /\ UNCHANGED <<still, stop, lifeVars, workerVars, wired, flowVars, failVars>>

\* join_worker_noexcept(), which also resets the notifier of the module's tasks.
JoinWorker ==
    /\ at = "join" /\ i <= count
    /\ worker[i] \in {"none", "ended"}
    /\ worker' = [worker EXCEPT ![i] = "none"]
    /\ attached' = attached \ {i}
    /\ Goto("join", i + 1)
    /\ UNCHANGED <<still, stop, lifeVars, workerStop, wired, flowVars, failVars>>

\* Where the loop over m_modules.rbegin() begins.
Last == count

\* The modules are shut down backwards.
AllJoined ==
    /\ at = "join" /\ i > count
    /\ Goto("down", Last)
    /\ UNCHANGED <<calm, worked, timed>>

\* Module::shutdown(): nothing for a stopped module; on_shutdown() runs for an
\* initialized one while it is stopping.  Its worker has been joined before.
ModuleStops ==
    /\ at = "down" /\ i > 0
    /\ IF i \in stopped THEN Goto("down", i - 1) /\ UNCHANGED stopping
                        ELSE Goto("closing", i) /\ stopping' = stopping \cup {i}
    /\ UNCHANGED <<still, stop, up, stopped, workerVars, wireVars, flowVars, failVars>>

\* The tasks are closed and cleared, the endpoint is closed.
ModuleStopped ==
    /\ at = "closing" /\ Goto("down", i - 1)
    /\ ready' = [ready EXCEPT ![i] = 0] /\ delayed' = [delayed EXCEPT ![i] = 0]
    /\ up' = up \ {i} /\ stopped' = stopped \cup {i} /\ stopping' = stopping \ {i}
    /\ UNCHANGED <<still, stop, workerVars, wireVars, bellVars, events, failVars>>

\* The catch block rethrows, out of initialize().
Undone ==
    /\ at = "down" /\ i = 0 /\ undoing
    /\ undoing' = FALSE
    /\ Throws(Hub)
    /\ UNCHANGED <<flagVars, appVars, stopVars, modVars, flowVars, pending, fails>>

\* shutdown() returns to an application that called it.
ShutdownReturns ==
    /\ at = "down" /\ i = 0 /\ ~undoing /\ caller = "embed"
    /\ events' = 0 /\ hubUp' = FALSE
    /\ Goto("out", 1) /\ caller' = "none"
    /\ UNCHANGED <<undoing, worked, timed, count, stop, running, appVars, stopVars,
                   modVars, bellVars, ready, delayed, failVars>>

\* run(), the background thread and the destructor go on: reset_notifier(),
\* m_running, and the exception run() rethrows.
HubEnds ==
    /\ at = "down" /\ i = 0 /\ ~undoing /\ caller # "embed"
    /\ events' = 0 /\ hubUp' = FALSE
    /\ wired' = FALSE /\ attached' = attached \ ({Bus} \cup Inline)
    /\ running' = FALSE
    /\ thread' = IF caller = "start" THEN "ended" ELSE thread
    /\ app' = IF caller = "destroy" THEN "gone" ELSE app
    /\ flight' = None /\ untold' = untold \ {flight}
    /\ Goto("out", 1) /\ caller' = "none"
    /\ UNCHANGED <<undoing, worked, timed, count, stop, stopVars, lifeVars, workerVars,
                   bellVars, ready, delayed, background, pending, fails>>

--------------------------------------------------------------------------------
(* Module::run_worker_loop() of a private module. *)

workerFrame == <<placeVars, still, stop, lifeVars, wireVars, owing, events>>

Move(m, from, to) == worker[m] = from /\ worker' = [worker EXCEPT ![m] = to]

WorkerTop(m) ==
    /\ Move(m, "top", IF m \in workerStop THEN "ended" ELSE "generation")
    /\ current' = current \ {m}
    /\ UNCHANGED <<workerFrame, workerStop, ready, delayed, failVars>>

WorkerGeneration(m) ==
    /\ Move(m, "generation", "process")
    /\ current' = current \cup {m}
    /\ UNCHANGED <<workerFrame, workerStop, ready, delayed, failVars>>

WorkerProcess(m) ==
    /\ \E k \in 0 .. Quota :
          /\ Takes(m, k)
          /\ Move(m, "process", IF k > 0 THEN "top" ELSE "idle")
    /\ UNCHANGED <<workerFrame, workerStop, current, failVars>>

\* A task's exception leaves process() and the loop ...
WorkerThrows(m) ==
    /\ \E k \in 1 .. Quota : ThrowsAfter(m, k)
    /\ Move(m, "process", "throwing")
    /\ MayFail
    /\ untold' = untold \cup {m}
    /\ UNCHANGED <<workerFrame, workerStop, current, flight, background, pending>>

\* ... is stored, and the worker asks itself to stop ...
WorkerStores(m) ==
    /\ Move(m, "throwing", "telling")
    /\ pending' = pending \cup {m}
    /\ workerStop' = workerStop \cup {m}
    /\ UNCHANGED <<workerFrame, current, ready, delayed, flight, background, untold,
                   fails>>

\* ... and the hub is notified.
WorkerTells(m) ==
    /\ Move(m, "telling", "ended")
    /\ IF wired THEN Ring(Hub) ELSE UNCHANGED current
    /\ UNCHANGED <<workerFrame, workerStop, ready, delayed, failVars>>

\* The stop flag not looked at again after a pass without work.
WorkerIdleBlind(m) ==
    /\ Move(m, "idle", "ready")
    /\ UNCHANGED <<workerFrame, workerStop, current, ready, delayed, failVars>>

WorkerIdle(m) ==
    /\ Move(m, "idle", IF m \in workerStop THEN "ended" ELSE "ready")
    /\ UNCHANGED <<workerFrame, workerStop, current, ready, delayed, failVars>>

WorkerReady(m) ==
    /\ Move(m, "ready", IF ready[m] > 0 THEN "top" ELSE "deadline")
    /\ UNCHANGED <<workerFrame, workerStop, current, ready, delayed, failVars>>

\* The deadline is due, or in the future, or there is none.
WorkerDeadline(m) ==
    /\ \/ delayed[m] = 0 /\ Move(m, "deadline", "wait")
       \/ delayed[m] > 0 /\ (Move(m, "deadline", "top") \/ Move(m, "deadline", "wait_for"))
    /\ UNCHANGED <<workerFrame, workerStop, current, ready, delayed, failVars>>

WorkerWait(m) ==
    /\ \/ m \notin current /\ Move(m, "wait", "top")
       \/ Move(m, "wait_for", "top")
    /\ UNCHANGED <<workerFrame, workerStop, current, ready, delayed, failVars>>

WorkerLoop(m) ==
    \/ WorkerTop(m) \/ WorkerGeneration(m) \/ WorkerProcess(m) \/ WorkerStores(m)
    \/ WorkerTells(m) \/ WorkerIdle(m) \/ WorkerReady(m) \/ WorkerDeadline(m)
    \/ WorkerWait(m)

--------------------------------------------------------------------------------

StopSteps == StopNotifiesHub \/ StopFlagsWorker \/ StopNotifiesWorker

HubSteps ==
    \/ Wire \/ InitModule \/ InitRefused \/ StartWorker \/ Initialized
    \/ Top \/ RecordGeneration \/ BusProcess \/ WorkerRethrown \/ InlineTasks
    \/ ProcessHook \/ ProcessReturns \/ PendingBus \/ PendingModule \/ DeadlineModule
    \/ Wait \/ LoopEnds
    \/ ShutdownBegins \/ FlagWorker \/ RingWorker \/ JoinWorker \/ AllJoined
    \/ ModuleStops \/ ModuleStopped \/ Undone \/ ShutdownReturns \/ HubEnds

HubFails ==
    \/ InitThrows \/ StartWorkerThrows \/ BusThrows \/ InlineTaskThrows \/ HookThrows

App ==
    \/ AddModule \/ Run \/ Start \/ StartFails \/ Initialize \/ Process \/ Shutdown
    \/ Join \/ JoinReturns \/ Destroy \/ DestroyJoins

\* A destroyed hub.
Gone == app = "gone" /\ UNCHANGED vars

Next ==
    \/ PostEvent \/ (\E m \in Modules : Submit(m)) \/ Notify
    \/ RequestStop \/ StopSteps
    \/ App \/ HubSteps \/ HubFails
    \/ \E m \in Private : WorkerLoop(m) \/ WorkerThrows(m)
    \/ Gone

Spec == Init /\ [][Next]_vars

--------------------------------------------------------------------------------
(* What is checked. *)

Places == {"out", "wire", "init", "workers", "top", "generation", "bus", "tasks",
           "hooks", "pendingBus", "pending", "deadline", "wait", "stop", "flag",
           "ring", "join", "down", "closing"}
Steps  == {"none", "top", "generation", "process", "throwing", "telling", "idle",
           "ready", "deadline", "wait", "wait_for", "ended"}

\* Every variable keeps its type.
TypeOK ==
    /\ at \in Places /\ i \in 0 .. MaxModules + 1
    /\ caller \in {"none", "run", "start", "embed", "destroy"}
    /\ undoing \in BOOLEAN /\ worked \in BOOLEAN /\ timed \in BOOLEAN
    /\ count \in 0 .. MaxModules
    /\ hubUp \in BOOLEAN /\ stop \in BOOLEAN /\ running \in BOOLEAN
    /\ thread \in {"none", "live", "ended"}
    /\ app \in {"free", "joining", "destroying", "gone"}
    /\ stopper \in {"idle", "hub", "flag", "ring"} /\ unasked \subseteq Private
    /\ up \subseteq Modules /\ stopping \subseteq Modules /\ stopped \subseteq Modules
    /\ workerStop \subseteq Private /\ worker \in [Modules -> Steps]
    /\ attached \subseteq Sources /\ wired \in BOOLEAN
    /\ current \subseteq Waiters /\ owing \in Sources \cup {None}
    /\ ready \in [Modules -> 0 .. MaxTasks] /\ delayed \in [Modules -> 0 .. MaxTasks]
    /\ events \in 0 .. MaxEvents
    /\ flight \in Waiters \cup {None} /\ background \in Waiters \cup {None}
    /\ pending \subseteq Private /\ untold \subseteq Waiters
    /\ fails \in 0 .. MaxFails

\* A hub asleep in run_loop() misses nothing: unless a thread is still to call
\* notify(), no event and no ready inline task waits, no worker's failure is
\* stored, no stop is requested, and an untimed wait leaves no delayed task.
HubMissesNothing ==
    at = "wait" /\ Hub \in current =>
        /\ stop => stopper = "hub"
        /\ events > 0 => owing = Bus
        /\ \A m \in Inline \cap Added :
              ready[m] > 0 \/ (delayed[m] > 0 /\ ~timed) => owing = m
        /\ \A m \in pending : worker[m] = "telling"

\* The same of a private worker: its tasks, and the request to stop.
WorkerMissesNothing ==
    \A m \in Private :
        worker[m] \in {"wait", "wait_for"} /\ m \in current =>
            /\ m \in workerStop => \/ stopper = "ring" /\ Min(unasked) = m
                                   \/ at = "ring" /\ i = m
            /\ ready[m] > 0 \/ (delayed[m] > 0 /\ worker[m] = "wait") => owing = m

\* A failure the application has not been told of is still on its way: kept by
\* run() or by start(), or stored in its module, where join() finds it.
NoFailureLost ==
    untold = ({flight, background} \ {None}) \cup pending
             \cup {m \in Private : worker[m] = "throwing"}

\* The private threads that run, the modules that are up and those that are down.
Owners == {m \in Private : worker[m] \notin {"none", "ended"}}

Contract == INSTANCE HubContract WITH
    awake <- up, owners <- Owners, retired <- stopped

\* The hub initializes in registration order, lets private threads run only
\* while every module is up, and shuts down in reverse order when they are over.
KeepsContract == Contract!ContractSpec
================================================================================
