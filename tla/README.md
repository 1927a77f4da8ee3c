# TLA+ verification of event-hub-cpp

event-hub-cpp is a header-only C++17 library: a typed event bus, a task
manager, awaiters and requests, a blocking run loop, modules with optional
worker threads, and a calendar scheduler. This directory holds TLA+ modules
translated from `include/event_hub/`, TLC configurations that model-check them
on small instances, and TLAPS proofs for all values of their parameters.

    tlc -workers 2 -config TaskManager_time.cfg MCTaskManager
    tlapm TaskManagerProofs.tla

## 1. Inventory

| Component | State | Operations | Interacts with |
|---|---|---|---|
| `TaskManager` (`task_manager.hpp`) | per-task atomic `Control::state`, `m_index`, three `m_ready` deques, `m_delayed_heap`, two atomic counters, `m_closed`, exception handler | `post*`, `post_at/after`, `post_every*`, `post_batch`, `cancel`, `close`, `clear_pending`, `process`, `next_deadline`; `TaskContext::cancel/reschedule_*` | notifies an `INotifier` after unlocking; driven by `RunLoop`, `Module` or the application; used by `CalendarScheduler` |
| `EventBus` (`event_bus.hpp`) | `m_callbacks`, `m_event_queue`, `m_awaiters`, exception handler, id counters | `subscribe`, `unsubscribe*`, `emit`, `post`, `process`, `clear_pending`, `register_awaiter` | calls user callbacks without a lock; polls awaiters; notifies after a post |
| `EventEndpoint` (`event_endpoint.hpp`) | lifetime guard, its awaiters | `subscribe`, `close`, `await_*`, `request`, `request_future` | its guard decides whether the bus starts a callback |
| `EventAwaiter` (`event_awaiter.hpp`) | `m_cancelled`, `m_subscription_id`, deadline, token, self reference | `create`, `cancel`, `handle_event`, `poll_timeout` | is a subscriber of the bus and is polled by it |
| `CancellationToken/Source`, `request.hpp` | a shared flag; a request id counter | `cancel`, `next` | read by awaiters and requests |
| `SyncNotifier` (`notifier.hpp`) | `m_generation`, a condition variable | `notify`, `generation`, `wait`, `wait_for` | called by every producer, waited on by loops |
| `RunLoop` (`run_loop.hpp`) | registered sources, stop flag | `run`, `run_until`, `process_once`, `request_stop` | drives buses and task managers on one thread |
| `Module` (`module.hpp`) | lifecycle state, worker thread, stop flag, stored exception | `initialize`, `process`, `shutdown`, `start_worker`, `request_worker_stop`, `join_worker` | private or inline execution, its own task manager and notifier |
| `ModuleHub` (`module_hub.hpp`) | modules, lifecycle flags, an own loop thread | `add_module`, `initialize`, `start`, `run`, `process`, `request_stop`, `join`, `shutdown` | drives modules, rethrows their exceptions |
| `CalendarScheduler` (`calendar_scheduler*.hpp`) | rule states, the id of the scheduled task | `add_*`, `cancel`, `cancel_all`, the run / reschedule chain | schedules one-shot tasks on a `TaskManager` |
| `EventNode`, `EventListener`, `event.hpp` | none of their own | forwarders and value types | |

What is hard here, and where:

* **Atomics beside a mutex.** `TaskManager::process()` starts tasks with a
  compare-exchange and without the mutex while `cancel()` holds it.
* **Lazy cancellation.** Cancelled entries stay in deques, heap and snapshot.
* **Exceptions in the middle of a batch.** Both `process()` functions put back
  what they have not run, among work that arrived meanwhile.
* **Copies used after an unlock.** A dispatch uses a copy of the subscriptions;
  lifetime guards decide at the last moment.
* **Re-entrancy.** Callbacks call the bus and the task manager again.
* **Sleeping.** `RunLoop` and the module loops block on a generation counter
  and on a wait computed from a clock and a deadline read earlier.
* **Timeouts without a timer thread.** Awaiters time out only when polled.

What makes each component correct:

* TaskManager: no task lost, duplicated or run twice per cycle; FIFO inside a
  priority; nothing early; nothing run after it was cancelled; exact counters
  and index; ready work is served.
* EventBus: every posted event dispatched at most once and in order, or
  dropped; no guarded callback of an endpoint that is closed and quiet; progress
  under exceptions.
* RunLoop and SyncNotifier: no lost wake-up; work and stop requests are served.
* EventAwaiter and requests: a single-shot callback at most once, never both a
  result and a timeout, no subscription left behind, a promise set once.
* Module and ModuleHub: shutdown exactly for what was initialized, in reverse
  order; no forgotten stop; no forgotten exception; threads joined.
* CalendarScheduler: at most one scheduled task per live rule, none for a
  cancelled one, no rule stuck between runs.

`PROJECT.json` lists every component with its status, and the hazards of the
code at their lines with the properties that cover them.

## 2. Modules

| Module | Role |
|---|---|
| `TaskManager` | `task_manager.hpp`, with `TaskContext` of `task.hpp` |
| `TaskContract` | what the task manager promises: a FIFO line per priority and a life cycle per task |
| `MCTaskManager` | what the documentation says of a cancelled series; liveness |
| `TaskManagerProofs` | theorems: the invariants of `TaskManager`, and that it implements `TaskContract` |
| `EventBus` | `event_bus.hpp`, and the guard and `close()` of `event_endpoint.hpp` |
| `BusContract` | what the bus promises: the subscriptions of the moment, in order, one callback at a time |
| `MCEventBus` | what the documentation says of `close()`; liveness of the bus |
| `EventBusProofs` | theorems: every event accounted for, order, silence after `close()`, and that `EventBus` implements `BusContract` |
| `RunLoop` | `run_loop.hpp` and `notifier.hpp`, composed with `TaskManager` and a bus |
| `MCRunLoop` | liveness of the loop |
| `RunLoopProofs` | theorems: no wake-up is lost, and `TaskManager` keeps its contract inside the loop |
| `EventAwaiter` | `event_awaiter.hpp`, with `poll_awaiters()`, the token and the endpoint's handle |
| `MCEventAwaiter` | timeouts under a loop that keeps polling |
| `EventAwaiterProofs` | theorems: one call, one report, nothing left behind, nothing used after it is freed |
| `Request` | `request_future()` of `event_endpoint.hpp` and the ids of `request.hpp`, on top of `EventAwaiter` |
| `MCRequest` | the future under loops that keep polling |
| `RequestProofs` | theorems: the promise is settled at most once, and with the truth |
| `ModuleHub` | `module_hub.hpp` and `module.hpp`: lifecycle, loop, workers, failures |
| `HubContract` | what a hub promises its modules: up in order, threads while all are up, down in reverse |
| `MCModuleHub` | progress of stops, joins and failures |
| `ModuleHubProofs` | theorems: no lost wake-up, no lost failure, and that `ModuleHub` implements `HubContract` |
| `CalendarDates` | the day scan of `calendar_scheduler/detail.hpp` and a reference definition of it |
| `CalendarScheduler` | `calendar_scheduler.hpp`: the chain of tasks of each rule |
| `MCCalendarScheduler` | the small calendar, the zones and the rules TLC checks |
| `CalendarSchedulerProofs` | theorems: one task per live rule, cancellation reaches it, runs move forward, the scan is exact |
| `ProofLemmas` | facts about least elements, quotients and remainders, and sequences used as stacks |

The three refinements are stated in the detailed modules, as `Contract` (the
instance, with its refinement mapping) and `KeepsContract` (the property).

Operators that precede a definition and carry a one-line comment naming a
mistake (`PutBehind`, `RestoredAgain`, `WaitAfresh`, ...) are mutants: variants
of that definition with a plausible bug, used to make sure that each property
notices it. No specification uses them.

### TaskManager

Variables are the members of the class, of `Control` and of `Entry`; `pc`,
`passNow`, `room`, `batch` and `cur` are the consumer's place and locals in
`process()`, `cancelling` and `seen` those of a `cancel()` between its load and
its compare-exchange. `owed` counts `notify()` calls that accepted submissions
still have to make. Producers are anonymous: each of their critical sections is
one step that any thread, a running callback included, may take. `process()` is
split at every atomic operation and at every iteration of its loops, with
`MutexFree` false while `m_mutex` is held. The heap is the sequence of its pop
order (ties in insertion order, as `seq` makes them). The next cycle of a series
counts from the clock as it was read when the callback ended, and is queued by a
second reading (`now'`), which may be later.

`TaskContract` writes a line as the set of its tasks and the set of pairs of which
the first came before the second. The mapping reads both off the snapshot and the
queue of a priority, in this order: a task in the snapshot is still waiting, and
comes before everyone in the queue. A task that was cancelled while its callback
runs is `stopping`, any other cancelled one is `done`, wherever its entry lies.

Left out: the value `process()` returns, re-entrant `process()` from a task
callback, destruction of user closures under the mutex, the wrap of 64-bit ids,
and the values the relaxed counters show *inside* `cancel()`'s critical section.

### EventBus

A thread is a stack of unfinished `emit()` and `process()` calls; the innermost
is first. A frame holds `local_queue`, the copied records, the record whose
callback runs (and so `alive`), and the awaiters to poll. `Expired(r)` is what
`weak_ptr::lock()` really tests: the endpoint has reset its guard *and* no
running callback holds it. User code in a callback, in the exception handler
or in `on_timeout` may call anything again, up to `MaxDepth` nested calls.
`begun` and `dropped` are history. Payloads are left out. An awaiter is active
or not and may fire when it is polled; its own steps are in `EventAwaiter`.

`BusContract` knows the events that were posted, the subscriptions of each type, the
guards given up, and per event whom its dispatch has still to reach and whose
callback runs. The mapping reads the last two off the frames of all threads that
dispatch the event (`CallsFor`), of which there is one at most. A frame between two
events, one that polls and an `emit()` are stutters; so is a restored queue, whose
events wait as they did before. A guard is given up when its endpoint resets it, and
`dispatch()` may still call a subscription after that: the contract lets it be
called or passed over, while one whose guard has not been given up is called unless
a callback before it throws.

### RunLoop

`RunLoop` extends `TaskManager`: the loop thread is the manager's consumer, and
`Notify` becomes `Increment`, followed by `NotifyAll` outside the notifier's
mutex. The condition variable is explicit (`asleep`). A generation is only
compared with the recorded one, so `signalled` is that comparison (a wrap of the
64-bit counter within one wait is excluded). The bus is the length of its queue,
with the capture, dispatch, throw and restore of `EventBus`. Registration of
sources, several sources of a kind, `clear_pending()` of the bus and the user
predicate of `run_until()` are left out (`run()` passes one that is always
false).

### EventAwaiter

One awaiter, from `create_internal()` to its destructor. `m_subscription_id`,
`m_retain_self` and `m_options` are plain members, so each read and each write of
them is a step: `cancel()` is `CancelCas`, `ReadId`, `UnsubscribeRecord`, `ClearId`
and `Release`, and moving `on_timeout` is a read and a write. Reference counting
is `Alive`: the creator, the handle (the caller's and the endpoint's), the self
reference, and every call that has locked `weak_self` or was made by
`poll_awaiters()`. The destructor runs when none is left. A thread is a stack of
calls, and `Nesting` says which user code (predicate, callback, `on_timeout`)
dispatches and polls again. A missing deadline is one that never passes, a missing
predicate one that returns true. The endpoint's guard, which may skip a copied
record, is in `EventBus`. Counters of the calls stop at 2.

### Request

`Request` extends `EventAwaiter`: the awaiter is the one `await_once()` creates for
the result, and its callback and `on_timeout` are the two lambdas of
`request_future()`. `DrawId`, `AwaitResult`, `PostRequest` and `StoreRequestId` are
the caller's steps; a lambda is `Settle` (the compare-exchange of `completed`) and
then `SetPromise`, which for a timeout reads `*request_id`, as the source does,
without synchronisation with its store. `outcome` records every `set_value()` and
`set_exception()`. An id has `IdSpace` values, the invalid 0 among them, and the
counter may start anywhere, so it wraps. `withdrawn` is history.

### ModuleHub

`at` and `i` are the place of the thread that runs hub code and the module its
current `for` is at; `caller` says whether that is `run()`, the thread of
`start()`, an embedding application or the destructor. `worker[m]` is the place
of a private worker in `run_worker_loop()`. Every flag is a variable of its own,
and each read or write of one by a loop, and each step over one module, is a
step. `request_stop()` of another thread is three steps (flag, hub, one worker
after the other) that overlap everything else, and may be called again. A failure may happen in
`on_initialize()`, `on_process()`, a task, a bus callback or the creation of a
thread, and is followed to where it is stored (`flight`, `background`, `pending`);
`untold` is the history of failures that the application has not been told of.

Work is counted, not named: `ready` and `delayed` tasks per module and `events` in
the bus. A pass that a task's exception ends gives the rest of its snapshot back
(`ThrowsAfter`); whether a delayed task is due is left open at each look, which covers
every clock. A `SyncNotifier` is the set `current` of waiters whose recorded
generation is the latest (`RunLoop` models its insides). Producers are one at a
time; `owing` is the source whose `notify()` is still to come.

### CalendarDates and CalendarScheduler

`CalendarDates` is the pure part: `scan_local_days()` with the conversions, the
normalisation of a rule's seconds and the limit of days of each provider, and
beside it `Occurs` and `NextOccurrence`, which say what the rules mean without
scanning days. A time unit stands for a second; days, weeks and months are
shorter, with the same arithmetic. The zone library is external: a zone changes
its offset once, a local time shown twice means the first instant, one never shown
is an error, as `local_to_utc_ms()` asks for.

`CalendarScheduler` has three threads: the consumer of the `TaskManager`, one in
`add_rule()`, and one in `cancel()`, `cancel_all()` or the destructor. Every
critical section of `core->mutex` is a step, and so are the calls of the
`TaskManager` between them (`Submit` before `Store`; `CancelVictim` after
`Cancel`; `CancelDoomed`, which reads `scheduled_task_id` without the mutex). The
`TaskManager` is what `TaskContract` promises, with `close()` and
`clear_pending()`, which leaves alone whatever the snapshot of a pass under way has
taken (any of the queued tasks, as passes are not modelled). The wall clock shows any member of `Walls` at each look, so it
jumps both ways. A custom provider is user code that may end the rule or throw,
and otherwise honours the lower bound it is given. `planned` starts at 0, as in
the code. `orphaned` and `lastRun` are history.

## 3. Runs

| Run | Shows | Bounds |
|---|---|---|
| `task_snapshots` | `OneHome`, `KeepsContract`, `SnapshotMostUrgent`; `ReadyIsServed` under fairness | 3 tasks, 2 priorities, batches, passes of one task and of all, callbacks that reschedule themselves; the clock stands still |
| `task_time` | `TypeOK`, `IndexExact`, `NeverEarly`, `AllDuePromoted`, `CountsExact` | 2 tasks of one priority, deadlines, fixed-delay and fixed-rate series, a moving clock, limited passes |
| `task_cancel_series` | violation: `cancel()` of a live series can fail | |
| `bus_order` | `DispatchedInOrder`; `PostedIsDispatched` under fairness | 3 events, 1 consumer, nested `emit()`, an awaiter |
| `bus_overlap` | `TypeOK`, `EventsAccounted`, `QuietAfterClose`, `KeepsContract` | 2 events, 2 interchangeable threads in `process()` and `emit()`, nested calls, 2 guarded subscriptions of an endpoint, no exception handler |
| `bus_close` | violation: a guarded callback starts after `close()` | |
| `loop_run` | `NoLostWakeup`; `TaskIsServed`, `StopEndsRun` under fairness | 2 tasks of 2 priorities, the second the more urgent, passes of one task, a deadline, an event, repeated stops |
| `awaiter_loop` | `SingleShotOnce`, `ResultOrTimeout`, `NothingLeft`, `NoUseAfterFree`, `QuietAfterCancel`; `TimesOut` under fairness | a loop thread, 2 cancelling threads, nesting 2 |
| `request_future` | `RequestTypeOK` (the awaiter's type included), `SettledOnce`, `OutcomeIsTrue`; `FutureBecomesReady` under fairness | the caller, 2 dispatching threads, 1 that cancels, 3 id values |
| `hub_lifecycle` | `HubMissesNothing`, `WorkerMissesNothing`, `NoFailureLost`, `KeepsContract` | an inline and a private module, a task each or an event, a failure; `start()`, `join()`, embedding, destruction |
| `hub_stop` | `StopEndsHub`, `JoinsEnd`, `FailureEndsHub` under fairness | a private module, a task, a failure; `run()`, `start()`, `join()` and the destructor, repeated stops |
| `calendar_rules` | `TypeOK`, `RuleHasOneTask`, `CancelLeavesNothing`, `RunsForward`, `ScanFindsNext` | 2 of 8 rules, 3 tasks, a wall clock that jumps, a day of 4 s, a week of 3 days, a year of 8; zones with a gap, a fold, a skipped day |

Why the bounds are enough: an order can only be broken between two items; with
three, one runs and throws, one is restored, and one is newer. Two threads and two
nested calls give every pair of overlapping dispatches. A task with a deadline
and one without arrive before and after the wait was computed. In `loop_run` the
constraint `Escalating` lets the second task only be the more urgent one: in that
order it overtakes the first, in the other it just waits its turn, which
`task_snapshots` tries with three tasks in any order. `task_time` has one priority
because deadlines, index and counters do not depend on it. Two cancelling
threads race each other and the loop for the compare-exchange of `cancel()`.
`MaxTime` stands for all later instants. Two dispatching threads deliver one
result twice and take `on_timeout` from each other. With two modules, the second
one fails while the first is up, and the order of shutdown shows; the modules
have no effect on each other besides. In `hub_lifecycle` the constraint `OneAtATime`
keeps events and tasks apart: the loop looks at the bus and at each module in turn,
and one source with work is what it may overlook. `hub_stop` has no event, as a bus
with work only keeps the loop from its wait. Two rules show that a step of one leaves
the other alone; with three tasks one rule goes through its chain twice while
another is added and cancelled. The small calendar has every length the scan
depends on: the first and the last day of its window, a month that lacks the
scheduled day, and an offset change longer than a day.

`bus_overlap` does without an exception handler (`bus_order` has one): every failing
callback ends its call. Its two threads do the same things, no property tells them
apart and none is a liveness property, so `ThreadSymmetry` is sound.

Deadlock is not checked for the awaiter and the request, whose life ends with a
destructor, nor for the calendar, whose tasks are used up.

The violations are disagreements between comments and code:

* `task_cancel_series`: `cancel()` expects the state it loaded; if `process()`
  starts the next cycle in between, it returns false and the series goes on,
  although the comment of `cancel()` covers executing periodic tasks.
* `bus_close`: all guarded callbacks of an endpoint share one guard. While one
  runs, another dispatch that had copied the records still locks the guard and
  starts a further callback after `close()` has returned. `QuietAfterClose` is
  the weaker promise the code does keep.

### What the properties do not promise

TLC shows where the guarantees above end. These are limits of use rather than
contradictions of a document, so they are no runs:

* **Strict priority.** A pass takes the most urgent ready tasks first. With passes
  limited to one task, a callback that reschedules itself for now is ready again
  before every pass, and a less urgent ready task is never started: TLC finds that
  behaviour as soon as `ReadyIsServed` or `TaskIsServed` is stated without its
  premise. `ReadyIsServed` therefore promises a turn (`GetsItsTurn`) to a task that
  is no longer overtaken by more urgent callbacks from some point on; and to every
  task, if unlimited passes keep coming and go through, because such a pass takes
  every ready task into its snapshot. `TaskIsServed` has the first premise only.
* **Awaiters created beside a running loop.** The bus has the record before
  `m_subscription_id` has its id. If the awaiter is created on another thread than
  the loop's, a match in between cancels it with id 0, and neither a later
  `cancel()` nor the destructor removes the record: `NothingLeft` fails with
  `Creator = app`, `Dispatchers = {loop}`, `MaxDepth = 1`. `awaiter_loop` excludes
  the race and shows
  that creating awaiters on the loop thread is safe, whoever cancels.
* **Predicates that dispatch.** `handle_event()` asks `is_active()` before the
  predicate and does not look at who won its `cancel()`. A predicate that emits a
  matching event runs a single-shot callback twice, on one thread:
  `SingleShotOnce` fails with `Nesting = {"predicate"}`. Dispatching from the
  *callback* is safe (`awaiter_loop`): the awaiter is cancelled before it.
* **Two dispatching threads.** Both may pass `is_active()` before the first
  `cancel()`: a single-shot callback runs twice, or a callback and `on_timeout` both
  run. `SingleShotOnce` and `ResultOrTimeout` are about one loop; `SettledOnce` says
  that a request survives it.
* **Late timeouts.** `poll_awaiters()` is skipped whenever a dispatch throws, and a
  blocked loop is not woken for an awaiter's deadline. `TimesOut` assumes a loop
  that goes on polling, and says nothing of how late it comes.
* **Timeouts before `request_future()` returns.** A timeout polled before the id is
  stored reports the invalid id. `OutcomeIsTrue` says that it never reports a
  wrong one; with `Creator = loop` and `Dispatchers = {loop}` it always reports the
  right one.
* **Withdrawn requests.** A cancelled token, `cancel_awaiters()` and `close()` leave
  the future pending; `FutureBecomesReady` excepts them.
* **Rules added beside a running loop.** With `AddsOnLoop = FALSE`, a task may run
  before `schedule_one()` stores its id and planned time: the callback runs with
  planned time 0, and the late store leaves a stale id, so that `RuleHasOneTask`,
  `CancelLeavesNothing` and `RunsForward` fail; `calendar_rules` excludes it. Adding rules on the thread that
  processes the tasks, from callbacks too, is safe, whoever cancels.
* **Orphaned rules.** A custom provider that throws after a run, or
  `clear_pending()` of the `TaskManager`, leaves an active rule without a task.
* **Overlapping stop.** A `request_stop()` that began before `run()` or `start()` and
  is still going through the modules may end a worker of a hub that goes on
  running, because `run()` and `start()` clear the hub's own flag.

### Fairness

* `task_snapshots`: the consumer keeps calling `process()`, whose own steps are
  taken, callbacks return, and a `cancel()` that holds the mutex finishes. How far a
  pass goes is left open: that unlimited ones come is a premise of `ReadyIsServed`.
* `bus_order`: the loop thread returns to `process()` whatever else it calls
  (strong, because its other calls disable it meanwhile); bus code goes on; user
  code at each depth ends (strong, because a nested call hides the outer one).
* `loop_run`: threads finish the `notify()` they owe, the clock moves,
  callbacks return, the loop thread runs (strong: `m_mutex` may be taken by
  others again and again, and a mutex is granted eventually). Nothing is assumed
  of anyone calling `process()`: the loop has to come back by itself.
* `awaiter_loop`: the creation is finished, the loop polls again and again
  (strong, as for `bus_order`), calls and user code at each depth end, and the
  destructor runs where the last reference is dropped.
* `request_future`: as for the awaiter, for both dispatching threads, and the caller
  goes through `request_future()`. Nothing is assumed of the answer or the deadline.
* `hub_stop`: the hub's thread, each worker and every call of `request_stop()` and
  `notify()` take their steps (weak: no other thread disables them but by what
  they wait for). A wait without a deadline ends only when notified; one with a
  deadline ends. A `join()` or destructor that waits for a thread goes on when that
  thread is over. Nothing else is assumed of the application: it may never join.

## 4. Proofs

The theorems hold for every value of the constants that satisfies the assumptions
of the model modules (`BoundsAssumption` and `ArgumentsAssumption`, `BusAssumption`,
`AwaiterAssumption`, `RequestAssumption`, `LoopAssumption`, `HubAssumption`,
`CalendarAssumption`, `DatesAssumption`): the arguments the code rejects, and the
types of the rest. Each was first an invariant or a property of a TLC run.
`PROJECT.json` lists them; every other `LEMMA` serves one of them.

### TaskManagerProofs

* `TypeCorrect`: `TypeOK`, inductive alone.
* `NoTaskLost`, `IndexIsExact`, `NothingEarly`: `OneHome`, `IndexExact`,
  `NeverEarly`. None is inductive. A task is lost or duplicated only if an id is
  reused, if the callback's task is in a state from which finishing would queue it
  twice, or if a `cancel()` commits on a state it should not have loaded. `Links`
  excludes this and says that the pass's clock is not ahead of the manager's;
  `Inv == TypeOK /\ OneHome /\ IndexExact /\ NeverEarly /\ Links` is inductive.
  Lemmas on sequences (`InsertIsSplice`, `AppendElems`, `TailElems`, ...) say what
  queue operations do to sets of elements; one lemma per kind of step
  (`PlaceHome`, `TakeOneHome`, `RestoreOneHome`, ...) shows that `OneHome` survives.
* `DueIsPromoted`: `AllDuePromoted`. The heap is sorted by deadline (`HeapSorted`,
  inductive with `Inv`), so that a top that is not due answers for the rest.
* `CountersExact`: `CountsExact`, with the finite sets that the counters count, and
  `CancelsSeries`: `cancel()` acts on an executing task only if it is periodic.
* `UrgentFirst`: `SnapshotMostUrgent`, from `UrgentTaken`: whatever has been taken so
  far is at least as urgent as whatever is ready.
* `ContractKept`: `KeepsContract`, the refinement of `TaskContract`. `StatusMoves`,
  `LeaveIs` and `JoinIs` describe what a step does to the mapped variables;
  `PrecedesAppend`, `PrecedesTail`, `PrecedesFront`, `PrecedesPut` and
  `PrecedesConcat` what it does to an order. The heart is `MoveLines`: a task that
  goes from the front of its queue to the back of the snapshot, or back again after
  an exception, overtakes nobody. Discarded entries belong to cancelled tasks, which
  are in no line, so that discarding them is a stutter (`DiscardKeeps`).

### EventBusProofs

* `TypeCorrect`, `NoEventLost` (`EventsAccounted`, with `AccountInv`: the queue and
  all local queues share no event and hold none that was dispatched or dropped) and
  `QuietOnceClosed` (`QuietAfterClose`), for any threads that process concurrently,
  any nesting and any exceptions.
* `ContractKept` (`KeepsContract`), the refinement of `BusContract`, under no
  assumption about threads. `DispatchInv` says that no two calls dispatch the same
  event, and that a call has an event only while it dispatches it in `process()`; it
  rests on `AccountInv`, by which the event that a call takes up was taken by nobody.
  `StepMeans` sorts the steps inside a call by their meaning: the call goes on with
  its event (nothing, a record passed over, a callback that starts or is over), takes
  one up, or leaves it; `GoesOnKeeps`, `TakesUpKeeps` and `LeavesKeeps` make each a
  step of the contract, and `CallsIn` says what it does to the calls of all threads.
* `InOrderOfPosting` (`DispatchedInOrder`), under `OnePump`: one thread calls
  `process()`, and not from a callback. Two overlapping calls take turns, so the
  property is false without it.

### EventAwaiterProofs and RequestProofs

* `TypeCorrect`, `NoCallAfterFree` (`NoUseAfterFree`) and `QuietOnceCancelled`
  (`QuietAfterCancel`) for any threads. A call is open while it can still report.
  Calls are told apart by their level in the thread's stack, so that one nested in
  a call that is itself open does not pass for it; `PushLevels`, `PopLevels` and
  `BecomeLevels` say what a call, a return and a step inside a call do to the levels.
* `CancelReleases` (`NothingLeft`), `CallsOnce` (`SingleShotOnce`) and `NeverBoth`
  (`ResultOrTimeout`) under `OneLoop`: the loop that dispatches creates the awaiter,
  other threads at most cancel it, the predicate does not dispatch. Section 3 tells
  what happens otherwise. The invariants: one call at most is behind the
  compare-exchange of `cancel()` (`OneCloser`), and only the loop's innermost call
  can still report (`OnceInv`).
* `RequestTypes`, `FutureSetOnce` (`SettledOnce`) and `FutureTellsTruth`
  (`OutcomeIsTrue`) for any threads: whoever has won `*completed` and not yet set the
  promise is alone (`SettleInv`), and knows what it is going to say (`TruthInv`).

### RunLoopProofs

`LoopTypes` and `NoWakeupLost` (`NoLostWakeup`), about the composition. Every step of
the loop is a step of `TaskManager` or leaves it alone but for a `notify()` that is
owed, so the invariants of `TaskManagerProofs` (`ManagerInv`) hold inside it.
`WatchInv` says of each place between two looks at a source what may have changed
behind the loop's back: then the generation has moved since it was recorded, or a
`notify()` is still to come (`Told`); and the computed wait ends no later than the
earliest deadline (`DelayTold`). `LoopInv == LoopTypeOK /\ ManagerInv /\ WatchInv`
is inductive.

`LoopKeepsContract`: the loop's specification implements `TaskContract`, too. A step
of the loop that leaves the manager alone but for the `notify()` it owes is silent
(`OwingIsSilent`), and every other one is covered by the refinement of
`TaskManagerProofs`.

### ModuleHubProofs

* `HubTypes` (`TypeOK`), for any modules.
* `FailuresArrive` (`NoFailureLost`), `HubSleepsSafely` (`HubMissesNothing`),
  `WorkerSleepsSafely` (`WorkerMissesNothing`), from
  `Inv == TypeInv /\ LifeInv /\ FailInv /\ HubInv /\ WorkerInv`. `FailInv` follows
  each failure to the one place where it is; `HubInv` and `WorkerInv` say what a
  thread has looked at since it recorded the generation it will wait for.
* `ContractKept` (`KeepsContract`), the refinement of `HubContract`, with
  `MembersInv` and `JoinedInv`: no worker lives before the modules are up and none
  after they have been joined.

### CalendarSchedulerProofs

`TypeCorrect` wherever rules are added. `OneTaskEach` (`RuleHasOneTask`),
`CancelReaches` (`CancelLeavesNothing`) and `ForwardOnly` (`RunsForward`) under
`AddsOnLoop`, as section 3 explains. `TaskInv` says who knows a queued task: the
thread about to record it, or `scheduled_task_id` while nobody is busy with the
rule; `ForwardInv` says that what a thread plans is ahead of the rule's last run,
which rests on a lemma about the scan: it returns an instant after its bound.

`ScanIsRight` (`ScanFindsNext`): what `scan_local_days()` returns is the first instant
after its bound at which the clocks of the zone show a scheduled time for the first
time, gaps, folds and skipped days included. Times shown for the first time are in
the order of the instants that show them, so the first scheduled day whose time
exists and is late enough gives the answer, and no earlier instant hides in a day
before the first scanned one. The days scanned suffice because two scheduled days lie
among them behind the bound, and one change of the clocks leaves out at most one.
The theorem assumes `RegularCalendar`: a change turns the clocks by a day at most,
and every day of the month comes twice within the days of `MonthDays`, as on any
real calendar. `MCCalendarScheduler` assumes the same of its instance, so TLC checks
that its zones and its year are such.

### Only model-checked

* All liveness properties: the prover has no rules for `ENABLED`.
* The two violations, which are counterexamples.

## 5. Not modelled

* `EventNode`, `EventListener` and `event.hpp`: forwarders and value types. `Reply`
  of `request.hpp`: a callback wrapper.
* `Task`: its small-buffer type erasure; a task is an opaque callable.
* `RunLoop`: adding and removing sources, and the predicate of `run_until()`.
* `Module::shutdown()` called by the application itself, from a task or a worker;
  an external notifier that an embedding application sets on a hub.
* `CalendarScheduler`: observer events and run counts, which decide nothing;
  `context.reschedule_*()` inside a calendar callback, which would queue the task
  a second time; the time-shield library below the day.
* Examples, tests and packaging. The tests were read as documentation.

## 6. Plan

1. Done: all components above modelled and checked; every safety invariant and
   action property of the passing runs proved; the three refinements proved, that of
   `TaskContract` also for a manager inside a loop.
2. Next: a contract for the blocking wait of `SyncNotifier`, with its refinement by
   `RunLoop`; action properties of `ModuleHub` that its contract does not state (a
   stopped worker takes no further task); observers and `context.reschedule_*()` in
   `CalendarScheduler`.
