------------------------------ MODULE TaskManager ------------------------------
(***************************************************************************)
(* The passive multi-producer, single-consumer task manager of             *)
(* include/event_hub/task_manager.hpp.                                     *)
(*                                                                         *)
(* Producer threads submit and cancel tasks; one consumer thread calls     *)
(* process().  Every critical section of m_mutex in which the code loops   *)
(* is split into one step per iteration with the mutex held, and the two   *)
(* atomic operations of cancel() are separate steps, because process()     *)
(* moves a task from ready_snapshot to executing WITHOUT the mutex.        *)
(*                                                                         *)
(* A task is its id: the closure is opaque, and what a callback may do     *)
(* (use its TaskContext, throw, return) is a choice of the model.  Seq     *)
(* numbers are left out: they only break ties of m_delayed_heap in         *)
(* insertion order, which the sequence `delayed' keeps by itself.          *)
(***************************************************************************)
EXTENDS Integers, Sequences, FiniteSets

CONSTANTS
    MaxId,          \* bound: number of ids handed out by next_id()
    MaxTime,        \* bound: last instant of the steady clock
    Urgencies,      \* priorities used by submitters, a subset of Priority
    Dues,           \* deadlines used by submitters and by reschedule_at()
    Intervals,      \* periods used by post_every*(); {} for no periodic task
    Schedules,      \* subset of {"fixed_delay", "fixed_rate"}
    Quotas,         \* values of max_tasks passed to process()
    BatchSizes,     \* numbers of tasks in one post_batch()
    Handlers,       \* subset of HandlerKinds passed to set_exception_handler()
    Producers       \* bound: threads between an accepted call and its notify()

Ids == 1..MaxId
Priority == 0..2
HandlerKinds == {"none", "returns", "throws"}

ASSUME BoundsAssumption ==
    /\ MaxId \in Nat /\ MaxTime \in Nat /\ Producers \in Nat \ {0}
    /\ Urgencies \subseteq Priority
    /\ Handlers \subseteq HandlerKinds
    /\ Schedules \subseteq {"fixed_delay", "fixed_rate"}

\* post_every_after() rejects a period <= 0 and process(0) returns at once.
ASSUME ArgumentsAssumption ==
    /\ Dues \subseteq Nat
    /\ Intervals \subseteq Nat \ {0}
    /\ Quotas \subseteq Nat \ {0}
    /\ BatchSizes \subseteq Nat \ {0}

VARIABLES
    state,          \* Control::state of every id ("none" before submission)
    entry,          \* Entry: priority, due (= planned_due), interval, schedule
    resched,        \* Control::reschedule_due, NoDue when not requested
    index,          \* keys of m_index
    ready,          \* m_ready: a deque of ids per priority, cancelled ones too
    delayed,        \* m_delayed_heap in pop order, cancelled ones too
    readyCount,     \* m_ready_count
    pendingCount,   \* m_pending_count
    nextId,         \* m_next_id
    closed,         \* m_closed
    handler,        \* m_exception_handler
    now,            \* Clock::now()
    owed,           \* notify() calls that accepted submissions still owe
    cancelling,     \* id whose cancel() holds the mutex, 0 when none
    seen,           \* the state that cancel() loaded
    pc,             \* where the consumer thread is in process()
    passNow,        \* Clock::now() as promote_due_locked() got it
    room,           \* entries the snapshot may still take
    batch,          \* entries of the snapshot the loop has not reached
    cur             \* id of the task whose callback is running, 0 when none

taskVars     == <<state, entry, resched, index>>
queueVars    == <<ready, delayed, readyCount, pendingCount>>
consumerVars == <<pc, passNow, room, batch, cur>>
cancelVars   == <<cancelling, seen>>
envVars      == <<closed, handler, now>>
vars == <<taskVars, queueVars, consumerVars, cancelVars, envVars, nextId, owed>>

NoDue == -1
NoEntry == [priority |-> 1, due |-> 0, interval |-> 0,
            schedule |-> "fixed_delay"]

State == {"none", "queued_ready", "queued_delayed", "ready_snapshot",
          "executing", "cancelled", "completed"}
Entry == [priority : Priority, due : Nat, interval : Nat,
          schedule : {"fixed_delay", "fixed_rate"}]
Steps == {"idle", "promoting", "taking", "scanning", "counting", "running",
          "failing", "restoring"}

Periodic(id) == entry[id].interval > 0

Elems(s) == {s[i] : i \in DOMAIN s}

\* m_mutex: the consumer holds it while it promotes, takes and restores, and
\* cancel() between its load and its compare-exchange; every other critical
\* section is one step.
MutexFree ==
    /\ pc \notin {"promoting", "taking", "restoring"}
    /\ cancelling = 0

\* The consumer thread is in user code: between two process() calls, inside a
\* task callback or inside the exception handler.
ConsumerInUserCode == pc \in {"idle", "running", "failing"}

Init ==
    /\ state = [id \in Ids |-> "none"]
    /\ entry = [id \in Ids |-> NoEntry]
    /\ resched = [id \in Ids |-> NoDue]
    /\ index = {}
    /\ ready = [p \in Priority |-> <<>>]
    /\ delayed = <<>>
    /\ readyCount = 0 /\ pendingCount = 0
    /\ nextId = 1
    /\ closed = FALSE
    /\ handler = "none"
    /\ now = 0
    /\ owed = 0
    /\ cancelling = 0 /\ seen = "none"
    /\ pc = "idle" /\ passNow = 0 /\ room = 0 /\ batch = <<>> /\ cur = 0

--------------------------------------------------------------------------------
(* Queues. *)

\* The heap with its comparison the wrong way round.
InsertDelayedLatest(s, id, due) ==
    LET k == Cardinality({i \in DOMAIN s : entry[s[i]].due >= due})
    IN  [i \in 1..(Len(s) + 1) |->
            IF i <= k THEN s[i] ELSE IF i = k + 1 THEN id ELSE s[i - 1]]

\* std::push_heap with DelayedSooner: behind every entry that is due no later.
InsertDelayed(s, id, due) ==
    LET k == Cardinality({i \in DOMAIN s : entry[s[i]].due <= due})
    IN  [i \in 1..(Len(s) + 1) |->
            IF i <= k THEN s[i] ELSE IF i = k + 1 THEN id ELSE s[i - 1]]

\* A deadline that is not in the future.
IsDueSoon(due, t) == due <= t + 1
IsDue(due, t) == due <= t

\* Queue id with entry e: ready when it is due by the clock that is read here,
\* delayed otherwise.  The part enqueue_periodic_locked() and
\* enqueue_existing_locked() share.
Place(id, e) ==
    /\ entry' = [entry EXCEPT ![id] = e]
    /\ IF IsDue(e.due, now')
       THEN /\ state' = [state EXCEPT ![id] = "queued_ready"]
            /\ ready' = [ready EXCEPT ![e.priority] = Append(@, id)]
            /\ readyCount' = readyCount + 1
            /\ UNCHANGED delayed
       ELSE /\ state' = [state EXCEPT ![id] = "queued_delayed"]
            /\ delayed' = InsertDelayed(delayed, id, e.due)
            /\ UNCHANGED <<ready, readyCount>>

\* prune_delayed_top_locked(): an entry that is dropped when it is on top.
Dead(id) == state[id] \in {"cancelled", "completed"}

--------------------------------------------------------------------------------
(* Producers: any thread, task callbacks included. *)

\* The guards every submission checks under the mutex.
Accepts(k) ==
    /\ MutexFree
    /\ ~closed
    /\ nextId + k - 1 <= MaxId
    /\ owed < Producers

\* enqueue_ready_locked(), k times in one critical section, then one notify().
EnqueueReady(p, k) ==
    LET new == nextId..(nextId + k - 1)
    IN  /\ Accepts(k)
        /\ state' = [id \in Ids |->
                        IF id \in new THEN "queued_ready" ELSE state[id]]
        /\ entry' = [id \in Ids |->
                        IF id \in new THEN [NoEntry EXCEPT !.priority = p]
                                      ELSE entry[id]]
        /\ index' = index \cup new
        /\ ready' = [ready EXCEPT ![p] =
                        @ \o [i \in 1..k |-> nextId + i - 1]]
        /\ readyCount' = readyCount + k
        /\ pendingCount' = pendingCount + k
        /\ nextId' = nextId + k
        /\ owed' = owed + 1
        /\ UNCHANGED <<resched, delayed, consumerVars, cancelVars, envVars>>

\* Place a new task, then one notify().
EnqueueNew(e) ==
    /\ Accepts(1)
    /\ UNCHANGED <<resched, consumerVars, cancelVars, envVars>>
    /\ Place(nextId, e)
    /\ index' = index \cup {nextId}
    /\ pendingCount' = pendingCount + 1
    /\ nextId' = nextId + 1
    /\ owed' = owed + 1

Post(p) == EnqueueReady(p, 1)

PostBatch(p, k) == EnqueueReady(p, k)

\* A deadline that has passed makes an ordinary ready task of it.
PostAt(p, due) ==
    IF IsDue(due, now)
    THEN EnqueueReady(p, 1)
    ELSE EnqueueNew([NoEntry EXCEPT !.priority = p, !.due = due])

\* The first deadline was computed before the lock, so it may have passed.
PostEvery(p, due, interval, schedule) ==
    EnqueueNew([priority |-> p, due |-> due, interval |-> interval,
                schedule |-> schedule])

\* notify_work_available(), after the mutex has been released.
Notify ==
    /\ owed > 0
    /\ owed' = owed - 1
    /\ UNCHANGED <<taskVars, queueVars, consumerVars, cancelVars, envVars,
                   nextId>>

\* cancel(): the mutex is taken, the id is found and its state loaded.  A task
\* that is not cancellable any more makes cancel() return false at once.
CancelLoad(id) ==
    /\ MutexFree
    /\ id \in index
    /\ \/ state[id] \in {"queued_ready", "queued_delayed", "ready_snapshot"}
       \/ state[id] = "executing" /\ Periodic(id)
    /\ cancelling' = id
    /\ seen' = state[id]
    /\ UNCHANGED <<taskVars, queueVars, consumerVars, envVars, nextId, owed>>

\* The snapshot's entries were already subtracted when they were taken.
ReadyShareTwice(s) == IF s \in {"queued_ready", "ready_snapshot"} THEN 1 ELSE 0

\* What a cancelled task had contributed to m_ready_count.
ReadyShare(s) == IF s = "queued_ready" THEN 1 ELSE 0

\* A running series stays in m_index until its callback returns.
NeverStaysIndexed(s) == FALSE
StaysIndexed(s) == s = "executing"

\* cancel(): the compare-exchange succeeds, and the counters and the index
\* follow.
CancelCommit ==
    /\ cancelling # 0
    /\ state[cancelling] = seen
    /\ state' = [state EXCEPT ![cancelling] = "cancelled"]
    /\ pendingCount' = pendingCount - 1
    /\ readyCount' = readyCount - ReadyShare(seen)
    /\ index' = IF StaysIndexed(seen) THEN index ELSE index \ {cancelling}
    /\ resched' = IF seen = "executing"
                  THEN [resched EXCEPT ![cancelling] = NoDue] ELSE resched
    /\ cancelling' = 0 /\ seen' = "none"
    /\ UNCHANGED <<entry, ready, delayed, consumerVars, envVars, nextId, owed>>

\* cancel(): process() started the task after the load; cancel() returns false.
CancelLost ==
    /\ cancelling # 0
    /\ state[cancelling] # seen
    /\ cancelling' = 0 /\ seen' = "none"
    /\ UNCHANGED <<taskVars, queueVars, consumerVars, envVars, nextId, owed>>

\* next_deadline(): prune_delayed_top_locked(), from any thread.
NextDeadline ==
    /\ MutexFree
    /\ \E k \in 2..(Len(delayed) + 1) :
         /\ \A i \in 1..(k - 1) : Dead(delayed[i])
         /\ k <= Len(delayed) => ~Dead(delayed[k])
         /\ delayed' = SubSeq(delayed, k, Len(delayed))
    /\ UNCHANGED <<taskVars, ready, readyCount, pendingCount, consumerVars,
                   cancelVars, envVars, nextId, owed>>

SetExceptionHandler(h) ==
    /\ handler' = h
    /\ UNCHANGED <<taskVars, queueVars, consumerVars, cancelVars, closed, now,
                   nextId, owed>>

\* The steady clock moves at any time.
Tick ==
    /\ now < MaxTime
    /\ now' = now + 1
    /\ UNCHANGED <<taskVars, queueVars, consumerVars, cancelVars, closed,
                   handler, nextId, owed>>

--------------------------------------------------------------------------------
(* The lifetime calls of the consumer thread. *)

\* close(); only the first call notifies.
Close ==
    /\ MutexFree /\ ConsumerInUserCode
    /\ ~closed
    /\ owed < Producers
    /\ closed' = TRUE
    /\ owed' = owed + 1
    /\ UNCHANGED <<taskVars, queueVars, consumerVars, cancelVars, handler, now,
                   nextId>>

\* clear_pending(): everything queued is cancelled; a snapshot is not queued.
ClearPending ==
    LET inReady   == UNION {Elems(ready[p]) : p \in Priority}
        dropReady == {id \in inReady : state[id] = "queued_ready"}
        dropLater == {id \in Elems(delayed) : state[id] = "queued_delayed"}
        dropped   == dropReady \cup dropLater
    IN  /\ MutexFree /\ ConsumerInUserCode
        /\ inReady \cup Elems(delayed) # {}
        /\ state' = [id \in Ids |->
                        IF id \in dropped THEN "cancelled" ELSE state[id]]
        /\ index' = index \ dropped
        /\ readyCount' = readyCount - Cardinality(dropReady)
        /\ pendingCount' = pendingCount - Cardinality(dropped)
        /\ ready' = [p \in Priority |-> <<>>]
        /\ delayed' = <<>>
        /\ UNCHANGED <<entry, resched, consumerVars, cancelVars, envVars,
                       nextId, owed>>

--------------------------------------------------------------------------------
(* process(): promote, take a snapshot, run it. *)

ProcessBegin(quota) ==
    /\ pc = "idle" /\ MutexFree
    /\ pc' = "promoting"
    /\ passNow' = now
    /\ room' = quota
    /\ UNCHANGED <<taskVars, queueVars, batch, cur, cancelVars, envVars, nextId,
                   owed>>

\* promote_due_locked(): the top is cancelled and dropped.
PruneTop ==
    /\ pc = "promoting"
    /\ delayed # <<>>
    /\ Dead(Head(delayed))
    /\ delayed' = Tail(delayed)
    /\ UNCHANGED <<taskVars, ready, readyCount, pendingCount, consumerVars,
                   cancelVars, envVars, nextId, owed>>

\* promote_due_locked(): the top is due and becomes ready.
PromoteTop ==
    /\ pc = "promoting"
    /\ delayed # <<>>
    /\ LET id == Head(delayed)
           p  == entry[id].priority
       IN  /\ state[id] = "queued_delayed"
           /\ IsDue(entry[id].due, passNow)
           /\ state' = [state EXCEPT ![id] = "queued_ready"]
           /\ ready' = [ready EXCEPT ![p] = Append(@, id)]
    /\ delayed' = Tail(delayed)
    /\ readyCount' = readyCount + 1
    /\ UNCHANGED <<entry, resched, index, pendingCount, consumerVars,
                   cancelVars, envVars, nextId, owed>>

PromoteDone ==
    /\ pc = "promoting"
    /\ delayed # <<>> => /\ ~Dead(Head(delayed))
                         /\ ~IsDue(entry[Head(delayed)].due, passNow)
    /\ pc' = "taking"
    /\ UNCHANGED <<taskVars, queueVars, passNow, room, batch, cur, cancelVars,
                   envVars, nextId, owed>>

\* The queues in any order.
TakesFromAny(p) == pc = "taking" /\ room > 0 /\ ready[p] # <<>>

\* take_ready_batch_locked() visits the queues in the order of m_ready.
TakesFrom(p) ==
    /\ pc = "taking"
    /\ room > 0
    /\ ready[p] # <<>>
    /\ \A q \in Priority : q < p => ready[q] = <<>>

TakeOne(p) ==
    /\ TakesFrom(p)
    /\ state[Head(ready[p])] = "queued_ready"
    /\ state' = [state EXCEPT ![Head(ready[p])] = "ready_snapshot"]
    /\ ready' = [ready EXCEPT ![p] = Tail(@)]
    /\ readyCount' = readyCount - 1
    /\ batch' = Append(batch, Head(ready[p]))
    /\ room' = room - 1
    /\ UNCHANGED <<entry, resched, index, delayed, pendingCount, pc, passNow,
                   cur, cancelVars, envVars, nextId, owed>>

\* A cancelled entry is popped and takes no room in the batch.
TakeSkip(p) ==
    /\ TakesFrom(p)
    /\ state[Head(ready[p])] # "queued_ready"
    /\ ready' = [ready EXCEPT ![p] = Tail(@)]
    /\ UNCHANGED <<taskVars, delayed, readyCount, pendingCount, consumerVars,
                   cancelVars, envVars, nextId, owed>>

TakeDone ==
    /\ pc = "taking"
    /\ room = 0 \/ \A p \in Priority : ready[p] = <<>>
    /\ pc' = "scanning"
    /\ room' = 0 /\ passNow' = 0
    /\ UNCHANGED <<taskVars, queueVars, batch, cur, cancelVars, envVars, nextId,
                   owed>>

\* The lock-free compare-exchange ready_snapshot -> executing.
StartTask ==
    /\ pc = "scanning"
    /\ batch # <<>>
    /\ LET id == Head(batch)
       IN  /\ state[id] = "ready_snapshot"
           /\ state' = [state EXCEPT ![id] = "executing"]
           /\ cur' = id
           /\ pc' = IF Periodic(id) THEN "running" ELSE "counting"
    /\ batch' = Tail(batch)
    /\ UNCHANGED <<entry, resched, index, queueVars, passNow, room, cancelVars,
                   envVars, nextId, owed>>

\* The compare-exchange fails: the task was cancelled in the snapshot.
SkipTask ==
    /\ pc = "scanning"
    /\ batch # <<>>
    /\ state[Head(batch)] # "ready_snapshot"
    /\ batch' = Tail(batch)
    /\ UNCHANGED <<taskVars, queueVars, pc, passNow, room, cur, cancelVars,
                   envVars, nextId, owed>>

\* decrement_pending_count() of a one-shot task, a separate atomic operation.
CountStarted ==
    /\ pc = "counting"
    /\ pendingCount' = pendingCount - 1
    /\ pc' = "running"
    /\ UNCHANGED <<taskVars, ready, delayed, readyCount, passNow, room, batch,
                   cur, cancelVars, envVars, nextId, owed>>

ProcessReturn ==
    /\ pc = "scanning"
    /\ batch = <<>>
    /\ pc' = "idle"
    /\ UNCHANGED <<taskVars, queueVars, passNow, room, batch, cur, cancelVars,
                   envVars, nextId, owed>>

--------------------------------------------------------------------------------
(* Inside a callback: TaskContext. *)

\* The callback of cur is running and is about to take the mutex.
InCallback == pc = "running" /\ MutexFree

ContextCancel ==
    /\ InCallback
    /\ cur \in index
    /\ state[cur] = "executing"
    /\ state' = [state EXCEPT ![cur] = "cancelled"]
    /\ resched' = [resched EXCEPT ![cur] = NoDue]
    /\ pendingCount' = IF Periodic(cur) THEN pendingCount - 1 ELSE pendingCount
    /\ UNCHANGED <<entry, index, ready, delayed, readyCount, consumerVars,
                   cancelVars, envVars, nextId, owed>>

ContextReschedule(due) ==
    /\ InCallback
    /\ ~closed
    /\ cur \in index
    /\ state[cur] = "executing"
    /\ resched' = [resched EXCEPT ![cur] = due]
    /\ UNCHANGED <<state, entry, index, queueVars, consumerVars, cancelVars,
                   envVars, nextId, owed>>

--------------------------------------------------------------------------------
(* The callback returns or throws. *)

\* The task leaves the manager, or has left it, and process() goes on.
Forget(next) ==
    /\ index' = index \ {cur}
    /\ resched' = [resched EXCEPT ![cur] = NoDue]
    /\ cur' = 0
    /\ pc' = next
    /\ UNCHANGED <<entry, ready, delayed, readyCount, passNow, room, batch,
                   cancelVars, envVars, nextId, owed>>

\* An executing task becomes completed; a series stops counting as pending.
Complete ==
    /\ state[cur] = "executing"
    /\ state' = [state EXCEPT ![cur] = "completed"]
    /\ pendingCount' = IF Periodic(cur) THEN pendingCount - 1 ELSE pendingCount

\* finish_after_success(): cancelled while it ran.
FinishCancelled ==
    /\ InCallback
    /\ state[cur] = "cancelled"
    /\ Forget("scanning")
    /\ UNCHANGED <<state, pendingCount>>

\* finish_after_success(): nothing is queued again once the manager is closed.
FinishClosed ==
    /\ InCallback
    /\ closed
    /\ Complete
    /\ Forget("scanning")

\* finish_after_success(): a one-shot task that asked for nothing.
FinishOneShot ==
    /\ InCallback
    /\ ~closed
    /\ resched[cur] = NoDue
    /\ ~Periodic(cur)
    /\ Complete
    /\ Forget("scanning")

\* The compare-exchange from executing is forgotten.
EnqueueExistingUnchecked(due) ==
    /\ Place(cur, [entry[cur] EXCEPT !.due = due])
    /\ pendingCount' = IF Periodic(cur) THEN pendingCount ELSE pendingCount + 1

\* enqueue_existing_locked(): a one-shot task counts as pending again.
EnqueueExisting(due) ==
    /\ state[cur] = "executing"
    /\ Place(cur, [entry[cur] EXCEPT !.due = due])
    /\ pendingCount' = IF Periodic(cur) THEN pendingCount ELSE pendingCount + 1

\* finish_after_success(): reschedule_at() wins over the period.
FinishRescheduled ==
    /\ InCallback
    /\ ~closed
    /\ resched[cur] # NoDue
    /\ UNCHANGED <<index, passNow, room, batch, cancelVars, envVars, nextId,
                   owed>>
    /\ EnqueueExisting(resched[cur])
    /\ resched' = [resched EXCEPT ![cur] = NoDue]
    /\ cur' = 0
    /\ pc' = "scanning"

NextPeriodicDueEarlier(e) ==
    (IF e.schedule = "fixed_rate" THEN e.due ELSE now) - e.interval

\* next_periodic_due()
NextPeriodicDue(e) ==
    (IF e.schedule = "fixed_rate" THEN e.due ELSE now) + e.interval

\* finish_after_success(): the next cycle of a series.  Its deadline is taken
\* from one reading of the clock and compared with a second, later one.
FinishPeriodic ==
    /\ InCallback
    /\ ~closed
    /\ resched[cur] = NoDue
    /\ Periodic(cur)
    /\ now' \in now..MaxTime
    /\ EnqueueExisting(NextPeriodicDue(entry[cur]))
    /\ cur' = 0
    /\ pc' = "scanning"
    /\ UNCHANGED <<resched, index, passNow, room, batch, cancelVars, closed, handler,
                   nextId, owed>>

\* finish_after_exception(): the task stops whatever it had asked for.
CallbackThrows ==
    /\ InCallback
    /\ \/ Complete
       \/ state[cur] = "cancelled" /\ UNCHANGED <<state, pendingCount>>
    /\ Forget("failing")

\* report_exception(): a handler that returns lets process() go on.
ExceptionHandled ==
    /\ pc = "failing"
    /\ handler = "returns"
    /\ pc' = "scanning"
    /\ UNCHANGED <<taskVars, queueVars, passNow, room, batch, cur, cancelVars,
                   envVars, nextId, owed>>

\* No handler, or a handler that throws: restore_unrun() takes the mutex.
ExceptionEscapes ==
    /\ pc = "failing" /\ MutexFree
    /\ handler # "returns"
    /\ pc' = "restoring"
    /\ UNCHANGED <<taskVars, queueVars, passNow, room, batch, cur, cancelVars,
                   envVars, nextId, owed>>

\* push_front(); and what it must not be: push_back(), or nothing.
PutBehind(s, id) == Append(s, id)
PutNowhere(s, id) == s
PutBack(s, id) == <<id>> \o s

\* restore_unrun(), from the back of the batch to the front of the queues.
RestoreOne ==
    /\ pc = "restoring"
    /\ batch # <<>>
    /\ LET id == batch[Len(batch)]
           p  == entry[id].priority
       IN  /\ state[id] = "ready_snapshot"
           /\ state' = [state EXCEPT ![id] = "queued_ready"]
           /\ ready' = [ready EXCEPT ![p] = PutBack(@, id)]
    /\ readyCount' = readyCount + 1
    /\ batch' = SubSeq(batch, 1, Len(batch) - 1)
    /\ UNCHANGED <<entry, resched, index, delayed, pendingCount, pc, passNow,
                   room, cur, cancelVars, envVars, nextId, owed>>

\* restore_unrun(): the compare-exchange of a cancelled entry fails.
RestoreSkip ==
    /\ pc = "restoring"
    /\ batch # <<>>
    /\ state[batch[Len(batch)]] # "ready_snapshot"
    /\ batch' = SubSeq(batch, 1, Len(batch) - 1)
    /\ UNCHANGED <<taskVars, queueVars, pc, passNow, room, cur, cancelVars,
                   envVars, nextId, owed>>

\* The exception leaves process().
Rethrow ==
    /\ pc = "restoring"
    /\ batch = <<>>
    /\ pc' = "idle"
    /\ UNCHANGED <<taskVars, queueVars, passNow, room, batch, cur, cancelVars,
                   envVars, nextId, owed>>

--------------------------------------------------------------------------------
Submit ==
    \/ \E p \in Urgencies : Post(p)
    \/ \E p \in Urgencies, k \in BatchSizes : PostBatch(p, k)
    \/ \E p \in Urgencies, due \in Dues : PostAt(p, due)
    \/ \E p \in Urgencies, due \in Dues, i \in Intervals, s \in Schedules :
            PostEvery(p, due, i, s)

Cancel == (\E id \in Ids : CancelLoad(id)) \/ CancelCommit \/ CancelLost

Environment ==
    \/ Notify
    \/ NextDeadline
    \/ \E h \in Handlers : SetExceptionHandler(h)
    \/ Tick
    \/ Close
    \/ ClearPending

\* The steps of process() that do not depend on what the user's code does.
Advance ==
    \/ PruneTop \/ PromoteTop \/ PromoteDone
    \/ \E p \in Priority : TakeOne(p) \/ TakeSkip(p)
    \/ TakeDone
    \/ StartTask \/ SkipTask \/ CountStarted \/ ProcessReturn
    \/ ExceptionHandled \/ ExceptionEscapes
    \/ RestoreOne \/ RestoreSkip \/ Rethrow

Finish == FinishCancelled \/ FinishClosed \/ FinishOneShot
              \/ FinishRescheduled \/ FinishPeriodic

Callback ==
    \/ ContextCancel
    \/ \E due \in Dues : ContextReschedule(due)
    \/ CallbackThrows

Next ==
    \/ Submit \/ Cancel \/ Environment
    \/ \E q \in Quotas : ProcessBegin(q)
    \/ Advance \/ Finish \/ Callback

Spec == Init /\ [][Next]_vars

--------------------------------------------------------------------------------
(* What is checked. *)

Queued == {"queued_ready", "queued_delayed", "ready_snapshot"}

\* The manager still owes the task a start or, for a series, the next cycle.
Pending(id) ==
    \/ state[id] \in Queued
    \/ state[id] = "executing" /\ Periodic(id)

\* Every variable keeps its type.
TypeOK ==
    /\ state \in [Ids -> State]
    /\ entry \in [Ids -> Entry]
    /\ resched \in [Ids -> Nat \cup {NoDue}]
    /\ index \subseteq Ids
    /\ ready \in [Priority -> Seq(Ids)]
    /\ delayed \in Seq(Ids)
    /\ readyCount \in Int /\ pendingCount \in Int
    /\ nextId \in 1..(MaxId + 1)
    /\ closed \in BOOLEAN
    /\ handler \in HandlerKinds
    /\ now \in Nat
    /\ owed \in 0..Producers
    /\ cancelling \in Ids \cup {0} /\ seen \in State
    /\ pc \in Steps /\ passNow \in Nat /\ room \in Nat
    /\ batch \in Seq(Ids)
    /\ cur \in Ids \cup {0}
    /\ cur # 0 <=> pc \in {"counting", "running"}

NoRepeats(s) == \A i, j \in DOMAIN s : s[i] = s[j] => i = j

ReadyHome ==
    \A p \in Priority :
        /\ NoRepeats(ready[p])
        /\ \A id \in Elems(ready[p]) : /\ state[id] \in {"queued_ready", "cancelled"}
                                      /\ entry[id].priority = p

DelayedHome ==
    /\ NoRepeats(delayed)
    /\ \A id \in Elems(delayed) : state[id] \in {"queued_delayed", "cancelled"}

BatchHome ==
    /\ NoRepeats(batch)
    /\ \A id \in Elems(batch) : state[id] \in {"ready_snapshot", "cancelled"}

Housed ==
    \A id \in Ids :
        /\ state[id] = "queued_ready" => id \in Elems(ready[entry[id].priority])
        /\ state[id] = "queued_delayed" => id \in Elems(delayed)
        /\ state[id] = "ready_snapshot" => id \in Elems(batch)
        /\ state[id] = "executing" => id = cur

\* Lazy cancellation loses and duplicates nothing.  A task that waits is in
\* exactly the container its state names, once, behind its own priority;
\* besides those the containers hold only cancelled tasks, and only the
\* running callback's task is executing.
OneHome == ReadyHome /\ DelayedHome /\ BatchHome /\ Housed

\* m_index finds exactly the tasks that are not finished: a cancel() can
\* reach every task that could still run, and no entry is leaked.
IndexExact ==
    index = {id \in Ids : state[id] \in Queued \cup {"executing"}}
                \cup {id \in Ids : id = cur}

\* A task is in the ready queues, in the snapshot or running only when its
\* deadline has passed, through every promotion, period and reschedule.
NeverEarly ==
    \A id \in Ids :
        state[id] \in {"queued_ready", "ready_snapshot", "executing"} =>
            entry[id].due <= now

\* What the invariants above rest on: ids are fresh, the callback's task is
\* executing or was cancelled meanwhile, cancel() has loaded a live state, and
\* the clock does not run backwards.
Links ==
    /\ \A id \in Ids : id >= nextId => state[id] = "none"
    /\ cur # 0 => state[cur] \in {"executing", "cancelled"}
    /\ cancelling # 0 => seen \in Queued \cup {"executing"}
    /\ passNow <= now

\* ready_count() is exact; pending_count() is exact but for the one-shot task
\* that process() has just started and not yet subtracted.
CountsExact ==
    /\ readyCount = Cardinality({id \in Ids : state[id] = "queued_ready"})
    /\ pendingCount = Cardinality({id \in Ids : Pending(id)})
                          + (IF pc = "counting" THEN 1 ELSE 0)

\* When process() starts its snapshot, no live task that was due on entry is
\* still in the heap, cancelled tops notwithstanding.
AllDuePromoted ==
    pc = "taking" =>
        \A id \in Ids : state[id] = "queued_delayed" => entry[id].due > passNow

\* The snapshot prefers urgency: when it is complete, no ready task left
\* behind is more urgent than one it took, and one is left only for lack of
\* room.
SnapshotMostUrgent ==
    [][pc = "taking" /\ pc' = "scanning" =>
         \A id \in Ids : state[id] = "queued_ready" =>
             /\ room = 0
             /\ \A i \in DOMAIN batch :
                  entry[batch[i]].priority <= entry[id].priority]_vars

--------------------------------------------------------------------------------
(* The promise of TaskContract, read off the implementation. *)

\* A task that is cancelled while its callback runs is stopping until that
\* callback is over.
StatusOf(id) ==
    CASE state[id] = "none" -> "new"
      [] state[id] = "queued_delayed" -> "sleeping"
      [] state[id] \in {"queued_ready", "ready_snapshot"} -> "waiting"
      [] state[id] = "executing" -> "running"
      [] state[id] = "cancelled" /\ id = cur -> "stopping"
      [] OTHER -> "done"

\* A task waits in the snapshot, or behind it in the queue of its priority.
LineOf(p) == {id \in Ids : /\ state[id] \in {"queued_ready", "ready_snapshot"}
                           /\ entry[id].priority = p}

\* a comes before b in the sequence s.
Precedes(s, a, b) == \E j \in DOMAIN s : \E i \in 1..(j - 1) : s[i] = a /\ s[j] = b

ComesFirst(a, b) ==
    /\ entry[a].priority = entry[b].priority
    /\ \/ state[a] = "ready_snapshot" /\ state[b] = "queued_ready"
       \/ /\ state[a] = "ready_snapshot" /\ state[b] = "ready_snapshot"
          /\ Precedes(batch, a, b)
       \/ /\ state[a] = "queued_ready" /\ state[b] = "queued_ready"
          /\ Precedes(ready[entry[a].priority], a, b)

Contract == INSTANCE TaskContract WITH
                status <- [id \in Ids |-> StatusOf(id)],
                line <- [p \in Priority |-> LineOf(p)],
                ahead <- {pair \in Ids \X Ids : ComesFirst(pair[1], pair[2])},
                accepting <- ~closed

\* Through snapshots, exceptions that put a snapshot back, promotions and lazy
\* cancellation, TaskManager keeps FIFO order inside each priority, starts one
\* task at a time, and runs nothing it has dropped, finished or refused.
KeepsContract == Contract!ContractSpec
================================================================================
