-------------------------------- MODULE EventBus --------------------------------
(***************************************************************************)
(* The typed event bus of include/event_hub/event_bus.hpp, with the        *)
(* lifetime guard that every EventEndpoint hands to it.                    *)
(*                                                                         *)
(* emit() and process() run callbacks on the calling thread and hold no    *)
(* mutex meanwhile, so a thread is a stack of unfinished calls: user code  *)
(* of the innermost one may call the bus again.  Every critical section    *)
(* of a bus mutex is one step.  Payloads are left out: a posted event is   *)
(* its number in the order of posting, an emitted one is number 0.         *)
(*                                                                         *)
(* An awaiter is what the bus sees of an IAwaiterEx: active or not, and    *)
(* polled.                                                                 *)
(***************************************************************************)
EXTENDS Integers, Sequences, FiniteSets, Functions

CONSTANTS
    Types,          \* concrete event types
    Owners,         \* endpoints
    Awaiters,       \* awaiters that may be registered
    Threads,        \* threads that call emit()
    Pumps,          \* the threads of these that call process()
    Reentrant,      \* whether user code inside a bus call calls process()
    Guards,         \* subset of {"none", "owner"}: the subscribe() overloads used
    Handled,        \* subset of BOOLEAN: TRUE when a handler may be installed
    Producers,      \* bound: threads between an enqueue and its notify()
    MaxEvent,       \* bound: number of posts
    MaxSub,         \* bound: number of subscriptions
    MaxDepth        \* bound: nesting of bus calls in one thread

ASSUME BusAssumption ==
    /\ Pumps \subseteq Threads
    /\ Reentrant \in BOOLEAN
    /\ Guards \subseteq {"none", "owner"}
    /\ Handled \subseteq BOOLEAN
    /\ MaxEvent \in Nat /\ MaxSub \in Nat
    /\ MaxDepth \in Nat \ {0} /\ Producers \in Nat \ {0}

Events == 1..MaxEvent
Subs == 1..MaxSub

VARIABLES
    callbacks,      \* m_callbacks: the subscriptions per type; a subscription is
                    \* its number in the order of push_back(), and so a set of
                    \* them has the order of its vector
    record,         \* CallbackRecord of every subscription: owner and guard
    queue,          \* m_event_queue
    posted,         \* QueuedEvent::type of every event posted so far
    awaiters,       \* m_awaiters
    active,         \* awaiters whose is_active() holds
    handler,        \* whether m_exception_handler is set
    open,           \* endpoints that still hold m_guard
    closing,        \* endpoints inside close(), past m_guard.reset()
    stack,          \* per thread, its unfinished emit() and process() calls
    owed,           \* notify() calls that finished posts still owe
    begun,          \* history: posted events whose dispatch has begun
    dropped         \* history: posted events dropped by clear_pending()

subVars     == <<callbacks, record>>
queueVars   == <<queue, posted, owed, dropped>>
awaiterVars == <<awaiters, active>>
ownerVars   == <<open, closing>>
vars == <<subVars, queueVars, awaiterVars, ownerVars, handler, stack, begun>>

\* A call of emit() or process().  `left' is local_queue behind its front,
\* `event' that front, `todo' the records dispatch() has copied and not reached,
\* `run' the record whose callback is running, and `live' the awaiters that
\* poll_awaiters() has copied and not reached.
Frame == [call : {"emit", "process"},
          step : {"draining", "dispatching", "running", "handling", "unwinding",
                  "polling", "timing"},
          left : Seq(Events), event : Events \cup {0}, todo : SUBSET Subs,
          run : Subs \cup {0}, live : SUBSET Awaiters]

\* Thread t is at a step of its innermost call.
In(t, step) == stack[t] # <<>> /\ stack[t][1].step = step

\* Thread t runs user code: outside the bus, in a callback, in the exception
\* handler or in an awaiter's on_timeout.
InUserCode(t) ==
    \A step \in {"draining", "dispatching", "unwinding", "polling"} : ~In(t, step)

\* Frames whose `alive' keeps the guard of endpoint o from expiring.
Holders(o) ==
    {p \in Threads \X (1..MaxDepth) :
        /\ p[2] \in DOMAIN stack[p[1]]
        /\ stack[p[1]][p[2]].run # 0
        /\ record[stack[p[1]][p[2]].run] = [owner |-> o, guard |-> "owner"]}

\* weak_ptr::lock() of record r's guard fails.
Expired(r) ==
    \/ record[r].guard = "null"
    \/ /\ record[r].guard = "owner"
       /\ record[r].owner \notin open
       /\ Holders(record[r].owner) = {}

Init ==
    /\ callbacks = [ty \in Types |-> {}]
    /\ record = <<>>
    /\ queue = <<>> /\ posted = <<>>
    /\ awaiters = {} /\ active = {}
    /\ handler = FALSE
    /\ open = Owners /\ closing = {}
    /\ stack = [t \in Threads |-> <<>>]
    /\ owed = 0
    /\ begun = {} /\ dropped = {}

--------------------------------------------------------------------------------
(* Calls that are one critical section each: any thread, callbacks included. *)

\* enqueue(): the event goes to the back, and one notify() follows the unlock.
Post(ty) ==
    /\ Len(posted) < MaxEvent /\ owed < Producers
    /\ posted' = Append(posted, ty)
    /\ queue' = Append(queue, Len(posted'))
    /\ owed' = owed + 1
    /\ UNCHANGED <<subVars, dropped, awaiterVars, ownerVars, handler, stack, begun>>

\* notify_work_available() after the queue mutex is released.
Notify ==
    /\ owed > 0
    /\ owed' = owed - 1
    /\ UNCHANGED <<subVars, queue, posted, dropped, awaiterVars, ownerVars, handler,
                   stack, begun>>

\* clear_pending(): the queue only, not what a running process() has captured.
ClearPending ==
    /\ queue # <<>>
    /\ dropped' = dropped \cup Range(queue)
    /\ queue' = <<>>
    /\ UNCHANGED <<subVars, posted, owed, awaiterVars, ownerVars, handler, stack,
                   begun>>

\* EventBus::subscribe(owner, ...) and EventEndpoint::subscribe(): the
\* endpoint's guard is a null weak_ptr once the endpoint is closed.
GuardOf(o, g) == IF g = "owner" /\ o \notin open THEN "null" ELSE g

Subscribe(o, ty, g) ==
    /\ Len(record) < MaxSub
    /\ record' = Append(record, [owner |-> o, guard |-> GuardOf(o, g)])
    /\ callbacks' = [callbacks EXCEPT ![ty] = @ \cup {Len(record')}]
    /\ UNCHANGED <<queueVars, awaiterVars, ownerVars, handler, stack, begun>>

OwnedBy(o) == {r \in DOMAIN record : record[r].owner = o}

\* std::remove_if over the records of each type.
Erase(types, drop) ==
    /\ callbacks' = [ty \in Types |-> IF ty \in types
                                      THEN callbacks[ty] \ drop
                                      ELSE callbacks[ty]]
    /\ UNCHANGED <<record, queueVars, awaiterVars, open, handler, stack, begun>>

Unsubscribe(s) ==
    /\ \E ty \in Types : s \in callbacks[ty]
    /\ Erase(Types, {s})
    /\ UNCHANGED closing

\* unsubscribe_all(owner), and unsubscribe_all<EventType>(owner) for one type.
UnsubscribeAll(o, types) ==
    /\ \E ty \in types : callbacks[ty] \cap OwnedBy(o) # {}
    /\ Erase(types, OwnedBy(o))
    /\ UNCHANGED closing

SetExceptionHandler(h) ==
    /\ handler' = h
    /\ UNCHANGED <<subVars, queueVars, awaiterVars, ownerVars, stack, begun>>

RegisterAwaiter(a) ==
    /\ a \notin awaiters \cup active
    /\ awaiters' = awaiters \cup {a}
    /\ active' = active \cup {a}
    /\ UNCHANGED <<subVars, queueVars, ownerVars, handler, stack, begun>>

\* An awaiter is cancelled, matched or destroyed; the bus is not told.
Deactivate(a) ==
    /\ a \in active
    /\ active' = active \ {a}
    /\ UNCHANGED <<subVars, queueVars, awaiters, ownerVars, handler, stack, begun>>

\* EventEndpoint::close(): the guard is reset first ...
CloseBegin(o) ==
    /\ o \in open
    /\ open' = open \ {o}
    /\ closing' = closing \cup {o}
    /\ UNCHANGED <<subVars, queueVars, awaiterVars, handler, stack, begun>>

\* ... and unsubscribe_all() follows.  cancel_awaiters(), between the two, is a
\* Deactivate of each of the endpoint's awaiters.
CloseFinish(o) ==
    /\ o \in closing
    /\ closing' = closing \ {o}
    /\ Erase(Types, OwnedBy(o))

--------------------------------------------------------------------------------
(* emit() and process() of thread t. *)

Call(t, frame) == stack' = [stack EXCEPT ![t] = <<frame>> \o @]
Leave(t) == stack' = [stack EXCEPT ![t] = Tail(@)]

NewFrame == [call |-> "emit", step |-> "dispatching", left |-> <<>>,
             event |-> 0, todo |-> {}, run |-> 0, live |-> {}]

idleVars == <<subVars, awaiterVars, ownerVars, handler>>

\* emit(): dispatch() copies the records of the type under the mutex.
EmitBegin(t, ty) ==
    /\ InUserCode(t) /\ Len(stack[t]) < MaxDepth
    /\ Call(t, [NewFrame EXCEPT !.todo = callbacks[ty]])
    /\ UNCHANGED <<idleVars, queueVars, begun>>

\* process() swaps the whole queue into local_queue.
ProcessBegin(t) ==
    /\ InUserCode(t) /\ Len(stack[t]) < MaxDepth
    /\ stack[t] = <<>> \/ Reentrant
    /\ Call(t, [NewFrame EXCEPT !.call = "process", !.step = "draining",
                                !.left = queue])
    /\ queue' = <<>>
    /\ UNCHANGED <<idleVars, posted, owed, dropped, begun>>

\* The loop of process() reaches the front; dispatch() copies its records.
DispatchNext(t) ==
    /\ In(t, "draining") /\ stack[t][1].left # <<>>
    /\ LET event == Head(stack[t][1].left)
       IN  /\ stack' = [stack EXCEPT
                           ![t][1].step = "dispatching", ![t][1].event = event,
                           ![t][1].left = Tail(@),
                           ![t][1].todo = callbacks[posted[event]]]
           /\ begun' = begun \cup {event}
    /\ UNCHANGED <<idleVars, queueVars>>

\* The copied records walked from the back.
LastOf(todo) == CHOOSE r \in todo : \A s \in todo : r >= s

\* The record that dispatch() reaches next.
FirstOf(todo) == CHOOSE r \in todo : \A s \in todo : r <= s

\* A dispatch that forgets the guard.
NeverLapsed(r) == FALSE

\* The guard of the next record does not lock, so the record is skipped.
Lapsed(r) == Expired(r)

SkipCallback(t) ==
    /\ In(t, "dispatching") /\ stack[t][1].todo # {}
    /\ Lapsed(FirstOf(stack[t][1].todo))
    /\ stack' = [stack EXCEPT ![t][1].todo = @ \ {FirstOf(@)}]
    /\ UNCHANGED <<idleVars, queueVars, begun>>

\* The guard locks, `alive' holds it, and the callback starts.
StartCallback(t) ==
    /\ In(t, "dispatching") /\ stack[t][1].todo # {}
    /\ ~Lapsed(FirstOf(stack[t][1].todo))
    /\ stack' = [stack EXCEPT ![t][1].step = "running",
                              ![t][1].run = FirstOf(stack[t][1].todo),
                              ![t][1].todo = @ \ {FirstOf(@)}]
    /\ UNCHANGED <<idleVars, queueVars, begun>>

\* The lifetime of `alive' wrong: it is kept when the callback is over.
ReturnHoldingAlive(t, step) ==
    /\ In(t, step)
    /\ stack' = [stack EXCEPT ![t][1].step = "dispatching"]
    /\ UNCHANGED <<idleVars, queueVars, begun>>

\* The callback returns, or the handler has taken its exception: `alive' goes.
ReturnFrom(t, step) ==
    /\ In(t, step)
    /\ stack' = [stack EXCEPT ![t][1].step = "dispatching", ![t][1].run = 0]
    /\ UNCHANGED <<idleVars, queueVars, begun>>

CallbackReturns(t) == ReturnFrom(t, "running")
HandlerReturns(t) == ReturnFrom(t, "handling")

\* An exception leaves dispatch(): `alive' and the copied records go.
Unwind(t) ==
    /\ stack' = [stack EXCEPT ![t][1].step = "unwinding", ![t][1].run = 0,
                              ![t][1].todo = {}]
    /\ UNCHANGED <<idleVars, queueVars, begun>>

\* report_exception(): without a handler the exception is rethrown.
CallbackThrows(t) ==
    /\ In(t, "running")
    /\ IF handler
       THEN /\ stack' = [stack EXCEPT ![t][1].step = "handling"]
            /\ UNCHANGED <<idleVars, queueVars, begun>>
       ELSE Unwind(t)

HandlerThrows(t) == In(t, "handling") /\ Unwind(t)

EventDone(t) ==
    /\ In(t, "dispatching") /\ stack[t][1].todo = {}
    /\ stack[t][1].call = "process"
    /\ stack' = [stack EXCEPT ![t][1].step = "draining", ![t][1].event = 0]
    /\ UNCHANGED <<idleVars, queueVars, begun>>

\* Not restored, restored behind the newer posts, and with the event that failed.
RestoredNowhere(frame) == queue
RestoredBehind(frame) == queue \o frame.left
RestoredAgain(frame) == <<frame.event>> \o frame.left \o queue

\* restore_unprocessed_events(): what is left of local_queue goes back in front
\* of the events posted meanwhile; the event that failed has been popped.
Restored(frame) == frame.left \o queue

\* The exception leaves the call, to user code that may catch it or let it go
\* on.  poll_awaiters() is not reached.
Rethrow(t) ==
    /\ In(t, "unwinding")
    /\ queue' = IF stack[t][1].call = "process" THEN Restored(stack[t][1])
                                                ELSE queue
    /\ Leave(t)
    /\ UNCHANGED <<idleVars, posted, owed, dropped, begun>>

\* The end of emit() and of process(): poll_awaiters() forgets the awaiters
\* that are inactive and copies the others.
PollBegin(t) ==
    /\ \/ In(t, "dispatching") /\ stack[t][1].todo = {}
                               /\ stack[t][1].call = "emit"
       \/ In(t, "draining") /\ stack[t][1].left = <<>>
    /\ awaiters' = awaiters \cap active
    /\ stack' = [stack EXCEPT ![t][1].step = "polling",
                              ![t][1].live = awaiters \cap active]
    /\ UNCHANGED <<subVars, active, ownerVars, handler, queueVars, begun>>

\* poll_timeout() of a copied awaiter: nothing to do, or the awaiter has timed
\* out or its token is cancelled, and it runs user code.  It never throws.
PollOne(t, a) ==
    /\ In(t, "polling") /\ a \in stack[t][1].live
    /\ \/ /\ stack' = [stack EXCEPT ![t][1].live = @ \ {a}]
          /\ UNCHANGED active
       \/ /\ a \in active
          /\ active' = active \ {a}
          /\ stack' = [stack EXCEPT ![t][1].live = @ \ {a},
                                    ![t][1].step = "timing"]
    /\ UNCHANGED <<subVars, awaiters, ownerVars, handler, queueVars, begun>>

TimeoutReturns(t) ==
    /\ In(t, "timing")
    /\ stack' = [stack EXCEPT ![t][1].step = "polling"]
    /\ UNCHANGED <<idleVars, queueVars, begun>>

CallReturns(t) ==
    /\ In(t, "polling") /\ stack[t][1].live = {}
    /\ Leave(t)
    /\ UNCHANGED <<idleVars, queueVars, begun>>

--------------------------------------------------------------------------------

Clients ==
    \/ \E ty \in Types : Post(ty)
    \/ Notify
    \/ ClearPending
    \/ \E o \in Owners, ty \in Types, g \in Guards : Subscribe(o, ty, g)
    \/ \E s \in Subs : Unsubscribe(s)
    \/ \E o \in Owners : UnsubscribeAll(o, Types)
    \/ \E o \in Owners, ty \in Types : UnsubscribeAll(o, {ty})
    \/ \E h \in Handled : SetExceptionHandler(h)
    \/ \E a \in Awaiters : RegisterAwaiter(a) \/ Deactivate(a)
    \/ \E o \in Owners : CloseBegin(o) \/ CloseFinish(o)

\* The steps inside a call that no user code takes.
Inside(t) ==
    \/ DispatchNext(t) \/ SkipCallback(t) \/ StartCallback(t)
    \/ EventDone(t) \/ Rethrow(t) \/ PollBegin(t)
    \/ \E a \in Awaiters : PollOne(t, a)
    \/ CallReturns(t)

\* The ends of user code inside a call.
UserEnds(t) ==
    \/ CallbackReturns(t) \/ CallbackThrows(t)
    \/ HandlerReturns(t) \/ HandlerThrows(t)
    \/ TimeoutReturns(t)

Next ==
    \/ Clients
    \/ \E t \in Threads :
          \/ \E ty \in Types : EmitBegin(t, ty)
          \/ Inside(t)
          \/ UserEnds(t)
    \/ \E t \in Pumps : ProcessBegin(t)

Spec == Init /\ [][Next]_vars

--------------------------------------------------------------------------------
(* Properties. *)

\* Every variable has its type; a frame holds a record, and so its guard, exactly
\* while user code runs for that record, and only process() has a local queue.
TypeOK ==
    /\ callbacks \in [Types -> SUBSET Subs]
    /\ record \in Seq([owner : Owners, guard : {"none", "owner", "null"}])
    /\ Len(record) <= MaxSub
    /\ queue \in Seq(Events) /\ posted \in Seq(Types) /\ Len(posted) <= MaxEvent
    /\ awaiters \subseteq Awaiters /\ active \subseteq Awaiters
    /\ handler \in BOOLEAN
    /\ open \subseteq Owners /\ closing \subseteq Owners
    /\ stack \in [Threads -> Seq(Frame)]
    /\ \A t \in Threads : \A i \in DOMAIN stack[t] :
          /\ stack[t][i].run # 0 <=> stack[t][i].step \in {"running", "handling"}
          /\ stack[t][i].call = "emit" => stack[t][i].left = <<>>
    /\ owed \in 0..Producers
    /\ begun \subseteq Events /\ dropped \subseteq Events

\* The places where event e waits for its dispatch: positions of m_event_queue,
\* and positions of the local queues of unfinished process() calls.
QueuedAt(e) == {i \in DOMAIN queue : queue[i] = e}

CapturedAt(e) ==
    UNION {{<<p, i>> : i \in {k \in DOMAIN stack[p[1]][p[2]].left :
                                 stack[p[1]][p[2]].left[k] = e}} :
           p \in {q \in Threads \X (1..MaxDepth) : q[2] \in DOMAIN stack[q[1]]}}

\* No posted event is lost, duplicated or dispatched twice, by exceptions that
\* put a captured queue back, by nested or concurrent process() calls or by
\* clear_pending(): it waits in one place, or it was dispatched, or dropped.
EventsAccounted ==
    \A e \in 1..Len(posted) :
        Cardinality(QueuedAt(e)) + Cardinality(CapturedAt(e))
            + Cardinality({e} \cap begun) + Cardinality({e} \cap dropped) = 1

\* With one thread calling process(), and not from a callback, events are
\* dispatched in the order in which they were posted, also after an exception
\* has put the rest of a captured queue back among newer posts.
DispatchedInOrder ==
    \A e \in begun : \A d \in 1..(e - 1) : d \in begun \cup dropped

\* Once an endpoint has reset its guard and none of its guarded callbacks is
\* running, none of them ever runs again, whoever has copied its records.
QuietAfterClose ==
    [][\A o \in Owners : o \notin open /\ Holders(o) = {} => Holders(o)' = {}]_vars

--------------------------------------------------------------------------------
(* The promise of BusContract, read off the implementation. *)

\* The unfinished calls that dispatch event e.
CallsFor(e) == UNION {{f \in Range(stack[t]) : f.event = e} : t \in Threads}

FateOf(e) ==
    CASE e > Len(posted) -> "new"
      [] e \in dropped -> "dropped"
      [] e \in begun -> IF CallsFor(e) = {} THEN "done" ELSE "dispatching"
      [] OTHER -> "waiting"

DueFor(e) == UNION {f.todo : f \in CallsFor(e)}
CalledFor(e) == {f.run : f \in CallsFor(e)} \ {0}

\* Records whose guard is null or that of an endpoint that has reset it.
GivenUp ==
    {r \in DOMAIN record :
        \/ record[r].guard = "null"
        \/ record[r].guard = "owner" /\ record[r].owner \notin open}

Contract == INSTANCE BusContract WITH
                fate <- [e \in Events |-> FateOf(e)],
                members <- callbacks,
                made <- Len(record),
                mute <- GivenUp,
                due <- [e \in Events |-> DueFor(e)],
                called <- [e \in Events |-> CalledFor(e)]

\* However many threads emit and process, nested in callbacks or not, and whatever
\* throws: a posted event is dispatched once at most, to the subscriptions its
\* type had when its dispatch began, in their order, one callback at a time; one
\* is passed over only if its endpoint has closed, and those behind a callback
\* that throws are left out.
KeepsContract == Contract!ContractSpec
================================================================================
