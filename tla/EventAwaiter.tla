------------------------------ MODULE EventAwaiter ------------------------------
(***************************************************************************)
(* One EventAwaiter of include/event_hub/event_awaiter.hpp, at the         *)
(* granularity of its reads and writes: m_cancelled is a relaxed atomic,   *)
(* m_subscription_id, m_retain_self and m_options are plain members.       *)
(*                                                                         *)
(* A thread is a stack of unfinished member calls, innermost first:        *)
(* handle_event() from a dispatch, poll_timeout() from poll_awaiters(),    *)
(* and cancel().  The predicate, the callback and on_timeout are user      *)
(* code, which may dispatch and poll again.  Of the bus the model keeps    *)
(* whether it still has the awaiter's record, see EventBus for the rest.   *)
(***************************************************************************)
EXTENDS Integers, Sequences, FiniteSets

CONSTANTS
    Creator,        \* the thread that creates the awaiter
    Dispatchers,    \* threads that call emit() or process()
    Cancellers,     \* threads that call cancel() through the handle
    Nesting,        \* user code that dispatches or polls again
    MaxDepth        \* bound: nesting of calls in one thread

Threads == Dispatchers \cup Cancellers
UserCode == {"predicate", "inCallback", "inTimeout"}

ASSUME AwaiterAssumption ==
    /\ Nesting \subseteq UserCode
    /\ MaxDepth \in Nat \ {0}

VARIABLES
    born,           \* progress of create_internal()
    singleShot,     \* m_single_shot: await_once() or await_each()
    cancelled,      \* m_cancelled
    stored,         \* m_subscription_id # 0
    subscribed,     \* the bus still has the awaiter's record
    registered,     \* the bus polls the awaiter
    retain,         \* m_retain_self is set
    handle,         \* a shared_ptr outside: the caller's or the endpoint's
    destroyed,      \* the destructor has run
    token,          \* the cancellation token is cancelled
    expired,        \* the deadline has passed
    onTimeout,      \* m_options.on_timeout has not been moved from
    stack,          \* per thread, its unfinished calls
    calls,          \* history: callbacks begun, 2 for more
    timeouts        \* history: on_timeout calls begun, 2 for more

lifeVars == <<born, registered, handle, destroyed>>
envVars  == <<singleShot, token, expired>>
history  == <<calls, timeouts>>
members  == <<cancelled, stored, subscribed, retain, onTimeout>>
vars == <<lifeVars, envVars, history, members, stack>>

\* A call: `at' is its next step, `then' the step after the cancel() it makes,
\* `fn' the local copy of on_timeout.
Frame == [op : {"event", "poll", "cancel"},
          at : {"copied", "active", "token", "deadline", "take", "drop", "cas",
                "read", "unsubscribe", "clear", "release", "callback", "timeout",
                "return"} \cup UserCode,
          then : {"return", "callback", "timeout"}, fn : BOOLEAN]

At(t, step) == stack[t] # <<>> /\ stack[t][1].at = step

\* Thread t may begin a call: it is outside, or in user code that nests calls.
MayCall(t) ==
    /\ Len(stack[t]) < MaxDepth
    /\ stack[t] = <<>> \/ \E step \in Nesting : At(t, step)
    /\ t = Creator => born = "done"

Begin(t, op, step) ==
    stack' = [stack EXCEPT ![t] =
                 <<[op |-> op, at |-> step, then |-> "return", fn |-> FALSE]>> \o @]

Goto(t, step) == stack' = [stack EXCEPT ![t][1].at = step]
Return(t) == stack' = [stack EXCEPT ![t] = Tail(@)]

\* Calls that hold a shared_ptr: all but a copied record, whose lambda has only
\* weak_self.
Holding == {t \in Threads : \E i \in DOMAIN stack[t] : stack[t][i].at # "copied"}

Alive == born \notin {"new", "done"} \/ handle \/ retain \/ Holding # {}

Init ==
    /\ born = "new" /\ singleShot \in BOOLEAN
    /\ cancelled = FALSE /\ stored = FALSE /\ subscribed = FALSE
    /\ registered = FALSE /\ retain = FALSE /\ handle = FALSE
    /\ destroyed = FALSE
    /\ token = FALSE /\ expired = FALSE /\ onTimeout = TRUE
    /\ stack = [t \in Threads |-> <<>>]
    /\ calls = 0 /\ timeouts = 0

--------------------------------------------------------------------------------
(* create_internal(). *)

\* subscribe_internal(): a single-shot awaiter keeps itself alive ...
Retain ==
    /\ born = "new"
    /\ born' = "retained"
    /\ retain' = singleShot
    /\ UNCHANGED <<registered, handle, destroyed, envVars, history, cancelled, stored,
                   subscribed, onTimeout, stack>>

\* ... m_bus.subscribe() makes the record visible to every dispatch ...
SubscribeRecord ==
    /\ born = "retained"
    /\ born' = "subscribed"
    /\ subscribed' = TRUE
    /\ UNCHANGED <<registered, handle, destroyed, envVars, history, cancelled, stored,
                   retain, onTimeout, stack>>

\* ... and only then is its id stored.
StoreId ==
    /\ born = "subscribed"
    /\ born' = "stored"
    /\ stored' = TRUE
    /\ UNCHANGED <<registered, handle, destroyed, envVars, history, cancelled,
                   subscribed, retain, onTimeout, stack>>

\* register_awaiter(), and the handle is returned.
Register ==
    /\ born = "stored"
    /\ born' = "done"
    /\ registered' = TRUE /\ handle' = TRUE
    /\ UNCHANGED <<destroyed, envVars, history, members, stack>>

--------------------------------------------------------------------------------
(* The environment. *)

CancelToken ==
    /\ ~token
    /\ token' = TRUE
    /\ UNCHANGED <<lifeVars, singleShot, expired, history, members, stack>>

DeadlinePasses ==
    /\ ~expired
    /\ expired' = TRUE
    /\ UNCHANGED <<lifeVars, singleShot, token, history, members, stack>>

\* The last shared_ptr outside is dropped.
DropHandle ==
    /\ handle
    /\ \A t \in Cancellers : stack[t] = <<>>
    /\ handle' = FALSE
    /\ UNCHANGED <<born, registered, destroyed, envVars, history, members, stack>>

\* The destructor, which nobody can race: it calls cancel().
Destroy ==
    /\ born = "done" /\ ~Alive /\ ~destroyed
    /\ destroyed' = TRUE
    /\ cancelled' = TRUE
    /\ IF ~cancelled /\ stored THEN subscribed' = FALSE /\ stored' = FALSE
                               ELSE UNCHANGED <<subscribed, stored>>
    /\ UNCHANGED <<born, registered, handle, envVars, history, retain, onTimeout,
                   stack>>

--------------------------------------------------------------------------------
(* Calls of thread t. *)

\* A dispatch copies the record ...
DispatchBegin(t) ==
    /\ MayCall(t) /\ subscribed
    /\ Begin(t, "event", "copied")
    /\ UNCHANGED <<lifeVars, envVars, history, members>>

\* The record with a plain pointer to the awaiter.
LocksAlways == TRUE

\* ... and its lambda locks weak_self.
Locks == ~destroyed /\ Alive

LockSelf(t) ==
    /\ At(t, "copied")
    /\ IF Locks THEN Goto(t, "active") ELSE Return(t)
    /\ UNCHANGED <<lifeVars, envVars, history, members>>

\* poll_awaiters() drops an awaiter that is gone or inactive, or polls it.
PollBegin(t) ==
    /\ MayCall(t) /\ registered
    /\ IF Alive /\ ~destroyed /\ ~cancelled
       THEN Begin(t, "poll", "active") /\ UNCHANGED registered
       ELSE registered' = FALSE /\ UNCHANGED stack
    /\ UNCHANGED <<born, handle, destroyed, envVars, history, members>>

\* IAwaiter::cancel() through the handle.
CancelBegin(t) ==
    /\ stack[t] = <<>> /\ handle
    /\ Begin(t, "cancel", "cas")
    /\ UNCHANGED <<lifeVars, envVars, history, members>>

\* An awaiter that is not asked whether it is active.
StaysQuietNever == FALSE

\* is_active() fails, and handle_event() or poll_timeout() returns at once.
StaysQuiet == cancelled

CheckActive(t) ==
    /\ At(t, "active")
    /\ IF StaysQuiet THEN Return(t) ELSE Goto(t, "token")
    /\ UNCHANGED <<lifeVars, envVars, history, members>>

\* poll_timeout() going on as handle_event() does.
AfterTokenAlike(op) == "predicate"

AfterToken(op) == IF op = "event" THEN "predicate" ELSE "deadline"

\* A cancelled token: cancel() and return.
CheckToken(t) ==
    /\ At(t, "token")
    /\ Goto(t, IF token THEN "cas" ELSE AfterToken(stack[t][1].op))
    /\ UNCHANGED <<lifeVars, envVars, history, members>>

\* poll_timeout(): the deadline.
CheckDeadline(t) ==
    /\ At(t, "deadline")
    /\ IF expired THEN Goto(t, "take") ELSE Return(t)
    /\ UNCHANGED <<lifeVars, envVars, history, members>>

\* std::move of on_timeout: a plain member is read and then emptied.
TakeOnTimeout(t) ==
    /\ At(t, "take")
    /\ stack' = [stack EXCEPT ![t][1].at = "drop", ![t][1].fn = onTimeout]
    /\ UNCHANGED <<lifeVars, envVars, history, members>>

DropOnTimeout(t) ==
    /\ At(t, "drop")
    /\ onTimeout' = FALSE
    /\ stack' = [stack EXCEPT ![t][1].at = "cas",
                     ![t][1].then = IF stack[t][1].fn THEN "timeout" ELSE "return"]
    /\ UNCHANGED <<lifeVars, envVars, history, cancelled, stored, subscribed, retain>>

\* The callback first, the cancel() afterwards.
MatchedLate == "callback"

\* A match of a single-shot awaiter cancels it before the callback.
Matched == IF singleShot THEN "cas" ELSE "callback"

\* The predicate returns.
PredicateReturns(t) ==
    /\ At(t, "predicate")
    /\ \/ Return(t)
       \/ stack' = [stack EXCEPT ![t][1].at = Matched, ![t][1].then = "callback"]
    /\ UNCHANGED <<lifeVars, envVars, history, members>>

\* cancel(): the compare-exchange; only the first one goes on.
CancelCas(t) ==
    /\ At(t, "cas")
    /\ Goto(t, IF cancelled THEN stack[t][1].then ELSE "read")
    /\ cancelled' = TRUE
    /\ UNCHANGED <<lifeVars, envVars, history, stored, subscribed, retain, onTimeout>>

\* cancel(): m_subscription_id is read ...
ReadId(t) ==
    /\ At(t, "read")
    /\ Goto(t, IF stored THEN "unsubscribe" ELSE "release")
    /\ UNCHANGED <<lifeVars, envVars, history, members>>

\* ... the record is removed from the bus ...
UnsubscribeRecord(t) ==
    /\ At(t, "unsubscribe") /\ Goto(t, "clear")
    /\ subscribed' = FALSE
    /\ UNCHANGED <<lifeVars, envVars, history, cancelled, stored, retain, onTimeout>>

ClearId(t) ==
    /\ At(t, "clear") /\ Goto(t, "release")
    /\ stored' = FALSE
    /\ UNCHANGED <<lifeVars, envVars, history, cancelled, subscribed, retain,
                   onTimeout>>

\* The self reference kept after a cancel().
ReleaseNothing(t) ==
    /\ At(t, "release") /\ Goto(t, stack[t][1].then)
    /\ UNCHANGED <<lifeVars, envVars, history, members>>

\* ... and m_retain_self is reset.
Release(t) ==
    /\ At(t, "release") /\ Goto(t, stack[t][1].then)
    /\ retain' = FALSE
    /\ UNCHANGED <<lifeVars, envVars, history, cancelled, stored, subscribed,
                   onTimeout>>

\* m_callback and on_timeout start.
Invoke(t) ==
    \/ /\ At(t, "callback") /\ Goto(t, "inCallback")
       /\ calls' = IF calls < 2 THEN calls + 1 ELSE 2
       /\ UNCHANGED <<lifeVars, envVars, members, timeouts>>
    \/ /\ At(t, "timeout") /\ Goto(t, "inTimeout")
       /\ timeouts' = IF timeouts < 2 THEN timeouts + 1 ELSE 2
       /\ UNCHANGED <<lifeVars, envVars, members, calls>>

\* The call is over, or the user's function has returned or thrown: the bus
\* takes an exception of either, see EventBus.
Leave(t) ==
    /\ \E step \in {"return", "inCallback", "inTimeout"} : At(t, step)
    /\ Return(t)
    /\ UNCHANGED <<lifeVars, envVars, history, members>>

--------------------------------------------------------------------------------

Create == Retain \/ SubscribeRecord \/ StoreId \/ Register

\* The steps of a call once it has begun, user code's end included.
Step(t) ==
    \/ LockSelf(t) \/ CheckActive(t) \/ CheckToken(t) \/ CheckDeadline(t)
    \/ TakeOnTimeout(t) \/ DropOnTimeout(t) \/ PredicateReturns(t)
    \/ CancelCas(t) \/ ReadId(t) \/ UnsubscribeRecord(t) \/ ClearId(t)
    \/ Release(t) \/ Invoke(t) \/ Leave(t)

Next ==
    \/ Create
    \/ CancelToken \/ DeadlinePasses \/ DropHandle \/ Destroy
    \/ \E t \in Dispatchers : DispatchBegin(t) \/ PollBegin(t)
    \/ \E t \in Cancellers : CancelBegin(t)
    \/ \E t \in Threads : Step(t)

Spec == Init /\ [][Next]_vars

--------------------------------------------------------------------------------
(* Properties. *)

\* Every variable has its type, and each call stays in its own function.
TypeOK ==
    /\ born \in {"new", "retained", "subscribed", "stored", "done"}
    /\ {singleShot, cancelled, stored, subscribed, registered, retain, handle,
        destroyed, token, expired, onTimeout} \subseteq BOOLEAN
    /\ stack \in [Threads -> Seq(Frame)]
    /\ \A t \in Threads : \A i \in DOMAIN stack[t] :
          /\ stack[t][i].at \in {"predicate", "callback", "inCallback"} =>
                stack[t][i].op = "event"
          /\ stack[t][i].at \in {"deadline", "take", "drop", "timeout", "inTimeout"} =>
                stack[t][i].op = "poll"
    /\ calls \in 0..2 /\ timeouts \in 0..2

\* A single-shot awaiter calls its callback once, however events, polls,
\* cancel() calls and nested dispatches fall.
SingleShotOnce == singleShot => calls <= 1

\* A single-shot awaiter reports a result or a timeout, never both, and the
\* timeout once.
ResultOrTimeout == timeouts <= 1 /\ (singleShot => calls = 0 \/ timeouts = 0)

\* The steps of cancel() behind its compare-exchange.
Closing == {"read", "unsubscribe", "clear", "release"}

Cancelling == \E t \in Threads : \E i \in DOMAIN stack[t] : stack[t][i].at \in Closing

\* What the comment of IAwaiter::cancel() says: the bus subscription is released.
\* Once an awaiter is created and cancelled, and the cancel() that won is
\* over, the bus has no record of it and it does not keep itself alive.
NothingLeft ==
    born = "done" /\ cancelled /\ ~Cancelling => ~subscribed /\ ~retain

\* No member function runs on a destroyed awaiter.
NoUseAfterFree == destroyed => Holding = {}

\* A call that has passed is_active() and may still report: it has not called
\* the callback or on_timeout, nor decided to leave without.
Open(f) ==
    \/ f.at \in {"token", "deadline", "take", "drop", "predicate", "callback", "timeout"}
    \/ f.at \in {"cas"} \cup Closing /\ f.then \in {"callback", "timeout"}

\* The open calls of thread t, by their level: the outermost call is at level 1,
\* and a call keeps its level whatever nests in it.
OpenLevels(t) == {d \in 1..Len(stack[t]) : Open(stack[t][Len(stack[t]) + 1 - d])}

\* A step after which no call is open that was not open before.
OpensNone == \A t \in Threads : OpenLevels(t)' \subseteq OpenLevels(t)

\* Once an awaiter is cancelled no call becomes open again.  What it still
\* reports comes from the calls that were open at that moment, once from each:
\* not from a record copied before the cancel(), nor from a dispatch or a poll
\* nested in its own callback, nor a second time from a call that has reported.
QuietAfterCancel == [][cancelled => OpensNone]_vars
================================================================================
