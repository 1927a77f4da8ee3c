-------------------------------- MODULE Request ---------------------------------
(***************************************************************************)
(* EventEndpoint::request_future() of include/event_hub/event_endpoint.hpp *)
(* on top of EventAwaiter: a thread draws a request id, creates the        *)
(* single-shot awaiter of the result, posts the request and stores the id  *)
(* for the timeout message, while other threads already dispatch and poll  *)
(* the awaiter.  The result's callback and on_timeout settle one promise.  *)
(*                                                                         *)
(* The ids of request.hpp have IdSpace values instead of 2^64, and the bus *)
(* may have handed out any number of them before.                          *)
(***************************************************************************)
EXTENDS EventAwaiter

CONSTANTS
    IdSpace         \* number of values of a RequestId, 0 included

ASSUME RequestAssumption ==
    /\ IdSpace \in Nat \ {0, 1}
    /\ Creator \notin Cancellers

RequestIds == 0..(IdSpace - 1)
Invalid == 0        \* invalid_request_id
NotDrawn == -1

VARIABLES
    next,           \* RequestIdGenerator::m_next
    id,             \* the id that request() works with
    call,           \* progress of request_future()
    requestId,      \* *request_id, which on_timeout reads
    completed,      \* *completed
    owed,           \* what a thread that won *completed has yet to set
    outcome,        \* what the promise was set to, one entry per set_*()
    withdrawn       \* history: the token or the endpoint has cancelled the request

callVars == <<next, id, call>>
promiseVars == <<completed, owed, outcome>>
requestVars == <<callVars, requestId, promiseVars, withdrawn>>
allVars == <<vars, requestVars>>

\* A result, or a RequestTimeoutError with an id.
Outcome == [kind : {"value"}] \cup [kind : {"timeout"}, id : RequestIds]

RequestInit ==
    /\ Init /\ singleShot
    /\ next \in RequestIds
    /\ id = NotDrawn
    /\ call = "id"
    /\ requestId = Invalid
    /\ completed = FALSE
    /\ owed = [t \in Threads |-> "nothing"]
    /\ outcome = <<>>
    /\ withdrawn = FALSE

--------------------------------------------------------------------------------
(* The caller's side. *)

\* The invalid id handed out like any other.
DrawsOnce(drawn) == FALSE

\* The condition of the second fetch_add of next().
DrawsAgain(drawn) == drawn = Invalid

\* RequestIdGenerator::next(): fetch_add, and once more after the invalid id.
DrawId ==
    /\ call = "id"
    /\ id' = next
    /\ next' = (next + 1) % IdSpace
    /\ call' = IF id = NotDrawn /\ DrawsAgain(next) THEN "id" ELSE "await"
    /\ UNCHANGED <<vars, requestId, promiseVars, withdrawn>>

\* Another request of any thread draws an id; between the two fetch_adds of one
\* next() the others do not draw all of the ids.
OthersDraw ==
    /\ call = "id"
    /\ id = Invalid => next # IdSpace - 1
    /\ next' = (next + 1) % IdSpace
    /\ UNCHANGED <<vars, id, call, requestId, promiseVars, withdrawn>>

\* await_once() creates the awaiter, which is live from SubscribeRecord on ...
AwaitResult ==
    /\ call = "await"
    /\ Create
    /\ call' = IF born' = "done" THEN "post" ELSE call
    /\ UNCHANGED <<next, id, requestId, promiseVars, withdrawn>>

\* ... the request is posted, and may be answered ...
PostRequest ==
    /\ call = "post"
    /\ call' = "store"
    /\ UNCHANGED <<vars, next, id, requestId, promiseVars, withdrawn>>

\* ... and when request() has returned, the id is stored for on_timeout.
StoreRequestId ==
    /\ call = "store"
    /\ call' = "returned"
    /\ requestId' = id
    /\ UNCHANGED <<vars, next, id, promiseVars, withdrawn>>

--------------------------------------------------------------------------------
(* The dispatching and polling threads. *)

Posted == call \in {"store", "returned"}

\* Any result taken for the answer.
MatchAny(t) == PredicateReturns(t) /\ UNCHANGED requestVars

\* The predicate compares ids: only an answer to the posted request matches.
MatchId(t) ==
    /\ PredicateReturns(t)
    /\ ~Posted => stack'[t] = Tail(stack[t])
    /\ UNCHANGED requestVars

\* The promise set by every call of a lambda.
ClaimAlways(t, kind) ==
    /\ completed' = TRUE
    /\ owed' = [owed EXCEPT ![t] = kind]

\* compare_exchange of *completed: the first one owes the promise its outcome.
Claim(t, kind) ==
    /\ completed' = TRUE
    /\ owed' = IF completed THEN owed ELSE [owed EXCEPT ![t] = kind]

\* The user's on_timeout called without the promise.
SettleResultOnly(t) ==
    /\ Invoke(t)
    /\ IF At(t, "callback") THEN Claim(t, "value") ELSE UNCHANGED <<completed, owed>>
    /\ UNCHANGED <<callVars, requestId, outcome, withdrawn>>

\* A lambda of request_future() is called.
Settle(t) ==
    /\ Invoke(t)
    /\ Claim(t, IF At(t, "callback") THEN "value" ELSE "timeout")
    /\ UNCHANGED <<callVars, requestId, outcome, withdrawn>>

\* set_value(), or set_exception() with whatever *request_id is by now.
SetPromise(t) ==
    /\ owed[t] # "nothing"
    /\ Len(outcome) < 2
    /\ outcome' = Append(outcome,
           IF owed[t] = "value" THEN [kind |-> "value"]
                                ELSE [kind |-> "timeout", id |-> requestId])
    /\ owed' = [owed EXCEPT ![t] = "nothing"]
    /\ UNCHANGED <<vars, callVars, requestId, completed, withdrawn>>

\* Every other step of a call; a lambda sets the promise before it goes on with
\* user_on_timeout, which may dispatch or poll again, or returns.
OtherStep(t) ==
    /\ owed[t] = "nothing"
    /\ \/ LockSelf(t) \/ CheckActive(t) \/ CheckToken(t) \/ CheckDeadline(t)
       \/ TakeOnTimeout(t) \/ DropOnTimeout(t)
       \/ CancelCas(t) \/ ReadId(t) \/ UnsubscribeRecord(t) \/ ClearId(t)
       \/ Release(t) \/ Leave(t)
    /\ UNCHANGED requestVars

RequestStep(t) == MatchId(t) \/ Settle(t) \/ SetPromise(t) \/ OtherStep(t)

BeginCall(t) ==
    /\ owed[t] = "nothing"
    /\ t = Creator => call = "returned"
    /\ DispatchBegin(t) \/ PollBegin(t)
    /\ UNCHANGED requestVars

\* The token, or cancel_awaiters() and close() of the endpoint: nobody settles
\* the promise.
Withdraw ==
    /\ CancelToken \/ \E t \in Cancellers : CancelBegin(t)
    /\ withdrawn' = TRUE
    /\ UNCHANGED <<callVars, requestId, promiseVars>>

RequestNext ==
    \/ DrawId \/ OthersDraw \/ AwaitResult \/ PostRequest \/ StoreRequestId
    \/ Withdraw
    \/ (DeadlinePasses \/ DropHandle \/ Destroy) /\ UNCHANGED requestVars
    \/ \E t \in Dispatchers : BeginCall(t)
    \/ \E t \in Threads : RequestStep(t)

RequestSpec == RequestInit /\ [][RequestNext]_allVars

--------------------------------------------------------------------------------
(* Properties. *)

\* Every variable has its type.
RequestTypeOK ==
    /\ TypeOK /\ singleShot
    /\ next \in RequestIds /\ id \in RequestIds \cup {NotDrawn}
    /\ call \in {"id", "await", "post", "store", "returned"}
    /\ requestId \in RequestIds /\ {completed, withdrawn} \subseteq BOOLEAN
    /\ owed \in [Threads -> {"nothing", "value", "timeout"}]
    /\ outcome \in Seq(Outcome) /\ Len(outcome) <= 2

\* The future becomes ready once: two threads that dispatch may both call the
\* callback of one result, and a timeout may race a late result, but a second
\* set_value() or set_exception(), which throws std::future_error, is not made,
\* and the promise is set only by the lambda that claimed it.
SettledOnce ==
    /\ Len(outcome) + Cardinality({t \in Threads : owed[t] # "nothing"}) <= 1
    /\ outcome # <<>> => completed

\* A future that reports a timeout stands for an awaiter whose deadline has
\* come, and if it names a request it names this one.  A future that has a value
\* stands for a request that was posted under a valid id, even when the generator
\* wraps: every result event that was never given an id carries the invalid one.
OutcomeIsTrue ==
    \A i \in DOMAIN outcome :
        /\ outcome[i].kind = "value" => Posted /\ calls > 0 /\ id # Invalid
        /\ outcome[i].kind = "timeout" =>
               expired /\ timeouts > 0 /\ outcome[i].id \in {Invalid, id}
================================================================================
