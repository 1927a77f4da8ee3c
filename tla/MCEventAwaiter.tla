----------------------------- MODULE MCEventAwaiter -----------------------------
(***************************************************************************)
(* EventAwaiter as TLC checks it: timeouts under a loop that keeps polling. *)
(***************************************************************************)
EXTENDS EventAwaiter

\* The loop polls again and again whatever else it dispatches, and calls and
\* user code at every depth of nesting come to their end; the destructor runs
\* where the last reference is dropped.
Fairness ==
    /\ WF_vars(Create) /\ WF_vars(Destroy)
    /\ \A t \in Dispatchers : SF_vars(stack[t] = <<>> /\ PollBegin(t))
    /\ \A t \in Threads : \A d \in 1..MaxDepth : SF_vars(Len(stack[t]) = d /\ Step(t))

FairSpec == Spec /\ Fairness

\* An awaiter whose deadline or token has come is cancelled, and leaves the bus
\* and its own reference, with no timer but the polls of emit() and process().
TimesOut ==
    born = "done" /\ (expired \/ token) ~> cancelled /\ ~subscribed /\ ~retain
================================================================================
