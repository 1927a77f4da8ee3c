------------------------------- MODULE MCEventBus -------------------------------
(***************************************************************************)
(* EventBus as TLC checks it: what its documentation says of close(), and  *)
(* its progress under a loop that keeps calling process().                 *)
(***************************************************************************)
EXTENDS EventBus, TLC

\* Threads are interchangeable where all of them do the same.
ThreadSymmetry == Permutations(Threads)

\* What the comment of EventEndpoint::subscribe() says: closing the endpoint
\* prevents guarded callbacks from starting later, so after close() no further
\* one starts.
CloseStopsStarts ==
    [][\A o \in Owners :
         o \notin open \cup closing =>
             Cardinality(Holders(o)') <= Cardinality(Holders(o))]_vars

\* The loop thread comes back to process() whatever else it does, the bus code
\* goes on, and user code at every depth of nesting ends sooner or later.
Fairness ==
    /\ \A t \in Pumps : SF_vars(stack[t] = <<>> /\ ProcessBegin(t))
    /\ \A t \in Threads : WF_vars(Inside(t))
    /\ \A t \in Threads : \A d \in 1..MaxDepth :
          SF_vars(Len(stack[t]) = d /\ UserEnds(t))

FairSpec == Spec /\ Fairness

\* Every posted event is dispatched or dropped by clear_pending(), even when
\* callback after callback throws and the rest of the queue is put back: a
\* process() that throws has consumed the event that made it throw.
PostedIsDispatched ==
    \A e \in Events : e <= Len(posted) ~> e \in begun \cup dropped
================================================================================
