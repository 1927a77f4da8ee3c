------------------------------- MODULE MCRequest --------------------------------
(***************************************************************************)
(* Request as TLC checks it: the future under loops that keep polling.     *)
(***************************************************************************)
EXTENDS Request

\* The caller goes through request_future(), every loop polls again and again
\* whatever else it dispatches, and calls and user code at every depth of nesting
\* come to their end.
RequestFairness ==
    /\ WF_allVars(DrawId \/ AwaitResult \/ PostRequest \/ StoreRequestId)
    /\ \A t \in Dispatchers :
          SF_allVars(stack[t] = <<>> /\ PollBegin(t) /\ BeginCall(t))
    /\ \A t \in Threads : \A d \in 1..MaxDepth :
          SF_allVars(Len(stack[t]) = d /\ RequestStep(t))

FairRequestSpec == RequestSpec /\ RequestFairness

\* A future does not stay pending once the deadline of its request has passed,
\* although no timer runs, dispatchers take on_timeout from each other and the
\* endpoint may have dropped its handle; only a request that was cancelled leaves
\* it so.
FutureBecomesReady == expired /\ call = "returned" ~> outcome # <<>> \/ withdrawn
================================================================================
