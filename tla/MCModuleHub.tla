------------------------------ MODULE MCModuleHub -------------------------------
(***************************************************************************)
(* ModuleHub as TLC checks it: the progress of a hub that is asked to stop *)
(* or whose worker fails.                                                  *)
(***************************************************************************)
EXTENDS ModuleHub

\* Threads finish the calls they have begun; the hub's thread and the workers
\* take their steps, a timed wait ends, and so does the join of a thread that is
\* over.
Fairness ==
    /\ WF_vars(HubSteps) /\ WF_vars(StopSteps)
    /\ WF_vars(Notify) /\ WF_vars(JoinReturns) /\ WF_vars(DestroyJoins)
    /\ \A m \in Private : WF_vars(WorkerLoop(m))

FairSpec == Spec /\ Fairness

\* Bound: while an event is in the bus no module has a task.
OneAtATime == \A m \in Modules : events = 0 \/ ready[m] + delayed[m] = 0

\* A stop requested while run() or start() is at work ends the hub's thread and
\* every worker, wherever they are: the flag start_worker() clears, the waits
\* and the joins notwithstanding.
StopEndsHub ==
    stop /\ caller \in {"run", "start"} ~>
        caller = "none" /\ \A m \in Private : worker[m] = "none"

\* The application never waits for ever: join() of a hub that is asked to stop
\* returns, and the destructor, which asks itself, comes to its end through the
\* joins of the hub's thread and of every worker.
JoinsEnd ==
    app = "destroying" \/ (app = "joining" /\ stop) ~> app \in {"free", "gone"}

\* A worker's failure ends a hub that runs, however deeply it sleeps.
FailureEndsHub == pending # {} /\ caller \in {"run", "start"} ~> caller = "none"
================================================================================
