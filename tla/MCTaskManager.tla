----------------------------- MODULE MCTaskManager -----------------------------
(***************************************************************************)
(* TaskManager as TLC checks it: what the documentation says of series,    *)
(* and liveness.                                                           *)
(***************************************************************************)
EXTENDS TaskManager

\* What cancel()'s comment and README.md promise of a series: a cancel() that
\* finds a live periodic task stops its future cycles.
CancelStopsSeries ==
    [][cancelling # 0 /\ cancelling' = 0 /\ Periodic(cancelling) =>
         state'[cancelling] \in {"cancelled", "completed"}]_vars

\* A consumer that keeps calling process(), and callbacks that return.
Fairness ==
    /\ WF_vars(\E q \in Quotas : ProcessBegin(q))
    /\ WF_vars(Advance)
    /\ WF_vars(Finish)
    /\ WF_vars(CancelCommit \/ CancelLost)

FairSpec == Spec /\ Fairness

\* The callback of a more urgent task is running.
Overtaken(id) == cur # 0 /\ entry[cur].priority < entry[id].priority

\* A process() call whose max_tasks leaves no ready task behind.
WholePass == pc = "promoting" /\ room >= MaxId

\* Either more urgent work comes to an end, or passes that are not cut short
\* by max_tasks keep coming and callbacks stop throwing.
GetsItsTurn(id) ==
    \/ <>[]~Overtaken(id)
    \/ []<>WholePass /\ <>[](pc # "failing")

\* take_ready_batch_locked() is strict about priority, so a task that became
\* ready runs or is cancelled on that condition and on no weaker one: urgent
\* tasks that reschedule themselves, due at once, can fill every short pass.
ReadyIsServed ==
    \A id \in Ids :
        GetsItsTurn(id) =>
            (state[id] = "queued_ready" ~> state[id] \in {"executing", "cancelled"})
================================================================================
