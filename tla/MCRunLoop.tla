------------------------------- MODULE MCRunLoop --------------------------------
(***************************************************************************)
(* RunLoop as TLC checks it: the progress of a thread that blocks in run() *)
(* instead of polling.                                                     *)
(***************************************************************************)
EXTENDS RunLoop

\* Threads finish the calls they have begun, the clock moves on, callbacks
\* return, and the loop thread takes its steps.
LoopFairness ==
    /\ WF_allVars(Increment) /\ WF_allVars(NotifyAll)
    /\ WF_allVars(Tick /\ UNCHANGED loopVars)
    /\ WF_allVars((CancelCommit \/ CancelLost) /\ UNCHANGED loopVars)
    /\ WF_allVars(Finish /\ UNCHANGED loopVars)
    /\ WF_allVars(Pass)
    /\ SF_allVars(Loop)
    /\ WF_allVars(BusDispatch)

FairLoopSpec == LoopSpec /\ LoopFairness

\* Bound: every task is more urgent than those submitted before it.
Escalating ==
    \A a, b \in Ids : a < b /\ state[b] # "none" => entry[b].priority < entry[a].priority

\* The callback of a more urgent task is running.
Overtaken(id) == cur # 0 /\ entry[cur].priority < entry[id].priority

\* A loop that is running serves every task, at once or when its deadline has
\* come, although it sleeps in between; an exception or a stop ends the loop.
\* The passes of a loop may be limited and are strict about priority: more
\* urgent work, which may keep rescheduling itself, must come to an end.
TaskIsServed ==
    \A id \in Ids :
        <>[]~Overtaken(id) =>
            (state[id] \in {"queued_ready", "queued_delayed"} /\ at # "out" ~>
                state[id] \in {"executing", "cancelled"} \/ at = "out")

\* request_stop() ends a running loop, wherever the loop is when it comes.
StopEndsRun == stop ~> at = "out"
================================================================================
