----------------------------- MODULE TaskContract ------------------------------
(***************************************************************************)
(* What TaskManager promises its users, without queues, heaps, snapshots,  *)
(* lazy cancellation or locks: one waiting line per priority, first in,    *)
(* first out; one callback at a time; a task that was refused, finished or *)
(* cancelled never runs (again).                                           *)
(*                                                                         *)
(* A line is the set of its tasks together with the order in which they    *)
(* came, a set of pairs: whoever joins comes behind everyone in the line,  *)
(* and whoever leaves changes nothing between the others.                  *)
(***************************************************************************)
EXTENDS Naturals

CONSTANTS Ids, Priority

VARIABLES
    status,     \* the life of every task
    line,       \* the tasks in the waiting line of every priority
    ahead,      \* <<a, b>>: a waits in the same line as b, and came before it
    accepting   \* new work and repeated work is admitted

contractVars == <<status, line, ahead, accepting>>

Status == {"new", "sleeping", "waiting", "running", "stopping", "done"}

ContractInit ==
    /\ status = [id \in Ids |-> "new"]
    /\ line = [p \in Priority |-> {}]
    /\ ahead = {}
    /\ accepting = TRUE

\* The end of a line.
Join(p, id) ==
    /\ line' = [line EXCEPT ![p] = @ \cup {id}]
    /\ ahead' = ahead \cup {<<other, id>> : other \in line[p]}

\* Out of any place in any line.
Leave(gone) ==
    /\ line' = [p \in Priority |-> line[p] \ gone]
    /\ ahead' = {pair \in ahead : pair[1] \notin gone /\ pair[2] \notin gone}

\* The task goes to sleep until its deadline, or joins the end of a line.
Admit(id) ==
    /\ accepting
    /\ \/ /\ status' = [status EXCEPT ![id] = "sleeping"]
          /\ UNCHANGED <<line, ahead>>
       \/ /\ status' = [status EXCEPT ![id] = "waiting"]
          /\ \E p \in Priority : Join(p, id)
    /\ UNCHANGED accepting

SubmitTask(id) == status[id] = "new" /\ Admit(id)

\* Only the task that is running, and has not been stopped, may repeat.
Repeat(id) == status[id] = "running" /\ Admit(id)

\* Several tasks submitted together join the line in their order.
SubmitMany(p, first, last) ==
    /\ accepting
    /\ \A id \in first..last : status[id] = "new"
    /\ status' = [id \in Ids |->
                    IF id \in first..last THEN "waiting" ELSE status[id]]
    /\ line' = [line EXCEPT ![p] = @ \cup first..last]
    /\ ahead' = ahead \cup {pair \in Ids \X (first..last) :
                              pair[1] \in line[p] \/ pair[1] \in first..(pair[2] - 1)}
    /\ UNCHANGED accepting

WakeUp(p, id) ==
    /\ status[id] = "sleeping"
    /\ status' = [status EXCEPT ![id] = "waiting"]
    /\ Join(p, id)
    /\ UNCHANGED accepting

\* Only the first of a line starts, and only when no callback is running.
Start(p, id) ==
    /\ id \in line[p]
    /\ \A other \in line[p] : <<other, id>> \notin ahead
    /\ \A other \in Ids : status[other] \notin {"running", "stopping"}
    /\ status' = [status EXCEPT ![id] = "running"]
    /\ Leave({id})
    /\ UNCHANGED accepting

\* The running task is cancelled: its callback goes on, it will not repeat.
Stop(id) ==
    /\ status[id] = "running"
    /\ status' = [status EXCEPT ![id] = "stopping"]
    /\ UNCHANGED <<line, ahead, accepting>>

Finish(id) ==
    /\ status[id] \in {"running", "stopping"}
    /\ status' = [status EXCEPT ![id] = "done"]
    /\ UNCHANGED <<line, ahead, accepting>>

\* Tasks that have not started are cancelled; the others keep their places.
Drop(dropped) ==
    /\ dropped # {}
    /\ \A id \in dropped : status[id] \in {"sleeping", "waiting"}
    /\ status' = [id \in Ids |->
                    IF id \in dropped THEN "done" ELSE status[id]]
    /\ Leave(dropped)
    /\ UNCHANGED accepting

Shut ==
    /\ accepting
    /\ accepting' = FALSE
    /\ UNCHANGED <<status, line, ahead>>

ContractNext ==
    \/ \E id \in Ids : SubmitTask(id) \/ Repeat(id) \/ Stop(id) \/ Finish(id)
    \/ \E p \in Priority, first, last \in Ids : SubmitMany(p, first, last)
    \/ \E p \in Priority, id \in Ids : WakeUp(p, id) \/ Start(p, id)
    \/ \E dropped \in SUBSET Ids : Drop(dropped)
    \/ Shut

ContractSpec == ContractInit /\ [][ContractNext]_contractVars
================================================================================
