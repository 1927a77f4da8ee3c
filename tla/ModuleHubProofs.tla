---------------------------- MODULE ModuleHubProofs -----------------------------
(***************************************************************************)
(* Theorems about ModuleHub for every value of its constants: any modules  *)
(* in any mode, any quota, any bounds.                                     *)
(*                                                                         *)
(* The invariant has five parts, each resting on the ones before it: the   *)
(* loops of the hub's thread stay inside m_modules (PlaceInv) and the      *)
(* workers and queues have their types (WorkInv); whose call the thread    *)
(* serves, how far the modules are and which notifiers they have           *)
(* (LifeInv); where each failure is (FailInv); what the hub (HubInv) and   *)
(* each worker (WorkerInv) has looked at since it recorded the generation  *)
(* it will wait for.                                                       *)
(***************************************************************************)
EXTENDS ModuleHub, ProofLemmas

--------------------------------------------------------------------------------
(* The invariants. *)

\* The steps of shutdown(), also of the catch block of initialize(); those of the
\* two that come after the workers; and those of run_loop() and process().
Closing == {"stop", "flag", "ring", "join", "down", "closing"}
Joining == {"join", "down", "closing"}
Looping == {"top", "generation", "bus", "tasks", "hooks", "pendingBus", "pending",
            "deadline", "wait"}

\* The types the invariants rest on.
PlaceInv ==
    /\ count \in 0 .. MaxModules /\ i \in Nat
    /\ at = "closing" => i >= 1 /\ i <= count
    /\ at = "down" => i <= count
    /\ at = "ring" => i >= 1 /\ i <= count /\ i \in Private
    /\ at \notin {"down", "closing"} => i >= 1 /\ i <= count + 1

WorkInv ==
    /\ worker \in [Modules -> Steps]
    /\ ready \in [Modules -> Nat] /\ delayed \in [Modules -> Nat] /\ events \in Nat

TellInv ==
    /\ flight \in Waiters \cup {None} /\ background \in Waiters \cup {None}
    /\ pending \subseteq Private

TypeInv == PlaceInv /\ WorkInv

\* Whose code the hub's thread runs, and how far the modules have come.
CallInv ==
    /\ caller \in {"none", "run", "start", "embed", "destroy"}
    /\ at = "out" <=> caller = "none"
    /\ caller = "destroy" => at \in Closing /\ ~undoing
    /\ undoing => at \in Closing \ {"stop"} /\ ~hubUp
    /\ at \in {"init", "workers"} => ~hubUp
    /\ at \in {"wire"} \cup (Looping \ {"bus", "tasks", "hooks"}) => caller \in {"run", "start"}
    /\ at \in Looping /\ caller \in {"run", "start"} => hubUp
    /\ app # "free" => caller # "run"

UpInv ==
    /\ up \cap stopped = {}
    /\ stopping = {} \/ (at = "closing" /\ stopping = {i})
    /\ at = "init" => \A m \in Added : m < i => m \in up
    /\ at = "workers" => Added \subseteq up
    /\ hubUp /\ at \notin Closing => Added \subseteq up
    /\ at \in {"down", "closing"} => \A m \in Added : m > i => m \in stopped

\* A worker that runs belongs to an added module and has its notifier, and the
\* sources of a hub that runs have the hub's.
WorkersAttached ==
    \A m \in Private : worker[m] # "none" => m \in Added /\ m \in attached

WiredInv ==
    at \in {"init", "workers"} \cup Looping /\ caller \in {"run", "start"} =>
        wired /\ {Bus} \cup (Added \cap Inline) \subseteq attached

LifeInv == CallInv /\ UpInv /\ WorkersAttached /\ WiredInv

\* The worker of m has stored its failure, and will not start again.
Over(m) ==
    /\ m \in Added
    /\ \/ worker[m] \in {"telling", "ended"}
       \/ worker[m] = "none" /\ (m \in stopped \/ at \in Joining)

\* When run() and start() keep a failure, that no failure is in two places, and
\* that none is lost.
KeptInv ==
    /\ flight # None => caller = "run" /\ at \in Closing /\ ~undoing
    /\ caller = "run" => background = None
    /\ caller = "start" /\ background # None => at \in Closing /\ ~undoing

ApartInv ==
    /\ \A m \in Private : m \in pending \cup {flight, background} => Over(m)
    /\ pending \cap {flight, background} = {}

FailInv == TellInv /\ KeptInv /\ ApartInv /\ NoFailureLost

\* What a hub that has recorded the latest generation has looked at: the stop
\* flag, the bus, the tasks of the inline modules, the workers' failures.
Recorded == Hub \in current /\ caller \in {"run", "start"}

HubHeedsStop ==
    Recorded /\ at \in {"pendingBus", "pending", "deadline", "wait"} /\ stop
        => stopper = "hub"

HubHeedsBus ==
    Recorded /\ at \in Looping \ {"top", "generation", "bus"} /\ events > 0 => owing = Bus

HubHeedsTasks ==
    Recorded => \A m \in Inline \cap Added :
        /\ at \in {"deadline", "wait"} \/ (at = "pending" /\ m < i)
              => (ready[m] > 0 => owing = m)
        /\ at = "wait" \/ (at = "deadline" /\ m < i)
              => (delayed[m] > 0 /\ ~timed => owing = m)

HubHeedsFails ==
    Recorded => \A m \in pending :
        \/ at \in Looping \ {"top", "generation", "bus", "tasks"}
        \/ at = "tasks" /\ m < i
        => worker[m] = "telling"

HubInv == HubHeedsStop /\ HubHeedsBus /\ HubHeedsTasks /\ HubHeedsFails

\* What a worker that has recorded the latest generation has looked at: the
\* request to stop, the ready tasks, the delayed ones.
WorkerHeedsStop(m) ==
    m \in current /\ worker[m] \in {"ready", "deadline", "wait", "wait_for"}
                  /\ m \in workerStop
        => \/ stopper = "ring" /\ Min(unasked) = m
           \/ at = "ring" /\ i = m

WorkerHeedsTasks(m) ==
    m \in current =>
        /\ worker[m] \in {"deadline", "wait", "wait_for"} /\ ready[m] > 0 => owing = m
        /\ worker[m] = "wait" /\ delayed[m] > 0 => owing = m

WorkerInv == \A m \in Private : WorkerHeedsStop(m) /\ WorkerHeedsTasks(m)

--------------------------------------------------------------------------------
(* Who changes what. *)

\* The steps of the specification, by whose they are.
Outside == \/ PostEvent \/ (\E m \in Modules : Submit(m)) \/ Notify
           \/ RequestStop \/ StopSteps
Workers == \E m \in Private : WorkerLoop(m) \/ WorkerThrows(m)

\* Every step is one of these.
LEMMA NextCases ==
    ASSUME [Next]_vars
    PROVE  Outside \/ App \/ HubSteps \/ HubFails \/ Workers \/ UNCHANGED vars
BY DEF Next, Gone, Outside, Workers

\* Producers, stoppers and workers do not move the hub's thread.
LEMMA OutsideLeaves ==
    ASSUME Outside
    PROVE  UNCHANGED <<placeVars, hubVars, count, hubUp, running, appVars, lifeVars, worker,
                       wireVars, failVars>>
BY DEF Outside, PostEvent, Submit, Notify, RequestStop, StopSteps, StopNotifiesHub,
       StopFlagsWorker, StopNotifiesWorker, stopFrame, still, others, modVars, hubVars,
       workerVars

\* Nor do the workers, which also leave the application's calls alone.
LEMMA WorkersLeave ==
    ASSUME Workers
    PROVE  UNCHANGED <<placeVars, hubVars, flagVars, appVars, stopVars, lifeVars, wireVars,
                       owing, events, flight, background>>
BY DEF Workers, WorkerLoop, WorkerTop, WorkerGeneration, WorkerProcess, WorkerThrows,
       WorkerStores, WorkerTells, WorkerIdle, WorkerReady, WorkerDeadline, WorkerWait,
       workerFrame, still, others, failVars, hubVars, flagVars

\* Two steps without what they write down of their work.
LEMMA HookShape ==
    ASSUME ProcessHook
    PROVE  /\ at = "hooks" /\ i <= count /\ i \notin pending
           /\ Goto("hooks", i + 1) /\ UNCHANGED <<calm, timed>>
BY Zenon DEF ProcessHook

\* ... and of the deadlines it sees.
LEMMA DeadlineShape ==
    ASSUME DeadlineModule
    PROVE  /\ at = "deadline" /\ i <= count
           /\ Goto("deadline", i + 1) /\ UNCHANGED <<calm, worked>>
           /\ i \in Inline \cap Active /\ delayed[i] > 0 => timed'
           /\ timed => timed'
BY Zenon DEF DeadlineModule

\* The loops of the hub's thread stay inside m_modules.
LEMMA PlaceStep ==
    ASSUME PlaceInv, [Next]_vars
    PROVE  PlaceInv'
<1> USE HubAssumption DEF PlaceInv, Goto
<1>1. CASE UNCHANGED <<at, i, count>>
  BY <1>1
<1>2. CASE Outside \/ Workers \/ UNCHANGED vars
  BY <1>1, <1>2, OutsideLeaves, WorkersLeave DEF vars, placeVars, flagVars
<1>3. CASE App
  <2>1. CASE AddModule
    BY <2>1 DEF AddModule, Between, callVars, placeVars
  <2>2. CASE Run \/ Start \/ Initialize \/ Process \/ Shutdown \/ DestroyJoins
    BY <2>2 DEF Run, Start, Begins, Initialize, Process, Shutdown, Embedded, thrown,
                DestroyJoins, flagVars
  <2>3. CASE StartFails \/ Join \/ JoinReturns \/ Destroy
    BY <1>1, <2>3 DEF StartFails, Join, JoinReturns, Destroy, still, others, placeVars,
                flagVars
  <2> QED  BY <1>3, <2>1, <2>2, <2>3 DEF App
<1>4. CASE HubSteps
  <2>1. CASE Wire \/ InitModule \/ InitRefused \/ StartWorker \/ Initialized
    BY <2>1 DEF Wire, InitModule, InitRefused, Undo, StartWorker, Initialized, initFrame,
                still, others
  <2>2. CASE \/ Top \/ RecordGeneration \/ BusProcess \/ WorkerRethrown \/ InlineTasks
             \/ ProcessHook \/ PendingBus
    BY <2>2, HookShape DEF Top, RecordGeneration, BusProcess, WorkerRethrown, InlineTasks,
                PendingBus, Throws, thrown, flagVars, loopFrame, calm
  <2>2a. CASE ProcessReturns
    BY <2>2a DEF ProcessReturns, thrown, flagVars
  <2>3. CASE PendingModule \/ DeadlineModule \/ Wait
    BY <2>3, DeadlineShape DEF PendingModule, Wait, thrown, flagVars,
                loopFrame, calm
  <2>3a. CASE LoopEnds
    <3>1. at' \in {"workers", "hooks", "deadline", "wait", "join"} /\ i' = 1 /\ count' = count
      BY <2>3a DEF LoopEnds, After, thrown, flagVars, loopFrame, calm
    <3> QED  BY <3>1
  <2>4. CASE \/ ShutdownBegins \/ FlagWorker \/ RingWorker \/ JoinWorker \/ AllJoined
    BY <2>4 DEF ShutdownBegins, FlagWorker, RingWorker, JoinWorker, AllJoined, Last, still,
                others, thrown, flagVars, loopFrame, calm
  <2>5. CASE \/ ModuleStops \/ ModuleStopped \/ Undone \/ ShutdownReturns \/ HubEnds
    BY <2>5 DEF ModuleStops, ModuleStopped, Undone, Throws, ShutdownReturns, HubEnds, still,
                others, flagVars
  <2> QED  BY <1>4, <2>1, <2>2, <2>2a, <2>3, <2>3a, <2>4, <2>5 DEF HubSteps
<1>5. CASE HubFails
  BY <1>5 DEF HubFails, InitThrows, Undo, StartWorkerThrows, BusThrows, InlineTaskThrows,
              HookThrows, Throws, thrown, flagVars, initFrame, others
<1> QED
  BY <1>2, <1>3, <1>4, <1>5, NextCases

\* TaskManager::process() returns, or leaves by an exception.
Pass(m) == \E k \in 0 .. Quota : Takes(m, k) \/ ThrowsAfter(m, k)

LEMMA PassShape ==
    ASSUME NEW m \in Modules
    PROVE  /\ \A k \in 0 .. Quota : Takes(m, k) => Pass(m)
           /\ \A k \in 1 .. Quota : ThrowsAfter(m, k) => Pass(m)
<1>1. \A k \in 1 .. Quota : k \in 0 .. Quota
  BY HubAssumption
<1> QED
  BY <1>1 DEF Pass

\* It touches the tasks of its own module.
LEMMA TakesTasks ==
    ASSUME WorkInv, NEW m \in Modules, Pass(m)
    PROVE  /\ ready' \in [Modules -> Nat] /\ delayed' \in [Modules -> Nat]
           /\ \A n \in Modules \ {m} : ready'[n] = ready[n] /\ delayed'[n] = delayed[n]
<1>0. PICK k \in 0 .. Quota : Takes(m, k) \/ ThrowsAfter(m, k)
  BY DEF Pass
<1>1. PICK due \in 0 .. delayed[m] :
         /\ \/ k = IF ready[m] + due < Quota THEN ready[m] + due ELSE Quota
            \/ k <= ready[m] + due
         /\ delayed' = [delayed EXCEPT ![m] = @ - due]
         /\ ready' = [ready EXCEPT ![m] = @ + due - k]
  BY <1>0 DEF Takes, ThrowsAfter
<1>2. ready[m] \in Nat /\ delayed[m] \in Nat /\ due \in Nat /\ due <= delayed[m]
  BY DEF WorkInv
<1>3. k \in Nat /\ k <= ready[m] + due
  BY <1>1, <1>2, HubAssumption
<1>4. delayed[m] - due \in Nat /\ ready[m] + due - k \in Nat
  BY <1>2, <1>3
<1> QED
  BY <1>1, <1>4 DEF WorkInv

\* Steps of the hub's thread that touch neither workers nor tasks.
LEMMA HubLeavesWork ==
    ASSUME HubSteps \/ HubFails
    PROVE  \/ UNCHANGED <<worker, ready, delayed>>
           \/ StartWorker \/ InlineTasks \/ InlineTaskThrows \/ JoinWorker \/ ModuleStopped
<1>1. CASE \/ Wire \/ InitModule \/ InitRefused \/ Initialized \/ Top \/ RecordGeneration
           \/ BusProcess \/ WorkerRethrown \/ ProcessReturns
  BY <1>1 DEF Wire, InitModule, InitRefused, Undo, Initialized, Top, RecordGeneration,
       BusProcess, WorkerRethrown, ProcessReturns, loopFrame, modVars, flowVars, workVars,
       workerVars, initFrame
<1>2. CASE \/ ProcessHook \/ PendingBus \/ PendingModule \/ DeadlineModule \/ Wait \/ LoopEnds
  BY <1>2, HookShape, DeadlineShape DEF PendingBus, PendingModule, Wait, LoopEnds, calm,
       loopFrame, modVars, flowVars, workVars, workerVars
<1>3. CASE \/ ShutdownBegins \/ FlagWorker \/ RingWorker \/ AllJoined
           \/ ModuleStops \/ Undone \/ ShutdownReturns \/ HubEnds
  BY <1>3 DEF ShutdownBegins, FlagWorker, RingWorker, AllJoined, ModuleStops, Undone,
       ShutdownReturns, HubEnds, calm, loopFrame, modVars, flowVars, workVars, workerVars
<1>4. CASE InitThrows \/ StartWorkerThrows \/ BusThrows \/ HookThrows
  BY <1>4 DEF InitThrows, Undo, StartWorkerThrows, BusThrows, HookThrows, modVars, flowVars,
       workVars, workerVars, initFrame
<1> QED
  BY <1>1, <1>2, <1>3, <1>4 DEF HubSteps, HubFails

\* The application's own calls run no worker and no task.
LEMMA AppLeavesWork ==
    ASSUME App
    PROVE  UNCHANGED <<worker, ready, delayed, events>>
BY DEF App, AddModule, Run, Start, Begins, Initialize, Process, Shutdown, Embedded,
       DestroyJoins, StartFails, Join, JoinReturns, Destroy, modVars, flowVars, workVars,
       workerVars

\* The types of workers and work are kept.
LEMMA WorkStep ==
    ASSUME PlaceInv, WorkInv, [Next]_vars
    PROVE  WorkInv'
<1> USE DEF WorkInv
<1>e. events' \in Nat
  <2>1. CASE Outside
    BY <2>1 DEF Outside, PostEvent, Submit, Notify, RequestStop, StopSteps, StopNotifiesHub,
           StopFlagsWorker, StopNotifiesWorker, stopFrame, workVars
  <2>2. CASE App \/ Workers \/ UNCHANGED vars
    BY <2>2, AppLeavesWork, WorkersLeave DEF vars, workVars
  <2>3. CASE HubFails
    BY <2>3 DEF HubFails, InitThrows, Undo, StartWorkerThrows, BusThrows, InlineTaskThrows,
           HookThrows, initFrame, flowVars, workVars
  <2>4. CASE HubSteps
    <3>1. CASE BusProcess \/ ShutdownReturns \/ HubEnds
      BY <3>1 DEF BusProcess, ShutdownReturns, HubEnds
    <3>2. CASE \/ Wire \/ InitModule \/ InitRefused \/ StartWorker \/ Initialized \/ Top
               \/ RecordGeneration \/ WorkerRethrown \/ InlineTasks \/ ProcessReturns
      BY <3>2 DEF Wire, InitModule, InitRefused, Undo, StartWorker, Initialized, Top,
             RecordGeneration, WorkerRethrown, InlineTasks, ProcessReturns, flowVars,
             workVars, initFrame
    <3>3. CASE \/ ProcessHook \/ PendingBus \/ PendingModule \/ DeadlineModule \/ Wait
               \/ LoopEnds
      BY <3>3, HookShape, DeadlineShape DEF PendingBus, PendingModule, Wait, LoopEnds, calm,
             flowVars, workVars
    <3>4. CASE \/ ShutdownBegins \/ FlagWorker \/ RingWorker \/ JoinWorker \/ AllJoined
               \/ ModuleStops \/ ModuleStopped \/ Undone
      BY <3>4 DEF ShutdownBegins, FlagWorker, RingWorker, JoinWorker, AllJoined,
             ModuleStops, ModuleStopped, Undone, calm, flowVars, workVars
    <3> QED  BY <2>4, <3>1, <3>2, <3>3, <3>4 DEF HubSteps
  <2> QED  BY <2>1, <2>2, <2>3, <2>4, NextCases
<1>1. CASE Outside
  <2>1. worker' = worker
    BY <1>1, OutsideLeaves
  <2>2. CASE PostEvent \/ Notify \/ RequestStop \/ StopSteps
    <3>1. UNCHANGED <<ready, delayed>>
      BY <2>2 DEF PostEvent, Notify, RequestStop, StopSteps, StopNotifiesHub,
           StopFlagsWorker, StopNotifiesWorker, stopFrame, workVars
    <3> QED  BY <1>e, <2>1, <3>1
  <2>3. ASSUME NEW m \in Modules, Submit(m) PROVE WorkInv'
    BY <1>e, <2>1, <2>3 DEF Submit
  <2> QED  BY <1>1, <2>2, <2>3 DEF Outside
<1>2. CASE UNCHANGED <<worker, ready, delayed>>
  BY <1>e, <1>2
<1>3. CASE App \/ UNCHANGED vars
  BY <1>2, <1>3, AppLeavesWork DEF vars, workVars, workerVars
<1>4. CASE StartWorker \/ JoinWorker
  <2>1. UNCHANGED <<ready, delayed>>
    BY <1>4 DEF StartWorker, JoinWorker, flowVars, workVars
  <2>2. worker' \in [Modules -> Steps]
    BY <1>4 DEF StartWorker, JoinWorker, workerVars, Steps
  <2> QED  BY <1>e, <2>1, <2>2
<1>5. CASE InlineTasks
  <2>1. worker' = worker
    BY <1>5 DEF InlineTasks, loopFrame, modVars, workerVars
  <2>2. CASE i \in Inline \cap Active
    <3>1. i \in Modules
      BY <2>2, HubAssumption
    <3>2. Pass(i)
      BY <1>5, <2>2, <3>1, PassShape DEF InlineTasks
    <3> QED  BY <1>e, <2>1, <3>1, <3>2, TakesTasks
  <2>3. CASE i \notin Inline \cap Active
    BY <1>e, <1>5, <2>1, <2>3 DEF InlineTasks
  <2> QED  BY <2>2, <2>3
<1>6. CASE InlineTaskThrows
  <2>1. worker' = worker /\ i \in Modules
    BY <1>6, HubAssumption DEF InlineTaskThrows, modVars, workerVars
  <2>2. Pass(i)
    BY <1>6, <2>1, PassShape DEF InlineTaskThrows
  <2> QED  BY <1>e, <2>1, <2>2, TakesTasks
<1>7. CASE ModuleStopped
  BY <1>e, <1>7 DEF ModuleStopped, workerVars
<1>8. ASSUME NEW m \in Private, WorkerLoop(m) \/ WorkerThrows(m) PROVE WorkInv'
  <2>1. m \in Modules
    BY HubAssumption
  <2>2. worker' \in [Modules -> Steps]
    BY <1>8 DEF WorkerLoop, WorkerTop, WorkerGeneration, WorkerProcess, WorkerThrows,
           WorkerStores, WorkerTells, WorkerIdle, WorkerReady, WorkerDeadline, WorkerWait,
           Move, Steps
  <2>3. CASE UNCHANGED <<ready, delayed>>
    BY <1>e, <2>2, <2>3
  <2>4. CASE Pass(m)
    BY <1>e, <2>1, <2>2, <2>4, TakesTasks
  <2>5. UNCHANGED <<ready, delayed>> \/ Pass(m)
    BY <1>8, <2>1, PassShape DEF WorkerLoop, WorkerTop, WorkerGeneration, WorkerProcess, WorkerThrows,
           WorkerStores, WorkerTells, WorkerIdle, WorkerReady, WorkerDeadline, WorkerWait
  <2> QED  BY <2>3, <2>4, <2>5
<1> QED
  BY <1>1, <1>2, <1>3, <1>4, <1>5, <1>6, <1>7, <1>8, HubLeavesWork, NextCases DEF Workers

--------------------------------------------------------------------------------
(* The lifecycle. *)

\* The calls stay in order.
LEMMA CallStep ==
    ASSUME CallInv, [Next]_vars
    PROVE  CallInv'
<1> USE DEF CallInv, Closing, Looping, Goto
<1>1. CASE UNCHANGED <<at, caller, undoing, hubUp, app>>
  BY <1>1
<1>2. CASE Outside \/ Workers \/ UNCHANGED vars
  <2>1. UNCHANGED <<at, caller, undoing, hubUp, app>>
    BY <1>2, OutsideLeaves, WorkersLeave DEF vars, placeVars, hubVars, flagVars, appVars
  <2> QED  BY <1>1, <2>1
<1>3. CASE App
  <2>1. CASE AddModule \/ StartFails
    BY <1>1, <2>1 DEF AddModule, StartFails, still, others, callVars, placeVars, hubVars,
           appVars
  <2>2. CASE Run \/ Start
    BY <2>2 DEF Run, Start, Begins, Between, AppFree
  <2>3. CASE Initialize \/ Process \/ Shutdown
    BY <2>3 DEF Initialize, Process, Shutdown, Embedded, Between, AppFree, thrown, flagVars,
           appVars
  <2>4. CASE Join \/ JoinReturns \/ Destroy
    BY <2>4 DEF Join, JoinReturns, Destroy, AppFree, placeVars, hubVars, flagVars
  <2>5. CASE DestroyJoins
    BY <2>5 DEF DestroyJoins, flagVars
  <2> QED  BY <1>3, <2>1, <2>2, <2>3, <2>4, <2>5 DEF App
<1>t. ASSUME NEW e, Throws(e), at \in {"bus", "tasks", "hooks"}, UNCHANGED <<undoing, hubUp, app>>
      PROVE  CallInv'
  BY <1>t DEF Throws
<1>4. CASE HubFails
  <2>1. CASE InitThrows
    BY <2>1 DEF InitThrows, Undo, initFrame, others, appVars
  <2>2. CASE StartWorkerThrows
    BY <2>2 DEF StartWorkerThrows, others, appVars
  <2>3. CASE BusThrows \/ InlineTaskThrows \/ HookThrows
    BY <1>t, <2>3 DEF BusThrows, InlineTaskThrows, HookThrows, thrown, flagVars, appVars
  <2> QED  BY <1>4, <2>1, <2>2, <2>3 DEF HubFails
<1>5. CASE HubSteps
  <2>0. CASE Wire
    BY <2>0 DEF Wire, still, others, appVars
  <2>1. CASE InitModule \/ InitRefused \/ StartWorker
    BY <2>1 DEF InitModule, InitRefused, Undo, StartWorker, initFrame, still, others,
           appVars
  <2>2. CASE Initialized
    BY <2>2 DEF Initialized, appVars
  <2>3. CASE WorkerRethrown
    BY <1>t, <2>3 DEF WorkerRethrown, thrown, flagVars, appVars
  <2>4. CASE Top \/ RecordGeneration \/ BusProcess \/ InlineTasks
    BY <2>4 DEF Top, RecordGeneration, BusProcess, InlineTasks, loopFrame, thrown, flagVars,
           appVars
  <2>5. CASE ProcessReturns
    BY <2>5 DEF ProcessReturns, thrown, flagVars, appVars
  <2>6. CASE ProcessHook \/ PendingBus \/ PendingModule \/ DeadlineModule \/ Wait
    BY <2>6, HookShape, DeadlineShape DEF PendingBus, PendingModule, Wait, calm, loopFrame,
           thrown, flagVars, appVars
  <2>7. CASE LoopEnds
    BY <2>7 DEF LoopEnds, After, calm, loopFrame, thrown, flagVars, appVars
  <2>8. CASE ShutdownBegins \/ FlagWorker \/ RingWorker \/ JoinWorker \/ AllJoined
    BY <2>8 DEF ShutdownBegins, FlagWorker, RingWorker, JoinWorker, AllJoined, still, others,
           calm, loopFrame, thrown, flagVars, appVars
  <2>9. CASE ModuleStops \/ ModuleStopped
    BY <2>9 DEF ModuleStops, ModuleStopped, still, others, appVars
  <2>10. CASE Undone
    BY <2>10 DEF Undone, Throws, flagVars, appVars
  <2>11. CASE ShutdownReturns
    BY <2>11 DEF ShutdownReturns, appVars
  <2>12. CASE HubEnds
    BY <2>12 DEF HubEnds
  <2> QED  BY <1>5, <2>0, <2>1, <2>2, <2>3, <2>4, <2>5, <2>6, <2>7, <2>8, <2>9, <2>10, <2>11,
              <2>12 DEF HubSteps
<1> QED
  BY <1>2, <1>3, <1>4, <1>5, NextCases

\* What the hub's steps leave of the modules.
LEMMA HubLeavesLife ==
    ASSUME HubSteps \/ HubFails
    PROVE  \/ UNCHANGED lifeVars
           \/ InitModule \/ ModuleStops \/ ModuleStopped
<1>1. CASE \/ Wire \/ InitRefused \/ StartWorker \/ Initialized \/ Top \/ RecordGeneration
           \/ BusProcess \/ WorkerRethrown \/ InlineTasks \/ ProcessReturns
  BY <1>1 DEF Wire, InitRefused, Undo, StartWorker, Initialized, Top, RecordGeneration,
       BusProcess, WorkerRethrown, InlineTasks, ProcessReturns, loopFrame, modVars, lifeVars,
       initFrame
<1>2. CASE \/ ProcessHook \/ PendingBus \/ PendingModule \/ DeadlineModule \/ Wait \/ LoopEnds
  BY <1>2, HookShape, DeadlineShape DEF PendingBus, PendingModule, Wait, LoopEnds, calm,
       loopFrame, modVars
<1>3. CASE \/ ShutdownBegins \/ FlagWorker \/ RingWorker \/ JoinWorker \/ AllJoined
           \/ Undone \/ ShutdownReturns \/ HubEnds
  BY <1>3 DEF ShutdownBegins, FlagWorker, RingWorker, JoinWorker, AllJoined, Undone,
       ShutdownReturns, HubEnds, calm, loopFrame, modVars
<1>4. CASE HubFails
  BY <1>4 DEF HubFails, InitThrows, Undo, StartWorkerThrows, BusThrows, InlineTaskThrows,
       HookThrows, modVars, lifeVars, initFrame
<1> QED
  BY <1>1, <1>2, <1>3, <1>4 DEF HubSteps

\* They leave the modules and their notifiers to the steps that follow.
LEMMA AppLeavesLife ==
    ASSUME App
    PROVE  \/ UNCHANGED <<lifeVars, workerVars, wireVars, workVars, bellVars, pending>>
           \/ JoinReturns /\ UNCHANGED <<lifeVars, workerVars, wireVars, workVars, bellVars>>
BY DEF App, AddModule, Run, Start, Begins, Initialize, Process, Shutdown, Embedded,
       DestroyJoins, StartFails, Join, JoinReturns, Destroy, modVars, flowVars, failVars

\* What the hub's steps leave of the notifiers.
LEMMA HubLeavesWires ==
    ASSUME HubSteps \/ HubFails
    PROVE  \/ UNCHANGED wireVars
           \/ Wire \/ StartWorker \/ StartWorkerThrows \/ JoinWorker \/ HubEnds
<1>1. CASE \/ InitModule \/ InitRefused \/ Initialized \/ Top \/ RecordGeneration
           \/ BusProcess \/ WorkerRethrown \/ InlineTasks \/ ProcessReturns
  BY <1>1 DEF InitModule, InitRefused, Undo, Initialized, Top, RecordGeneration,
       BusProcess, WorkerRethrown, InlineTasks, ProcessReturns, loopFrame, modVars
<1>2. CASE \/ ProcessHook \/ PendingBus \/ PendingModule \/ DeadlineModule \/ Wait \/ LoopEnds
  BY <1>2, HookShape, DeadlineShape DEF PendingBus, PendingModule, Wait, LoopEnds, calm,
       loopFrame, modVars
<1>3. CASE \/ ShutdownBegins \/ FlagWorker \/ RingWorker \/ AllJoined
           \/ ModuleStops \/ ModuleStopped \/ Undone \/ ShutdownReturns
  BY <1>3 DEF ShutdownBegins, FlagWorker, RingWorker, AllJoined, ModuleStops, ModuleStopped,
       Undone, ShutdownReturns, calm, loopFrame, modVars
<1>4. CASE InitThrows \/ BusThrows \/ InlineTaskThrows \/ HookThrows
  BY <1>4 DEF InitThrows, Undo, BusThrows, InlineTaskThrows, HookThrows, modVars
<1> QED
  BY <1>1, <1>2, <1>3, <1>4 DEF HubSteps, HubFails

\* The number of modules changes between calls only.
LEMMA HubCount ==
    ASSUME HubSteps \/ HubFails
    PROVE  count' = count
<1>1. CASE HubFails
  BY <1>1 DEF HubFails, InitThrows, Undo, StartWorkerThrows, BusThrows, InlineTaskThrows,
       HookThrows, initFrame, others, thrown, flagVars
<1>2. CASE \/ Wire \/ InitModule \/ InitRefused \/ StartWorker \/ Initialized \/ Top
           \/ RecordGeneration \/ BusProcess \/ WorkerRethrown \/ InlineTasks
           \/ ProcessReturns
  BY <1>2 DEF Wire, InitModule, InitRefused, Undo, StartWorker, Initialized, Top,
       RecordGeneration, BusProcess, WorkerRethrown, InlineTasks, ProcessReturns, still,
       loopFrame, initFrame, others, thrown, flagVars
<1>3. CASE \/ ProcessHook \/ PendingBus \/ PendingModule \/ DeadlineModule \/ Wait \/ LoopEnds
  BY <1>3, HookShape, DeadlineShape DEF PendingBus, PendingModule, Wait, LoopEnds, calm,
       loopFrame, thrown, flagVars
<1>4. CASE \/ ShutdownBegins \/ FlagWorker \/ RingWorker \/ JoinWorker \/ AllJoined
           \/ ModuleStops \/ ModuleStopped \/ Undone \/ ShutdownReturns \/ HubEnds
  BY <1>4 DEF ShutdownBegins, FlagWorker, RingWorker, JoinWorker, AllJoined, ModuleStops,
       ModuleStopped, Undone, ShutdownReturns, HubEnds, still, others, calm, loopFrame,
       thrown, flagVars
<1> QED
  BY <1>1, <1>2, <1>3, <1>4 DEF HubSteps

\* Modules are only added.
LEMMA CountStep ==
    ASSUME PlaceInv, [Next]_vars
    PROVE  /\ count' = count \/ AddModule
           /\ Added \subseteq Added'
<1>1. CASE AddModule
  BY <1>1 DEF AddModule, Added, PlaceInv
<1>2. CASE Outside \/ Workers \/ UNCHANGED vars
  BY <1>2, OutsideLeaves, WorkersLeave DEF vars, flagVars, Added
<1>3. CASE App
  BY <1>1, <1>3 DEF App, Run, Start, Begins, Initialize, Process, Shutdown, Embedded,
       DestroyJoins, StartFails, Join, JoinReturns, Destroy, still, others, thrown, flagVars,
       Added
<1>4. CASE HubSteps \/ HubFails
  BY <1>4, HubCount DEF Added
<1> QED
  BY <1>2, <1>3, <1>4, NextCases

\* A running worker keeps its notifier: join_worker() comes before its reset.
LEMMA AttachedStep ==
    ASSUME PlaceInv, WorkInv, WorkersAttached, [Next]_vars
    PROVE  WorkersAttached'
<1> USE HubAssumption DEF WorkersAttached, Modules
<1>c. Added \subseteq Added'
  BY CountStep
<1>1. CASE UNCHANGED <<worker, attached>>
  BY <1>1, <1>c
<1>2. CASE Outside \/ App \/ UNCHANGED vars
  BY <1>1, <1>2, OutsideLeaves, AppLeavesLife DEF vars, workerVars, wireVars
<1>3. ASSUME NEW m \in Private, WorkerLoop(m) \/ WorkerThrows(m) PROVE WorkersAttached'
  <2>1. attached' = attached
    BY <1>3, WorkersLeave DEF Workers, wireVars
  <2>2. PICK to : worker[m] # "none" /\ worker' = [worker EXCEPT ![m] = to]
    BY <1>3 DEF WorkerLoop, WorkerTop, WorkerGeneration, WorkerProcess, WorkerThrows,
           WorkerStores, WorkerTells, WorkerIdle, WorkerReady, WorkerDeadline, WorkerWait,
           Move
  <2> QED  BY <1>c, <2>1, <2>2 DEF WorkInv
<1>4. CASE Wire
  BY <1>4, <1>c DEF Wire, workerVars
<1>5. CASE StartWorker
  BY <1>5, <1>c DEF StartWorker, WorkInv, workerVars, Added, PlaceInv
<1>6. CASE StartWorkerThrows
  BY <1>6, <1>c DEF StartWorkerThrows
<1>7. CASE JoinWorker
  BY <1>7, <1>c DEF JoinWorker, WorkInv
<1>8. CASE HubEnds
  BY <1>8, <1>c DEF HubEnds, workerVars, Bus
<1>9. CASE (HubSteps \/ HubFails) /\ UNCHANGED wireVars
  <2>1. UNCHANGED worker \/ StartWorker \/ JoinWorker
    BY <1>9, HubLeavesWork DEF InlineTasks, InlineTaskThrows, ModuleStopped, loopFrame,
           modVars, workerVars
  <2> QED  BY <1>1, <1>5, <1>7, <1>9, <2>1 DEF wireVars
<1> QED
  BY <1>2, <1>3, <1>4, <1>5, <1>6, <1>7, <1>8, <1>9, HubLeavesWires, NextCases DEF Workers

\* The modules come up and go down as the hub's thread does.
LEMMA UpStep ==
    ASSUME PlaceInv, CallInv, UpInv, [Next]_vars
    PROVE  UpInv'
<1> USE DEF UpInv, Closing, Goto, lifeVars
<1>1. CASE UNCHANGED <<at, i, count, hubUp, lifeVars>>
  BY <1>1 DEF Added
<1>2. CASE Outside \/ Workers \/ UNCHANGED vars
  <2>1. UNCHANGED <<at, i, count, hubUp, lifeVars>>
    BY <1>2, OutsideLeaves, WorkersLeave DEF vars, placeVars, flagVars
  <2> QED  BY <1>1, <2>1
<1>3. CASE App
  <2>0. UNCHANGED lifeVars
    BY <1>3, AppLeavesLife
  <2>1. CASE AddModule
    <3>1. at = "out" /\ at' = at /\ ~hubUp /\ hubUp' = hubUp
      BY <2>1 DEF AddModule, Between, callVars, placeVars
    <3> QED  BY <2>0, <3>1
  <2>2. CASE Run \/ Start \/ Initialize \/ Process \/ Shutdown \/ DestroyJoins
    <3>1. /\ at = "out" /\ at' \in {"wire", "init", "bus", "stop"} /\ i' = 1
          /\ UNCHANGED <<count, hubUp>>
      BY <2>2 DEF Run, Start, Begins, Between, Initialize, Process, Shutdown, Embedded,
             DestroyJoins, thrown, flagVars
    <3>2. Added' = Added /\ \A m \in Added : ~(m < 1)
      BY <3>1 DEF Added, PlaceInv
    <3> QED  BY <2>0, <3>1, <3>2
  <2>3. CASE StartFails \/ Join \/ JoinReturns \/ Destroy
    <3>1. UNCHANGED <<at, i, count, hubUp>>
      BY <2>3 DEF StartFails, Join, JoinReturns, Destroy, still, others, placeVars, flagVars
    <3> QED  BY <1>1, <2>0, <3>1
  <2> QED  BY <1>3, <2>1, <2>2, <2>3 DEF App
<1>4. CASE InitModule
  <2>1. /\ at = "init" /\ at' = "init" /\ i' = i + 1 /\ up' = up \cup {i}
        /\ UNCHANGED <<count, hubUp, stopping, stopped>>
        /\ i \in up \/ i \notin stopped
    BY <1>4 DEF InitModule, initFrame, others
  <2>2. Added' = Added /\ \A m \in Added : m < i + 1 => m < i \/ m = i
    BY <2>1 DEF Added, PlaceInv
  <2>3. ~hubUp'
    BY <2>1 DEF CallInv
  <2> QED  BY <2>1, <2>2, <2>3
<1>5. CASE ModuleStops
  <2>1. /\ at = "down" /\ i > 0 /\ UNCHANGED <<count, hubUp, up, stopped>>
        /\ \/ i \in stopped /\ at' = "down" /\ i' = i - 1 /\ stopping' = stopping
           \/ at' = "closing" /\ i' = i /\ stopping' = stopping \cup {i}
    BY <1>5 DEF ModuleStops, still, others
  <2>2. Added' = Added /\ \A m \in Added : m > i - 1 => m > i \/ m = i
    BY <2>1 DEF Added, PlaceInv
  <2> QED  BY <2>1, <2>2
<1>6. CASE ModuleStopped
  <2>1. /\ at = "closing" /\ at' = "down" /\ i' = i - 1 /\ UNCHANGED <<count, hubUp>>
        /\ up' = up \ {i} /\ stopped' = stopped \cup {i} /\ stopping' = stopping \ {i}
    BY <1>6 DEF ModuleStopped, still, others
  <2>2. Added' = Added /\ \A m \in Added : m > i - 1 => m > i \/ m = i
    BY <2>1 DEF Added, PlaceInv
  <2> QED  BY <2>1, <2>2
<1>7. CASE (HubSteps \/ HubFails) /\ UNCHANGED lifeVars
  <2>0. Added' = Added
    BY <1>7, HubCount DEF Added
  <2>a. ASSUME hubUp' => hubUp, at' \in Closing \ {"down", "closing"}, at # "closing"
        PROVE  UpInv'
    BY <1>7, <2>0, <2>a
  <2>b. ASSUME hubUp' = hubUp, at \notin Closing, at' \in {"out"} \cup Looping
        PROVE  UpInv'
    BY <1>7, <2>0, <2>b DEF Looping
  <2>t. ASSUME NEW e, Throws(e), at \in {"bus", "tasks", "hooks"}, UNCHANGED hubUp
        PROVE  UpInv'
    BY <2>a, <2>b, <2>t DEF Throws
  <2>1. CASE Wire
    <3>1. \A m \in Added : ~(m < 1)
      BY DEF Added, PlaceInv
    <3> QED  BY <1>7, <2>0, <2>1, <3>1 DEF Wire, still
  <2>2. CASE InitRefused \/ InitThrows \/ StartWorkerThrows
    BY <2>2, <2>a DEF InitRefused, InitThrows, Undo, StartWorkerThrows
  <2>3. CASE StartWorker
    BY <1>7, <2>0, <2>3 DEF StartWorker, still
  <2>4. CASE Initialized
    BY <1>7, <2>0, <2>4 DEF Initialized
  <2>5. CASE BusThrows \/ WorkerRethrown \/ InlineTaskThrows \/ HookThrows
    BY <2>5, <2>t DEF BusThrows, WorkerRethrown, InlineTaskThrows, HookThrows, thrown, flagVars
  <2>6. CASE Top
    BY <2>6, <2>a, <2>b DEF Top, loopFrame, thrown, flagVars, Looping
  <2>7. CASE RecordGeneration \/ BusProcess \/ InlineTasks
    BY <2>7, <2>b DEF RecordGeneration, BusProcess, InlineTasks, loopFrame, thrown, flagVars,
           Looping
  <2>8. CASE ProcessReturns
    BY <2>8, <2>a, <2>b DEF ProcessReturns, thrown, flagVars, Looping
  <2>9. CASE ProcessHook \/ PendingBus \/ PendingModule \/ DeadlineModule \/ Wait
    BY <2>9, <2>b, HookShape, DeadlineShape DEF PendingBus, PendingModule, Wait, calm,
           loopFrame, thrown, flagVars, Looping
  <2>10. CASE LoopEnds
    <3>1. /\ at \in {"init", "tasks", "pending", "deadline", "flag"} /\ i > count
          /\ at' = After[at] /\ hubUp' = hubUp
      BY <2>10 DEF LoopEnds, After, calm, loopFrame, thrown, flagVars
    <3>2. CASE at = "init"
      <4>1. \A m \in Added : m < i
        BY <3>1 DEF Added, PlaceInv
      <4> QED  BY <1>7, <2>0, <3>1, <3>2, <4>1 DEF After
    <3>3. CASE at # "init"
      BY <3>1, <3>3, <2>a, <2>b DEF After, Looping
    <3> QED  BY <3>2, <3>3
  <2>11. CASE ShutdownBegins \/ FlagWorker \/ RingWorker \/ JoinWorker
    BY <2>11, <2>a DEF ShutdownBegins, FlagWorker, RingWorker, JoinWorker, still, loopFrame,
           thrown, flagVars
  <2>12. CASE AllJoined
    <3>1. \A m \in Added : ~(m > count)
      BY DEF Added, PlaceInv
    <3> QED  BY <1>7, <2>0, <2>12, <3>1 DEF AllJoined, Last, calm, loopFrame, thrown, flagVars
  <2>13. CASE Undone
    BY <1>7, <2>0, <2>13 DEF Undone, Throws, flagVars, CallInv
  <2>14. CASE ShutdownReturns \/ HubEnds
    BY <1>7, <2>0, <2>14 DEF ShutdownReturns, HubEnds
  <2> QED  BY <1>4, <1>5, <1>6, <1>7, <2>1, <2>2, <2>3, <2>4, <2>5, <2>6, <2>7, <2>8, <2>9,
              <2>10, <2>11, <2>12, <2>13, <2>14 DEF HubSteps, HubFails
<1> QED
  BY <1>2, <1>3, <1>4, <1>5, <1>6, <1>7, HubLeavesLife, NextCases

\* A hub that runs keeps the notifiers of its sources.
LEMMA WiredStep ==
    ASSUME PlaceInv, CallInv, WiredInv, [Next]_vars
    PROVE  WiredInv'
<1> USE DEF WiredInv, Looping, Goto, wireVars
<1>1. CASE UNCHANGED <<at, caller, count, attached, wired>>
  BY <1>1 DEF Added
<1>2. CASE Outside \/ Workers \/ UNCHANGED vars
  <2>1. UNCHANGED <<at, caller, count, attached, wired>>
    BY <1>2, OutsideLeaves, WorkersLeave DEF vars, placeVars, hubVars, flagVars
  <2> QED  BY <1>1, <2>1
<1>3. CASE App
  <2>0. UNCHANGED wireVars
    BY <1>3, AppLeavesLife
  <2>1. CASE AddModule
    <3>1. at' = "out"
      BY <2>1 DEF AddModule, Between, callVars, placeVars
    <3> QED  BY <3>1
  <2>2. CASE Run \/ Start \/ Initialize \/ Process \/ Shutdown \/ DestroyJoins
    <3>1. at' = "wire" \/ caller' = "embed" \/ caller' = "destroy"
      BY <2>2 DEF Run, Start, Initialize, Process, Shutdown, Embedded, DestroyJoins
    <3> QED  BY <3>1
  <2>3. CASE StartFails \/ Join \/ JoinReturns \/ Destroy
    <3>1. UNCHANGED <<at, caller, count>>
      BY <2>3 DEF StartFails, Join, JoinReturns, Destroy, still, others, placeVars, hubVars,
             flagVars
    <3> QED  BY <1>1, <2>0, <3>1
  <2> QED  BY <1>3, <2>1, <2>2, <2>3 DEF App
<1>4. CASE HubSteps \/ HubFails
  <2>0. Added' = Added
    BY <1>4, HubCount DEF Added
  <2>1. CASE Wire
    BY <2>0, <2>1 DEF Wire, Wired
  <2>2. CASE JoinWorker \/ HubEnds
    BY <2>2 DEF JoinWorker, HubEnds
  <2>3. CASE StartWorker \/ StartWorkerThrows
    <3>1. /\ at \in {"init", "workers"} /\ caller' = caller /\ wired' = wired
          /\ attached \subseteq attached'
      BY <2>3 DEF StartWorker, StartWorkerThrows, still, others
    <3> QED  BY <2>0, <3>1
  <2>4. CASE UNCHANGED wireVars /\ ~Wire
    <3>1. \/ at' \notin {"init", "workers"} \cup Looping
          \/ caller' = "none"
          \/ caller' = caller /\ at \in {"init", "workers"} \cup Looping
      <4>1. CASE HubFails
        BY <4>1 DEF HubFails, InitThrows, Undo, StartWorkerThrows, BusThrows,
             InlineTaskThrows, HookThrows, Throws, initFrame, others
      <4>2. CASE \/ InitModule \/ InitRefused \/ Initialized \/ Top
                 \/ RecordGeneration \/ BusProcess \/ WorkerRethrown \/ InlineTasks
                 \/ ProcessReturns
        BY <4>2 DEF InitModule, InitRefused, Undo, Initialized, Top, RecordGeneration,
             BusProcess, WorkerRethrown, InlineTasks, ProcessReturns, Throws, loopFrame,
             initFrame, others
      <4>3. CASE ProcessHook \/ PendingBus \/ PendingModule \/ DeadlineModule \/ Wait
        BY <4>3, HookShape, DeadlineShape DEF PendingBus, PendingModule, Wait, calm,
             loopFrame
      <4>4. CASE LoopEnds
        BY <4>4 DEF LoopEnds, After, calm, loopFrame
      <4>5. CASE \/ ShutdownBegins \/ FlagWorker \/ RingWorker \/ AllJoined
                 \/ ModuleStops \/ ModuleStopped \/ Undone \/ ShutdownReturns
        BY <4>5 DEF ShutdownBegins, FlagWorker, RingWorker, AllJoined, ModuleStops,
             ModuleStopped, Undone, ShutdownReturns, Throws
      <4>6. CASE StartWorker \/ JoinWorker \/ HubEnds
        BY <4>6 DEF StartWorker, JoinWorker, HubEnds, still, others
      <4> QED  BY <1>4, <2>4, <4>1, <4>2, <4>3, <4>4, <4>5, <4>6 DEF HubSteps
    <3> QED  BY <2>0, <2>4, <3>1
  <2> QED  BY <1>4, <2>1, <2>2, <2>3, <2>4, HubLeavesWires
<1> QED
  BY <1>2, <1>3, <1>4, NextCases

--------------------------------------------------------------------------------
(* No failure is lost. *)

\* What the hub's steps leave of the failures.
LEMMA HubLeavesFails ==
    ASSUME HubSteps \/ HubFails
    PROVE  \/ UNCHANGED <<flight, background, pending, untold>>
           \/ StartWorker \/ StartWorkerThrows \/ WorkerRethrown
           \/ BusThrows \/ InlineTaskThrows \/ HookThrows \/ Undone \/ HubEnds
<1>1. CASE \/ Wire \/ InitModule \/ InitRefused \/ Initialized \/ Top \/ RecordGeneration
           \/ BusProcess \/ InlineTasks \/ ProcessReturns
  BY <1>1 DEF Wire, InitModule, InitRefused, Undo, Initialized, Top, RecordGeneration,
       BusProcess, InlineTasks, ProcessReturns, failVars, initFrame
<1>2. CASE \/ ProcessHook \/ PendingBus \/ PendingModule \/ DeadlineModule \/ Wait \/ LoopEnds
  BY <1>2, HookShape, DeadlineShape DEF PendingBus, PendingModule, Wait, LoopEnds, calm,
       failVars
<1>3. CASE \/ ShutdownBegins \/ FlagWorker \/ RingWorker \/ JoinWorker \/ AllJoined
           \/ ModuleStops \/ ModuleStopped \/ ShutdownReturns
  BY <1>3 DEF ShutdownBegins, FlagWorker, RingWorker, JoinWorker, AllJoined, ModuleStops,
       ModuleStopped, ShutdownReturns, calm, failVars
<1>4. CASE InitThrows
  BY <1>4 DEF InitThrows, Undo, initFrame
<1> QED
  BY <1>1, <1>2, <1>3, <1>4 DEF HubSteps, HubFails

\* Nothing but the end of shutdown() leads out of it.
LEMMA ClosingStays ==
    ASSUME [Next]_vars, at \in Closing, ~undoing, caller \in {"run", "start"}
    PROVE  HubEnds \/ (at' \in Closing /\ ~undoing' /\ caller' = caller)
<1> USE DEF Closing, Goto
<1>1. CASE Outside \/ Workers \/ UNCHANGED vars
  BY <1>1, OutsideLeaves, WorkersLeave DEF vars, placeVars, hubVars
<1>2. CASE App
  BY <1>2 DEF App, AddModule, Run, Start, Begins, StartFails, Initialize, Process, Shutdown,
       Embedded, Between, Join, JoinReturns, Destroy, DestroyJoins, placeVars, hubVars
<1>3. CASE HubFails
  BY <1>3 DEF HubFails, InitThrows, StartWorkerThrows, BusThrows, InlineTaskThrows, HookThrows
<1>4. CASE \/ Wire \/ InitModule \/ InitRefused \/ StartWorker \/ Initialized
           \/ Top \/ RecordGeneration \/ BusProcess \/ WorkerRethrown \/ InlineTasks
           \/ ProcessHook \/ ProcessReturns \/ PendingBus \/ PendingModule \/ DeadlineModule
           \/ Wait
  BY <1>4, HookShape, DeadlineShape DEF Wire, InitModule, InitRefused, StartWorker,
       Initialized, Top, RecordGeneration, BusProcess, WorkerRethrown, InlineTasks,
       ProcessReturns, PendingBus, PendingModule, Wait
<1>5. CASE LoopEnds
  BY <1>5 DEF LoopEnds, After, calm, loopFrame, thrown
<1>6. CASE ShutdownBegins \/ FlagWorker \/ RingWorker \/ JoinWorker \/ AllJoined
  BY <1>6 DEF ShutdownBegins, FlagWorker, RingWorker, JoinWorker, AllJoined, still, others,
       calm, loopFrame, thrown
<1>7. CASE ModuleStops \/ ModuleStopped \/ Undone \/ ShutdownReturns
  BY <1>7 DEF ModuleStops, ModuleStopped, Undone, ShutdownReturns, still, others
<1> QED
  BY <1>1, <1>2, <1>3, <1>4, <1>5, <1>6, <1>7, NextCases DEF HubSteps

\* A step that ends the modules' shutdown has stopped them all.
LEMMA JoiningStays ==
    ASSUME PlaceInv, UpInv, [Next]_vars, at \in Joining, at' \notin Joining
    PROVE  Added \subseteq stopped
<1> USE DEF Joining, Goto
<1>1. CASE Outside \/ Workers \/ UNCHANGED vars
  BY <1>1, OutsideLeaves, WorkersLeave DEF vars, placeVars
<1>2. CASE App
  BY <1>2 DEF App, AddModule, Run, Start, Begins, StartFails, Initialize, Process, Shutdown,
       Embedded, Between, Join, JoinReturns, Destroy, DestroyJoins, placeVars
<1>3. CASE HubFails
  BY <1>3 DEF HubFails, InitThrows, StartWorkerThrows, BusThrows, InlineTaskThrows, HookThrows
<1>4. CASE \/ Wire \/ InitModule \/ InitRefused \/ StartWorker \/ Initialized
           \/ Top \/ RecordGeneration \/ BusProcess \/ WorkerRethrown \/ InlineTasks
           \/ ProcessHook \/ ProcessReturns \/ PendingBus \/ PendingModule \/ DeadlineModule
           \/ Wait
  BY <1>4, HookShape, DeadlineShape DEF Wire, InitModule, InitRefused, StartWorker,
       Initialized, Top, RecordGeneration, BusProcess, WorkerRethrown, InlineTasks,
       ProcessReturns, PendingBus, PendingModule, Wait
<1>5. CASE LoopEnds
  BY <1>5 DEF LoopEnds, After
<1>6. CASE \/ ShutdownBegins \/ FlagWorker \/ RingWorker \/ JoinWorker \/ AllJoined
           \/ ModuleStops \/ ModuleStopped
  BY <1>6 DEF ShutdownBegins, FlagWorker, RingWorker, JoinWorker, AllJoined, ModuleStops,
       ModuleStopped
<1>7. CASE Undone \/ ShutdownReturns \/ HubEnds
  <2>1. at = "down" /\ i = 0
    BY <1>7 DEF Undone, ShutdownReturns, HubEnds
  <2>2. \A m \in Added : m > 0
    BY DEF Added, PlaceInv
  <2> QED  BY <2>1, <2>2 DEF UpInv
<1> QED
  BY <1>1, <1>2, <1>3, <1>4, <1>5, <1>6, <1>7, NextCases DEF HubSteps

\* Stopped modules stay stopped.
LEMMA StoppedStays ==
    ASSUME [Next]_vars
    PROVE  stopped \subseteq stopped'
<1>1. CASE Outside \/ Workers \/ App \/ UNCHANGED vars
  BY <1>1, OutsideLeaves, WorkersLeave, AppLeavesLife DEF vars, lifeVars
<1>2. CASE HubSteps \/ HubFails
  BY <1>2, HubLeavesLife DEF lifeVars, InitModule, initFrame, ModuleStops, ModuleStopped
<1> QED
  BY <1>1, <1>2, NextCases

\* A worker that is over stays so: a stopped module is not initialized again.
LEMMA OverStays ==
    ASSUME PlaceInv, WorkInv, UpInv, [Next]_vars, NEW m \in Private, Over(m)
    PROVE  Over(m)'
<1>0. m \in Modules /\ m \in Added' /\ m \in Added
  BY HubAssumption, CountStep DEF Over
<1>1. /\ worker[m] = "none" /\ (m \in stopped \/ at \in Joining)
         => m \in stopped' \/ at' \in Joining
  BY <1>0, StoppedStays, JoiningStays
<1>2. CASE worker'[m] = worker[m]
  BY <1>0, <1>1, <1>2 DEF Over
<1>3. CASE Outside \/ App \/ UNCHANGED vars
  BY <1>2, <1>3, OutsideLeaves, AppLeavesWork DEF vars, workerVars
<1>4. ASSUME NEW n \in Private, WorkerLoop(n) \/ WorkerThrows(n) PROVE Over(m)'
  <2>1. n \in Modules
    BY HubAssumption
  <2>2. CASE n # m
    <3>1. worker'[m] = worker[m]
      BY <1>0, <1>4, <2>1, <2>2 DEF WorkerLoop, WorkerTop, WorkerGeneration, WorkerProcess,
           WorkerThrows, WorkerStores, WorkerTells, WorkerIdle, WorkerReady, WorkerDeadline,
           WorkerWait, Move, WorkInv
    <3> QED  BY <1>2, <3>1
  <2>3. CASE n = m
    <3>1. worker[m] = "telling" /\ worker'[m] = "ended"
      BY <1>0, <1>4, <2>1, <2>3 DEF WorkerLoop, WorkerTop, WorkerGeneration, WorkerProcess,
           WorkerThrows, WorkerStores, WorkerTells, WorkerIdle, WorkerReady, WorkerDeadline,
           WorkerWait, Move, WorkInv, Over
    <3> QED  BY <1>0, <3>1 DEF Over
  <2> QED  BY <2>2, <2>3
<1>5. CASE StartWorker
  <2>1. at = "workers" /\ m \in up /\ m \notin stopped /\ at \notin Joining
    BY <1>0, <1>5 DEF StartWorker, UpInv, Joining
  <2>2. worker[m] # "none"
    BY <2>1 DEF Over
  <2>3. worker'[m] = worker[m]
    BY <1>0, <1>5, <2>2 DEF StartWorker, WorkInv, workerVars
  <2> QED  BY <1>2, <2>3
<1>6. CASE JoinWorker
  <2>1. at' = "join" /\ (worker'[m] = worker[m] \/ worker'[m] = "none")
    BY <1>0, <1>6 DEF JoinWorker, Goto, WorkInv
  <2> QED  BY <1>0, <1>2, <2>1 DEF Over, Joining
<1>7. CASE (HubSteps \/ HubFails) /\ ~StartWorker /\ ~JoinWorker
  <2>1. worker' = worker
    BY <1>7, HubLeavesWork DEF InlineTasks, InlineTaskThrows, ModuleStopped, loopFrame,
           modVars, workerVars
  <2> QED  BY <1>2, <2>1
<1> QED
  BY <1>3, <1>4, <1>5, <1>6, <1>7, NextCases DEF Workers

\* The workers whose failure is about to be stored.
Throwing == {m \in Private : worker[m] = "throwing"}

\* Private modules are numbers between the hub's and None.
LEMMA Origins ==
    /\ Hub \notin Private /\ None \notin Private /\ Hub # None /\ None \notin Waiters
    /\ Private \subseteq Modules
BY HubAssumption DEF Hub, None, Waiters, Modules

\* A failure that is kept or stored is not about to be stored.
LEMMA KeptApart ==
    ASSUME FailInv, NEW e \in pending \cup {flight, background}
    PROVE  e \notin Throwing
BY Origins DEF FailInv, ApartInv, TellInv, Over, Throwing

\* Only a worker's own steps begin and end its throwing.
LEMMA HubThrowing ==
    ASSUME WorkInv, HubSteps \/ HubFails
    PROVE  Throwing' = Throwing
<1>1. CASE StartWorker
  BY <1>1, Origins DEF StartWorker, WorkInv, workerVars, Throwing
<1>2. CASE JoinWorker
  BY <1>2, Origins DEF JoinWorker, WorkInv, Throwing
<1>3. CASE ~StartWorker /\ ~JoinWorker
  <2>1. worker' = worker
    BY <1>3, HubLeavesWork DEF InlineTasks, InlineTaskThrows, ModuleStopped, loopFrame,
           modVars, workerVars
  <2> QED  BY <2>1 DEF Throwing
<1> QED
  BY <1>1, <1>2, <1>3

\* A step of the hub's thread is for the same caller, or ends its call.
LEMMA HubCaller ==
    ASSUME HubSteps \/ HubFails
    PROVE  caller' \in {caller, "none"}
<1>1. CASE HubFails
  BY <1>1 DEF HubFails, InitThrows, Undo, StartWorkerThrows, BusThrows, InlineTaskThrows,
       HookThrows, Throws, initFrame, others
<1>2. CASE \/ Wire \/ InitModule \/ InitRefused \/ StartWorker \/ Initialized \/ Top
           \/ RecordGeneration \/ BusProcess \/ WorkerRethrown \/ InlineTasks
           \/ ProcessReturns
  BY <1>2 DEF Wire, InitModule, InitRefused, Undo, StartWorker, Initialized, Top,
       RecordGeneration, BusProcess, WorkerRethrown, InlineTasks, ProcessReturns, still,
       loopFrame, initFrame, others, Throws
<1>3. CASE \/ ProcessHook \/ PendingBus \/ PendingModule \/ DeadlineModule \/ Wait \/ LoopEnds
  BY <1>3, HookShape, DeadlineShape DEF PendingBus, PendingModule, Wait, LoopEnds, calm,
       loopFrame
<1>4. CASE \/ ShutdownBegins \/ FlagWorker \/ RingWorker \/ JoinWorker \/ AllJoined
           \/ ModuleStops \/ ModuleStopped \/ Undone \/ ShutdownReturns \/ HubEnds
  BY <1>4 DEF ShutdownBegins, FlagWorker, RingWorker, JoinWorker, AllJoined, ModuleStops,
       ModuleStopped, Undone, ShutdownReturns, HubEnds, still, others, calm, loopFrame, Throws
<1> QED
  BY <1>1, <1>2, <1>3, <1>4 DEF HubSteps

\* No step forgets a failure or makes it two.
LEMMA FailStep ==
    ASSUME PlaceInv, WorkInv, LifeInv, FailInv, [Next]_vars
    PROVE  FailInv'
<1> DEFINE Kept == pending \cup {flight, background}
           Kept2 == pending' \cup {flight', background'}
<1>0. CallInv /\ UpInv /\ WorkersAttached /\ TellInv /\ KeptInv /\ ApartInv /\ NoFailureLost
  BY DEF LifeInv, FailInv
<1>n. NoFailureLost <=> untold = ({flight, background} \ {None}) \cup pending \cup Throwing
  BY DEF NoFailureLost, Throwing
<1>o. \A m \in Private : m \in Kept => Over(m)'
  BY <1>0, OverStays DEF ApartInv
<1>a. \A e \in Kept : e \notin Throwing
  BY KeptApart
<1>k. ASSUME \A m \in Private : m \in Kept2 => m \in Kept \/ Over(m)',
             pending' \cap {flight', background'} = {},
             pending' \subseteq Private,
             flight' \in Waiters \cup {None}, background' \in Waiters \cup {None},
             KeptInv',
             untold' = ({flight', background'} \ {None}) \cup pending' \cup Throwing'
      PROVE  FailInv'
  BY <1>k, <1>o DEF FailInv, TellInv, ApartInv, NoFailureLost, Throwing
<1>c. ASSUME \/ caller' \in {caller, "none"}
             \/ caller' \in {"embed", "destroy"},
             flight' = flight, background' \in {background, None}
      PROVE  KeptInv'
  <2>1. CASE at \in Closing /\ ~undoing /\ caller \in {"run", "start"}
    BY <1>0, <1>c, <2>1, ClosingStays DEF KeptInv, HubEnds
  <2>2. CASE ~(at \in Closing /\ ~undoing /\ caller \in {"run", "start"})
    BY <1>0, <1>c, <2>2 DEF KeptInv
  <2> QED  BY <2>1, <2>2
<1>1. CASE UNCHANGED <<flight, background, pending, untold>> /\ Throwing' = Throwing
             /\ (caller' \in {caller, "none"} \/ caller' \in {"embed", "destroy"})
  BY <1>0, <1>1, <1>c, <1>k, <1>n DEF TellInv, ApartInv
<1>2. CASE Outside \/ UNCHANGED vars
  <2>1. UNCHANGED <<flight, background, pending, untold, caller, worker>>
    BY <1>2, OutsideLeaves DEF vars, failVars, hubVars, workerVars
  <2> QED  BY <1>1, <2>1 DEF Throwing
<1>3. ASSUME NEW m \in Private, WorkerThrows(m) PROVE FailInv'
  <2>1. m \in Modules /\ UNCHANGED <<flight, background, pending, caller>>
    BY <1>3, Origins DEF WorkerThrows, workerFrame, still, others
  <2>2. Throwing' = Throwing \cup {m} /\ untold' = untold \cup {m}
    BY <1>3, <2>1, Origins DEF WorkerThrows, Move, WorkInv, Throwing
  <2> QED  BY <1>0, <1>c, <1>k, <1>n, <2>1, <2>2 DEF TellInv, ApartInv
<1>4. ASSUME NEW m \in Private, WorkerStores(m) PROVE FailInv'
  <2>1. m \in Modules /\ UNCHANGED <<flight, background, untold, caller>>
    BY <1>4, Origins DEF WorkerStores, workerFrame, still, others
  <2>2. m \in Throwing /\ Throwing' = Throwing \ {m} /\ pending' = pending \cup {m}
    BY <1>4, <2>1, Origins DEF WorkerStores, Move, WorkInv, Throwing
  <2>3. Over(m)'
    <3>1. worker'[m] = "telling" /\ count' = count /\ m \in Added
      BY <1>0, <1>4, <2>1 DEF WorkerStores, Move, WorkInv, WorkersAttached, workerFrame,
             still, others
    <3> QED  BY <3>1 DEF Over, Added
  <2>4. m \notin {flight, background}
    BY <1>a, <2>2
  <2> QED  BY <1>0, <1>c, <1>k, <1>n, <2>1, <2>2, <2>3, <2>4 DEF TellInv, ApartInv
<1>5. CASE Workers
  <2>1. ASSUME NEW m \in Private, WorkerLoop(m), ~WorkerStores(m) PROVE FailInv'
    <3>1. UNCHANGED <<flight, background, pending, untold>>
      BY <2>1 DEF WorkerLoop, WorkerTop, WorkerGeneration, WorkerProcess, WorkerTells,
             WorkerIdle, WorkerReady, WorkerDeadline, WorkerWait, failVars
    <3>2. caller' = caller
      BY <1>5, WorkersLeave DEF hubVars
    <3>3. Throwing' = Throwing
      <4>1. m \in Modules
        BY Origins
      <4>2. PICK to : /\ worker[m] # "throwing" /\ to # "throwing"
                      /\ worker' = [worker EXCEPT ![m] = to]
        BY <2>1 DEF WorkerLoop, WorkerTop, WorkerGeneration, WorkerProcess, WorkerTells,
               WorkerIdle, WorkerReady, WorkerDeadline, WorkerWait, Move
      <4> QED  BY <4>1, <4>2, Origins DEF Throwing, WorkInv
    <3> QED  BY <1>1, <3>1, <3>2, <3>3
  <2> QED  BY <1>3, <1>4, <1>5, <2>1 DEF Workers
<1>6. CASE App
  <2>0. Throwing' = Throwing
    BY <1>6, AppLeavesWork DEF Throwing
  <2>1. ASSUME at = "out", UNCHANGED <<flight, pending>>, background' = None,
               untold' = untold \ {background}
        PROVE  FailInv'
    <3>1. caller = "none" /\ flight = None
      BY <1>0, <2>1 DEF CallInv, KeptInv
    <3>2. KeptInv'
      BY <2>1, <3>1 DEF KeptInv
    <3>3. untold' = pending \cup Throwing
      <4>1. background \notin pending \cup Throwing
        BY <1>0, <1>a DEF ApartInv
      <4>2. None \notin pending \cup Throwing
        BY <1>0, Origins DEF TellInv, Throwing
      <4> QED  BY <1>0, <1>n, <2>1, <3>1, <4>1, <4>2
    <3>4. pending \cap {None} = {}
      BY <1>0, Origins DEF TellInv
    <3> QED  BY <1>0, <1>k, <2>0, <2>1, <3>1, <3>2, <3>3, <3>4 DEF TellInv
  <2>2. CASE Run \/ Start \/ StartFails
    BY <2>1, <2>2 DEF Run, Start, Begins, StartFails, Between
  <2>3. CASE JoinReturns
    <3>1. caller' = caller /\ flight' = flight /\ flight = None /\ background' = None
      BY <1>0, <2>3 DEF JoinReturns, hubVars, CallInv, KeptInv
    <3>2. KeptInv'
      BY <1>c, <3>1
    <3>3. \/ background # None /\ JoinThrows = background /\ JoinClears = {}
          \/ background = None /\ pending # {} /\ JoinThrows = Min(pending)
                /\ JoinClears = {Min(pending)}
          \/ background = None /\ pending = {} /\ JoinThrows = None /\ JoinClears = {None}
      BY DEF JoinThrows, JoinClears
    <3>4. pending # {} => Min(pending) \in pending
      <4>1. pending \subseteq Nat
        BY <1>0, Origins DEF TellInv, Modules
      <4> QED  BY <4>1, LeastNatural DEF Min
    <3>5. pending' = pending \ JoinClears /\ untold' = untold \ {JoinThrows}
      BY <2>3 DEF JoinReturns
    <3>6. None \notin pending \cup Throwing \cup untold
      BY <1>0, <1>n, Origins DEF TellInv, Throwing
    <3>7. untold' = pending' \cup Throwing
      <4>1. CASE background # None
        <5>1. background \notin pending \cup Throwing
          BY <1>0, <1>a DEF ApartInv
        <5> QED  BY <1>0, <1>n, <3>1, <3>3, <3>5, <4>1, <5>1
      <4>2. CASE background = None /\ pending # {}
        <5>1. Min(pending) \notin Throwing
          BY <1>a, <3>4, <4>2
        <5> QED  BY <1>0, <1>n, <3>1, <3>3, <3>5, <4>2, <5>1
      <4>3. CASE background = None /\ pending = {}
        BY <1>0, <1>n, <3>1, <3>3, <3>5, <3>6, <4>3
      <4> QED  BY <4>1, <4>2, <4>3
    <3>8. pending' \subseteq pending
      BY <3>5
    <3> QED  BY <1>0, <1>k, <2>0, <3>1, <3>2, <3>6, <3>7, <3>8 DEF TellInv
  <2>4. CASE \/ AddModule \/ Initialize \/ Process \/ Shutdown \/ Join \/ Destroy
             \/ DestroyJoins
    <3>1. UNCHANGED <<flight, background, pending, untold>>
      BY <2>4 DEF AddModule, Initialize, Process, Shutdown, Embedded, Join, Destroy,
             DestroyJoins, failVars
    <3>2. caller' \in {caller, "none"} \/ caller' \in {"embed", "destroy"}
      BY <2>4 DEF AddModule, Initialize, Process, Shutdown, Embedded, Join, Destroy,
             DestroyJoins, callVars, hubVars
    <3> QED  BY <1>1, <2>0, <3>1, <3>2
  <2> QED  BY <1>6, <2>2, <2>3, <2>4 DEF App
<1>7. CASE HubSteps \/ HubFails
  <2>0. Throwing' = Throwing
    BY <1>7, HubThrowing
  <2>1. CASE UNCHANGED <<flight, background, pending, untold>>
    <3>1. caller' \in {caller, "none"}
      BY <1>7, HubCaller
    <3> QED  BY <1>1, <2>0, <2>1, <3>1
  <2>2. CASE StartWorker \/ StartWorkerThrows
    <3>1. UNCHANGED <<flight, background, untold, caller>>
      BY <2>2 DEF StartWorker, StartWorkerThrows, still, others
    <3>2. pending' = pending
      <4>1. at = "workers" /\ i \in Added
        BY <2>2 DEF StartWorker, StartWorkerThrows, Added, PlaceInv
      <4>2. i \notin stopped /\ at \notin Joining
        BY <1>0, <4>1 DEF UpInv, Joining
      <4>3. worker[i] = "none" => i \notin pending
        BY <1>0, <4>2, Origins DEF ApartInv, Over, TellInv
      <4> QED  BY <2>2, <4>3 DEF StartWorker, StartWorkerThrows
    <3> QED  BY <1>1, <2>0, <3>1, <3>2
  <2>3. ASSUME NEW e, Throws(e), e = Hub \/ e \in pending, pending' = pending \ {e},
               at \in {"bus", "tasks", "hooks"} \/ undoing, ~undoing'
        PROVE  FailInv'
    <3>1. /\ flight = None /\ caller \in {"run", "start", "embed"}
          /\ caller # "embed" => background = None
      BY <1>0, <2>3 DEF CallInv, KeptInv, Closing
    <3>2. e \in Waiters /\ e # None /\ e \notin Throwing
      BY <1>0, <1>a, <2>3, Origins DEF TellInv, Waiters, Throwing
    <3>3. None \notin pending /\ Hub \notin pending /\ pending' \subseteq Private
          /\ None \notin Throwing
      BY <1>0, <2>3, Origins DEF TellInv, Throwing
    <3>4. CASE caller = "run"
      <4>1. /\ flight' = e /\ background' = None /\ untold' = untold \cup {e}
            /\ caller' = "run" /\ at' = "stop"
        BY <2>3, <3>1, <3>4 DEF Throws, Goto
      <4>2. KeptInv'
        BY <2>3, <4>1 DEF KeptInv, Closing
      <4>3. \A m \in Private : m \in Kept2 => m \in Kept \/ Over(m)'
        BY <2>3, <4>1, Origins
      <4>4. pending' \cap {flight', background'} = {}
        BY <2>3, <3>3, <4>1
      <4>5. untold' = ({flight', background'} \ {None}) \cup pending' \cup Throwing'
        BY <1>0, <1>n, <2>0, <2>3, <3>1, <3>2, <3>4, <4>1
      <4> QED  BY <1>k, <3>2, <3>3, <4>1, <4>2, <4>3, <4>4, <4>5
    <3>5. CASE caller = "start"
      <4>1. /\ flight' = None /\ background' = e /\ untold' = untold \cup {e}
            /\ caller' = "start" /\ at' = "stop"
        BY <2>3, <3>1, <3>5 DEF Throws, Goto
      <4>2. KeptInv'
        BY <2>3, <4>1 DEF KeptInv, Closing
      <4>3. \A m \in Private : m \in Kept2 => m \in Kept \/ Over(m)'
        BY <2>3, <4>1, Origins
      <4>4. pending' \cap {flight', background'} = {}
        BY <2>3, <3>3, <4>1
      <4>5. untold' = ({flight', background'} \ {None}) \cup pending' \cup Throwing'
        BY <1>0, <1>n, <2>0, <2>3, <3>1, <3>2, <3>5, <4>1
      <4> QED  BY <1>k, <3>2, <3>3, <4>1, <4>2, <4>3, <4>4, <4>5
    <3>6. CASE caller = "embed"
      <4>1. /\ flight' = None /\ background' = background /\ caller' = "none"
            /\ untold' = IF e = Hub THEN untold ELSE untold \ {e}
        BY <2>3, <3>1, <3>6 DEF Throws, Goto
      <4>2. KeptInv'
        BY <4>1 DEF KeptInv
      <4>3. \A m \in Private : m \in Kept2 => m \in Kept
        BY <2>3, <3>1, <4>1
      <4>4. pending' \cap {flight', background'} = {}
        BY <1>0, <2>3, <3>3, <4>1 DEF ApartInv
      <4>5. untold' = ({flight', background'} \ {None}) \cup pending' \cup Throwing'
        <5>1. CASE e = Hub
          BY <1>0, <1>n, <2>0, <2>3, <3>1, <3>3, <4>1, <5>1
        <5>2. CASE e # Hub
          <6>1. e # background
            BY <1>0, <2>3, <5>2 DEF ApartInv
          <6> QED  BY <1>0, <1>n, <2>0, <2>3, <3>1, <3>2, <4>1, <5>2, <6>1
        <5> QED  BY <5>1, <5>2
      <4> QED  BY <1>0, <1>k, <3>3, <4>1, <4>2, <4>3, <4>4, <4>5 DEF TellInv
    <3> QED  BY <3>1, <3>4, <3>5, <3>6
  <2>4. CASE BusThrows \/ InlineTaskThrows \/ HookThrows
    <3>1. /\ Throws(Hub) /\ pending' = pending /\ at \in {"bus", "tasks", "hooks"}
          /\ undoing' = undoing
      BY <2>4 DEF BusThrows, InlineTaskThrows, HookThrows, thrown
    <3>2. ~undoing /\ Hub \notin pending
      BY <1>0, <3>1, Origins DEF CallInv, Closing, TellInv
    <3> QED  BY <2>3, <3>1, <3>2
  <2>5. CASE WorkerRethrown
    <3>1. /\ Throws(i) /\ pending' = pending \ {i} /\ at \in {"tasks", "hooks"}
          /\ undoing' = undoing /\ i \in pending
      BY <2>5 DEF WorkerRethrown, thrown
    <3>2. ~undoing
      BY <1>0, <3>1 DEF CallInv, Closing
    <3> QED  BY <2>3, <3>1, <3>2
  <2>6. CASE Undone
    <3>1. Throws(Hub) /\ pending' = pending /\ undoing /\ ~undoing'
      BY <2>6 DEF Undone
    <3>2. Hub \notin pending
      BY <1>0, Origins DEF TellInv
    <3> QED  BY <2>3, <3>1, <3>2
  <2>7. CASE HubEnds
    <3>1. /\ flight' = None /\ untold' = untold \ {flight} /\ caller' = "none"
          /\ UNCHANGED <<background, pending>>
      BY <2>7 DEF HubEnds
    <3>2. KeptInv'
      BY <3>1 DEF KeptInv
    <3>3. /\ flight \notin pending \cup Throwing
          /\ flight # None => background = None
      BY <1>0, <1>a DEF KeptInv, ApartInv
    <3>4. None \notin pending \cup Throwing
      BY <1>0, Origins DEF TellInv, Throwing
    <3>5. \A m \in Private : m \in Kept2 => m \in Kept
      BY <3>1, Origins
    <3>6. pending' \cap {flight', background'} = {}
      BY <1>0, <3>1, <3>4 DEF ApartInv
    <3>7. untold' = ({flight', background'} \ {None}) \cup pending' \cup Throwing'
      BY <1>0, <1>n, <2>0, <3>1, <3>3, <3>4
    <3> QED  BY <1>0, <1>k, <3>1, <3>2, <3>5, <3>6, <3>7 DEF TellInv
  <2> QED  BY <1>7, <2>1, <2>2, <2>4, <2>5, <2>6, <2>7, HubLeavesFails
<1> QED
  BY <1>2, <1>5, <1>6, <1>7, NextCases

--------------------------------------------------------------------------------
(* The hub sleeps over nothing. *)

\* The places of a pass of run_loop() after the bus.
Seen == Looping \ {"top", "generation", "bus"}

\* Sources of work are numbers, too.
LEMMA SourceNumbers ==
    /\ Bus # None /\ Bus \notin Private /\ Bus = Hub
    /\ \A m \in Inline : m \in Modules /\ m # None /\ m # Bus /\ m \notin Private
BY HubAssumption DEF Hub, Bus, None, Modules

\* Which steps of the hub's thread lead on in a pass of run_loop().
LEMMA PassSteps ==
    ASSUME HubSteps \/ HubFails, at' \in Seen
    PROVE  \/ BusProcess \/ InlineTasks \/ ProcessHook \/ ProcessReturns \/ PendingBus
           \/ PendingModule \/ DeadlineModule
           \/ LoopEnds /\ at \in {"tasks", "pending", "deadline"}
<1> USE DEF Seen, Looping, Goto
<1>1. CASE HubFails
  BY <1>1 DEF HubFails, InitThrows, Undo, StartWorkerThrows, BusThrows, InlineTaskThrows,
       HookThrows, Throws
<1>2. CASE \/ Wire \/ InitModule \/ InitRefused \/ StartWorker \/ Initialized \/ Top
           \/ RecordGeneration \/ WorkerRethrown \/ Wait
  BY <1>2 DEF Wire, InitModule, InitRefused, Undo, StartWorker, Initialized, Top,
       RecordGeneration, WorkerRethrown, Throws, Wait
<1>3. CASE LoopEnds
  BY <1>3 DEF LoopEnds, After
<1>4. CASE \/ ShutdownBegins \/ FlagWorker \/ RingWorker \/ JoinWorker \/ AllJoined
           \/ ModuleStops \/ ModuleStopped \/ Undone \/ ShutdownReturns \/ HubEnds
  BY <1>4 DEF ShutdownBegins, FlagWorker, RingWorker, JoinWorker, AllJoined, ModuleStops,
       ModuleStopped, Undone, ShutdownReturns, HubEnds, Throws
<1> QED
  BY <1>1, <1>2, <1>3, <1>4 DEF HubSteps

\* ... and what those steps leave alone.
LEMMA PassLeaves ==
    ASSUME HubSteps \/ HubFails, at' \in Seen
    PROVE  /\ UNCHANGED <<current, owing, stop, stopper, count, pending, worker>>
           /\ events' = events \/ BusProcess
           /\ UNCHANGED <<ready, delayed>> \/ InlineTasks
           /\ caller' \in {"run", "start"} => caller' = caller
<1>1. caller' \in {caller, "none"}
  BY HubCaller
<1>2. CASE BusProcess \/ InlineTasks \/ ProcessReturns
  BY <1>1, <1>2 DEF BusProcess, InlineTasks, ProcessReturns, loopFrame, thrown, flagVars,
       modVars, workerVars, bellVars, workVars, flowVars, failVars, stopVars
<1>3. CASE ProcessHook \/ PendingBus \/ PendingModule \/ DeadlineModule \/ LoopEnds
  BY <1>1, <1>3, HookShape, DeadlineShape DEF PendingBus, PendingModule, LoopEnds, calm,
       loopFrame, thrown, flagVars, modVars, workerVars, bellVars, workVars, flowVars,
       failVars, stopVars
<1> QED
  BY <1>2, <1>3, PassSteps

\* What HubInv says is about those places only.
LEMMA HubIdle ==
    ASSUME ~(Recorded' /\ at' \in Seen)
    PROVE  HubInv'
BY DEF HubInv, HubHeedsStop, HubHeedsBus, HubHeedsTasks, HubHeedsFails, Seen, Looping

\* In a pass of run_loop() every module is active.
LEMMA AllActive ==
    ASSUME CallInv, UpInv, caller \in {"run", "start"}, at \in Looping
    PROVE  Added \subseteq Active
<1>1. hubUp /\ at \notin Closing /\ at # "closing"
  BY DEF CallInv, Looping, Closing
<1> QED
  BY <1>1 DEF UpInv, Active

\* A pass of run_loop() leads on only past what needs no more looking at.
LEMMA HubPassStep ==
    ASSUME PlaceInv, CallInv, UpInv, FailInv, HubInv, HubSteps \/ HubFails
    PROVE  HubInv'
<1> SUFFICES ASSUME Recorded', at' \in Seen
             PROVE  HubInv'
  BY HubIdle
<1>0. HubHeedsStop /\ HubHeedsBus /\ HubHeedsTasks /\ HubHeedsFails
  BY DEF HubInv
<1>1. /\ UNCHANGED <<current, owing, stop, stopper, count, pending, worker>>
      /\ events' = events \/ BusProcess
      /\ UNCHANGED <<ready, delayed>> \/ InlineTasks
      /\ caller' = caller
  BY PassLeaves DEF Recorded
<1>2. Recorded
  BY <1>1 DEF Recorded
<1>3. \A m \in Added : m \in Nat /\ m >= 1 /\ m <= count
  BY DEF Added, PlaceInv
<1>4. \A m \in pending : m \in Added
  BY DEF FailInv, ApartInv, TellInv, Over
<1>5. i \in Nat /\ count \in Nat /\ Added' = Added
  BY <1>1 DEF PlaceInv, Added
<1> USE DEF Goto
<1>6. CASE BusProcess
  <2>1. at' = "tasks" /\ i' = 1 /\ events' = 0
    BY <1>6 DEF BusProcess
  <2> QED
    BY <1>1, <1>3, <1>4, <2>1 DEF HubInv, HubHeedsStop, HubHeedsBus, HubHeedsTasks,
           HubHeedsFails
<1>7. CASE InlineTasks
  <2>1. at = "tasks" /\ at' = "tasks" /\ i' = i + 1 /\ i \notin pending /\ events' = events
    BY <1>7 DEF InlineTasks
  <2>2. HubHeedsFails'
    BY <1>0, <1>1, <1>2, <1>3, <1>4, <1>5, <2>1 DEF HubHeedsFails
  <2>3. HubHeedsBus'
    BY <1>0, <1>1, <1>2, <2>1 DEF HubHeedsBus
  <2>4. HubHeedsTasks' /\ HubHeedsStop'
    BY <2>1 DEF HubHeedsTasks, HubHeedsStop
  <2> QED  BY <2>2, <2>3, <2>4 DEF HubInv
<1>8. ASSUME ~BusProcess, ~InlineTasks, at \in Seen, HubHeedsStop', HubHeedsTasks',
             at \notin {"tasks"} \/ \A m \in pending : m < i
      PROVE  HubInv'
  <2>1. HubHeedsBus'
    BY <1>0, <1>1, <1>2, <1>8 DEF HubHeedsBus, Seen
  <2>2. HubHeedsFails'
    BY <1>0, <1>1, <1>2, <1>8 DEF HubHeedsFails, Seen
  <2> QED  BY <1>8, <2>1, <2>2 DEF HubInv
<1>9. CASE ProcessHook
  <2>1. at = "hooks" /\ at' = "hooks"
    BY <1>9, HookShape
  <2>2. ~BusProcess /\ ~InlineTasks
    BY <2>1 DEF BusProcess, InlineTasks
  <2> QED  BY <1>8, <2>1, <2>2 DEF HubHeedsStop, HubHeedsTasks, Seen, Looping
<1>10. CASE ProcessReturns
  <2>1. at = "hooks" /\ caller # "embed"
    BY <1>2, <1>10 DEF ProcessReturns, Recorded
  <2>2. at' = CASE worked -> "top" [] ~worked /\ stop -> "stop" [] OTHER -> "pendingBus"
    BY <1>10, <2>1 DEF ProcessReturns
  <2>3. at' = "pendingBus" /\ ~stop
    <3>1. CASE worked
      BY <2>2, <3>1 DEF Seen
    <3>2. CASE ~worked /\ stop
      BY <2>2, <3>2 DEF Seen, Looping
    <3>3. CASE ~worked /\ ~stop
      BY <2>2, <3>3
    <3> QED  BY <3>1, <3>2, <3>3
  <2>4. ~BusProcess /\ ~InlineTasks
    BY <2>1 DEF BusProcess, InlineTasks
  <2>5. HubHeedsStop'
    BY <1>1, <2>3 DEF HubHeedsStop
  <2> QED  BY <1>8, <2>1, <2>3, <2>4, <2>5 DEF HubHeedsTasks, Seen, Looping
<1>11. ASSUME at \in {"pendingBus", "pending", "deadline", "wait"} PROVE HubHeedsStop'
  BY <1>0, <1>1, <1>2, <1>11 DEF HubHeedsStop
<1>12. CASE PendingBus
  <2>1. at = "pendingBus" /\ at' = "pending" /\ i' = 1
    BY <1>12 DEF PendingBus, Seen
  <2>2. ~BusProcess /\ ~InlineTasks
    BY <2>1 DEF BusProcess, InlineTasks
  <2>3. HubHeedsTasks'
    BY <1>3, <1>5, <2>1 DEF HubHeedsTasks
  <2> QED  BY <1>8, <1>11, <2>1, <2>2, <2>3 DEF Seen, Looping
<1>13. CASE PendingModule
  <2>1. /\ at = "pending" /\ at' = "pending" /\ i' = i + 1
        /\ ~(i \in Inline \cap Active /\ ready[i] > 0)
    BY <1>13 DEF PendingModule, Seen
  <2>2. ~BusProcess /\ ~InlineTasks
    BY <2>1 DEF BusProcess, InlineTasks
  <2>3. Added \subseteq Active
    BY <1>2, <2>1, AllActive DEF Recorded, Looping
  <2>4. HubHeedsTasks'
    BY <1>0, <1>1, <1>2, <1>3, <1>5, <2>1, <2>2, <2>3 DEF HubHeedsTasks
  <2> QED  BY <1>8, <1>11, <2>1, <2>2, <2>4 DEF Seen, Looping
<1>14. CASE DeadlineModule
  <2>1. /\ at = "deadline" /\ at' = "deadline" /\ i' = i + 1
        /\ i \in Inline \cap Active /\ delayed[i] > 0 => timed'
        /\ timed => timed'
    BY <1>14, DeadlineShape
  <2>2. ~BusProcess /\ ~InlineTasks
    BY <2>1 DEF BusProcess, InlineTasks
  <2>3. Added \subseteq Active
    BY <1>2, <2>1, AllActive DEF Recorded, Looping
  <2>4. HubHeedsTasks'
    BY <1>0, <1>1, <1>2, <1>3, <1>5, <2>1, <2>2, <2>3 DEF HubHeedsTasks
  <2> QED  BY <1>8, <1>11, <2>1, <2>2, <2>4 DEF Seen, Looping
<1>15. CASE LoopEnds /\ at \in {"tasks", "pending", "deadline"}
  <2>1. i > count /\ i' = 1 /\ at' = After[at] /\ timed' = timed
    BY <1>15 DEF LoopEnds
  <2>2. ~BusProcess /\ ~InlineTasks
    BY <1>5, <1>15, <2>1 DEF BusProcess, InlineTasks
  <2>3. \A m \in Added : m < i
    BY <1>3, <1>5, <2>1
  <2>4. CASE at = "tasks"
    <3>1. at' = "hooks"
      BY <2>1, <2>4 DEF After
    <3> QED
      BY <1>4, <1>8, <2>2, <2>3, <2>4, <3>1 DEF HubHeedsStop, HubHeedsTasks, Seen, Looping
  <2>5. CASE at = "pending"
    <3>1. at' = "deadline"
      BY <2>1, <2>5 DEF After
    <3>2. HubHeedsTasks'
      BY <1>0, <1>1, <1>2, <1>3, <1>5, <2>1, <2>2, <2>3, <2>5, <3>1 DEF HubHeedsTasks
    <3> QED  BY <1>8, <1>11, <2>2, <2>5, <3>2 DEF Seen, Looping
  <2>6. CASE at = "deadline"
    <3>1. at' = "wait"
      BY <2>1, <2>6 DEF After
    <3>2. HubHeedsTasks'
      BY <1>0, <1>1, <1>2, <1>3, <1>5, <2>1, <2>2, <2>3, <2>6, <3>1 DEF HubHeedsTasks
    <3> QED  BY <1>8, <1>11, <2>2, <2>6, <3>2 DEF Seen, Looping
  <2> QED  BY <1>15, <2>4, <2>5, <2>6
<1> QED
  BY <1>6, <1>7, <1>9, <1>10, <1>12, <1>13, <1>14, <1>15, PassSteps

\* A producer or a stopper that leaves something for the hub is still to notify
\* it, and its notify() reaches the hub.
LEMMA HubOutsideStep ==
    ASSUME WorkInv, WiredInv, HubInv, Outside
    PROVE  HubInv'
<1> SUFFICES ASSUME Recorded', at' \in Seen
             PROVE  HubInv'
  BY HubIdle
<1>0. HubHeedsStop /\ HubHeedsBus /\ HubHeedsTasks /\ HubHeedsFails
  BY DEF HubInv
<1>1. UNCHANGED <<at, i, caller, timed, count, worker, attached, wired, pending>>
  BY OutsideLeaves DEF placeVars, hubVars, wireVars, failVars
<1>2. Added' = Added /\ Recorded /\ at \in Seen
  <2>1. Hub \in current
    BY DEF Outside, PostEvent, Submit, Notify, RequestStop, StopSteps, StopNotifiesHub,
           StopFlagsWorker, StopNotifiesWorker, Ring, Recorded, stopFrame
  <2> QED  BY <1>1, <2>1 DEF Recorded, Added
<1>3. HubHeedsFails'
  BY <1>0, <1>1, <1>2 DEF HubHeedsFails
<1>4. ASSUME stop' = stop, stopper' = stopper PROVE HubHeedsStop'
  BY <1>0, <1>1, <1>2, <1>4 DEF HubHeedsStop
<1>5. ASSUME UNCHANGED <<events, ready, delayed, owing>> PROVE HubHeedsBus' /\ HubHeedsTasks'
  BY <1>0, <1>1, <1>2, <1>5 DEF HubHeedsBus, HubHeedsTasks
<1>6. CASE PostEvent
  <2>1. /\ owing = None /\ owing' = Bus
        /\ UNCHANGED <<ready, delayed, stop, stopper>>
    BY <1>6 DEF PostEvent, still, others, stopVars
  <2>2. HubHeedsBus'
    BY <2>1 DEF HubHeedsBus
  <2>3. HubHeedsTasks'
    BY <1>0, <1>1, <1>2, <2>1, SourceNumbers DEF HubHeedsTasks
  <2> QED  BY <1>3, <1>4, <2>1, <2>2, <2>3 DEF HubInv
<1>7. ASSUME NEW m \in Modules, Submit(m) PROVE HubInv'
  <2>1. owing = None /\ owing' = m /\ UNCHANGED <<events, stop, stopper>>
    BY <1>7 DEF Submit, still, others, stopVars
  <2>2. HubHeedsBus'
    BY <1>0, <1>1, <1>2, <2>1, SourceNumbers DEF HubHeedsBus, Seen
  <2>3. \A n \in Modules \ {m} : ready'[n] = ready[n] /\ delayed'[n] = delayed[n]
    BY <1>7 DEF Submit, WorkInv
  <2>4. HubHeedsTasks'
    BY <1>0, <1>1, <1>2, <2>1, <2>3, SourceNumbers DEF HubHeedsTasks
  <2> QED  BY <1>3, <1>4, <2>1, <2>2, <2>4 DEF HubInv
<1>8. CASE Notify
  <2>1. UNCHANGED <<events, ready, delayed, stop, stopper>>
    BY <1>8 DEF Notify, still, others, stopVars, workVars
  <2>2. {Bus} \cup (Added \cap Inline) \subseteq attached
    BY <1>2 DEF WiredInv, Recorded, Seen
  <2>3. owing \notin {Bus} \cup (Added \cap Inline)
    BY <1>8, <2>2, SourceNumbers DEF Notify, Ring, WaiterOf, Recorded
  <2>4. HubHeedsBus' /\ HubHeedsTasks'
    BY <1>0, <1>1, <1>2, <2>1, <2>3 DEF HubHeedsBus, HubHeedsTasks
  <2> QED  BY <1>3, <1>4, <2>1, <2>4 DEF HubInv
<1>9. CASE RequestStop
  <2>1. stopper' = "hub" /\ UNCHANGED <<events, ready, delayed, owing>>
    BY <1>9 DEF RequestStop, stopFrame, workVars
  <2> QED  BY <1>3, <1>5, <2>1 DEF HubInv, HubHeedsStop
<1>10. CASE StopSteps
  <2>1. ~StopNotifiesHub
    BY DEF StopNotifiesHub, Ring, Recorded
  <2>2. stopper # "hub" /\ stop' = stop /\ UNCHANGED <<events, ready, delayed, owing>>
    BY <1>10, <2>1 DEF StopSteps, StopFlagsWorker, StopNotifiesWorker, stopFrame, workVars
  <2>3. HubHeedsStop'
    BY <1>0, <1>1, <1>2, <2>2 DEF HubHeedsStop
  <2> QED  BY <1>3, <1>5, <2>2, <2>3 DEF HubInv
<1> QED
  BY <1>6, <1>7, <1>8, <1>9, <1>10 DEF Outside

\* A worker leaves the hub's sources alone, and tells the hub when it has stored
\* a failure.
LEMMA HubWorkersStep ==
    ASSUME WorkInv, WiredInv, TellInv, HubInv, Workers
    PROVE  HubInv'
<1> SUFFICES ASSUME Recorded', at' \in Seen
             PROVE  HubInv'
  BY HubIdle
<1>0. HubHeedsStop /\ HubHeedsBus /\ HubHeedsTasks /\ HubHeedsFails
  BY DEF HubInv
<1>1. UNCHANGED <<at, i, caller, timed, count, stop, stopper, wired, owing, events>>
  BY WorkersLeave DEF placeVars, hubVars, flagVars, stopVars, wireVars
<1>m. PICK m \in Private : WorkerLoop(m) \/ WorkerThrows(m)
  BY DEF Workers
<1>p. m \in Modules /\ m # Hub /\ Private \subseteq Modules
  BY Origins
<1>2. Added' = Added /\ Recorded /\ at \in Seen
  <2>1. Hub \in current
    BY <1>m, <1>p DEF WorkerLoop, WorkerTop, WorkerGeneration, WorkerProcess, WorkerThrows,
         WorkerStores, WorkerTells, WorkerIdle, WorkerReady, WorkerDeadline, WorkerWait, Ring,
         Recorded
  <2> QED  BY <1>1, <2>1 DEF Recorded, Added
<1>3. HubHeedsStop' /\ HubHeedsBus'
  BY <1>0, <1>1, <1>2 DEF HubHeedsStop, HubHeedsBus
<1>4. HubHeedsTasks'
  <2>1. \A n \in Modules \ {m} : ready'[n] = ready[n] /\ delayed'[n] = delayed[n]
    <3>1. ASSUME Pass(m)
          PROVE  \A n \in Modules \ {m} : ready'[n] = ready[n] /\ delayed'[n] = delayed[n]
      BY <1>p, <3>1, TakesTasks
    <3> QED
      BY <1>m, <1>p, <3>1, PassShape DEF WorkerLoop, WorkerTop, WorkerGeneration, WorkerProcess, WorkerThrows,
         WorkerStores, WorkerTells, WorkerIdle, WorkerReady, WorkerDeadline, WorkerWait
  <2> QED  BY <1>0, <1>1, <1>2, <2>1, SourceNumbers DEF HubHeedsTasks
<1>5. HubHeedsFails'
  <2>1. ~WorkerTells(m)
    BY <1>2 DEF WorkerTells, WiredInv, Recorded, Seen, Ring
  <2>2. \A n \in Private \ {m} : worker'[n] = worker[n]
    BY <1>m, <1>p DEF WorkerLoop, WorkerTop, WorkerGeneration, WorkerProcess, WorkerThrows,
         WorkerStores, WorkerTells, WorkerIdle, WorkerReady, WorkerDeadline, WorkerWait, Move,
         WorkInv
  <2>3. CASE WorkerStores(m)
    <3>1. worker'[m] = "telling" /\ pending' = pending \cup {m}
      BY <1>p, <2>3 DEF WorkerStores, Move, WorkInv
    <3> QED  BY <1>0, <1>1, <1>2, <2>2, <3>1 DEF HubHeedsFails, TellInv
  <2>4. CASE ~WorkerStores(m)
    <3>1. pending' = pending /\ worker[m] # "telling"
      BY <1>m, <2>1, <2>4 DEF WorkerLoop, WorkerTop, WorkerGeneration, WorkerProcess,
         WorkerThrows, WorkerTells, WorkerIdle, WorkerReady, WorkerDeadline,
         WorkerWait, Move, failVars
    <3> QED  BY <1>0, <1>1, <1>2, <2>2, <3>1 DEF HubHeedsFails, TellInv
  <2> QED  BY <2>3, <2>4
<1> QED
  BY <1>3, <1>4, <1>5 DEF HubInv

\* The application only asks the hub to stop while it runs.
LEMMA HubAppStep ==
    ASSUME CallInv, HubInv, App
    PROVE  HubInv'
<1> SUFFICES ASSUME Recorded', at' \in Seen
             PROVE  HubInv'
  BY HubIdle
<1>0. HubHeedsStop /\ HubHeedsBus /\ HubHeedsTasks /\ HubHeedsFails
  BY DEF HubInv
<1>1. CASE Join \/ JoinReturns \/ Destroy
  <2>1. UNCHANGED <<at, i, caller, timed, count, worker, ready, delayed, events, owing,
                    current>>
    BY <1>1 DEF Join, JoinReturns, Destroy, placeVars, hubVars, flagVars, modVars, workerVars,
         flowVars, bellVars, workVars
  <2>2. pending' \subseteq pending
    BY <1>1 DEF Join, JoinReturns, Destroy, failVars
  <2>3. stopper' = "hub" \/ UNCHANGED <<stop, stopper>>
    BY <1>1 DEF Join, JoinReturns, Destroy, stopVars, flagVars
  <2>4. Added' = Added /\ Recorded
    BY <2>1 DEF Added, Recorded
  <2>5. HubHeedsStop'
    BY <1>0, <2>1, <2>3, <2>4 DEF HubHeedsStop
  <2>6. HubHeedsBus' /\ HubHeedsTasks' /\ HubHeedsFails'
    BY <1>0, <2>1, <2>2, <2>4 DEF HubHeedsBus, HubHeedsTasks, HubHeedsFails
  <2> QED  BY <2>5, <2>6 DEF HubInv
<1>2. CASE Run \/ Start \/ Initialize \/ Process \/ Shutdown \/ DestroyJoins
  BY <1>2 DEF Run, Start, Initialize, Process, Shutdown, DestroyJoins, Embedded, Goto, Seen,
       Looping, Recorded
<1>3. CASE AddModule \/ StartFails
  BY <1>3 DEF AddModule, StartFails, Between, callVars, placeVars, Seen, Looping
<1> QED
  BY <1>1, <1>2, <1>3 DEF App

--------------------------------------------------------------------------------
(* Nor does a worker. *)

\* What the hub's thread leaves of the bells and the requests to stop.
LEMMA HubLeavesBells ==
    ASSUME HubSteps \/ HubFails
    PROVE  /\ UNCHANGED <<owing, stopper, unasked>>
           /\ RingWorker \/ (at # "ring" /\ current' \subseteq current \cup {Hub})
           /\ workerStop' \subseteq workerStop \/ FlagWorker
<1>1. CASE HubFails
  BY <1>1 DEF HubFails, InitThrows, Undo, StartWorkerThrows, BusThrows, InlineTaskThrows,
       HookThrows, initFrame, others, thrown, stopVars, flowVars, bellVars, modVars, workerVars
<1>2. CASE \/ Wire \/ InitModule \/ InitRefused \/ StartWorker \/ Initialized \/ Top
           \/ RecordGeneration
  BY <1>2 DEF Wire, InitModule, InitRefused, Undo, StartWorker, Initialized, Top,
       RecordGeneration, still, loopFrame, initFrame, others, thrown, stopVars, flowVars,
       bellVars, modVars, workerVars
<1>3. CASE BusProcess \/ WorkerRethrown \/ InlineTasks \/ ProcessReturns
  BY <1>3 DEF BusProcess, WorkerRethrown, InlineTasks, ProcessReturns, loopFrame, thrown,
       stopVars, flowVars, bellVars, modVars, workerVars
<1>4. CASE \/ ProcessHook \/ PendingBus \/ PendingModule \/ DeadlineModule \/ Wait
           \/ LoopEnds \/ AllJoined
  <2>1. UNCHANGED calm
    BY <1>4, HookShape, DeadlineShape DEF PendingBus, PendingModule, Wait, LoopEnds, AllJoined
  <2>2. at # "ring"
    BY <1>4, HookShape, DeadlineShape DEF PendingBus, PendingModule, Wait, LoopEnds,
         AllJoined, After
  <2> QED
    BY <2>1, <2>2 DEF calm, loopFrame, thrown, stopVars, flowVars, bellVars, modVars,
         workerVars
<1>5. CASE ShutdownBegins \/ FlagWorker \/ RingWorker \/ JoinWorker
  BY <1>5 DEF ShutdownBegins, FlagWorker, RingWorker, JoinWorker, Ring, still, loopFrame,
       others, thrown, stopVars, flowVars, bellVars, modVars, workerVars
<1>6. CASE ModuleStops \/ ModuleStopped \/ Undone \/ ShutdownReturns \/ HubEnds
  BY <1>6 DEF ModuleStops, ModuleStopped, Undone, ShutdownReturns, HubEnds, still, others,
       stopVars, flowVars, bellVars, modVars, workerVars
<1> QED
  BY <1>1, <1>2, <1>3, <1>4, <1>5, <1>6 DEF HubSteps

\* The hub's thread adds no task to a private module.
LEMMA HubAddsNoTask ==
    ASSUME PlaceInv, WorkInv, HubSteps \/ HubFails, NEW m \in Private
    PROVE  /\ ready'[m] > 0 => ready[m] > 0
           /\ delayed'[m] > 0 => delayed[m] > 0
<1>1. CASE InlineTasks \/ InlineTaskThrows
  <2>1. CASE UNCHANGED <<ready, delayed>>
    BY <2>1
  <2>2. ASSUME i \in Inline, Pass(i)
        PROVE  ready'[m] = ready[m] /\ delayed'[m] = delayed[m]
    BY <2>2, TakesTasks, SourceNumbers, Origins
  <2>3. i \in Inline => i \in Modules
    BY HubAssumption
  <2> QED  BY <1>1, <2>1, <2>2, <2>3, PassShape DEF InlineTasks, InlineTaskThrows
<1>2. CASE ModuleStopped
  <2>1. m \in Modules
    BY Origins
  <2> QED  BY <1>2, <2>1 DEF ModuleStopped, WorkInv
<1>3. CASE StartWorker \/ JoinWorker
  BY <1>3 DEF StartWorker, JoinWorker, flowVars, workVars
<1> QED
  BY <1>1, <1>2, <1>3, HubLeavesWork

\* A worker the hub's thread starts or joins is not about to wait.
LEMMA HubMovesWorker ==
    ASSUME PlaceInv, WorkInv, HubSteps \/ HubFails, NEW m \in Private
    PROVE  worker'[m] = worker[m] \/ worker'[m] \in {"top", "none"}
<1>1. m \in Modules
  BY Origins
<1>2. CASE StartWorker \/ JoinWorker
  BY <1>1, <1>2 DEF StartWorker, JoinWorker, WorkInv, workerVars
<1>3. CASE ~StartWorker /\ ~JoinWorker
  BY <1>3, HubLeavesWork DEF InlineTasks, InlineTaskThrows, ModuleStopped, loopFrame,
       modVars, workerVars
<1> QED
  BY <1>2, <1>3

\* The hub's thread asks a worker to stop, and then rings its bell.
LEMMA WorkerHubStep ==
    ASSUME PlaceInv, WorkInv, WorkerInv, HubSteps \/ HubFails
    PROVE  WorkerInv'
<1> SUFFICES ASSUME NEW m \in Private, m \in current'
             PROVE  WorkerHeedsStop(m)' /\ WorkerHeedsTasks(m)'
  BY DEF WorkerInv, WorkerHeedsStop, WorkerHeedsTasks
<1>0. WorkerHeedsStop(m) /\ WorkerHeedsTasks(m)
  BY DEF WorkerInv
<1>1. UNCHANGED <<owing, stopper, unasked>>
  BY HubLeavesBells
<1>2. m \in current /\ ~(at = "ring" /\ i = m)
  BY HubLeavesBells, Origins DEF RingWorker, Ring
<1>3. worker'[m] = worker[m] \/ worker'[m] \in {"top", "none"}
  BY HubMovesWorker
<1>4. WorkerHeedsTasks(m)'
  BY <1>0, <1>1, <1>2, <1>3, HubAddsNoTask DEF WorkerHeedsTasks
<1>5. WorkerHeedsStop(m)'
  <2>1. CASE m \in workerStop' => m \in workerStop
    BY <1>0, <1>1, <1>2, <1>3, <2>1 DEF WorkerHeedsStop
  <2>2. CASE FlagWorker /\ m \in workerStop' /\ m \notin workerStop
    <3>1. at' = "ring" /\ i' = m
      BY <2>2 DEF FlagWorker, Goto
    <3> QED  BY <3>1 DEF WorkerHeedsStop
  <2> QED  BY <2>1, <2>2, HubLeavesBells
<1> QED
  BY <1>4, <1>5

\* The application's thread does neither.
LEMMA WorkerAppStep ==
    ASSUME WorkerInv, App
    PROVE  WorkerInv'
<1>1. UNCHANGED <<worker, workerStop, current, owing, ready, delayed>>
  BY AppLeavesLife DEF workerVars, bellVars, workVars
<1>2. at = "ring" => UNCHANGED <<at, i>>
  BY DEF App, AddModule, Run, Start, Begins, StartFails, Initialize, Process, Shutdown,
       Embedded, Between, Join, JoinReturns, Destroy, DestroyJoins, placeVars
<1>3. stopper = "ring" => UNCHANGED <<stopper, unasked>>
  BY DEF App, AddModule, Run, Start, Begins, StartFails, Initialize, Process, Shutdown,
       Embedded, Join, JoinReturns, Destroy, DestroyJoins, stopVars, callVars, still, others,
       thrown
<1> QED
  BY <1>1, <1>2, <1>3 DEF WorkerInv, WorkerHeedsStop, WorkerHeedsTasks

\* Whoever leaves a task or a request to stop with a worker is still to ring its
\* bell, which a running worker has.
LEMMA WorkerOutsideStep ==
    ASSUME WorkInv, WorkersAttached, WorkerInv, Outside
    PROVE  WorkerInv'
<1> SUFFICES ASSUME NEW m \in Private, m \in current'
             PROVE  WorkerHeedsStop(m)' /\ WorkerHeedsTasks(m)'
  BY DEF WorkerInv, WorkerHeedsStop, WorkerHeedsTasks
<1>0. WorkerHeedsStop(m) /\ WorkerHeedsTasks(m)
  BY DEF WorkerInv
<1>1. UNCHANGED <<at, i, worker>>
  BY OutsideLeaves DEF placeVars
<1>2. m \in current
  BY DEF Outside, PostEvent, Submit, Notify, RequestStop, StopSteps, StopNotifiesHub,
         StopFlagsWorker, StopNotifiesWorker, Ring, stopFrame
<1>3. m \in Modules /\ m # None /\ m # Bus
  BY Origins DEF Hub, Bus
<1>4. ASSUME UNCHANGED <<workerStop, stopper, unasked>> PROVE WorkerHeedsStop(m)'
  BY <1>0, <1>1, <1>2, <1>4 DEF WorkerHeedsStop
<1>5. ASSUME ready'[m] = ready[m], delayed'[m] = delayed[m],
             owing' = owing \/ owing = None \/ owing' = m
      PROVE  WorkerHeedsTasks(m)'
  BY <1>0, <1>1, <1>2, <1>3, <1>5 DEF WorkerHeedsTasks
<1>6. CASE PostEvent
  BY <1>4, <1>5, <1>6 DEF PostEvent, still, others, stopVars, modVars, workerVars
<1>7. ASSUME NEW n \in Modules, Submit(n)
      PROVE  WorkerHeedsStop(m)' /\ WorkerHeedsTasks(m)'
  <2>1. owing = None /\ owing' = n /\ UNCHANGED <<workerStop, stopper, unasked>>
    BY <1>7 DEF Submit, still, others, stopVars, modVars, workerVars
  <2>2. n # m => ready'[m] = ready[m] /\ delayed'[m] = delayed[m]
    BY <1>3, <1>7 DEF Submit, WorkInv
  <2>3. n = m => WorkerHeedsTasks(m)'
    BY <2>1 DEF WorkerHeedsTasks
  <2> QED  BY <1>4, <1>5, <2>1, <2>2, <2>3
<1>8. CASE Notify
  <2>1. UNCHANGED <<workerStop, stopper, unasked, ready, delayed>>
    BY <1>8 DEF Notify, still, others, stopVars, modVars, workerVars, workVars
  <2>2. worker[m] # "none" => owing # m
    BY <1>8 DEF Notify, WorkersAttached, WaiterOf, Ring
  <2>3. WorkerHeedsTasks(m)'
    BY <1>0, <1>1, <1>2, <2>1, <2>2 DEF WorkerHeedsTasks
  <2> QED  BY <1>4, <2>1, <2>3
<1>9. CASE RequestStop \/ StopSteps
  <2>1. UNCHANGED <<ready, delayed, owing>>
    BY <1>9 DEF RequestStop, StopSteps, StopNotifiesHub, StopFlagsWorker, StopNotifiesWorker,
         stopFrame, workVars
  <2>2. CASE RequestStop \/ StopNotifiesHub
    <3>1. stopper # "ring" /\ workerStop' = workerStop
      BY <2>2 DEF RequestStop, StopNotifiesHub
    <3>2. WorkerHeedsStop(m)'
      BY <1>0, <1>1, <1>2, <3>1 DEF WorkerHeedsStop
    <3> QED  BY <1>5, <2>1, <3>2
  <2>3. CASE StopFlagsWorker
    <3>1. /\ stopper # "ring" /\ stopper' = "ring" /\ unasked' = unasked
          /\ workerStop' = workerStop \cup {Min(unasked)}
      BY <2>3 DEF StopFlagsWorker
    <3>2. WorkerHeedsStop(m)'
      BY <1>0, <1>1, <1>2, <3>1 DEF WorkerHeedsStop
    <3> QED  BY <1>5, <2>1, <3>2
  <2>4. CASE StopNotifiesWorker
    <3>1. workerStop' = workerStop /\ Min(unasked) # m
      BY <2>4 DEF StopNotifiesWorker, Ring
    <3>2. WorkerHeedsStop(m)'
      BY <1>0, <1>1, <1>2, <3>1 DEF WorkerHeedsStop
    <3> QED  BY <1>5, <2>1, <3>2
  <2> QED  BY <1>9, <2>2, <2>3, <2>4 DEF StopSteps
<1> QED
  BY <1>6, <1>7, <1>8, <1>9 DEF Outside

\* A worker looks at its requests and tasks after it has recorded the generation.
LEMMA WorkerWorkersStep ==
    ASSUME WorkInv, WorkerInv, Workers
    PROVE  WorkerInv'
<1> SUFFICES ASSUME NEW m \in Private, m \in current'
             PROVE  WorkerHeedsStop(m)' /\ WorkerHeedsTasks(m)'
  BY DEF WorkerInv, WorkerHeedsStop, WorkerHeedsTasks
<1>0. WorkerHeedsStop(m) /\ WorkerHeedsTasks(m)
  BY DEF WorkerInv
<1>1. UNCHANGED <<at, i, stopper, unasked, owing>>
  BY WorkersLeave DEF placeVars, stopVars
<1>2. m \in Modules /\ m # Hub
  BY Origins
<1>3. PICK n \in Private : WorkerLoop(n) \/ WorkerThrows(n)
  BY DEF Workers
<1>4. n \in Modules
  BY Origins
<1>5. CASE n # m
  <2>1. worker'[m] = worker[m] /\ (m \in current' => m \in current)
        /\ (m \in workerStop' => m \in workerStop)
    BY <1>2, <1>3, <1>4, <1>5 DEF WorkerLoop, WorkerTop, WorkerGeneration, WorkerProcess,
         WorkerThrows, WorkerStores, WorkerTells, WorkerIdle, WorkerReady, WorkerDeadline,
         WorkerWait, Move, WorkInv, Ring
  <2>2. ready'[m] = ready[m] /\ delayed'[m] = delayed[m]
    <3>1. ASSUME Pass(n) PROVE ready'[m] = ready[m] /\ delayed'[m] = delayed[m]
      BY <1>2, <1>4, <1>5, <3>1, TakesTasks
    <3> QED
      BY <1>3, <1>4, <3>1, PassShape DEF WorkerLoop, WorkerTop, WorkerGeneration, WorkerProcess, WorkerThrows,
         WorkerStores, WorkerTells, WorkerIdle, WorkerReady, WorkerDeadline, WorkerWait
  <2> QED  BY <1>0, <1>1, <2>1, <2>2 DEF WorkerHeedsStop, WorkerHeedsTasks
<1>6. ASSUME worker'[m] \notin {"ready", "deadline", "wait", "wait_for"}
      PROVE  WorkerHeedsStop(m)' /\ WorkerHeedsTasks(m)'
  BY <1>6 DEF WorkerHeedsStop, WorkerHeedsTasks
<1>7. CASE n = m /\ (WorkerTop(m) \/ WorkerGeneration(m) \/ WorkerProcess(m)
                       \/ WorkerThrows(m) \/ WorkerStores(m) \/ WorkerTells(m)
                       \/ WorkerWait(m))
  <2>1. worker'[m] \notin {"ready", "deadline", "wait", "wait_for"}
    BY <1>2, <1>7 DEF WorkerTop, WorkerGeneration, WorkerProcess,
         WorkerThrows, WorkerStores, WorkerTells, WorkerWait, Move, WorkInv
  <2> QED  BY <1>6, <2>1
<1>8. CASE n = m /\ WorkerIdle(m)
  <2>1. /\ worker'[m] \in {"ready", "ended"} /\ workerStop' = workerStop
        /\ worker'[m] = "ready" => m \notin workerStop
    BY <1>2, <1>8 DEF WorkerIdle, Move, WorkInv
  <2> QED  BY <2>1 DEF WorkerHeedsStop, WorkerHeedsTasks
<1>9. CASE n = m /\ WorkerReady(m)
  <2>1. /\ worker[m] = "ready" /\ worker'[m] \in {"top", "deadline"}
        /\ worker'[m] = "deadline" => ~(ready[m] > 0)
        /\ UNCHANGED <<workerStop, ready, delayed, current>>
    BY <1>2, <1>9 DEF WorkerReady, Move, WorkInv
  <2> QED  BY <1>0, <1>1, <2>1 DEF WorkerHeedsStop, WorkerHeedsTasks
<1>10. CASE n = m /\ WorkerDeadline(m)
  <2>1. /\ worker[m] = "deadline" /\ worker'[m] \in {"top", "wait", "wait_for"}
        /\ worker'[m] = "wait" => ~(delayed[m] > 0)
        /\ UNCHANGED <<workerStop, ready, delayed, current>>
    BY <1>2, <1>10 DEF WorkerDeadline, Move, WorkInv
  <2> QED  BY <1>0, <1>1, <2>1 DEF WorkerHeedsStop, WorkerHeedsTasks
<1> QED
  BY <1>3, <1>5, <1>7, <1>8, <1>9, <1>10 DEF WorkerLoop

--------------------------------------------------------------------------------
(* The theorems. *)

\* The invariant of the specification.
Inv == TypeInv /\ LifeInv /\ FailInv /\ HubInv /\ WorkerInv

\* It holds of a hub without modules.
LEMMA InitInv ==
    ASSUME Init
    PROVE  Inv
<1>0. Modules \subseteq Nat /\ Added = {} /\ None \notin Private
  BY HubAssumption DEF Init, Added, Modules, None
<1>1. TypeInv
  BY HubAssumption DEF Init, TypeInv, PlaceInv, WorkInv, Steps
<1>2. CallInv /\ WorkersAttached /\ WiredInv
  BY HubAssumption DEF Init, CallInv, WorkersAttached, WiredInv, Looping, Closing
<1>3. UpInv
  BY <1>0 DEF Init, UpInv, Closing
<1>4. FailInv
  BY <1>0, HubAssumption DEF Init, FailInv, TellInv, KeptInv, ApartInv, NoFailureLost
<1>5. HubInv /\ WorkerInv
  BY DEF Init, HubInv, HubHeedsStop, HubHeedsBus, HubHeedsTasks, HubHeedsFails, Recorded,
       WorkerInv, WorkerHeedsStop, WorkerHeedsTasks
<1> QED
  BY <1>1, <1>2, <1>3, <1>4, <1>5 DEF Inv, LifeInv

\* And every step keeps it.
LEMMA NextInv ==
    ASSUME Inv, [Next]_vars
    PROVE  Inv'
<1>0. /\ PlaceInv /\ WorkInv /\ CallInv /\ UpInv /\ WorkersAttached /\ WiredInv
      /\ LifeInv /\ FailInv /\ TellInv /\ HubInv /\ WorkerInv
  BY DEF Inv, TypeInv, LifeInv, FailInv
<1>1. TypeInv'
  BY <1>0, PlaceStep, WorkStep DEF TypeInv
<1>2. LifeInv'
  BY <1>0, CallStep, UpStep, AttachedStep, WiredStep DEF LifeInv
<1>3. FailInv'
  BY <1>0, FailStep
<1>4. CASE UNCHANGED vars
  BY <1>4, <1>0, <1>1, <1>2, <1>3 DEF Inv, vars, placeVars, hubVars, flagVars, stopVars,
       workerVars, bellVars, workVars, failVars, HubInv, HubHeedsStop, HubHeedsBus,
       HubHeedsTasks, HubHeedsFails, Recorded, Added, WorkerInv, WorkerHeedsStop,
       WorkerHeedsTasks
<1>5. HubInv' \/ UNCHANGED vars
  BY <1>0, NextCases, HubOutsideStep, HubWorkersStep, HubAppStep, HubPassStep
<1>6. WorkerInv' \/ UNCHANGED vars
  BY <1>0, NextCases, WorkerOutsideStep, WorkerWorkersStep, WorkerAppStep, WorkerHubStep
<1> QED
  BY <1>1, <1>2, <1>3, <1>4, <1>5, <1>6 DEF Inv

\* All of it is invariant.
LEMMA AlwaysInv == Spec => []Inv
BY InitInv, NextInv, PTL DEF Spec

\* A failure the application has not been told of is still on its way, for any
\* modules, and in whatever order run(), start(), join() and their failures come.
THEOREM FailuresArrive == Spec => []NoFailureLost
<1>1. Inv => NoFailureLost
  BY DEF Inv, FailInv
<1> QED
  BY <1>1, AlwaysInv, PTL

\* A hub asleep in run_loop() misses no stop, event, inline task or failure that a
\* thread is not still to ring for: the generation run_loop() records first, and
\* the order in which it then looks at its sources, close every window.
THEOREM HubSleepsSafely == Spec => []HubMissesNothing
<1>1. Inv => HubMissesNothing
  <2> SUFFICES ASSUME Inv, at = "wait", Hub \in current
               PROVE  HubMissesNothing
    BY DEF HubMissesNothing
  <2>1. Recorded
    BY DEF Inv, LifeInv, CallInv, Recorded, Looping
  <2> QED
    BY <2>1 DEF Inv, HubInv, HubHeedsStop, HubHeedsBus, HubHeedsTasks, HubHeedsFails,
         HubMissesNothing, Looping
<1> QED
  BY <1>1, AlwaysInv, PTL

\* The same of the worker of every private module, in run_worker_loop().
THEOREM WorkerSleepsSafely == Spec => []WorkerMissesNothing
<1>1. Inv => WorkerMissesNothing
  BY DEF Inv, WorkerInv, WorkerHeedsStop, WorkerHeedsTasks, WorkerMissesNothing
<1> QED
  BY <1>1, AlwaysInv, PTL

--------------------------------------------------------------------------------
(* What the hub promises its modules. *)

\* Only modules of the hub are up or stopped, and no worker runs before the
\* modules are up and once they have been joined.
MembersInv == up \subseteq Added /\ stopped \subseteq Added

JoinedInv ==
    /\ at \in {"down", "closing"} => \A m \in Private : worker[m] = "none"
    /\ at = "join" => \A m \in Private : m < i => worker[m] = "none"
    /\ ~hubUp /\ at \notin {"workers"} \cup Closing
          => \A m \in Private : worker[m] = "none"

\* The lifecycle of a module begins and ends with its place in m_modules.
LEMMA MembersStep ==
    ASSUME PlaceInv, MembersInv, [Next]_vars
    PROVE  MembersInv'
<1>0. Added \subseteq Added'
  BY CountStep
<1>1. CASE Outside \/ Workers \/ App \/ UNCHANGED vars
  BY <1>0, <1>1, OutsideLeaves, WorkersLeave, AppLeavesLife DEF vars, lifeVars, MembersInv
<1>2. CASE HubSteps \/ HubFails
  <2>1. CASE UNCHANGED lifeVars
    BY <1>0, <2>1 DEF lifeVars, MembersInv
  <2>2. CASE InitModule
    <3>1. i \in Added
      BY <2>2 DEF InitModule, PlaceInv, Added
    <3> QED  BY <1>0, <2>2, <3>1 DEF InitModule, initFrame, MembersInv
  <2>3. CASE ModuleStops
    BY <1>0, <2>3 DEF ModuleStops, MembersInv
  <2>4. CASE ModuleStopped
    <3>1. i \in Added
      BY <2>4 DEF ModuleStopped, PlaceInv, Added
    <3> QED  BY <1>0, <2>4, <3>1 DEF ModuleStopped, MembersInv
  <2> QED  BY <1>2, <2>1, <2>2, <2>3, <2>4, HubLeavesLife
<1> QED
  BY <1>1, <1>2, NextCases

\* Only start_worker() begins a worker's thread.
LEMMA NoneStays ==
    ASSUME WorkInv, [Next]_vars, ~StartWorker, NEW m \in Private, worker[m] = "none"
    PROVE  worker'[m] = "none"
<1>0. m \in Modules
  BY Origins
<1>1. CASE Outside \/ App \/ UNCHANGED vars
  BY <1>1, OutsideLeaves, AppLeavesWork DEF vars, workerVars
<1>2. CASE Workers
  <2>1. PICK n \in Private : WorkerLoop(n) \/ WorkerThrows(n)
    BY <1>2 DEF Workers
  <2>2. n \in Modules
    BY Origins
  <2>3. n # m
    BY <2>1 DEF WorkerLoop, WorkerTop, WorkerGeneration, WorkerProcess, WorkerThrows,
         WorkerStores, WorkerTells, WorkerIdle, WorkerReady, WorkerDeadline, WorkerWait, Move
  <2> QED
    BY <1>0, <2>1, <2>2, <2>3 DEF WorkerLoop, WorkerTop, WorkerGeneration, WorkerProcess,
         WorkerThrows, WorkerStores, WorkerTells, WorkerIdle, WorkerReady, WorkerDeadline,
         WorkerWait, Move, WorkInv
<1>3. CASE JoinWorker
  BY <1>0, <1>3 DEF JoinWorker, WorkInv
<1>4. CASE (HubSteps \/ HubFails) /\ ~JoinWorker
  BY <1>4, HubLeavesWork DEF InlineTasks, InlineTaskThrows, ModuleStopped, loopFrame,
       modVars, workerVars
<1> QED
  BY <1>1, <1>2, <1>3, <1>4, NextCases

\* Which steps lead to the shutdown of the modules, to the joins, and to where no
\* worker may run.
LEMMA JoinedSteps ==
    ASSUME [Next]_vars
    PROVE  /\ at' \in {"down", "closing"} =>
                 at \in {"down", "closing"} \/ (at = "join" /\ i > count)
           /\ at' = "join" => (at = "join" /\ (i' = i \/ JoinWorker)) \/ i' = 1
           /\ ~hubUp' /\ at' \notin {"workers"} \cup Closing =>
                 \/ at \in {"down", "closing"}
                 \/ ~hubUp /\ at \notin {"workers"} \cup Closing
<1> USE DEF Closing, Goto
<1>1. CASE UNCHANGED <<at, i, hubUp>>
  BY <1>1
<1>2. CASE Outside \/ Workers \/ UNCHANGED vars
  <2>1. UNCHANGED <<at, i, hubUp>>
    BY <1>2, OutsideLeaves, WorkersLeave DEF vars, placeVars, flagVars
  <2> QED  BY <1>1, <2>1
<1>3. CASE App
  <2>1. CASE AddModule \/ StartFails \/ Join \/ JoinReturns \/ Destroy
    BY <1>1, <2>1 DEF AddModule, StartFails, Join, JoinReturns, Destroy, still, callVars,
         placeVars, flagVars
  <2>2. CASE Run \/ Start \/ Initialize \/ Process \/ Shutdown \/ DestroyJoins
    BY <2>2 DEF Run, Start, Begins, Between, Initialize, Process, Shutdown, Embedded,
         DestroyJoins, thrown, flagVars
  <2> QED  BY <1>3, <2>1, <2>2 DEF App
<1>4. CASE HubFails
  BY <1>4 DEF HubFails, InitThrows, Undo, StartWorkerThrows, BusThrows, InlineTaskThrows,
       HookThrows, Throws, thrown, flagVars
<1>5. CASE \/ Wire \/ InitModule \/ InitRefused \/ StartWorker \/ Initialized
  BY <1>5 DEF Wire, InitModule, InitRefused, Undo, StartWorker, Initialized, still
<1>6. CASE \/ Top \/ RecordGeneration \/ BusProcess \/ WorkerRethrown \/ InlineTasks
           \/ ProcessReturns
  BY <1>6 DEF Top, RecordGeneration, BusProcess, WorkerRethrown, InlineTasks,
       ProcessReturns, Throws, loopFrame, thrown, flagVars
<1>7. CASE ProcessHook \/ PendingBus \/ PendingModule \/ DeadlineModule \/ Wait
  BY <1>7, HookShape, DeadlineShape DEF PendingBus, PendingModule, Wait, calm, loopFrame,
       thrown, flagVars
<1>8. CASE LoopEnds
  <2>1. at' \in {"workers", "hooks", "deadline", "wait", "join"} /\ i' = 1 /\ hubUp' = hubUp
    BY <1>8 DEF LoopEnds, After, calm, loopFrame, thrown, flagVars
  <2>2. at' \in {"hooks", "deadline", "wait"} => at \in {"tasks", "pending", "deadline"}
    BY <1>8 DEF LoopEnds, After
  <2> QED  BY <2>1, <2>2
<1>9. CASE ShutdownBegins \/ FlagWorker \/ RingWorker \/ JoinWorker \/ AllJoined
  BY <1>9 DEF ShutdownBegins, FlagWorker, RingWorker, JoinWorker, AllJoined
<1>10. CASE ModuleStops \/ ModuleStopped \/ Undone \/ ShutdownReturns \/ HubEnds
  BY <1>10 DEF ModuleStops, ModuleStopped, Undone, ShutdownReturns, HubEnds, Throws
<1> QED
  BY <1>2, <1>3, <1>4, <1>5, <1>6, <1>7, <1>8, <1>9, <1>10, NextCases DEF HubSteps

\* shutdown() has joined every worker before a module goes down.
LEMMA JoinedStep ==
    ASSUME PlaceInv, WorkInv, WorkersAttached, JoinedInv, [Next]_vars
    PROVE  JoinedInv'
<1>0. \A m \in Private : m \in Modules /\ m \in Nat /\ m >= 1
  BY Origins DEF Modules
<1>1. CASE StartWorker
  <2>1. at' = "workers"
    BY <1>1 DEF StartWorker, Goto
  <2> QED  BY <2>1 DEF JoinedInv
<1>2. CASE ~StartWorker
  <2>1. \A m \in Private : worker[m] = "none" => worker'[m] = "none"
    BY <1>2, NoneStays
  <2>2. at = "join" /\ i > count => \A m \in Private : worker[m] = "none"
    <3>1. \A m \in Private : worker[m] # "none" => m \in Nat /\ m <= count
      BY <1>0 DEF WorkersAttached, Added
    <3> QED  BY <1>0, <3>1 DEF JoinedInv, PlaceInv
  <2>3. at' \in {"down", "closing"} => \A m \in Private : worker'[m] = "none"
    BY <2>1, <2>2, JoinedSteps DEF JoinedInv
  <2>4. at' = "join" => \A m \in Private : m < i' => worker'[m] = "none"
    <3>1. CASE at = "join" /\ i' = i
      BY <2>1, <3>1 DEF JoinedInv
    <3>2. CASE JoinWorker
      <4>1. /\ at = "join" /\ i' = i + 1 /\ worker' = [worker EXCEPT ![i] = "none"]
            /\ i \in Nat
        BY <3>2 DEF JoinWorker, Goto, PlaceInv
      <4>2. \A m \in Private : m < i' => m < i \/ m = i
        BY <1>0, <4>1
      <4> QED  BY <1>0, <2>1, <4>1, <4>2 DEF JoinedInv, WorkInv
    <3>3. CASE i' = 1
      BY <1>0, <3>3
    <3> QED  BY <3>1, <3>2, <3>3, JoinedSteps
  <2>5. ~hubUp' /\ at' \notin {"workers"} \cup Closing
          => \A m \in Private : worker'[m] = "none"
    BY <2>1, JoinedSteps DEF JoinedInv
  <2> QED  BY <2>3, <2>4, <2>5 DEF JoinedInv
<1> QED
  BY <1>1, <1>2

\* Every step of the hub is one its contract allows, or does not concern it.
LEMMA ContractStep ==
    ASSUME PlaceInv, WorkInv, CallInv, UpInv, MembersInv, JoinedInv, [Next]_vars
    PROVE  [Contract!ContractNext]_(Contract!contractVars)
<1>0. Private \subseteq Modules /\ Modules \subseteq Nat /\ Added \subseteq Modules
  BY HubAssumption, Origins DEF Modules, Added, PlaceInv
<1> USE DEF Contract!ContractNext, Contract!contractVars
<1>1. CASE UNCHANGED <<up, stopped, Owners>>
  BY <1>1
<1>2. CASE Outside \/ App \/ UNCHANGED vars
  <2>1. UNCHANGED <<up, stopped, worker>>
    BY <1>2, OutsideLeaves, AppLeavesWork, AppLeavesLife DEF vars, lifeVars, workerVars
  <2> QED  BY <1>1, <2>1 DEF Owners
<1>3. CASE Workers
  <2>1. PICK m \in Private : WorkerLoop(m) \/ WorkerThrows(m)
    BY <1>3 DEF Workers
  <2>2. PICK to : /\ worker[m] \notin {"none", "ended"} /\ to # "none"
                  /\ worker' = [worker EXCEPT ![m] = to]
    BY <2>1 DEF WorkerLoop, WorkerTop, WorkerGeneration, WorkerProcess, WorkerThrows,
         WorkerStores, WorkerTells, WorkerIdle, WorkerReady, WorkerDeadline, WorkerWait, Move
  <2>3. UNCHANGED <<up, stopped>>
    BY <1>3, WorkersLeave DEF lifeVars
  <2>4. CASE to = "ended"
    <3>1. m \in Owners /\ Owners' = Owners \ {m}
      BY <1>0, <2>2, <2>4 DEF Owners, WorkInv
    <3>2. Contract!ThreadEnds(m)
      BY <2>3, <3>1 DEF Contract!ThreadEnds
    <3> QED  BY <1>0, <3>2
  <2>5. CASE to # "ended"
    <3>1. Owners' = Owners
      BY <1>0, <2>2, <2>5 DEF Owners, WorkInv
    <3> QED  BY <1>1, <2>3, <3>1
  <2> QED  BY <2>4, <2>5
<1>4. CASE StartWorker
  <2>1. at = "workers" /\ i \in Added /\ UNCHANGED <<up, stopped>>
    BY <1>4 DEF StartWorker, PlaceInv, Added, lifeVars
  <2>2. i \in up /\ stopped = {}
    BY <2>1 DEF UpInv, MembersInv
  <2>3. CASE i \in Private /\ worker[i] = "none"
    <3>1. i \notin Owners /\ Owners' = Owners \cup {i}
      BY <1>0, <1>4, <2>3 DEF StartWorker, Owners, WorkInv
    <3>2. Contract!ThreadBegins(i)
      BY <2>1, <2>2, <3>1 DEF Contract!ThreadBegins
    <3> QED  BY <1>0, <2>1, <3>2
  <2>4. CASE ~(i \in Private /\ worker[i] = "none")
    <3>1. worker' = worker
      BY <1>4, <2>4 DEF StartWorker, workerVars
    <3> QED  BY <1>1, <2>1, <3>1 DEF Owners
  <2> QED  BY <2>3, <2>4
<1>5. CASE JoinWorker
  <2>1. Owners' = Owners /\ UNCHANGED <<up, stopped>>
    BY <1>0, <1>5 DEF JoinWorker, Owners, WorkInv, lifeVars
  <2> QED  BY <1>1, <2>1
<1>6. ASSUME HubSteps \/ HubFails, ~StartWorker, ~JoinWorker PROVE Owners' = Owners
  BY <1>6, HubLeavesWork DEF InlineTasks, InlineTaskThrows, ModuleStopped, loopFrame,
       modVars, workerVars, Owners
<1>7. CASE InitModule
  <2>1. /\ at = "init" /\ i \in Added /\ up' = up \cup {i} /\ UNCHANGED <<stopped, worker>>
        /\ i \in up \/ i \notin stopped
    BY <1>7 DEF InitModule, PlaceInv, Added, initFrame, workerVars
  <2>2. Owners = {} /\ Owners' = Owners
    BY <2>1 DEF CallInv, JoinedInv, Owners, Closing
  <2>3. CASE i \in up
    <3>1. up' = up
      BY <2>1, <2>3
    <3> QED  BY <1>1, <2>1, <2>2, <3>1
  <2>4. CASE i \notin up
    <3>1. \A n \in Modules : n < i => n \in up
      <4>1. \A n \in Modules : n < i => n \in Added
        BY <2>1 DEF Added, Modules, PlaceInv
      <4> QED  BY <2>1, <4>1 DEF UpInv
    <3>2. Contract!ComesUp(i)
      BY <2>1, <2>2, <2>4, <3>1 DEF Contract!ComesUp
    <3> QED  BY <1>0, <2>1, <3>2
  <2> QED  BY <2>3, <2>4
<1>8. CASE ModuleStops
  <2>1. UNCHANGED <<up, stopped, worker>>
    BY <1>8 DEF ModuleStops, workerVars
  <2> QED  BY <1>1, <2>1 DEF Owners
<1>9. CASE ModuleStopped
  <2>1. /\ at = "closing" /\ i \in Added
        /\ up' = up \ {i} /\ stopped' = stopped \cup {i} /\ worker' = worker
    BY <1>9 DEF ModuleStopped, PlaceInv, Added, workerVars
  <2>2. Owners = {} /\ Owners' = Owners
    BY <2>1 DEF JoinedInv, Owners
  <2>3. CASE i \in stopped
    <3>1. UNCHANGED <<up, stopped>>
      BY <2>1, <2>3 DEF UpInv
    <3> QED  BY <1>1, <2>2, <3>1
  <2>4. CASE i \in up
    <3>1. \A n \in up : n <= i
      <4>1. \A n \in up : n \in Added /\ n \notin stopped /\ n \in Nat
        BY <1>0 DEF UpInv, MembersInv
      <4> QED  BY <2>1, <4>1 DEF UpInv, PlaceInv
    <3>2. Contract!GoesDown(i)
      BY <2>1, <2>2, <2>4, <3>1 DEF Contract!GoesDown
    <3> QED  BY <1>0, <2>1, <3>2
  <2>5. CASE i \notin up \cup stopped
    <3>1. Contract!Retires(i)
      BY <2>1, <2>2, <2>5 DEF Contract!Retires
    <3> QED  BY <1>0, <2>1, <3>1
  <2> QED  BY <2>3, <2>4, <2>5
<1>10. CASE HubSteps \/ HubFails
  <2>1. UNCHANGED lifeVars => UNCHANGED <<up, stopped>>
    BY DEF lifeVars
  <2> QED
    BY <1>1, <1>4, <1>5, <1>6, <1>7, <1>8, <1>9, <1>10, <2>1, HubLeavesLife
<1> QED
  BY <1>2, <1>3, <1>10, NextCases

\* ModuleHub implements HubContract: for any modules, however their callbacks and
\* threads fail, they come up in order, run their threads only while all are up,
\* and go down in reverse order once those are joined.
THEOREM ContractKept == Spec => KeepsContract
<1> DEFINE LInv == Inv /\ MembersInv /\ JoinedInv
<1>1. Init => LInv /\ Contract!ContractInit
  <2> SUFFICES ASSUME Init PROVE LInv /\ Contract!ContractInit
    OBVIOUS
  <2>1. MembersInv /\ JoinedInv /\ Owners = {}
    BY Origins DEF Init, MembersInv, JoinedInv, Owners, Closing
  <2>2. Contract!ContractInit
    BY <2>1 DEF Init, Contract!ContractInit
  <2> QED  BY <2>1, <2>2, InitInv
<1>2. LInv /\ [Next]_vars => LInv' /\ [Contract!ContractNext]_(Contract!contractVars)
  <2> SUFFICES ASSUME LInv, [Next]_vars
               PROVE  LInv' /\ [Contract!ContractNext]_(Contract!contractVars)
    OBVIOUS
  <2>1. PlaceInv /\ WorkInv /\ CallInv /\ UpInv /\ WorkersAttached
    BY DEF Inv, TypeInv, LifeInv
  <2> QED  BY <2>1, NextInv, MembersStep, JoinedStep, ContractStep
<1> QED
  BY <1>1, <1>2, PTL DEF Spec, KeepsContract, Contract!ContractSpec

--------------------------------------------------------------------------------
(* Types. *)

\* What TypeOK says besides Inv, and what it rests on: a request_stop() under way
\* has a module to ask, and both kinds of tasks share the bound.
PhaseTypes ==
    /\ at \in Places
    /\ thread \in {"none", "live", "ended"}
    /\ app \in {"free", "joining", "destroying", "gone"}

FlagTypes ==
    /\ undoing \in BOOLEAN /\ worked \in BOOLEAN /\ timed \in BOOLEAN
    /\ hubUp \in BOOLEAN /\ stop \in BOOLEAN /\ running \in BOOLEAN
    /\ wired \in BOOLEAN

StopTypes ==
    /\ stopper \in {"idle", "hub", "flag", "ring"} /\ unasked \subseteq Private
    /\ stopper \in {"flag", "ring"} => unasked # {}
    /\ workerStop \subseteq Private

SetTypes ==
    /\ up \subseteq Modules /\ stopping \subseteq Modules /\ stopped \subseteq Modules
    /\ attached \subseteq Sources /\ current \subseteq Waiters
    /\ owing \in Sources \cup {None} /\ untold \subseteq Waiters

BoundTypes ==
    /\ \A m \in Modules : ready[m] + delayed[m] <= MaxTasks
    /\ events <= MaxEvents /\ fails \in 0 .. MaxFails

\* The module request_stop() is at.
LEMMA NextAsked ==
    ASSUME unasked \subseteq Private, unasked # {}
    PROVE  Min(unasked) \in unasked
<1>1. Private \subseteq Nat
  BY HubAssumption DEF Modules
<1>2. \E x \in unasked : \A y \in unasked : x <= y
  BY <1>1, LeastNatural
<1> QED
  BY <1>2 DEF Min

\* A pass over the tasks of a module makes none.
LEMMA TakesBound ==
    ASSUME WorkInv, BoundTypes, NEW m \in Modules, Pass(m)
    PROVE  \A x \in Modules : ready'[x] + delayed'[x] <= MaxTasks
<1>0. PICK k \in 0 .. Quota : Takes(m, k) \/ ThrowsAfter(m, k)
  BY DEF Pass
<1>1. PICK due \in 0 .. delayed[m] :
         /\ delayed' = [delayed EXCEPT ![m] = @ - due]
         /\ ready' = [ready EXCEPT ![m] = @ + due - k]
  BY <1>0 DEF Takes, ThrowsAfter
<1>2. ready \in [Modules -> Nat] /\ delayed \in [Modules -> Nat]
  BY DEF WorkInv
<1>3. /\ ready'[m] = ready[m] + due - k /\ delayed'[m] = delayed[m] - due
      /\ \A x \in Modules \ {m} : ready'[x] = ready[x] /\ delayed'[x] = delayed[x]
  BY <1>1, <1>2
<1>4. /\ ready[m] \in Nat /\ delayed[m] \in Nat /\ due \in Nat /\ k \in Nat
      /\ MaxTasks \in Nat
  BY <1>1, <1>2, HubAssumption
<1>5. ready'[m] + delayed'[m] <= MaxTasks
  BY <1>3, <1>4 DEF BoundTypes
<1> QED
  BY <1>3, <1>5 DEF BoundTypes

\* No step leaves the thread, the hub or the application in a phase the code lacks.
LEMMA PhaseStep ==
    ASSUME PhaseTypes, [Next]_vars
    PROVE  PhaseTypes'
<1> USE DEF PhaseTypes, Places, Goto, placeVars, appVars
<1>1. CASE Outside
  BY <1>1 DEF Outside, PostEvent, Submit, Notify, RequestStop, StopSteps, StopNotifiesHub,
       StopFlagsWorker, StopNotifiesWorker, stopFrame, still, others
<1>2. CASE App
  BY <1>2 DEF App, AddModule, Run, Start, StartFails, Begins, Initialize, Process, Shutdown,
       Embedded, Join, JoinReturns, Destroy, DestroyJoins, callVars, still, others, thrown
<1>3. CASE HubSteps
  <2> USE DEF still, others, thrown, loopFrame, calm, initFrame
  <2>1. CASE Wire \/ InitModule \/ InitRefused \/ StartWorker \/ Initialized \/ Top
             \/ RecordGeneration \/ BusProcess \/ WorkerRethrown
    BY <2>1 DEF Wire, InitModule, InitRefused, Undo, StartWorker, Initialized, Top,
         RecordGeneration, BusProcess, WorkerRethrown, Throws
  <2>2. CASE InlineTasks \/ ProcessHook \/ ProcessReturns \/ PendingBus \/ PendingModule
             \/ DeadlineModule \/ Wait
    BY <2>2 DEF InlineTasks, ProcessHook, ProcessReturns, PendingBus, PendingModule,
         DeadlineModule, Wait
  <2>3. CASE LoopEnds
    BY <2>3 DEF LoopEnds, After
  <2>4. CASE ShutdownBegins \/ FlagWorker \/ RingWorker \/ JoinWorker \/ AllJoined
    BY <2>4 DEF ShutdownBegins, FlagWorker, RingWorker, JoinWorker, AllJoined
  <2>5. CASE ModuleStops \/ ModuleStopped \/ Undone \/ ShutdownReturns \/ HubEnds
    BY <2>5 DEF ModuleStops, ModuleStopped, ShutdownReturns, HubEnds, Undone, Throws
  <2> QED
    BY <1>3, <2>1, <2>2, <2>3, <2>4, <2>5 DEF HubSteps
<1>4. CASE HubFails
  BY <1>4 DEF HubFails, InitThrows, StartWorkerThrows, BusThrows, InlineTaskThrows,
       HookThrows, Undo, Throws, thrown, initFrame, others
<1>5. CASE Workers
  BY <1>5 DEF Workers, WorkerLoop, WorkerTop, WorkerGeneration, WorkerProcess, WorkerStores,
       WorkerTells, WorkerIdle, WorkerReady, WorkerDeadline, WorkerWait, WorkerThrows,
       workerFrame, still, others
<1>6. CASE UNCHANGED vars
  BY <1>6 DEF vars
<1> QED
  BY <1>1, <1>2, <1>3, <1>4, <1>5, <1>6, NextCases

\* The flags of the loops and of the hub stay Booleans, whatever hooks return.
LEMMA FlagStep ==
    ASSUME FlagTypes, [Next]_vars
    PROVE  FlagTypes'
<1> USE DEF FlagTypes, hubVars, flagVars, wireVars
<1>1. CASE Outside
  BY <1>1, Zenon DEF Outside, PostEvent, Submit, Notify, RequestStop, StopSteps,
         StopNotifiesHub,
       StopFlagsWorker, StopNotifiesWorker, stopFrame, still, modVars
<1>2. CASE App
  BY <1>2, Zenon DEF App, AddModule, Run, Start, StartFails, Begins, Initialize, Process,
         Shutdown,
       Embedded, Join, JoinReturns, Destroy, DestroyJoins, callVars, still, thrown, modVars
<1>3. CASE HubSteps
  <2> USE DEF still, thrown, loopFrame, calm, initFrame, modVars
  <2>1. CASE Wire \/ InitModule \/ InitRefused \/ StartWorker \/ Initialized \/ Top
             \/ RecordGeneration
    BY <2>1, Zenon DEF Wire, InitModule, InitRefused, Undo, StartWorker, Initialized, Top,
         RecordGeneration
  <2>6. CASE WorkerRethrown
    BY <2>6, Zenon DEF WorkerRethrown, Throws
  <2>8. CASE BusProcess
    <3>1. worked' \in BOOLEAN
      BY <2>8 DEF BusProcess
    <3> QED  BY <2>8, <3>1, Zenon DEF BusProcess
  <2>2. CASE InlineTasks \/ ProcessHook
    BY <2>2 DEF InlineTasks, ProcessHook
  <2>7. CASE DeadlineModule
    BY <2>7 DEF DeadlineModule
  <2>3. CASE LoopEnds \/ ProcessReturns \/ PendingBus \/ PendingModule \/ Wait
    BY <2>3, Zenon DEF LoopEnds, ProcessReturns, PendingBus, PendingModule, Wait
  <2>4. CASE ShutdownBegins \/ FlagWorker \/ RingWorker \/ JoinWorker \/ AllJoined
    BY <2>4, Zenon DEF ShutdownBegins, FlagWorker, RingWorker, JoinWorker, AllJoined
  <2>5. CASE ModuleStops \/ ModuleStopped \/ Undone \/ ShutdownReturns \/ HubEnds
    BY <2>5, Zenon DEF ModuleStops, ModuleStopped, ShutdownReturns, HubEnds, Undone, Throws
  <2> QED
    BY <1>3, <2>1, <2>2, <2>3, <2>4, <2>5, <2>6, <2>7, <2>8 DEF HubSteps
<1>4. CASE HubFails
  BY <1>4, Zenon DEF HubFails, InitThrows, StartWorkerThrows, BusThrows, InlineTaskThrows,
       HookThrows, Undo, Throws, thrown, initFrame, modVars
<1>5. CASE Workers
  BY <1>5, Zenon DEF Workers, WorkerLoop, WorkerTop, WorkerGeneration, WorkerProcess,
         WorkerStores,
       WorkerTells, WorkerIdle, WorkerReady, WorkerDeadline, WorkerWait, WorkerThrows,
       workerFrame, still
<1>6. CASE UNCHANGED vars
  BY <1>6 DEF vars
<1> QED
  BY <1>1, <1>2, <1>3, <1>4, <1>5, <1>6, NextCases

\* request_stop() goes through the workers it has not asked, and only asks workers.
LEMMA StopStep ==
    ASSUME StopTypes, PlaceInv, CallInv, [Next]_vars
    PROVE  StopTypes'
<1> USE DEF StopTypes, stopVars, workerVars
<1>a. Added \cap Private \subseteq Private
  OBVIOUS
<1>m. unasked # {} => Min(unasked) \in Private
  BY NextAsked
<1>1. CASE Outside
  <2>1. CASE StopNotifiesHub \/ StopFlagsWorker \/ StopNotifiesWorker
    BY <1>m, <2>1 DEF StopNotifiesHub, StopFlagsWorker, StopNotifiesWorker, stopFrame
  <2>2. CASE PostEvent \/ (\E m \in Modules : Submit(m)) \/ Notify \/ RequestStop
    BY <2>2 DEF PostEvent, Submit, Notify, RequestStop, stopFrame, still, others, modVars
  <2> QED  BY <1>1, <2>1, <2>2 DEF Outside, StopSteps
<1>2. CASE App
  BY <1>2 DEF App, AddModule, Run, Start, StartFails, Begins, Initialize, Process, Shutdown,
       Embedded, Join, JoinReturns, Destroy, DestroyJoins, callVars, still, others, thrown,
       modVars
<1>3. CASE HubSteps
  <2> USE DEF still, others, thrown, loopFrame, calm, initFrame, modVars
  <2>1. CASE Wire \/ InitModule \/ InitRefused \/ StartWorker \/ Initialized \/ Top
             \/ RecordGeneration \/ BusProcess \/ WorkerRethrown
    BY <2>1 DEF Wire, InitModule, InitRefused, Undo, StartWorker, Initialized, Top,
         RecordGeneration, BusProcess, WorkerRethrown, Throws
  <2>2. CASE InlineTasks \/ ProcessHook \/ ProcessReturns \/ PendingBus \/ PendingModule
             \/ DeadlineModule \/ Wait \/ LoopEnds
    BY <2>2 DEF InlineTasks, ProcessHook, ProcessReturns, PendingBus, PendingModule,
         DeadlineModule, Wait, LoopEnds
  <2>3. CASE ShutdownBegins \/ FlagWorker \/ RingWorker \/ JoinWorker \/ AllJoined
    BY <2>3 DEF ShutdownBegins, FlagWorker, RingWorker, JoinWorker, AllJoined
  <2>4. CASE ModuleStops \/ ModuleStopped \/ Undone \/ ShutdownReturns \/ HubEnds
    BY <2>4 DEF ModuleStops, ModuleStopped, ShutdownReturns, HubEnds, Undone, Throws
  <2> QED
    BY <1>3, <2>1, <2>2, <2>3, <2>4 DEF HubSteps
<1>4. CASE HubFails
  BY <1>4 DEF HubFails, InitThrows, StartWorkerThrows, BusThrows, InlineTaskThrows,
       HookThrows, Undo, Throws, thrown, initFrame, others, modVars
<1>5. CASE Workers
  BY <1>5 DEF Workers, WorkerLoop, WorkerTop, WorkerGeneration, WorkerProcess, WorkerStores,
       WorkerTells, WorkerIdle, WorkerReady, WorkerDeadline, WorkerWait, WorkerThrows,
       workerFrame, still, others, Move
<1>6. CASE UNCHANGED vars
  BY <1>6 DEF vars
<1> QED
  BY <1>1, <1>2, <1>3, <1>4, <1>5, <1>6, NextCases

\* The sets of modules, notifiers and failures keep their ranges through every step.
LEMMA SetStep ==
    ASSUME SetTypes, PlaceInv, TellInv, CallInv, [Next]_vars
    PROVE  SetTypes'
<1> USE DEF SetTypes, lifeVars, wireVars, bellVars
<1>p. /\ \A m \in Added : m \in Modules /\ m \in Sources
      /\ Private \subseteq Modules /\ Private \subseteq Waiters /\ Private \subseteq Sources
      /\ Added \subseteq Sources /\ Bus \in Sources /\ Hub \in Waiters
      /\ i \in Nat /\ count \in Nat
      /\ i >= 1 /\ i <= count => i \in Added
  BY HubAssumption DEF PlaceInv, Added, Modules, Sources, Waiters
<1>t. background \in Waiters \cup {None} /\ flight \in Waiters \cup {None}
      /\ pending \subseteq Waiters
  BY <1>p DEF TellInv
<1>1. CASE Outside
  BY <1>1, <1>p DEF Outside, PostEvent, Submit, Notify, RequestStop, StopSteps,
         StopNotifiesHub,
       StopFlagsWorker, StopNotifiesWorker, stopFrame, still, others, modVars, Ring,
       failVars,
       Sources
<1>2. CASE App
  BY <1>2, <1>t DEF App, AddModule, Run, Start, StartFails, Begins, Initialize, Process,
         Shutdown,
       Embedded, Join, JoinReturns, Destroy, DestroyJoins, modVars, flowVars, failVars
<1>3. CASE HubSteps
  <2> USE DEF loopFrame, calm, initFrame, modVars, flowVars, failVars
  <2>1. CASE Wire \/ InitRefused \/ Initialized \/ Top
             \/ RecordGeneration \/ BusProcess
    BY <1>p, <2>1 DEF Wire, InitRefused, Undo, Initialized, Top,
         RecordGeneration, BusProcess, Wired
  <2>5. CASE InitModule \/ StartWorker
    BY <1>p, <2>5 DEF InitModule, StartWorker, PlaceInv
  <2>6. CASE WorkerRethrown
    BY <1>t, <2>6 DEF WorkerRethrown, Throws
  <2>2. CASE InlineTasks \/ ProcessHook \/ ProcessReturns \/ PendingBus \/ PendingModule
             \/ DeadlineModule \/ Wait \/ LoopEnds
    BY <2>2 DEF InlineTasks, ProcessHook, ProcessReturns, PendingBus, PendingModule,
         DeadlineModule, Wait, LoopEnds
  <2>3. CASE ShutdownBegins \/ FlagWorker \/ RingWorker \/ JoinWorker \/ AllJoined
    BY <2>3 DEF ShutdownBegins, FlagWorker, RingWorker, JoinWorker, AllJoined, Ring
  <2>7. CASE ModuleStops \/ ModuleStopped
    BY <1>p, <2>7 DEF ModuleStops, ModuleStopped, PlaceInv
  <2>4. CASE Undone \/ ShutdownReturns \/ HubEnds
    BY <1>p, <2>4 DEF ShutdownReturns, HubEnds, Undone, Throws
  <2> QED
    BY <1>3, <2>1, <2>2, <2>3, <2>4, <2>5, <2>6, <2>7 DEF HubSteps
<1>4. CASE HubFails
  BY <1>4, <1>p DEF HubFails, InitThrows, StartWorkerThrows, BusThrows, InlineTaskThrows,
       HookThrows, Undo, Throws, initFrame, modVars, flowVars, failVars
<1>5. CASE Workers
  BY <1>5, <1>p DEF Workers, WorkerLoop, WorkerTop, WorkerGeneration, WorkerProcess,
         WorkerStores,
       WorkerTells, WorkerIdle, WorkerReady, WorkerDeadline, WorkerWait, WorkerThrows,
       workerFrame, failVars, Ring
<1>6. CASE UNCHANGED vars
  BY <1>6 DEF vars, failVars
<1> QED
  BY <1>1, <1>2, <1>3, <1>4, <1>5, <1>6, NextCases

\* A pass, a deadline or a failure never exceeds the bounds of the work submitted.
LEMMA BoundStep ==
    ASSUME BoundTypes, WorkInv, WorkInv', PlaceInv, [Next]_vars
    PROVE  BoundTypes'
<1> USE DEF BoundTypes
<1>t. /\ ready \in [Modules -> Nat] /\ delayed \in [Modules -> Nat] /\ events \in Nat
      /\ MaxTasks \in Nat /\ MaxEvents \in Nat /\ MaxFails \in Nat
  BY HubAssumption DEF WorkInv
<1>u. UNCHANGED <<workVars, fails>> => BoundTypes'
  BY DEF workVars
<1>1. CASE Outside
  <2>1. CASE PostEvent
    BY <1>t, <2>1 DEF PostEvent, failVars
  <2>2. ASSUME NEW m \in Modules, Submit(m) PROVE BoundTypes'
    <3>1. \A x \in Modules \ {m} : ready'[x] = ready[x] /\ delayed'[x] = delayed[x]
      BY <1>t, <2>2 DEF Submit
    <3>2. ready'[m] + delayed'[m] <= MaxTasks
      BY <1>t, <2>2 DEF Submit
    <3> QED  BY <2>2, <3>1, <3>2 DEF Submit, failVars
  <2>3. CASE Notify \/ RequestStop \/ StopSteps
    BY <1>u, <2>3 DEF Notify, RequestStop, StopSteps, StopNotifiesHub, StopFlagsWorker,
         StopNotifiesWorker, stopFrame, failVars
  <2> QED  BY <1>1, <2>1, <2>2, <2>3 DEF Outside
<1>2. CASE App
  BY <1>2, <1>t DEF App, AddModule, Run, Start, StartFails, Begins, Initialize, Process,
         Shutdown,
       Embedded, Join, JoinReturns, Destroy, DestroyJoins, flowVars, failVars, workVars
<1>i. i \in Nat /\ \A m \in Inline \cup Private : m \in Modules
  BY HubAssumption DEF PlaceInv
<1>3. CASE HubSteps
  <2>1. CASE BusProcess
    BY <1>t, <2>1 DEF BusProcess, failVars
  <2>2. CASE InlineTasks
    <3>1. CASE i \in Inline \cap Active
      <4>1. Pass(i)
        BY <1>i, <2>2, <3>1, PassShape DEF InlineTasks
      <4>2. \A x \in Modules : ready'[x] + delayed'[x] <= MaxTasks
        BY <1>i, <3>1, <4>1, TakesBound
      <4> QED  BY <2>2, <4>2 DEF InlineTasks, failVars
    <3>2. CASE i \notin Inline \cap Active
      BY <1>u, <2>2, <3>2 DEF InlineTasks, failVars, workVars
    <3> QED  BY <3>1, <3>2
  <2>3. CASE ModuleStopped
    <3>1. \A x \in Modules : ready'[x] \in {ready[x], 0} /\ delayed'[x] \in {delayed[x], 0}
      BY <1>t, <2>3 DEF ModuleStopped
    <3>2. \A x \in Modules : ready'[x] + delayed'[x] <= MaxTasks
      BY <1>t, <3>1
    <3> QED  BY <2>3, <3>2 DEF ModuleStopped, failVars
  <2>4. CASE ShutdownReturns \/ HubEnds
    BY <1>t, <2>4 DEF ShutdownReturns, HubEnds, failVars
  <2>5. UNCHANGED <<workVars, fails>> \/ BusProcess \/ InlineTasks \/ ModuleStopped
            \/ ShutdownReturns \/ HubEnds
    BY <1>3 DEF HubSteps, calm, loopFrame, initFrame, flowVars, failVars, Wire, InitModule,
         InitRefused, Undo, StartWorker, Initialized, Top, RecordGeneration, WorkerRethrown,
         ProcessHook, ProcessReturns, PendingBus, PendingModule, DeadlineModule, Wait,
         LoopEnds, ShutdownBegins, FlagWorker, RingWorker, JoinWorker, AllJoined,
         ModuleStops, Undone
  <2> QED  BY <1>u, <2>1, <2>2, <2>3, <2>4, <2>5
<1>4. CASE HubFails
  <2>1. fails' \in 0 .. MaxFails
    BY <1>t, <1>4 DEF HubFails, InitThrows, StartWorkerThrows, BusThrows, InlineTaskThrows,
         HookThrows, MayFail
  <2>2. CASE InlineTaskThrows
    <3>1. i \in Modules
      BY <1>i, <2>2 DEF InlineTaskThrows
    <3>2. Pass(i)
      BY <2>2, <3>1, PassShape DEF InlineTaskThrows
    <3>3. \A x \in Modules : ready'[x] + delayed'[x] <= MaxTasks
      BY <3>1, <3>2, TakesBound
    <3> QED  BY <2>1, <2>2, <3>3 DEF InlineTaskThrows
  <2>3. CASE BusThrows
    <3>1. events' <= MaxEvents /\ ready' = ready /\ delayed' = delayed
      BY <1>t, <2>3 DEF BusThrows
    <3> QED  BY <2>1, <3>1
  <2>4. CASE InitThrows \/ StartWorkerThrows \/ HookThrows
    <3>1. UNCHANGED workVars
      BY <2>4 DEF InitThrows, StartWorkerThrows, HookThrows, Undo, initFrame, flowVars
    <3> QED  BY <2>1, <3>1 DEF workVars
  <2> QED  BY <1>4, <2>2, <2>3, <2>4 DEF HubFails
<1>5. CASE Workers
  <2>1. PICK m \in Private : WorkerLoop(m) \/ WorkerThrows(m)
    BY <1>5 DEF Workers
  <2>2. m \in Modules
    BY <1>i
  <2>3. CASE WorkerProcess(m) \/ WorkerThrows(m)
    <3>1. Pass(m)
      BY <2>2, <2>3, PassShape DEF WorkerProcess, WorkerThrows
    <3>2. \A x \in Modules : ready'[x] + delayed'[x] <= MaxTasks
      BY <2>2, <3>1, TakesBound
    <3>3. events' = events /\ fails' \in 0 .. MaxFails
      BY <1>t, <2>3 DEF WorkerProcess, WorkerThrows, workerFrame, failVars, MayFail
    <3> QED  BY <3>2, <3>3
  <2>4. CASE WorkerLoop(m) /\ ~WorkerProcess(m)
    BY <1>u, <2>4 DEF WorkerLoop, WorkerTop, WorkerGeneration, WorkerStores, WorkerTells,
         WorkerIdle, WorkerReady, WorkerDeadline, WorkerWait, workerFrame, failVars,
         workVars
  <2> QED  BY <2>1, <2>3, <2>4
<1>6. CASE UNCHANGED vars
  BY <1>6, <1>u DEF vars, failVars
<1> QED
  BY <1>1, <1>2, <1>3, <1>4, <1>5, <1>6, NextCases

\* TypeOK: what ModuleHub, its modules and its worker threads keep is of its type,
\* for any modules, any quota and any bounds on the work submitted.
THEOREM HubTypes == Spec => []TypeOK
<1> DEFINE TInv == Inv /\ PhaseTypes /\ FlagTypes /\ StopTypes /\ SetTypes /\ BoundTypes
<1>1. Init => TInv
  <2> SUFFICES ASSUME Init PROVE TInv
    OBVIOUS
  <2>1. PhaseTypes /\ StopTypes /\ SetTypes
    BY DEF Init, PhaseTypes, Places, StopTypes, SetTypes
  <2>2. FlagTypes
    BY DEF Init, FlagTypes
  <2>3. BoundTypes
    BY HubAssumption DEF Init, BoundTypes
  <2> QED  BY <2>1, <2>2, <2>3, InitInv
<1>2. TInv /\ [Next]_vars => TInv'
  <2> SUFFICES ASSUME TInv, [Next]_vars PROVE TInv'
    OBVIOUS
  <2>1. PlaceInv /\ TellInv /\ CallInv /\ WorkInv
    BY DEF Inv, TypeInv, LifeInv, FailInv
  <2>2. Inv' /\ WorkInv'
    BY NextInv DEF Inv, TypeInv
  <2> QED  BY <2>1, <2>2, PhaseStep, FlagStep, StopStep, SetStep, BoundStep
<1>3. TInv => TypeOK
  <2> SUFFICES ASSUME TInv PROVE TypeOK
    OBVIOUS
  <2>1. PlaceInv /\ TellInv /\ CallInv /\ WorkInv
    BY DEF Inv, TypeInv, LifeInv, FailInv
  <2>2. i \in 0 .. MaxModules + 1 /\ count \in 0 .. MaxModules
    BY <2>1, HubAssumption DEF PlaceInv
  <2>3. /\ ready \in [Modules -> 0 .. MaxTasks] /\ delayed \in [Modules -> 0 .. MaxTasks]
        /\ events \in 0 .. MaxEvents
    <3>1. \A m \in Modules : ready[m] \in 0 .. MaxTasks /\ delayed[m] \in 0 .. MaxTasks
      BY <2>1, HubAssumption DEF WorkInv, BoundTypes
    <3> QED  BY <2>1, <3>1, HubAssumption DEF WorkInv, BoundTypes
  <2>4. /\ at \in Places /\ thread \in {"none", "live", "ended"}
        /\ app \in {"free", "joining", "destroying", "gone"}
    BY DEF PhaseTypes
  <2>5. /\ undoing \in BOOLEAN /\ worked \in BOOLEAN /\ timed \in BOOLEAN
        /\ hubUp \in BOOLEAN /\ stop \in BOOLEAN /\ running \in BOOLEAN
        /\ wired \in BOOLEAN
    BY Zenon DEF FlagTypes
  <2>6. /\ caller \in {"none", "run", "start", "embed", "destroy"}
        /\ worker \in [Modules -> Steps]
        /\ flight \in Waiters \cup {None} /\ background \in Waiters \cup {None}
        /\ pending \subseteq Private /\ fails \in 0 .. MaxFails
    BY <2>1 DEF CallInv, WorkInv, TellInv, BoundTypes
  <2> QED  BY <2>2, <2>3, <2>4, <2>5, <2>6, Zenon DEF TypeOK, StopTypes, SetTypes
<1> QED
  BY <1>1, <1>2, <1>3, PTL DEF Spec
================================================================================
