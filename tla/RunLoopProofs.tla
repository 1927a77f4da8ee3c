------------------------------ MODULE RunLoopProofs -----------------------------
(***************************************************************************)
(* A theorem about RunLoop composed with TaskManager, for every value of   *)
(* the constants: a thread that blocks in run() misses no wake-up.  What   *)
(* TaskManager promises comes from TaskManagerProofs.                      *)
(***************************************************************************)
EXTENDS RunLoop, TaskManagerProofs

--------------------------------------------------------------------------------
(* The task manager inside the loop.                                       *)

\* A call on another source owes a notify(); the task manager does not move.
Owing ==
    /\ owed < Producers
    /\ owed' = owed + 1
    /\ UNCHANGED <<taskVars, queueVars, consumerVars, cancelVars, envVars, nextId>>

\* What the loop needs of the task manager.
ManagerInv == Inv /\ HeapSorted /\ CountInv

\* Steps of process() are steps of the task manager.
LEMMA PassIsManaged ==
    ASSUME Pass
    PROVE  Next
<1>1. CASE PassSteps
  BY <1>1 DEF PassSteps, Next, Advance
<1>2. CASE TaskStarts \/ TasksReturn \/ TasksThrow
  BY <1>2 DEF TaskStarts, TasksReturn, TasksThrow, Next, Advance
<1> QED
  BY <1>1, <1>2 DEF Pass

\* So are the steps of other threads and of user code.
LEMMA TaskStepsManaged ==
    ASSUME TaskSteps
    PROVE  Next
BY DEF TaskSteps, Next, Environment

\* The loop's own steps leave the task manager alone, begin a pass, or drop the
\* cancelled tops of its heap.
LEMMA LoopIsManaged ==
    ASSUME Loop
    PROVE  [Next]_vars
<1>1. CASE TasksProcess
  BY <1>1 DEF TasksProcess, Next
<1>2. CASE ReadDeadline
  BY <1>2 DEF ReadDeadline, Next, Environment
<1>3. CASE \/ Top \/ RecordGeneration \/ BusProcess \/ BusReturns \/ AfterWork
           \/ AnyEvents \/ AnyReady \/ ReadClock \/ Wait \/ Wake \/ WaitExpires
  <2>1. UNCHANGED vars
    BY <1>3 DEF Top, RecordGeneration, BusProcess, BusReturns, AfterWork, AnyEvents,
           AnyReady, ReadClock, Wait, Wake, WaitExpires, frame
  <2> QED  BY <2>1
<1> QED
  BY <1>1, <1>2, <1>3 DEF Loop

\* Every step of the composition is one of the task manager, or owes a notify().
LEMMA StepKinds ==
    ASSUME [LoopNext]_allVars
    PROVE  [Next]_vars \/ Owing
<1>1. CASE Increment
  BY <1>1 DEF Increment, Next, Environment
<1>2. CASE PostEvent \/ RequestStop
  BY <1>2 DEF PostEvent, RequestStop, Owing
<1>3. CASE NotifyAll \/ ResetStop \/ Run \/ BusDispatch \/ BusThrows \/ UNCHANGED allVars
  <2>1. UNCHANGED vars
    BY <1>3 DEF NotifyAll, ResetStop, Run, BusDispatch, BusThrows, frame, allVars
  <2> QED  BY <2>1
<1>4. CASE TaskSteps \/ Pass
  BY <1>4, TaskStepsManaged, PassIsManaged
<1>5. CASE Loop
  BY <1>5, LoopIsManaged
<1> QED
  BY <1>1, <1>2, <1>3, <1>4, <1>5 DEF LoopNext

\* No invariant of the task manager is about the notify() calls that are owed.
LEMMA OwingKeeps ==
    ASSUME ManagerInv, Owing
    PROVE  ManagerInv'
<1> USE DEF ManagerInv, Inv, Owing, taskVars, queueVars, consumerVars, cancelVars, envVars
<1>1. owed' \in 0 .. Producers
  BY BoundsAssumption DEF TypeOK
<1>2. TypeOK'
  BY <1>1 DEF TypeOK
<1>3. OneHome'
  BY DEF OneHome, ReadyHome, DelayedHome, BatchHome, Housed
<1>4. IndexExact' /\ NeverEarly' /\ Links'
  BY DEF IndexExact, NeverEarly, Links
<1>5. HeapSorted'
  BY DEF HeapSorted
<1>6. CountInv'
  BY DEF CountInv, CountsExact, CancelsSeries, Pending, Periodic
<1> QED
  BY <1>2, <1>3, <1>4, <1>5, <1>6

\* The task manager keeps its invariants inside the loop.
LEMMA ManagerStep == ManagerInv /\ [LoopNext]_allVars => ManagerInv'
<1> SUFFICES ASSUME ManagerInv, [LoopNext]_allVars PROVE ManagerInv'
  OBVIOUS
<1>1. CASE [Next]_vars
  BY <1>1, TypeStep, HomeStep, IndexStep, LinksStep, HeapStep, CountStep, SeriesStep
     DEF ManagerInv, Inv, CountInv
<1>2. CASE Owing
  BY <1>2, OwingKeeps
<1> QED
  BY <1>1, <1>2, StepKinds

\* It starts with them.
LEMMA ManagerStarts == Init => ManagerInv
<1>1. Init => HeapSorted
  BY DEF Init, HeapSorted
<1> QED
  BY <1>1, InvStarts, CountStarts DEF ManagerInv

--------------------------------------------------------------------------------
(* The loop's variables keep their types.                                  *)

\* Where the consumer is in process() is known to the loop: only a pass moves it.
LEMMA PcStep ==
    ASSUME LoopTypeOK, ManagerInv, TaskSteps
    PROVE  pc' # "idle" <=> pc # "idle"
<1>1. CASE Submit
  BY <1>1, SubmitCases DEF EnqueueReady, EnqueueNew, consumerVars
<1>2. CASE Cancel
  BY <1>2 DEF Cancel, CancelLoad, CancelCommit, CancelLost, consumerVars
<1>3. CASE Tick \/ NextDeadline \/ (\E h \in Handlers : SetExceptionHandler(h))
           \/ Close \/ ClearPending
  BY <1>3 DEF Tick, NextDeadline, SetExceptionHandler, Close, ClearPending, consumerVars
<1>4. CASE Finish
  BY <1>4 DEF Finish, FinishCancelled, FinishClosed, FinishOneShot, FinishRescheduled,
         FinishPeriodic, InCallback, Forget
<1>5. CASE Callback
  BY <1>5 DEF Callback, ContextCancel, ContextReschedule, CallbackThrows, InCallback,
         Forget, consumerVars
<1> QED
  BY <1>1, <1>2, <1>3, <1>4, <1>5 DEF TaskSteps

\* A pass goes on until it returns or throws.
LEMMA PassPc ==
    ASSUME PassSteps
    PROVE  pc # "idle" /\ pc' # "idle"
<1>1. CASE PruneTop \/ PromoteTop \/ (\E p \in Priority : TakeOne(p) \/ TakeSkip(p))
           \/ SkipTask \/ RestoreOne \/ RestoreSkip
  BY <1>1 DEF PruneTop, PromoteTop, TakeOne, TakeSkip, TakesFrom, SkipTask, RestoreOne,
         RestoreSkip, consumerVars
<1>2. CASE PromoteDone \/ TakeDone \/ CountStarted \/ ExceptionHandled \/ ExceptionEscapes
  BY <1>2 DEF PromoteDone, TakeDone, CountStarted, ExceptionHandled, ExceptionEscapes
<1> QED
  BY <1>1, <1>2 DEF PassSteps

\* The earliest deadline is that of a live entry, and no live entry has an
\* earlier one.
LEMMA EarliestIs ==
    ASSUME ManagerInv
    PROVE  /\ EarliestDue \in Nat \cup {NoWait}
           /\ \A id \in Ids : state[id] = "queued_delayed" =>
                 EarliestDue # NoWait /\ EarliestDue <= entry[id].due
<1> USE DEF ManagerInv, Inv
<1>1. /\ delayed \in Seq(Ids) /\ \A id \in Ids : entry[id].due \in Nat
  BY DEF TypeOK, Entry
<1>2. /\ Len(delayed) \in Nat /\ DOMAIN delayed = 1 .. Len(delayed)
      /\ \A i \in DOMAIN delayed : delayed[i] \in Ids
  BY <1>1, LenProperties, ElementOfSeq
<1> DEFINE live == {i \in DOMAIN delayed : ~Dead(delayed[i])}
<1>3. CASE live = {}
  <2>1. EarliestDue = NoWait
    BY <1>3 DEF EarliestDue
  <2>2. ASSUME NEW id \in Ids, state[id] = "queued_delayed" PROVE FALSE
    <3>1. PICK i \in DOMAIN delayed : delayed[i] = id
      BY <2>2 DEF OneHome, Housed, Elems
    <3>2. ~Dead(delayed[i])
      BY <2>2, <3>1 DEF Dead
    <3> QED  BY <1>3, <3>1, <3>2
  <2> QED  BY <2>1, <2>2
<1>4. CASE live # {}
  <2>1. live \in SUBSET Nat
    BY <1>2
  <2>2. PICK k \in live : \A i \in live : k <= i
    BY <2>1, <1>4, LeastNatural
  <2>3. /\ k \in DOMAIN delayed /\ ~Dead(delayed[k])
        /\ \A j \in 1 .. k - 1 : Dead(delayed[j])
    <3>1. ASSUME NEW j \in 1 .. k - 1, ~Dead(delayed[j]) PROVE FALSE
      <4>1. j \in DOMAIN delayed /\ j < k
        BY <1>2, <2>2
      <4>2. j \in live
        BY <3>1, <4>1
      <4> QED  BY <1>2, <2>2, <4>1, <4>2
    <3> QED  BY <2>2, <3>1
  <2>4. /\ LiveTop \in DOMAIN delayed /\ ~Dead(delayed[LiveTop])
        /\ \A j \in 1 .. LiveTop - 1 : Dead(delayed[j])
    BY <2>3 DEF LiveTop
  <2>5. EarliestDue = entry[delayed[LiveTop]].due
    BY <2>3 DEF EarliestDue
  <2>6. ASSUME NEW id \in Ids, state[id] = "queued_delayed"
        PROVE  EarliestDue <= entry[id].due
    <3>1. PICK i \in DOMAIN delayed : delayed[i] = id
      BY <2>6 DEF OneHome, Housed, Elems
    <3>2. ~Dead(delayed[i])
      BY <2>6, <3>1 DEF Dead
    <3>3. LiveTop <= i
      BY <1>2, <2>4, <3>1, <3>2
    <3>4. entry[delayed[LiveTop]].due <= entry[delayed[i]].due
      BY <2>4, <3>1, <3>3 DEF HeapSorted
    <3> QED  BY <2>5, <3>1, <3>4
  <2>7. EarliestDue \in Nat
    BY <1>1, <1>2, <2>4, <2>5
  <2> QED  BY <2>6, <2>7 DEF NoWait
<1> QED
  BY <1>3, <1>4

\* Every step keeps the types.
LEMMA LoopTypeStep == LoopTypeOK /\ ManagerInv /\ [LoopNext]_allVars => LoopTypeOK'
<1> SUFFICES ASSUME LoopTypeOK, ManagerInv, [LoopNext]_allVars PROVE LoopTypeOK'
  OBVIOUS
<1> USE DEF LoopTypeOK, Places, NoWait, Go, notifierVars, timerVars, busVars, frame
<1>m. /\ now \in Nat /\ MaxTime \in Nat /\ MaxEvents \in Nat
      /\ EarliestDue \in Nat \cup {NoWait}
  BY EarliestIs, BoundsAssumption, LoopAssumption DEF ManagerInv, Inv, TypeOK
<1>1. CASE UNCHANGED allVars
  BY <1>1 DEF allVars, loopVars, vars, consumerVars
<1>2. CASE Increment \/ NotifyAll
  <2>1. UNCHANGED <<pc, at, stop, worked, clock, wait, wakeAt, events, captured>>
    BY <1>2 DEF Increment, NotifyAll, Notify, consumerVars, vars
  <2>2. ringing' \in Nat
    BY <1>2 DEF Increment, NotifyAll
  <2>3. signalled' \in BOOLEAN /\ asleep' \in BOOLEAN
    BY <1>2, Zenon DEF Increment, NotifyAll
  <2> QED  BY <2>1, <2>2, <2>3
<1>3. CASE PostEvent
  <2>1. UNCHANGED <<pc, at, stop, signalled, ringing, asleep, worked, clock, wait, wakeAt,
                    captured>>
    BY <1>3 DEF PostEvent, consumerVars
  <2>2. events' \in Nat /\ events' + captured <= MaxEvents
    BY <1>3, <1>m DEF PostEvent
  <2> QED  BY <2>1, <2>2
<1>4. CASE RequestStop \/ ResetStop
  BY <1>4 DEF RequestStop, ResetStop, consumerVars, vars
<1>5. CASE TaskSteps /\ UNCHANGED loopVars
  BY <1>5, PcStep DEF loopVars
<1>6. CASE PassSteps /\ UNCHANGED loopVars
  BY <1>6, PassPc DEF loopVars
<1>7. CASE TaskStarts
  BY <1>7 DEF TaskStarts, StartTask
<1>8. CASE TasksReturn \/ TasksThrow
  BY <1>8 DEF TasksReturn, TasksThrow, ProcessReturn, Rethrow, ForgetTimers
<1>9. CASE Run \/ Top \/ RecordGeneration \/ BusReturns
  BY <1>9 DEF Run, Top, RecordGeneration, BusReturns, vars, consumerVars
<1>10. CASE BusProcess \/ BusDispatch \/ BusThrows
  <2>1. /\ UNCHANGED <<pc, stop, signalled, ringing, asleep, clock, wait, wakeAt>>
        /\ at \in {"bus", "dispatching"} /\ at' \in {"dispatching", "out"}
    BY <1>10 DEF BusProcess, BusDispatch, BusThrows, vars, consumerVars
  <2>2. events' \in Nat /\ captured' \in Nat /\ events' + captured' <= MaxEvents
    <3>1. CASE BusProcess
      BY <3>1, <1>m DEF BusProcess
    <3>2. CASE BusDispatch
      BY <3>2, <1>m DEF BusDispatch
    <3>3. CASE BusThrows
      BY <3>3, <1>m DEF BusThrows
    <3> QED  BY <1>10, <3>1, <3>2, <3>3
  <2>3. worked' \in BOOLEAN
    BY <1>10 DEF BusProcess, BusDispatch, BusThrows
  <2> QED  BY <2>1, <2>2, <2>3
<1>11. CASE TasksProcess
  BY <1>11 DEF TasksProcess, ProcessBegin
<1>12. CASE AfterWork \/ AnyEvents \/ AnyReady \/ ReadClock
  BY <1>12, <1>m DEF AfterWork, AnyEvents, AnyReady, ReadClock, vars, consumerVars
<1>13. CASE ReadDeadline
  <2>1. pc' = pc
    BY <1>13 DEF ReadDeadline, NextDeadline, vars, consumerVars
  <2> QED  BY <1>13, <1>m, <2>1 DEF ReadDeadline, ForgetTimers
<1>14. CASE Wait
  <2>1. wakeAt' \in Nat \cup {NoWait}
    BY <1>14, <1>m DEF Wait
  <2> QED  BY <1>14, <2>1 DEF Wait, Sleeps, vars, consumerVars
<1>15. CASE Wake \/ WaitExpires
  <2>1. /\ UNCHANGED <<pc, stop, signalled, ringing, worked, events, captured>>
        /\ at = "waiting" /\ at' \in {"waiting", "top"}
    BY <1>15 DEF Wake, WaitExpires, vars, consumerVars
  <2>2. clock' \in Nat /\ wait' \in Nat \cup {NoWait} /\ wakeAt' \in Nat \cup {NoWait}
    BY <1>15 DEF Wake, WaitExpires, ForgetTimers
  <2>3. asleep' \in BOOLEAN
    BY <1>15, Zenon DEF Wake, WaitExpires
  <2> QED  BY <2>1, <2>2, <2>3
<1> QED
  BY <1>1, <1>2, <1>3, <1>4, <1>5, <1>6, <1>7, <1>8, <1>9, <1>10, <1>11, <1>12,
     <1>13, <1>14, <1>15 DEF LoopNext, Pass, Loop

--------------------------------------------------------------------------------
(* What the loop has looked at stays as it was, or a notify() tells of it. *)

\* The generation has moved since it was recorded, or is about to.
Told == signalled \/ owed > 0

\* The bus has been seen to be empty, and so on down to the wait.
AfterBus == {"anyReady", "clock", "deadline", "wait", "waiting"}

StopTold == at \in AfterBus \cup {"anyEvents"} /\ stop => Told
EventsTold == at \in AfterBus /\ events > 0 => Told
ReadyTold ==
    at \in AfterBus \ {"anyReady"} =>
        \A id \in Ids : state[id] = "queued_ready" => Told

\* The wait ends no later than the task is due.
Timed(id) == wait # NoWait /\ clock + wait <= entry[id].due

DelayTold ==
    at \in {"wait", "waiting"} =>
        \A id \in Ids : state[id] = "queued_delayed" => Told \/ Timed(id)

\* A sleeper whose generation has moved has a notify_all() coming.
SleepInv == asleep => at = "waiting" /\ (signalled => ringing > 0)

\* The inductive invariant of the blocking wait, relative to ManagerInv.
WatchInv == StopTold /\ EventsTold /\ ReadyTold /\ DelayTold /\ SleepInv

\* The loop is not between its looks at the sources and its wait.
LEMMA Elsewhere ==
    ASSUME WatchInv, at' \notin AfterBus \cup {"anyEvents"}, asleep' => asleep,
           at # "waiting" \/ ~asleep'
    PROVE  WatchInv'
BY DEF WatchInv, StopTold, EventsTold, ReadyTold, DelayTold, SleepInv, AfterBus

\* A step that owes a notify().
LEMMA NewlyTold ==
    ASSUME WatchInv, owed' > 0, UNCHANGED <<at, notifierVars>>
    PROVE  WatchInv'
<1>1. Told'
  BY DEF Told
<1>2. SleepInv'
  BY DEF WatchInv, SleepInv, notifierVars
<1> QED
  BY <1>1, <1>2 DEF WatchInv, StopTold, EventsTold, ReadyTold, DelayTold

\* A step after which a task waits only if it did before.
QuietTasks ==
    \A id \in Ids : state'[id] \in {"queued_ready", "queued_delayed"} =>
        state'[id] = state[id] /\ entry'[id] = entry[id]

\* Steps that bring no work and keep what has been told.
LEMMA QuietKeeps ==
    ASSUME WatchInv, QuietTasks, UNCHANGED <<owed, loopVars>>
    PROVE  WatchInv'
<1>1. UNCHANGED <<owed, at, stop, signalled, ringing, asleep, clock, wait, events>>
  BY DEF loopVars, notifierVars, timerVars, busVars
<1>2. Told' <=> Told
  BY <1>1 DEF Told
<1>3. StopTold' /\ EventsTold' /\ SleepInv'
  BY <1>1, <1>2 DEF WatchInv, StopTold, EventsTold, SleepInv
<1>4. ReadyTold'
  BY <1>1, <1>2 DEF WatchInv, ReadyTold, QuietTasks
<1>5. DelayTold'
  BY <1>1, <1>2 DEF WatchInv, DelayTold, QuietTasks, Timed
<1> QED
  BY <1>3, <1>4, <1>5 DEF WatchInv

\* While the loop is between its looks and its wait, other threads submit, which
\* owes a notify(), or bring no work.
LEMMA OthersAreQuiet ==
    ASSUME LoopTypeOK, ManagerInv, TaskSteps, at \in AfterBus \cup {"anyEvents"}
    PROVE  owed' > 0 \/ (owed' = owed /\ QuietTasks)
<1> USE DEF ManagerInv, Inv
<1>t. /\ owed \in 0 .. Producers /\ cancelling \in Ids \cup {0}
      /\ state \in [Ids -> State] /\ pc = "idle"
      /\ at \notin {"out", "dispatching"}
  BY DEF LoopTypeOK, TypeOK, AfterBus
<1>1. CASE Submit
  BY <1>1, <1>t, SubmitCases DEF EnqueueReady, EnqueueNew
<1>2. CASE CancelCommit
  BY <1>2, <1>t DEF CancelCommit, QuietTasks
<1>3. CASE (\E id \in Ids : CancelLoad(id)) \/ CancelLost
  BY <1>3 DEF CancelLoad, CancelLost, QuietTasks, taskVars
<1>4. CASE Tick \/ NextDeadline \/ (\E h \in Handlers : SetExceptionHandler(h))
  BY <1>4 DEF Tick, NextDeadline, SetExceptionHandler, QuietTasks, taskVars
<1>5. ~Finish /\ ~Callback
  BY <1>t DEF Finish, FinishCancelled, FinishClosed, FinishOneShot, FinishRescheduled,
         FinishPeriodic, Callback, ContextCancel, ContextReschedule, CallbackThrows,
         InCallback
<1> QED
  BY <1>1, <1>2, <1>3, <1>4, <1>5, <1>t DEF TaskSteps, Cancel

\* notify() and notify_all(): the generation moves before the sleeper is woken.
LEMMA NotifyWatches ==
    ASSUME LoopTypeOK, WatchInv, Increment \/ NotifyAll
    PROVE  WatchInv'
<1>1. CASE Increment
  <2>1. signalled' /\ ringing' > 0 /\ at' = at /\ asleep' = asleep
    BY <1>1 DEF Increment, LoopTypeOK
  <2>2. Told'
    BY <2>1 DEF Told
  <2>3. SleepInv'
    BY <2>1 DEF WatchInv, SleepInv
  <2> QED  BY <2>2, <2>3 DEF WatchInv, StopTold, EventsTold, ReadyTold, DelayTold
<1>2. CASE NotifyAll
  <2>1. /\ UNCHANGED <<owed, state, entry, at, stop, signalled, clock, wait, events>>
        /\ ~asleep'
    BY <1>2 DEF NotifyAll, vars, taskVars, timerVars, busVars
  <2>2. Told' <=> Told
    BY <2>1 DEF Told
  <2>3. StopTold' /\ EventsTold' /\ ReadyTold' /\ DelayTold' /\ SleepInv'
    BY <2>1, <2>2 DEF WatchInv, StopTold, EventsTold, ReadyTold, DelayTold, SleepInv,
           Timed
  <2> QED  BY <2>3 DEF WatchInv
<1> QED
  BY <1>1, <1>2

\* The looks at the stop flag, the bus and the ready tasks, in this order.
LEMMA LookWatches ==
    ASSUME LoopTypeOK, ManagerInv, WatchInv,
           AfterWork \/ AnyEvents \/ AnyReady \/ ReadClock
    PROVE  WatchInv'
<1> USE DEF LoopTypeOK, Go
<1>u. /\ UNCHANGED <<owed, state, entry, stop, signalled, asleep, events, wait>>
      /\ at \in {"idle", "anyEvents", "anyReady", "clock"}
  BY DEF AfterWork, AnyEvents, AnyReady, ReadClock, frame, vars, taskVars, notifierVars,
         timerVars, busVars
<1>t. Told' <=> Told
  BY <1>u DEF Told
<1>s. ~asleep
  BY <1>u DEF WatchInv, SleepInv
<1>e. SleepInv'
  BY <1>u, <1>s DEF SleepInv
<1>r. readyCount = 0 => \A id \in Ids : state[id] # "queued_ready"
  <2>1. IsFiniteSet(ReadyIds)
    BY IdsFinite, FS_Subset DEF ReadyIds
  <2>2. readyCount = Cardinality(ReadyIds)
    BY CountsAre DEF ManagerInv, CountInv
  <2>3. readyCount = 0 => ReadyIds = {}
    BY <2>1, <2>2, FS_EmptySet
  <2> QED  BY <2>3 DEF ReadyIds
<1>1. CASE at' = "top" \/ at' = "out"
  BY <1>1, <1>u, <1>s, Elsewhere DEF AfterBus
<1>2. CASE AfterWork /\ at' = "anyEvents"
  <2>1. ~stop
    BY <1>2 DEF AfterWork
  <2> QED  BY <1>2, <1>u, <1>e, <2>1
           DEF WatchInv, StopTold, EventsTold, ReadyTold, DelayTold, AfterBus
<1>3. CASE AnyEvents /\ at' = "anyReady"
  <2>1. at = "anyEvents" /\ ~(events > 0)
    BY <1>3 DEF AnyEvents
  <2>2. StopTold'
    BY <1>3, <1>u, <1>t, <2>1 DEF WatchInv, StopTold
  <2> QED  BY <1>3, <1>u, <1>e, <2>1, <2>2
           DEF WatchInv, EventsTold, ReadyTold, DelayTold, AfterBus
<1>4. CASE (AnyReady /\ at' = "clock") \/ (ReadClock /\ at' = "deadline")
  <2>1. at \in {"anyReady", "clock"} /\ readyCount = 0 /\ at' \in {"clock", "deadline"}
    BY <1>4 DEF AnyReady, ReadClock
  <2>2. StopTold' /\ EventsTold'
    BY <1>u, <1>t, <2>1 DEF WatchInv, StopTold, EventsTold, AfterBus
  <2>3. ReadyTold'
    BY <1>u, <1>r, <2>1 DEF ReadyTold
  <2> QED  BY <1>e, <2>1, <2>2, <2>3 DEF WatchInv, DelayTold
<1> QED
  <2>1. CASE AfterWork
    <3>1. at' \in {"top", "out", "anyEvents"}
      BY <2>1 DEF AfterWork
    <3> QED  BY <2>1, <3>1, <1>1, <1>2
  <2>2. CASE AnyEvents
    <3>1. at' \in {"top", "anyReady"}
      BY <2>2 DEF AnyEvents
    <3> QED  BY <2>2, <3>1, <1>1, <1>3
  <2>3. CASE AnyReady
    <3>1. at' \in {"top", "clock"}
      BY <2>3 DEF AnyReady
    <3> QED  BY <2>3, <3>1, <1>1, <1>4
  <2>4. CASE ReadClock
    <3>1. at' \in {"top", "deadline"}
      BY <2>4 DEF ReadClock
    <3> QED  BY <2>4, <3>1, <1>1, <1>4
  <2> QED  BY <2>1, <2>2, <2>3, <2>4

\* The deadline is read, and the wait is no longer than until then.
LEMMA DeadlineWatches ==
    ASSUME LoopTypeOK, ManagerInv, WatchInv, ReadDeadline
    PROVE  WatchInv'
<1> USE DEF LoopTypeOK, Go
<1>u. /\ UNCHANGED <<owed, state, entry, stop, signalled, asleep, events>>
      /\ at = "deadline" /\ at' \in {"top", "wait"}
  BY DEF ReadDeadline, NextDeadline, vars, taskVars, notifierVars, busVars
<1>t. Told' <=> Told
  BY <1>u DEF Told
<1>s. ~asleep
  BY <1>u DEF WatchInv, SleepInv
<1>1. CASE at' = "top"
  BY <1>1, <1>u, <1>s, Elsewhere DEF AfterBus
<1>2. CASE at' = "wait"
  <2>1. StopTold' /\ EventsTold' /\ ReadyTold' /\ SleepInv'
    BY <1>2, <1>u, <1>t, <1>s
       DEF WatchInv, StopTold, EventsTold, ReadyTold, SleepInv, AfterBus
  <2>2. ASSUME NEW id \in Ids, state[id] = "queued_delayed"
        PROVE  Timed(id)'
    <3>1. /\ EarliestDue \in Nat \cup {NoWait} /\ EarliestDue # NoWait
          /\ EarliestDue <= entry[id].due
      BY <2>2, EarliestIs
    <3>2. ~(EarliestDue <= clock) /\ wait' = EarliestDue - clock /\ clock' = clock
      BY <1>2, <3>1 DEF ReadDeadline
    <3>3. EarliestDue \in Nat
      BY <3>1
    <3>4. entry[id].due \in Nat
      BY DEF ManagerInv, Inv, TypeOK, Entry
    <3> HIDE DEF LoopTypeOK
    <3>5. clock \in Nat
      BY DEF LoopTypeOK
    <3>6. wait' # NoWait /\ clock' + wait' <= entry[id].due
      BY <3>1, <3>2, <3>3, <3>4, <3>5 DEF NoWait
    <3> QED  BY <1>u, <3>6 DEF Timed
  <2>3. DelayTold'
    BY <1>u, <2>2 DEF DelayTold
  <2> QED  BY <2>1, <2>3 DEF WatchInv
<1> QED
  BY <1>1, <1>2, <1>u

\* The thread goes to sleep, wakes and goes back to sleep only while the
\* generation is the recorded one.
LEMMA WaitWatches ==
    ASSUME LoopTypeOK, WatchInv, Wait \/ Wake \/ WaitExpires
    PROVE  WatchInv'
<1> USE DEF LoopTypeOK, Go
<1>u. /\ UNCHANGED <<owed, state, entry, stop, signalled, events>>
      /\ at \in {"wait", "waiting"} /\ at' \in {"top", "waiting"}
  BY DEF Wait, Wake, WaitExpires, vars, taskVars, notifierVars, busVars
<1>t. Told' <=> Told
  BY <1>u DEF Told
<1>1. CASE at' = "top"
  <2>1. ~asleep'
    BY <1>1 DEF Wait, Wake, WaitExpires
  <2> QED  BY <1>1, <2>1, Elsewhere DEF AfterBus
<1>2. CASE at' = "waiting"
  <2>1. clock' = clock /\ wait' = wait /\ (asleep' => ~signalled)
    BY <1>2 DEF Wait, Wake, WaitExpires, Sleeps, timerVars
  <2>2. StopTold' /\ EventsTold' /\ ReadyTold' /\ SleepInv'
    BY <1>2, <1>u, <1>t, <2>1
       DEF WatchInv, StopTold, EventsTold, ReadyTold, SleepInv, AfterBus
  <2>3. DelayTold'
    BY <1>u, <1>t, <2>1 DEF WatchInv, DelayTold, Timed
  <2> QED  BY <2>2, <2>3 DEF WatchInv
<1> QED
  BY <1>1, <1>2, <1>u

\* Every step keeps the watch.
LEMMA WatchStep == LoopTypeOK /\ ManagerInv /\ WatchInv /\ [LoopNext]_allVars => WatchInv'
<1> SUFFICES ASSUME LoopTypeOK, ManagerInv, WatchInv, [LoopNext]_allVars PROVE WatchInv'
  OBVIOUS
<1>o. owed \in Nat
  BY DEF ManagerInv, Inv, TypeOK
<1>s. asleep => at = "waiting"
  BY DEF WatchInv, SleepInv
<1>1. CASE UNCHANGED allVars
  <2>1. QuietTasks /\ UNCHANGED <<owed, loopVars>>
    BY <1>1 DEF allVars, vars, taskVars, QuietTasks
  <2> QED  BY <2>1, QuietKeeps
<1>2. CASE Increment \/ NotifyAll
  BY <1>2, NotifyWatches
<1>3. CASE PostEvent \/ RequestStop
  BY <1>3, <1>o, NewlyTold DEF PostEvent, RequestStop
<1>4. CASE TaskSteps /\ UNCHANGED loopVars
  <2>1. CASE at \in AfterBus \cup {"anyEvents"}
    <3>1. CASE owed' > 0
      BY <1>4, <3>1, NewlyTold DEF loopVars
    <3>2. CASE owed' = owed /\ QuietTasks
      BY <1>4, <3>2, QuietKeeps
    <3> QED  BY <1>4, <2>1, <3>1, <3>2, OthersAreQuiet
  <2>2. CASE at \notin AfterBus \cup {"anyEvents"}
    BY <1>4, <2>2, Elsewhere DEF loopVars, notifierVars, AfterBus
  <2> QED  BY <2>1, <2>2
<1>5. CASE Pass
  <2>1. UNCHANGED asleep /\ at # "waiting" /\ at' \in {"processing", "idle", "out"}
    <3>1. CASE PassSteps /\ UNCHANGED loopVars
      BY <3>1, PassPc DEF loopVars, notifierVars, LoopTypeOK
    <3>2. CASE TaskStarts
      BY <3>2 DEF TaskStarts, StartTask, notifierVars, LoopTypeOK
    <3>3. CASE TasksReturn \/ TasksThrow
      BY <3>3 DEF TasksReturn, TasksThrow, ProcessReturn, Rethrow, Go, notifierVars,
             LoopTypeOK
    <3> QED  BY <1>5, <3>1, <3>2, <3>3 DEF Pass
  <2> QED  BY <2>1, Elsewhere DEF AfterBus
<1>6. CASE \/ ResetStop \/ Run \/ BusDispatch \/ BusThrows
           \/ Top \/ RecordGeneration \/ BusProcess \/ BusReturns \/ TasksProcess
  <2>1. /\ UNCHANGED asleep /\ at # "waiting"
        /\ at' \in {"out", "top", "generation", "bus", "dispatching", "tasks", "processing"}
    BY <1>6 DEF ResetStop, Run, BusDispatch, BusThrows, Top, RecordGeneration, BusProcess,
           BusReturns, TasksProcess, Go, frame, notifierVars
  <2> QED  BY <2>1, Elsewhere DEF AfterBus
<1>7. CASE AfterWork \/ AnyEvents \/ AnyReady \/ ReadClock
  BY <1>7, LookWatches
<1>8. CASE ReadDeadline
  BY <1>8, DeadlineWatches
<1>9. CASE Wait \/ Wake \/ WaitExpires
  BY <1>9, WaitWatches
<1> QED
  BY <1>1, <1>2, <1>3, <1>4, <1>5, <1>6, <1>7, <1>8, <1>9 DEF LoopNext, Loop

--------------------------------------------------------------------------------

\* The inductive invariant of the composition.
LoopInv == LoopTypeOK /\ ManagerInv /\ WatchInv

\* It holds in every reachable state.
LEMMA LoopInvariance == LoopSpec => []LoopInv
<1>1. LoopInit => LoopInv
  <2> SUFFICES ASSUME LoopInit PROVE LoopInv
    OBVIOUS
  <2>1. ManagerInv
    BY ManagerStarts DEF LoopInit
  <2>2. LoopTypeOK
    <3>1. /\ stop \in BOOLEAN /\ signalled \in BOOLEAN /\ asleep \in BOOLEAN
          /\ worked \in BOOLEAN
      BY DEF LoopInit
    <3>2. /\ ringing \in Nat /\ clock \in Nat /\ wait = NoWait /\ wakeAt = NoWait
          /\ events \in Nat /\ captured \in Nat /\ events + captured <= MaxEvents
      BY LoopAssumption DEF LoopInit
    <3>3. at = "out" /\ pc = "idle"
      BY DEF LoopInit, Init
    <3> QED  BY <3>1, <3>2, <3>3 DEF LoopTypeOK, Places
  <2>3. WatchInv
    BY DEF LoopInit, WatchInv, StopTold, EventsTold, ReadyTold, DelayTold, SleepInv,
           AfterBus
  <2> QED  BY <2>1, <2>2, <2>3 DEF LoopInv
<1>2. LoopInv /\ [LoopNext]_allVars => LoopInv'
  BY LoopTypeStep, ManagerStep, WatchStep DEF LoopInv
<1> QED
  BY <1>1, <1>2, PTL DEF LoopSpec

\* Every variable of the loop keeps its type, and process() runs exactly while
\* the loop waits for it.
THEOREM LoopTypes == LoopSpec => []LoopTypeOK
<1>1. LoopInv => LoopTypeOK
  BY DEF LoopInv
<1> QED
  BY <1>1, LoopInvariance, PTL

\* No wake-up is lost: a thread that sleeps in run_until() with no notify() still
\* to come has no event, no ready task and no stop request to see, and its wait
\* ends by the earliest deadline, however the posts and the stop fell between
\* its looks at the sources.
THEOREM NoWakeupLost == LoopSpec => []NoLostWakeup
<1>1. LoopInv => NoLostWakeup
  <2> SUFFICES ASSUME LoopInv, asleep, owed = 0, ringing = 0
               PROVE  /\ events = 0 /\ ~stop
                      /\ \A id \in Ids :
                            /\ state[id] # "queued_ready"
                            /\ state[id] = "queued_delayed" => Timed(id)
    BY DEF NoLostWakeup, Timed
  <2> USE DEF LoopInv, WatchInv
  <2>1. at = "waiting" /\ ~Told
    BY DEF SleepInv, Told
  <2>2. events \in Nat /\ ~(events > 0) /\ ~stop
    BY <2>1 DEF StopTold, EventsTold, AfterBus, LoopTypeOK
  <2>3. \A id \in Ids : /\ state[id] # "queued_ready"
                        /\ state[id] = "queued_delayed" => Timed(id)
    BY <2>1 DEF ReadyTold, DelayTold, AfterBus
  <2> QED  BY <2>2, <2>3
<1> QED
  BY <1>1, LoopInvariance, PTL

--------------------------------------------------------------------------------
(* The task manager keeps its promises inside the loop. *)

\* The contract says nothing of the notify() calls that are owed.
LEMMA OwingIsSilent ==
    ASSUME Owing
    PROVE  UNCHANGED Contract!contractVars
<1>1. UNCHANGED <<state, entry, ready, batch, cur, closed>>
  BY DEF Owing, taskVars, queueVars, consumerVars, envVars
<1>2. LineMap' = LineMap /\ AheadMap' = AheadMap
  BY <1>1, NobodyMoves
<1> QED
  BY <1>1, <1>2, LinesStay

\* A task manager driven by run(), whose passes are mixed with those of the bus,
\* with waits, stops and posts, still implements TaskContract: the loop adds no
\* step that its users could tell from one of the manager's own.
THEOREM LoopKeepsContract == LoopSpec => KeepsContract
<1>1. LoopInit => Contract!ContractInit
  BY ContractStarts DEF LoopInit
<1>2. ASSUME LoopInv, LoopInv', [LoopNext]_allVars
      PROVE  [Contract!ContractNext]_(Contract!contractVars)
  <2>1. Inv /\ Inv'
    BY <1>2 DEF LoopInv, ManagerInv
  <2>2. CASE [Next]_vars
    BY <2>1, <2>2, ContractStep
  <2>3. CASE Owing
    BY <2>3, OwingIsSilent
  <2> QED  BY <1>2, <2>2, <2>3, StepKinds
<1> QED
  BY <1>1, <1>2, LoopInvariance, PTL DEF LoopSpec, KeepsContract, Contract!ContractSpec
================================================================================
