----------------------------- MODULE EventBusProofs ------------------------------
(***************************************************************************)
(* Theorems about EventBus for every value of its constants.               *)
(***************************************************************************)
EXTENDS EventBus, ProofLemmas, FiniteSetTheorems

--------------------------------------------------------------------------------
(* What a step does to the calls of a thread. *)

Record == [owner : Owners, guard : {"none", "owner", "null"}]
Stacks == [Threads -> Seq(Frame)]

\* Thread t begins the call f, its innermost call becomes f, or its innermost
\* call ends.
Pushes(t, f) == stack' = [stack EXCEPT ![t] = <<f>> \o stack[t]]
Becomes(t, f) ==
    stack[t] # <<>> /\ stack' = [stack EXCEPT ![t] = [stack[t] EXCEPT ![1] = f]]
Pops(t) == stack[t] # <<>> /\ stack' = [stack EXCEPT ![t] = Tail(stack[t])]

\* A call that begins is the innermost, above the ones that were there.
LEMMA PushFrames ==
    ASSUME stack \in Stacks, NEW t \in Threads, NEW f \in Frame, Pushes(t, f)
    PROVE  /\ stack' \in Stacks /\ \A u \in Threads \ {t} : stack'[u] = stack[u]
           /\ stack'[t][1] = f /\ Len(stack'[t]) = Len(stack[t]) + 1
           /\ \A j \in DOMAIN stack'[t] :
                 /\ j \in Nat \ {0}
                 /\ j # 1 => j - 1 \in DOMAIN stack[t] /\ stack'[t][j] = stack[t][j - 1]
           /\ \A i \in DOMAIN stack[t] :
                 i + 1 \in DOMAIN stack'[t] /\ stack'[t][i + 1] = stack[t][i]
<1>1. stack'[t] = <<f>> \o stack[t] /\ stack[t] \in Seq(Frame)
  BY DEF Pushes, Stacks
<1>2. stack'[t] \in Seq(Frame)
  BY <1>1, PushSeq
<1>3. stack' \in Stacks /\ \A u \in Threads \ {t} : stack'[u] = stack[u]
  BY <1>2 DEF Pushes, Stacks
<1> QED
  BY <1>1, <1>3, PushSeq

\* A call that goes on is still the innermost.
LEMMA BecomeFrames ==
    ASSUME stack \in Stacks, NEW t \in Threads, NEW f \in Frame, Becomes(t, f)
    PROVE  /\ stack' \in Stacks /\ \A u \in Threads \ {t} : stack'[u] = stack[u]
           /\ stack'[t][1] = f /\ Len(stack'[t]) = Len(stack[t])
           /\ 1 \in DOMAIN stack[t] /\ DOMAIN stack'[t] = DOMAIN stack[t]
           /\ \A i \in DOMAIN stack[t] \ {1} : stack'[t][i] = stack[t][i]
<1>1. /\ stack'[t] = [stack[t] EXCEPT ![1] = f]
      /\ stack[t] \in Seq(Frame) /\ stack[t] # <<>>
  BY DEF Becomes, Stacks
<1>2. stack'[t] \in Seq(Frame)
  BY <1>1, ReplaceTop
<1>3. stack' \in Stacks /\ \A u \in Threads \ {t} : stack'[u] = stack[u]
  BY <1>2 DEF Becomes, Stacks
<1> QED
  BY <1>1, <1>3, ReplaceTop

\* A call that ends leaves the calls below it.
LEMMA PopFrames ==
    ASSUME stack \in Stacks, NEW t \in Threads, Pops(t)
    PROVE  /\ stack' \in Stacks /\ \A u \in Threads \ {t} : stack'[u] = stack[u]
           /\ Len(stack'[t]) = Len(stack[t]) - 1
           /\ \A j \in DOMAIN stack'[t] :
                 /\ j \in Nat \ {0}
                 /\ j + 1 \in DOMAIN stack[t] /\ stack'[t][j] = stack[t][j + 1]
           /\ \A i \in DOMAIN stack[t] :
                 i # 1 => i - 1 \in DOMAIN stack'[t] /\ stack'[t][i - 1] = stack[t][i]
<1>1. stack'[t] = Tail(stack[t]) /\ stack[t] \in Seq(Frame) /\ stack[t] # <<>>
  BY DEF Pops, Stacks
<1>2. stack'[t] \in Seq(Frame)
  BY <1>1, PopSeq
<1>3. stack' \in Stacks /\ \A u \in Threads \ {t} : stack'[u] = stack[u]
  BY <1>2 DEF Pops, Stacks
<1> QED
  BY <1>1, <1>3, PopSeq

--------------------------------------------------------------------------------
(* Types, and the shape of the steps inside a call. *)

\* A call f, where `subs' subscriptions and `posts' events exist: it holds a
\* record exactly while user code runs for it, only process() has a local queue,
\* and whoever polls has emptied it.
FrameOK(f, subs, posts) ==
    /\ f.run # 0 <=> f.step \in {"running", "handling"}
    /\ f.call = "emit" => f.left = <<>>
    /\ f.step \in {"polling", "timing"} => f.left = <<>>
    /\ f.todo \subseteq 1..subs /\ f.run \in 0..subs
    /\ f.left \in Seq(1..posts)

FramesOK ==
    \A t \in Threads :
        /\ Len(stack[t]) <= MaxDepth
        /\ \A i \in DOMAIN stack[t] : FrameOK(stack[t][i], Len(record), Len(posted))

BusOK ==
    /\ record \in Seq(Record) /\ Len(record) <= MaxSub
    /\ callbacks \in [Types -> SUBSET (1..Len(record))]
    /\ posted \in Seq(Types) /\ Len(posted) <= MaxEvent
    /\ queue \in Seq(1..Len(posted))
    /\ awaiters \subseteq Awaiters /\ active \subseteq Awaiters
    /\ handler \in BOOLEAN
    /\ open \subseteq Owners /\ closing \subseteq Owners
    /\ owed \in 0..Producers
    /\ begun \subseteq 1..Len(posted) /\ dropped \subseteq 1..Len(posted)

TypeInv == BusOK /\ stack \in Stacks /\ FramesOK

\* TypeInv is TypeOK and what the proofs need besides.
LEMMA TypeInvIsTypeOK == TypeInv => TypeOK
<1> SUFFICES ASSUME TypeInv PROVE TypeOK
  OBVIOUS
<1>1. /\ Len(posted) \in 0..MaxEvent /\ 1..Len(posted) \subseteq Events
      /\ Len(record) \in 0..MaxSub /\ 1..Len(record) \subseteq Subs
  BY BusAssumption DEF TypeInv, BusOK, Events, Subs
<1>2. queue \in Seq(Events) /\ callbacks \in [Types -> SUBSET Subs]
  BY <1>1, SeqMonotonic DEF TypeInv, BusOK
<1>3. begun \subseteq Events /\ dropped \subseteq Events
  BY <1>1 DEF TypeInv, BusOK
<1>4. \A t \in Threads : \A i \in DOMAIN stack[t] :
          /\ stack[t][i].run # 0 <=> stack[t][i].step \in {"running", "handling"}
          /\ stack[t][i].call = "emit" => stack[t][i].left = <<>>
  BY DEF TypeInv, FramesOK, FrameOK
<1> QED
  BY <1>2, <1>3, <1>4 DEF TypeInv, BusOK, TypeOK, Record, Stacks

\* What is known of the innermost call.
LEMMA TopFrame ==
    ASSUME TypeInv, NEW t \in Threads, stack[t] # <<>>
    PROVE  /\ 1 \in DOMAIN stack[t] /\ stack[t][1] \in Frame
           /\ FrameOK(stack[t][1], Len(record), Len(posted))
<1>1. 1 \in DOMAIN stack[t] /\ stack[t][1] \in Frame
  BY LenProperties, EmptySeq, ElementOfSeq DEF TypeInv, Stacks
<1> QED
  BY <1>1 DEF TypeInv, FramesOK

\* dispatch() reaches a record it has copied.
LEMMA FirstOfTodo ==
    ASSUME NEW n \in Nat, NEW todo \in SUBSET (1..n), todo # {}
    PROVE  FirstOf(todo) \in todo
<1>1. \E r \in todo : \A s \in todo : r <= s
  BY LeastNatural
<1> QED
  BY <1>1 DEF FirstOf

\* The innermost call g goes on as f, with the same local queue: the record it
\* holds is the one it held, none, or one whose guard has just locked.
Continues(t) ==
    \E f \in Frame :
        /\ Becomes(t, f) /\ FrameOK(f, Len(record), Len(posted))
        /\ f.call = stack[t][1].call /\ f.left = stack[t][1].left
        /\ f.run \in {0, stack[t][1].run} \/ ~Expired(f.run)
        /\ UNCHANGED <<queue, begun>>

\* process() takes the next event of its local queue.
Takes(t) ==
    \E f \in Frame :
        /\ Becomes(t, f) /\ FrameOK(f, Len(record), Len(posted))
        /\ stack[t][1].left # <<>>
        /\ f.call = stack[t][1].call /\ f.left = Tail(stack[t][1].left)
        /\ f.run = stack[t][1].run
        /\ begun' = begun \cup {Head(stack[t][1].left)}
        /\ UNCHANGED queue

\* The call ends, and what it has not taken is in front of the queue again.
Ends(t) ==
    /\ Pops(t)
    /\ queue' = stack[t][1].left \o queue
    /\ UNCHANGED begun

Steps(t) == Inside(t) \/ UserEnds(t)

\* Every step inside a call has one of the three shapes.
LEMMA StepShapes ==
    ASSUME TypeInv, NEW t \in Threads, Steps(t)
    PROVE  /\ stack[t] # <<>>
           /\ UNCHANGED <<subVars, posted, owed, dropped, ownerVars, handler>>
           /\ awaiters' \subseteq awaiters /\ active' \subseteq active
           /\ Continues(t) \/ Takes(t) \/ Ends(t)
<1>1. stack[t] # <<>>
  BY DEF Steps, Inside, UserEnds, DispatchNext, SkipCallback, StartCallback, EventDone,
         Rethrow, PollBegin, PollOne, CallReturns, CallbackReturns, CallbackThrows,
         HandlerReturns, HandlerThrows, TimeoutReturns, ReturnFrom, In
<1>2. /\ UNCHANGED <<subVars, posted, owed, dropped, ownerVars, handler>>
      /\ awaiters' \subseteq awaiters /\ active' \subseteq active
  BY DEF Steps, Inside, UserEnds, DispatchNext, SkipCallback, StartCallback, EventDone,
         Rethrow, PollBegin, PollOne, CallReturns, CallbackReturns, CallbackThrows,
         HandlerReturns, HandlerThrows, TimeoutReturns, ReturnFrom, Unwind, idleVars,
         queueVars, awaiterVars
<1> DEFINE g == stack[t][1]
           n == Len(record)
           m == Len(posted)
<1>3. /\ g \in Frame /\ FrameOK(g, n, m) /\ stack[t] \in Seq(Frame) /\ stack \in Stacks
      /\ n \in Nat /\ m \in Nat /\ n <= MaxSub /\ m <= MaxEvent
  BY <1>1, TopFrame DEF TypeInv, Stacks, BusOK
<1>q. queue = <<>> \o queue
  BY ConcatEmptySeq DEF TypeInv, BusOK
<1> SUFFICES Continues(t) \/ Takes(t) \/ Ends(t)
  BY <1>1, <1>2
<1>4. CASE DispatchNext(t)
  <2> DEFINE e == Head(g.left)
             f == [g EXCEPT !.step = "dispatching", !.event = e, !.left = Tail(g.left),
                            !.todo = callbacks[posted[e]]]
  <2>1. g.left # <<>> /\ g.step = "draining" /\ begun' = begun \cup {e} /\ queue' = queue
    BY <1>4 DEF DispatchNext, In, queueVars
  <2>2. g.left \in Seq(1..m)
    BY <1>3 DEF FrameOK
  <2>3. e \in 1..m /\ Tail(g.left) \in Seq(1..m)
    BY <2>1, <2>2, HeadTailProperties
  <2>4. callbacks[posted[e]] \subseteq 1..n
    BY <2>3 DEF TypeInv, BusOK
  <2>5. 1..m \subseteq Events /\ 1..n \subseteq Subs
    BY <1>3, BusAssumption DEF Events, Subs
  <2>6. Tail(g.left) \in Seq(Events)
    BY <2>3, <2>5, SeqMonotonic
  <2>7. f \in Frame
    BY <1>3, <2>3, <2>4, <2>5, <2>6 DEF Frame
  <2>8. FrameOK(f, n, m) /\ f.run = g.run /\ f.call = g.call /\ f.left = Tail(g.left)
    BY <1>3, <2>1, <2>3, <2>4 DEF FrameOK, Frame
  <2>9. Becomes(t, f)
    BY <1>1, <1>3, <1>4 DEF DispatchNext, Becomes, Stacks
  <2> QED  BY <2>1, <2>7, <2>8, <2>9 DEF Takes
<1>5. CASE SkipCallback(t)
  <2> DEFINE f == [g EXCEPT !.todo = g.todo \ {FirstOf(g.todo)}]
  <2>1. /\ f \in Frame /\ FrameOK(f, n, m)
        /\ f.call = g.call /\ f.left = g.left /\ f.run = g.run
    BY <1>3 DEF Frame, FrameOK
  <2>2. Becomes(t, f) /\ UNCHANGED <<queue, begun>>
    BY <1>1, <1>3, <1>5 DEF SkipCallback, Becomes, Stacks, queueVars
  <2> QED  BY <2>1, <2>2 DEF Continues
<1>6. CASE StartCallback(t)
  <2> DEFINE r == FirstOf(g.todo)
             f == [g EXCEPT !.step = "running", !.run = r, !.todo = g.todo \ {r}]
  <2>1. g.todo # {} /\ ~Expired(r)
    BY <1>6 DEF StartCallback, Lapsed
  <2>2. r \in g.todo /\ g.todo \subseteq 1..n
    BY <1>3, <2>1, FirstOfTodo DEF FrameOK
  <2>s. r \in 1..n /\ r \in Subs
    BY <1>3, <2>2, BusAssumption DEF Subs
  <2>3. f \in Frame /\ FrameOK(f, n, m) /\ f.call = g.call /\ f.left = g.left /\ f.run = r
    <3> HIDE DEF n, m, r
    <3>1. f \in Frame /\ f.call = g.call /\ f.left = g.left /\ f.run = r
          /\ f.step = "running" /\ f.todo \subseteq g.todo
      BY <1>3, <2>s DEF Frame
    <3> QED  BY <1>3, <2>2, <2>s, <3>1 DEF FrameOK
  <2>4. Becomes(t, f) /\ UNCHANGED <<queue, begun>>
    BY <1>1, <1>3, <1>6 DEF StartCallback, Becomes, Stacks, queueVars
  <2> QED  BY <2>1, <2>3, <2>4 DEF Continues
<1>7. ASSUME NEW step, ReturnFrom(t, step) PROVE Continues(t)
  <2> DEFINE f == [g EXCEPT !.step = "dispatching", !.run = 0]
  <2>1. f \in Frame /\ FrameOK(f, n, m) /\ f.call = g.call /\ f.left = g.left /\ f.run = 0
    <3> HIDE DEF n, m
    <3>1. f \in Frame /\ f.call = g.call /\ f.left = g.left /\ f.run = 0
          /\ f.step = "dispatching" /\ f.todo \subseteq g.todo
      BY <1>3 DEF Frame
    <3> QED  BY <1>3, <3>1 DEF FrameOK
  <2>2. Becomes(t, f) /\ UNCHANGED <<queue, begun>>
    BY <1>1, <1>3, <1>7 DEF ReturnFrom, Becomes, Stacks, queueVars
  <2> QED  BY <2>1, <2>2 DEF Continues
<1>8. ASSUME Unwind(t) PROVE Continues(t)
  <2> DEFINE f == [g EXCEPT !.step = "unwinding", !.run = 0, !.todo = {}]
  <2>1. f \in Frame /\ FrameOK(f, n, m) /\ f.call = g.call /\ f.left = g.left /\ f.run = 0
    <3> HIDE DEF n, m
    <3>1. f \in Frame /\ f.call = g.call /\ f.left = g.left /\ f.run = 0
          /\ f.step = "unwinding" /\ f.todo \subseteq g.todo
      BY <1>3 DEF Frame
    <3> QED  BY <1>3, <3>1 DEF FrameOK
  <2>2. Becomes(t, f) /\ UNCHANGED <<queue, begun>>
    BY <1>1, <1>3, <1>8 DEF Unwind, Becomes, Stacks, queueVars
  <2> QED  BY <2>1, <2>2 DEF Continues
<1>9. CASE CallbackThrows(t) /\ ~Unwind(t)
  <2> DEFINE f == [g EXCEPT !.step = "handling"]
  <2>1. /\ f \in Frame /\ FrameOK(f, n, m)
        /\ f.call = g.call /\ f.left = g.left /\ f.run = g.run
    BY <1>3, <1>9 DEF Frame, FrameOK, CallbackThrows, In
  <2>2. Becomes(t, f) /\ UNCHANGED <<queue, begun>>
    BY <1>1, <1>3, <1>9 DEF CallbackThrows, Becomes, Stacks, queueVars
  <2> QED  BY <2>1, <2>2 DEF Continues
<1>10. CASE EventDone(t)
  <2> DEFINE f == [g EXCEPT !.step = "draining", !.event = 0]
  <2>1. /\ f \in Frame /\ FrameOK(f, n, m)
        /\ f.call = g.call /\ f.left = g.left /\ f.run = g.run
    BY <1>3, <1>10 DEF Frame, FrameOK, EventDone, In
  <2>2. Becomes(t, f) /\ UNCHANGED <<queue, begun>>
    BY <1>1, <1>3, <1>10 DEF EventDone, Becomes, Stacks, queueVars
  <2> QED  BY <2>1, <2>2 DEF Continues
<1>11. CASE Rethrow(t)
  <2>1. Pops(t) /\ begun' = begun
    BY <1>1, <1>3, <1>11 DEF Rethrow, Leave, Pops
  <2>2. g.call = "process" \/ g.left = <<>>
    BY <1>3 DEF FrameOK, Frame
  <2>3. queue' = g.left \o queue
    BY <1>11, <1>q, <2>2 DEF Rethrow, Restored
  <2> QED  BY <2>1, <2>3 DEF Ends
<1>12. CASE PollBegin(t)
  <2> DEFINE f == [g EXCEPT !.step = "polling", !.live = awaiters \cap active]
  <2>1. g.left = <<>> /\ g.run = 0
    BY <1>3, <1>12 DEF FrameOK, PollBegin, In
  <2>2. /\ f \in Frame /\ FrameOK(f, n, m)
        /\ f.call = g.call /\ f.left = g.left /\ f.run = g.run
    BY <1>3, <2>1 DEF Frame, FrameOK, TypeInv, BusOK
  <2>3. Becomes(t, f) /\ UNCHANGED <<queue, begun>>
    BY <1>1, <1>3, <1>12 DEF PollBegin, Becomes, Stacks, queueVars
  <2> QED  BY <2>2, <2>3 DEF Continues
<1>13. ASSUME NEW a \in Awaiters, PollOne(t, a) PROVE Continues(t)
  <2>1. PICK step \in {"polling", "timing"} :
           Becomes(t, [g EXCEPT !.live = g.live \ {a}, !.step = step])
    <3>1. CASE stack' = [stack EXCEPT ![t][1].live = @ \ {a}]
      <4>1. [g EXCEPT !.live = g.live \ {a}, !.step = "polling"]
              = [g EXCEPT !.live = g.live \ {a}]
        BY <1>3, <1>13 DEF PollOne, In, Frame
      <4>2. Becomes(t, [g EXCEPT !.live = g.live \ {a}])
        BY <1>1, <1>3, <3>1 DEF Becomes, Stacks
      <4> QED  BY <4>1, <4>2
    <3>2. CASE stack' = [stack EXCEPT ![t][1].live = @ \ {a}, ![t][1].step = "timing"]
      <4>1. Becomes(t, [g EXCEPT !.live = g.live \ {a}, !.step = "timing"])
        BY <1>1, <1>3, <3>2 DEF Becomes, Stacks
      <4> QED  BY <4>1
    <3> QED  BY <1>13, <3>1, <3>2 DEF PollOne
  <2> DEFINE f == [g EXCEPT !.live = g.live \ {a}, !.step = step]
  <2>2. /\ f \in Frame /\ FrameOK(f, n, m)
        /\ f.call = g.call /\ f.left = g.left /\ f.run = g.run
    BY <1>3, <1>13 DEF Frame, FrameOK, PollOne, In
  <2>3. UNCHANGED <<queue, begun>>
    BY <1>13 DEF PollOne, queueVars
  <2> QED  BY <2>1, <2>2, <2>3 DEF Continues
<1>14. CASE TimeoutReturns(t)
  <2> DEFINE f == [g EXCEPT !.step = "polling"]
  <2>1. /\ f \in Frame /\ FrameOK(f, n, m)
        /\ f.call = g.call /\ f.left = g.left /\ f.run = g.run
    BY <1>3, <1>14 DEF Frame, FrameOK, TimeoutReturns, In
  <2>2. Becomes(t, f) /\ UNCHANGED <<queue, begun>>
    BY <1>1, <1>3, <1>14 DEF TimeoutReturns, Becomes, Stacks, queueVars
  <2> QED  BY <2>1, <2>2 DEF Continues
<1>15. CASE CallReturns(t)
  <2>1. Pops(t) /\ begun' = begun /\ queue' = queue
    BY <1>1, <1>3, <1>15 DEF CallReturns, Leave, Pops, queueVars
  <2>2. g.left = <<>>
    BY <1>3, <1>15 DEF FrameOK, CallReturns, In
  <2> QED  BY <1>q, <2>1, <2>2 DEF Ends
<1>16. CASE HandlerThrows(t)
  BY <1>8, <1>16 DEF HandlerThrows
<1> QED
  BY <1>4, <1>5, <1>6, <1>7, <1>8, <1>9, <1>10, <1>11, <1>12, <1>13, <1>14, <1>15,
     <1>16 DEF Steps, Inside, UserEnds, CallbackReturns, HandlerReturns

\* A new call holds no record, and only process() has a local queue: the whole
\* of m_event_queue.
LEMMA EmitFrames ==
    ASSUME TypeInv, NEW t \in Threads, NEW ty \in Types, EmitBegin(t, ty)
    PROVE  /\ \E f \in Frame : /\ Pushes(t, f) /\ FrameOK(f, Len(record), Len(posted))
                               /\ f.call = "emit" /\ f.left = <<>> /\ f.run = 0
           /\ Len(stack[t]) < MaxDepth
           /\ UNCHANGED <<idleVars, queueVars, begun>>
<1> DEFINE f == [NewFrame EXCEPT !.todo = callbacks[ty]]
<1>1. callbacks[ty] \subseteq 1..Len(record) /\ 1..Len(record) \subseteq Subs
  BY BusAssumption DEF TypeInv, BusOK, Subs
<1>2. <<>> \in Seq(Events) /\ <<>> \in Seq(1..Len(posted)) /\ Len(record) \in Nat
  BY DEF TypeInv, BusOK
<1>3. /\ f.call = "emit" /\ f.left = <<>> /\ f.run = 0 /\ f.step = "dispatching"
      /\ f.todo = callbacks[ty] /\ f \in Frame
  BY <1>1, <1>2 DEF NewFrame, Frame
<1>4. FrameOK(f, Len(record), Len(posted))
  <2> HIDE DEF f
  <2> QED  BY <1>1, <1>2, <1>3 DEF FrameOK
<1>5. Pushes(t, f)
  BY DEF EmitBegin, Call, Pushes
<1> QED
  BY <1>3, <1>4, <1>5 DEF EmitBegin

\* process() begins, outermost unless callbacks call it: its local queue is the
\* whole of m_event_queue.
LEMMA ProcessFrames ==
    ASSUME TypeInv, NEW t \in Pumps, ProcessBegin(t)
    PROVE  /\ t \in Threads
           /\ \E f \in Frame : /\ Pushes(t, f) /\ FrameOK(f, Len(record), Len(posted))
                               /\ f.call = "process" /\ f.left = queue /\ f.run = 0
           /\ Len(stack[t]) < MaxDepth /\ (stack[t] = <<>> \/ Reentrant)
           /\ queue' = <<>> /\ UNCHANGED <<idleVars, posted, owed, dropped, begun>>
<1> DEFINE f == [NewFrame EXCEPT !.call = "process", !.step = "draining",
                                 !.left = queue]
<1>1. /\ queue \in Seq(1..Len(posted)) /\ 1..Len(posted) \subseteq Events
      /\ Len(record) \in Nat
  BY BusAssumption DEF TypeInv, BusOK, Events
<1>2. queue \in Seq(Events)
  BY <1>1, SeqMonotonic
<1>3. /\ f.call = "process" /\ f.left = queue /\ f.run = 0 /\ f.step = "draining"
      /\ f.todo = {} /\ f \in Frame
  BY <1>1, <1>2 DEF NewFrame, Frame
<1>4. FrameOK(f, Len(record), Len(posted))
  <2> HIDE DEF f
  <2> QED  BY <1>1, <1>3 DEF FrameOK
<1>5. Pushes(t, f)
  BY DEF ProcessBegin, Call, Pushes
<1> QED
  BY <1>3, <1>4, <1>5, BusAssumption DEF ProcessBegin

\* Clients do not touch the calls.
LEMMA ClientFrames ==
    ASSUME Clients
    PROVE  UNCHANGED <<stack, begun>>
BY DEF Clients, Post, Notify, ClearPending, Subscribe, Unsubscribe, UnsubscribeAll,
       SetExceptionHandler, RegisterAwaiter, Deactivate, CloseBegin, CloseFinish, Erase

\* A call stays what it is when subscriptions and events are added.
LEMMA FrameGrows ==
    ASSUME NEW n \in Nat, NEW m \in Nat, NEW k \in Nat, NEW l \in Nat, n <= k, m <= l,
           NEW f, FrameOK(f, n, m)
    PROVE  FrameOK(f, k, l)
<1>1. 1..n \subseteq 1..k /\ 0..n \subseteq 0..k /\ 1..m \subseteq 1..l
  OBVIOUS
<1>2. f.left \in Seq(1..l)
  BY <1>1, SeqMonotonic DEF FrameOK
<1> QED
  BY <1>1, <1>2 DEF FrameOK

\* The clients' calls keep the types; record and posted only grow.
LEMMA ClientTypes ==
    ASSUME TypeInv, Clients
    PROVE  /\ BusOK' /\ Len(record) <= Len(record') /\ Len(posted) <= Len(posted')
           /\ \A r \in 1..Len(record) : record'[r] = record[r]
<1> USE DEF TypeInv
<1>0. /\ Len(record) \in Nat /\ Len(posted) \in Nat /\ BusOK
      /\ record \in Seq(Record) /\ posted \in Seq(Types)
  BY DEF BusOK
<1>1. ASSUME NEW ty \in Types, Post(ty)
      PROVE  /\ BusOK' /\ Len(record) <= Len(record') /\ Len(posted) <= Len(posted')
             /\ \A r \in 1..Len(record) : record'[r] = record[r]
  <2>1. /\ posted' \in Seq(Types) /\ Len(posted') = Len(posted) + 1
        /\ Len(posted') <= MaxEvent /\ owed' \in 0..Producers
    BY <1>0, <1>1, BusAssumption DEF Post, BusOK
  <2>2. 1..Len(posted) \subseteq 1..Len(posted') /\ Len(posted') \in 1..Len(posted')
    BY <1>0, <2>1
  <2>3. queue \in Seq(1..Len(posted'))
    BY <2>2, SeqMonotonic DEF BusOK
  <2>4. queue' \in Seq(1..Len(posted'))
    BY <1>1, <2>2, <2>3 DEF Post
  <2>5. begun' \subseteq 1..Len(posted') /\ dropped' \subseteq 1..Len(posted')
    BY <1>1, <2>2 DEF Post, BusOK
  <2> QED  BY <1>0, <1>1, <2>1, <2>4, <2>5
           DEF Post, BusOK, subVars, awaiterVars, ownerVars
<1>2. ASSUME NEW o \in Owners, NEW ty \in Types, NEW g \in Guards, Subscribe(o, ty, g)
      PROVE  /\ BusOK' /\ Len(record) <= Len(record') /\ Len(posted) <= Len(posted')
             /\ \A r \in 1..Len(record) : record'[r] = record[r]
  <2>1. [owner |-> o, guard |-> GuardOf(o, g)] \in Record
    BY BusAssumption DEF Record, GuardOf
  <2>2. /\ record' \in Seq(Record) /\ Len(record') = Len(record) + 1
        /\ Len(record') <= MaxSub /\ \A r \in 1..Len(record) : record'[r] = record[r]
    BY <1>0, <1>2, <2>1, BusAssumption DEF Subscribe, BusOK
  <2>3. 1..Len(record) \subseteq 1..Len(record') /\ Len(record') \in 1..Len(record')
    BY <1>0, <2>2
  <2>4. callbacks' \in [Types -> SUBSET (1..Len(record'))]
    BY <1>2, <2>3 DEF Subscribe, BusOK
  <2> QED  BY <1>0, <1>2, <2>2, <2>4
           DEF Subscribe, BusOK, queueVars, awaiterVars, ownerVars
<1>3. CASE UNCHANGED <<record, posted>>
  <2>1. Len(record) <= Len(record') /\ Len(posted) <= Len(posted')
    BY <1>0, <1>3
  <2> SUFFICES BusOK'
    BY <1>3, <2>1
  <2>2. CASE Notify
    BY <2>2, BusAssumption DEF Notify, BusOK, subVars, awaiterVars, ownerVars
  <2>3. CASE ClearPending
    <3>1. Range(queue) \subseteq 1..Len(posted)
      BY DEF BusOK, Range
    <3>2. dropped' = dropped \cup Range(queue) /\ queue' = <<>>
      BY <2>3 DEF ClearPending
    <3>3. dropped' \subseteq 1..Len(posted') /\ queue' \in Seq(1..Len(posted'))
      BY <1>3, <3>1, <3>2, EmptySeq DEF BusOK
    <3> QED  BY <2>3, <3>3 DEF ClearPending, BusOK, subVars, awaiterVars, ownerVars
  <2>4. ASSUME NEW types, NEW drop, Erase(types, drop), closing' \subseteq Owners
        PROVE  BusOK'
    BY <2>4 DEF Erase, BusOK, queueVars, awaiterVars
  <2>5. CASE \E s \in Subs : Unsubscribe(s)
    BY <2>4, <2>5 DEF Unsubscribe, BusOK
  <2>6. CASE (\E o \in Owners : UnsubscribeAll(o, Types))
                \/ \E o \in Owners, ty \in Types : UnsubscribeAll(o, {ty})
    BY <2>4, <2>6 DEF UnsubscribeAll, BusOK
  <2>7. CASE \E h \in Handled : SetExceptionHandler(h)
    BY <2>7, BusAssumption DEF SetExceptionHandler, BusOK, subVars, queueVars,
           awaiterVars, ownerVars
  <2>8. CASE \E a \in Awaiters : RegisterAwaiter(a) \/ Deactivate(a)
    BY <2>8 DEF RegisterAwaiter, Deactivate, BusOK, subVars, queueVars, ownerVars
  <2>9. CASE \E o \in Owners : CloseBegin(o)
    BY <2>9 DEF CloseBegin, BusOK, subVars, queueVars, awaiterVars
  <2>10. CASE \E o \in Owners : CloseFinish(o)
    <3>1. closing' \subseteq Owners
      BY <2>10 DEF CloseFinish, BusOK
    <3> QED  BY <2>4, <2>10, <3>1 DEF CloseFinish
  <2>11. CASE \E ty \in Types : Post(ty)
    BY <1>1, <2>11
  <2>12. CASE \E o \in Owners, ty \in Types, g \in Guards : Subscribe(o, ty, g)
    BY <1>2, <2>12
  <2> QED  BY <2>2, <2>3, <2>5, <2>6, <2>7, <2>8, <2>9, <2>10, <2>11, <2>12 DEF Clients
<1>4. CASE ~UNCHANGED <<record, posted>>
  <2>1. \/ \E ty \in Types : Post(ty)
        \/ \E o \in Owners, ty \in Types, g \in Guards : Subscribe(o, ty, g)
    BY <1>4 DEF Clients, Notify, ClearPending, Unsubscribe, UnsubscribeAll, Erase,
           SetExceptionHandler, RegisterAwaiter, Deactivate, CloseBegin, CloseFinish,
           subVars, queueVars
  <2> QED  BY <1>1, <1>2, <2>1
<1> QED
  BY <1>3, <1>4

\* The steps of the specification, by whose they are.
LEMMA NextCases ==
    ASSUME [Next]_vars
    PROVE  \/ Clients \/ UNCHANGED vars
           \/ \E t \in Threads, ty \in Types : EmitBegin(t, ty)
           \/ \E t \in Threads : Steps(t)
           \/ \E t \in Pumps : ProcessBegin(t)
BY DEF Next, Steps

\* Every step keeps TypeInv.
LEMMA TypeStep == TypeInv /\ [Next]_vars => TypeInv'
<1> SUFFICES ASSUME TypeInv, [Next]_vars PROVE TypeInv'
  OBVIOUS
<1> USE DEF TypeInv
<1>0. /\ Len(record) \in Nat /\ Len(posted) \in Nat
      /\ \A t \in Threads : Len(stack[t]) \in Nat
  BY DEF BusOK, Stacks
<1>1. CASE Clients
  <2>1. BusOK' /\ Len(record) <= Len(record') /\ Len(posted) <= Len(posted')
    BY <1>1, ClientTypes
  <2>2. stack' = stack
    BY <1>1, ClientFrames
  <2>3. Len(record') \in Nat /\ Len(posted') \in Nat
    BY <2>1 DEF BusOK
  <2>4. \A t \in Threads : \A i \in DOMAIN stack[t] :
           FrameOK(stack[t][i], Len(record'), Len(posted'))
    BY <1>0, <2>1, <2>3, FrameGrows DEF FramesOK
  <2> QED  BY <2>1, <2>2, <2>4 DEF FramesOK
<1>2. ASSUME NEW t \in Threads, NEW f \in Frame, Pushes(t, f),
             FrameOK(f, Len(record), Len(posted)), Len(stack[t]) < MaxDepth,
             UNCHANGED <<record, posted>>
      PROVE  stack' \in Stacks /\ FramesOK'
  <2>1. /\ stack' \in Stacks /\ \A u \in Threads \ {t} : stack'[u] = stack[u]
        /\ stack'[t][1] = f /\ Len(stack'[t]) = Len(stack[t]) + 1
        /\ \A j \in DOMAIN stack'[t] :
              j # 1 => j - 1 \in DOMAIN stack[t] /\ stack'[t][j] = stack[t][j - 1]
    BY <1>2, PushFrames
  <2>2. Len(stack'[t]) <= MaxDepth
    BY <1>0, <1>2, <2>1, BusAssumption
  <2> QED  BY <1>2, <2>1, <2>2 DEF FramesOK
<1>3. ASSUME NEW t \in Threads, NEW ty \in Types, EmitBegin(t, ty) PROVE TypeInv'
  <2>1. BusOK' /\ UNCHANGED <<record, posted>>
    BY <1>3, EmitFrames DEF BusOK, idleVars, subVars, queueVars, awaiterVars, ownerVars
  <2> QED  BY <1>2, <1>3, <2>1, EmitFrames
<1>4. ASSUME NEW t \in Pumps, ProcessBegin(t) PROVE TypeInv'
  <2>1. UNCHANGED <<record, posted>> /\ queue' \in Seq(1..Len(posted'))
    BY <1>4, ProcessFrames, EmptySeq DEF idleVars, subVars
  <2>2. BusOK'
    BY <1>4, <2>1, ProcessFrames DEF BusOK, idleVars, subVars, awaiterVars, ownerVars
  <2> QED  BY <1>2, <1>4, <2>1, <2>2, ProcessFrames
<1>5. ASSUME NEW t \in Threads, Steps(t) PROVE TypeInv'
  <2>1. /\ stack[t] # <<>>
        /\ UNCHANGED <<record, callbacks, posted, owed, dropped, open, closing, handler>>
        /\ awaiters' \subseteq Awaiters /\ active' \subseteq Awaiters
        /\ Continues(t) \/ Takes(t) \/ Ends(t)
    BY <1>5, StepShapes DEF subVars, ownerVars, BusOK
  <2>2. /\ 1 \in DOMAIN stack[t] /\ stack[t][1] \in Frame
        /\ FrameOK(stack[t][1], Len(record), Len(posted))
    BY <2>1, TopFrame
  <2>3. queue' \in Seq(1..Len(posted)) /\ begun' \subseteq 1..Len(posted)
    <3>1. stack[t][1].left \in Seq(1..Len(posted)) /\ queue \in Seq(1..Len(posted))
      BY <2>2 DEF FrameOK, BusOK
    <3>2. CASE Continues(t)
      BY <3>1, <3>2 DEF Continues, BusOK
    <3>3. CASE Takes(t)
      <4>1. Head(stack[t][1].left) \in 1..Len(posted)
        BY <3>1, <3>3, HeadTailProperties DEF Takes
      <4> QED  BY <3>1, <3>3, <4>1 DEF Takes, BusOK
    <3>4. CASE Ends(t)
      BY <3>1, <3>4, ConcatProperties DEF Ends, BusOK
    <3> QED  BY <2>1, <3>2, <3>3, <3>4
  <2>4. BusOK'
    BY <2>1, <2>3 DEF BusOK
  <2>5. ASSUME NEW f \in Frame, Becomes(t, f), FrameOK(f, Len(record), Len(posted))
        PROVE  stack' \in Stacks /\ FramesOK'
    <3>1. /\ stack' \in Stacks /\ \A u \in Threads \ {t} : stack'[u] = stack[u]
          /\ stack'[t][1] = f /\ Len(stack'[t]) = Len(stack[t])
          /\ DOMAIN stack'[t] = DOMAIN stack[t]
          /\ \A i \in DOMAIN stack[t] \ {1} : stack'[t][i] = stack[t][i]
      BY <2>5, BecomeFrames
    <3> QED  BY <2>1, <2>5, <3>1 DEF FramesOK
  <2>6. CASE Ends(t)
    <3>1. /\ stack' \in Stacks /\ \A u \in Threads \ {t} : stack'[u] = stack[u]
          /\ Len(stack'[t]) = Len(stack[t]) - 1
          /\ \A j \in DOMAIN stack'[t] :
                j + 1 \in DOMAIN stack[t] /\ stack'[t][j] = stack[t][j + 1]
      BY <2>6, PopFrames DEF Ends
    <3>2. Len(stack'[t]) <= MaxDepth
      BY <1>0, <3>1, BusAssumption DEF FramesOK
    <3> QED  BY <2>1, <2>4, <3>1, <3>2 DEF FramesOK
  <2> QED  BY <2>1, <2>4, <2>5, <2>6 DEF Continues, Takes
<1>6. CASE UNCHANGED vars
  BY <1>6 DEF vars, subVars, queueVars, awaiterVars, ownerVars, BusOK, FramesOK
<1> QED
  BY <1>1, <1>3, <1>4, <1>5, <1>6, NextCases

\* TypeInv holds at the start.
LEMMA TypeInit == Init => TypeInv
<1> SUFFICES ASSUME Init PROVE TypeInv
  OBVIOUS
<1>1. /\ Len(record) = 0 /\ Len(posted) = 0
      /\ record \in Seq(Record) /\ posted \in Seq(Types)
      /\ queue \in Seq(1..Len(posted))
  BY DEF Init
<1>2. \A t \in Threads : stack[t] = <<>> /\ Len(stack[t]) = 0 /\ DOMAIN stack[t] = {}
  BY DEF Init
<1>3. stack \in Stacks
  BY DEF Init, Stacks
<1>4. FramesOK
  BY <1>2, BusAssumption DEF FramesOK
<1>5. handler \in BOOLEAN
  BY Zenon DEF Init
<1>6. BusOK
  BY <1>1, <1>5, BusAssumption DEF Init, BusOK
<1> QED
  BY <1>3, <1>4, <1>6 DEF TypeInv

\* Every variable has its type in every reachable state, and a call holds a record
\* exactly while user code runs for it.
THEOREM TypeCorrect == Spec => []TypeOK
  BY TypeInit, TypeStep, TypeInvIsTypeOK, PTL DEF Spec

--------------------------------------------------------------------------------
(* No callback of a closed endpoint. *)

\* The call of thread t at depth i runs a callback that holds the guard of o.
HoldsGuard(t, i, o) ==
    /\ stack[t][i].run # 0
    /\ record[stack[t][i].run] = [owner |-> o, guard |-> "owner"]

\* Holders, without the bound on the depth.
LEMMA HoldersAre ==
    ASSUME TypeInv, NEW o
    PROVE  Holders(o) = {} <=>
             \A t \in Threads : \A i \in DOMAIN stack[t] : ~HoldsGuard(t, i, o)
<1>1. \A t \in Threads : \A i \in DOMAIN stack[t] : i \in 1..MaxDepth
  <2> SUFFICES ASSUME NEW t \in Threads, NEW i \in DOMAIN stack[t] PROVE i \in 1..MaxDepth
    OBVIOUS
  <2>1. /\ Len(stack[t]) \in Nat /\ DOMAIN stack[t] = 1..Len(stack[t])
        /\ Len(stack[t]) <= MaxDepth
    BY LenProperties DEF TypeInv, Stacks, FramesOK
  <2> QED  BY <2>1, BusAssumption
<1>2. ASSUME Holders(o) = {}, NEW t \in Threads, NEW i \in DOMAIN stack[t]
      PROVE  ~HoldsGuard(t, i, o)
  <2>1. <<t, i>> \in Threads \X (1..MaxDepth)
    BY <1>1
  <2>2. <<t, i>> \notin Holders(o)
    BY <1>2
  <2> QED  BY <2>1, <2>2 DEF Holders, HoldsGuard
<1>3. ASSUME \A t \in Threads : \A i \in DOMAIN stack[t] : ~HoldsGuard(t, i, o),
             NEW p \in Holders(o)
      PROVE  FALSE
  <2>1. /\ p[1] \in Threads /\ p[2] \in DOMAIN stack[p[1]] /\ HoldsGuard(p[1], p[2], o)
    BY <1>3 DEF Holders, HoldsGuard
  <2> QED  BY <1>3, <2>1
<1> QED
  BY <1>2, <1>3

\* While the guard is reset and nobody holds it, no step makes a call hold it.
LEMMA QuietStep ==
    ASSUME TypeInv, TypeInv', [Next]_vars, NEW o \in Owners, o \notin open,
           Holders(o) = {}
    PROVE  Holders(o)' = {}
<1> DEFINE Quiet == \A t \in Threads : \A i \in DOMAIN stack'[t] :
                       /\ stack'[t][i].run # 0
                       /\ record'[stack'[t][i].run] = [owner |-> o, guard |-> "owner"]
                       => FALSE
<1>0. \A t \in Threads : \A i \in DOMAIN stack[t] :
         /\ FrameOK(stack[t][i], Len(record), Len(posted))
         /\ ~(/\ stack[t][i].run # 0
              /\ record[stack[t][i].run] = [owner |-> o, guard |-> "owner"])
  BY HoldersAre DEF HoldsGuard, TypeInv, FramesOK
<1>s. stack \in Stacks
  BY DEF TypeInv
<1>1. Quiet => Holders(o)' = {}
  <2> SUFFICES ASSUME Quiet, NEW p \in Holders(o)' PROVE FALSE
    OBVIOUS
  <2>1. /\ p[1] \in Threads /\ p[2] \in DOMAIN stack'[p[1]]
        /\ stack'[p[1]][p[2]].run # 0
        /\ record'[stack'[p[1]][p[2]].run] = [owner |-> o, guard |-> "owner"]
    BY DEF Holders
  <2> QED  BY <2>1
<1>2. CASE Clients
  <2>1. stack' = stack /\ \A r \in 1..Len(record) : record'[r] = record[r]
    BY <1>2, ClientFrames, ClientTypes
  <2>2. \A t \in Threads : \A i \in DOMAIN stack[t] :
           stack[t][i].run # 0 => stack[t][i].run \in 1..Len(record)
    <3>1. Len(record) \in Nat
      BY DEF TypeInv, BusOK
    <3> QED  BY <1>0, <3>1 DEF FrameOK
  <2>3. Quiet
    BY <1>0, <2>1, <2>2
  <2> QED  BY <1>1, <2>3
<1>3. ASSUME NEW t \in Threads, NEW f \in Frame, Pushes(t, f), f.run = 0, UNCHANGED record
      PROVE  Holders(o)' = {}
  <2>1. /\ \A u \in Threads \ {t} : stack'[u] = stack[u]
        /\ stack'[t][1] = f
        /\ \A j \in DOMAIN stack'[t] :
              j # 1 => j - 1 \in DOMAIN stack[t] /\ stack'[t][j] = stack[t][j - 1]
    BY <1>3, <1>s, PushFrames
  <2>2. Quiet
    BY <1>0, <1>3, <2>1
  <2> QED  BY <1>1, <2>2
<1>4. ASSUME NEW t \in Threads, NEW ty \in Types, EmitBegin(t, ty) PROVE Holders(o)' = {}
  BY <1>3, <1>4, EmitFrames DEF idleVars, subVars
<1>5. ASSUME NEW t \in Pumps, ProcessBegin(t) PROVE Holders(o)' = {}
  BY <1>3, <1>5, ProcessFrames DEF idleVars, subVars
<1>6. ASSUME NEW t \in Threads, Steps(t) PROVE Holders(o)' = {}
  <2>1. /\ stack[t] # <<>> /\ UNCHANGED record
        /\ Continues(t) \/ Takes(t) \/ Ends(t)
    BY <1>6, StepShapes DEF subVars
  <2>2. 1 \in DOMAIN stack[t]
    BY <2>1, TopFrame
  <2>3. ASSUME NEW f \in Frame, Becomes(t, f),
               f.run \in {0, stack[t][1].run} \/ ~Expired(f.run)
        PROVE  Quiet
    <3>1. /\ \A u \in Threads \ {t} : stack'[u] = stack[u]
          /\ stack'[t][1] = f /\ DOMAIN stack'[t] = DOMAIN stack[t]
          /\ \A i \in DOMAIN stack[t] \ {1} : stack'[t][i] = stack[t][i]
      BY <1>s, <2>3, BecomeFrames
    <3>2. f.run # 0 => record[f.run] # [owner |-> o, guard |-> "owner"]
      BY <1>0, <2>2, <2>3 DEF Expired
    <3> QED  BY <1>0, <2>1, <3>1, <3>2
  <2>4. CASE Ends(t)
    <3>1. /\ \A u \in Threads \ {t} : stack'[u] = stack[u]
          /\ \A j \in DOMAIN stack'[t] :
                j + 1 \in DOMAIN stack[t] /\ stack'[t][j] = stack[t][j + 1]
      BY <1>s, <2>4, PopFrames DEF Ends
    <3>2. Quiet
      BY <1>0, <2>1, <3>1
    <3> QED  BY <1>1, <3>2
  <2>5. CASE Continues(t) \/ Takes(t)
    <3>1. Quiet
      BY <2>3, <2>5 DEF Continues, Takes
    <3> QED  BY <1>1, <3>1
  <2> QED  BY <2>1, <2>4, <2>5
<1>7. CASE UNCHANGED vars
  BY <1>7 DEF vars, subVars, Holders
<1> QED
  BY <1>2, <1>4, <1>5, <1>6, <1>7, NextCases

\* Once an endpoint has reset its guard and none of its guarded callbacks is
\* running, none of them ever runs again.
THEOREM QuietOnceClosed == Spec => QuietAfterClose
<1>1. TypeInv /\ TypeInv' /\ [Next]_vars =>
        [\A o \in Owners : o \notin open /\ Holders(o) = {} => Holders(o)' = {}]_vars
  BY QuietStep
<1> QED
  BY <1>1, TypeInit, TypeStep, PTL DEF Spec, QuietAfterClose

--------------------------------------------------------------------------------
(* Every posted event is in one place. *)

\* Taking the front of a queue removes one event from it.
LEMMA TailTakes ==
    ASSUME NEW S, NEW s \in Seq(S), s # <<>>, IsInjective(s)
    PROVE  /\ IsInjective(Tail(s)) /\ Head(s) \in Range(s)
           /\ Range(Tail(s)) = Range(s) \ {Head(s)}
<1>1. /\ Tail(s) \in Seq(S) /\ Len(Tail(s)) = Len(s) - 1 /\ Len(s) \in Nat \ {0}
      /\ \A i \in 1..Len(Tail(s)) : Tail(s)[i] = s[i + 1]
      /\ Head(s) = s[1] /\ DOMAIN s = 1..Len(s) /\ DOMAIN Tail(s) = 1..Len(Tail(s))
  BY HeadTailProperties, LenProperties, EmptySeq
<1>2. IsInjective(Tail(s)) /\ Head(s) \in Range(s)
  BY <1>1 DEF IsInjective, Range
<1>3. ASSUME NEW e \in Range(Tail(s)) PROVE e \in Range(s) \ {Head(s)}
  <2>1. PICK i \in 1..Len(Tail(s)) : e = s[i + 1]
    BY <1>1, <1>3 DEF Range
  <2>2. i + 1 \in DOMAIN s /\ 1 \in DOMAIN s /\ i + 1 # 1
    BY <1>1
  <2> QED  BY <1>1, <2>1, <2>2 DEF IsInjective, Range
<1>4. ASSUME NEW e \in Range(s), e # Head(s) PROVE e \in Range(Tail(s))
  <2>1. PICK i \in 1..Len(s) : e = s[i]
    BY <1>1, <1>4 DEF Range
  <2>2. i - 1 \in 1..Len(Tail(s)) /\ (i - 1) + 1 = i
    BY <1>1, <1>4, <2>1
  <2>3. e = Tail(s)[i - 1]
    BY <1>1, <2>1, <2>2
  <2> QED  BY <1>1, <2>2, <2>3 DEF Range
<1> QED
  BY <1>2, <1>3, <1>4

\* Putting one queue in front of another keeps the events of both.
LEMMA ConcatKeeps ==
    ASSUME NEW S, NEW s \in Seq(S), NEW q \in Seq(S), IsInjective(s), IsInjective(q),
           Range(s) \cap Range(q) = {}
    PROVE  IsInjective(s \o q) /\ Range(s \o q) = Range(s) \cup Range(q)
<1> DEFINE r == s \o q
<1>1. /\ r \in Seq(S) /\ Len(r) = Len(s) + Len(q) /\ Len(s) \in Nat /\ Len(q) \in Nat
      /\ \A i \in 1..Len(r) : r[i] = IF i <= Len(s) THEN s[i] ELSE q[i - Len(s)]
      /\ DOMAIN s = 1..Len(s) /\ DOMAIN q = 1..Len(q) /\ DOMAIN r = 1..Len(r)
  BY ConcatProperties, LenProperties
<1> HIDE DEF r
<1>2. \A i \in 1..Len(s) : i \in 1..Len(r) /\ r[i] = s[i] /\ s[i] \in Range(s)
  BY <1>1 DEF Range
<1>3. \A i \in 1..Len(q) :
         Len(s) + i \in 1..Len(r) /\ r[Len(s) + i] = q[i] /\ q[i] \in Range(q)
  <2> SUFFICES ASSUME NEW i \in 1..Len(q)
               PROVE  /\ Len(s) + i \in 1..Len(r) /\ r[Len(s) + i] = q[i]
                      /\ q[i] \in Range(q)
    OBVIOUS
  <2>1. /\ Len(s) + i \in 1..Len(r) /\ ~(Len(s) + i <= Len(s))
        /\ (Len(s) + i) - Len(s) = i
    BY <1>1
  <2>2. r[Len(s) + i] = q[i]
    BY <1>1, <2>1
  <2>3. q[i] \in Range(q)
    BY <1>1 DEF Range
  <2> QED  BY <2>1, <2>2, <2>3
<1>4. \A i \in 1..Len(r) : \/ i \in 1..Len(s) /\ r[i] = s[i]
                           \/ i - Len(s) \in 1..Len(q) /\ r[i] = q[i - Len(s)]
  BY <1>1
<1>5. Range(r) = Range(s) \cup Range(q)
  <2>1. Range(r) \subseteq Range(s) \cup Range(q)
    BY <1>1, <1>4 DEF Range
  <2>2. Range(s) \subseteq Range(r)
    BY <1>1, <1>2 DEF Range
  <2>3. Range(q) \subseteq Range(r)
    <3> SUFFICES ASSUME NEW e \in Range(q) PROVE e \in Range(r)
      OBVIOUS
    <3>1. PICK i \in 1..Len(q) : e = q[i]
      BY <1>1 DEF Range
    <3>2. Len(s) + i \in DOMAIN r /\ e = r[Len(s) + i]
      BY <1>1, <1>3, <3>1
    <3> QED  BY <3>2 DEF Range
  <2> QED  BY <2>1, <2>2, <2>3
<1>6. ASSUME NEW i \in 1..Len(r), NEW j \in 1..Len(r), r[i] = r[j] PROVE i = j
  <2>1. CASE i \in 1..Len(s) /\ j \in 1..Len(s)
    BY <1>1, <1>2, <1>6, <2>1 DEF IsInjective
  <2>2. CASE i - Len(s) \in 1..Len(q) /\ j - Len(s) \in 1..Len(q)
    <3>1. r[i] = q[i - Len(s)] /\ r[j] = q[j - Len(s)]
      BY <1>1, <1>4, <2>2
    <3>2. i - Len(s) = j - Len(s)
      BY <1>1, <1>6, <2>2, <3>1 DEF IsInjective
    <3> QED  BY <1>1, <3>2
  <2>3. ASSUME NEW k \in 1..Len(r), NEW l \in 1..Len(r), k \in 1..Len(s),
               l - Len(s) \in 1..Len(q)
        PROVE  r[k] # r[l]
    <3>1. r[k] \in Range(s)
      BY <1>2, <2>3
    <3>2. r[l] = q[l - Len(s)]
      BY <1>1, <1>4, <2>3
    <3>3. r[l] \in Range(q)
      BY <1>3, <2>3, <3>2
    <3> QED  BY <3>1, <3>3
  <2> QED  BY <1>4, <1>6, <2>1, <2>2, <2>3
<1> QED
  BY <1>1, <1>5, <1>6 DEF r, IsInjective

\* A queue that an event joins.
LEMMA AppendJoins ==
    ASSUME NEW S, NEW s \in Seq(S), NEW e, IsInjective(s), e \notin Range(s)
    PROVE  IsInjective(Append(s, e)) /\ Range(Append(s, e)) = Range(s) \cup {e}
<1> DEFINE r == Append(s, e)
<1>1. /\ Len(r) = Len(s) + 1 /\ Len(s) \in Nat
      /\ \A i \in 1..Len(s) : r[i] = s[i]
      /\ r[Len(s) + 1] = e
      /\ DOMAIN s = 1..Len(s) /\ DOMAIN r = 1..(Len(s) + 1)
  BY AppendProperties, LenProperties
<1> HIDE DEF r
<1>2. \A i \in 1..(Len(s) + 1) : \/ i \in 1..Len(s) /\ r[i] = s[i] /\ s[i] \in Range(s)
                                 \/ i = Len(s) + 1 /\ r[i] = e
  BY <1>1 DEF Range
<1>3. Range(r) = Range(s) \cup {e}
  BY <1>1, <1>2 DEF Range
<1>4. ASSUME NEW i \in 1..(Len(s) + 1), NEW j \in 1..(Len(s) + 1), r[i] = r[j] PROVE i = j
  BY <1>1, <1>2, <1>4 DEF IsInjective
<1> QED
  BY <1>1, <1>3, <1>4 DEF r, IsInjective

\* The empty queue.
LEMMA NoneWaits == IsInjective(<<>>) /\ Range(<<>>) = {}
BY EmptySeq DEF IsInjective, Range

\* The local queue of the call of thread t at depth i.
Left(t, i) == stack[t][i].left

\* Every event that was posted waits in exactly one place or was taken: the queues
\* hold no event twice and share none, none that was dispatched or dropped waits,
\* and one that neither waits in m_event_queue nor was taken is in a local queue.
QueuesApart ==
    /\ IsInjective(queue)
    /\ \A t \in Threads : \A i \in DOMAIN stack[t] :
          /\ IsInjective(Left(t, i))
          /\ Range(Left(t, i)) \cap Range(queue) = {}
    /\ \A t, u \in Threads : \A i \in DOMAIN stack[t], j \in DOMAIN stack[u] :
          <<t, i>> # <<u, j>> => Range(Left(t, i)) \cap Range(Left(u, j)) = {}

TakenOnce ==
    /\ begun \cap dropped = {}
    /\ Range(queue) \cap (begun \cup dropped) = {}
    /\ \A t \in Threads : \A i \in DOMAIN stack[t] :
          Range(Left(t, i)) \cap (begun \cup dropped) = {}

NoneMissing ==
    \A e \in 1..Len(posted) :
        \/ e \in begun \cup dropped \cup Range(queue)
        \/ \E t \in Threads : \E i \in DOMAIN stack[t] : e \in Range(Left(t, i))

AccountInv == QueuesApart /\ TakenOnce /\ NoneMissing

\* A call begins with a local queue cut from the front of m_event_queue.
LEMMA PushAccount ==
    ASSUME TypeInv, AccountInv, NEW t \in Threads, NEW f \in Frame, Pushes(t, f),
           IsInjective(f.left), IsInjective(queue'),
           Range(f.left) \cup Range(queue') = Range(queue),
           Range(f.left) \cap Range(queue') = {},
           UNCHANGED <<posted, dropped, begun>>
    PROVE  AccountInv'
<1>1. /\ stack' \in Stacks /\ \A u \in Threads \ {t} : stack'[u] = stack[u]
      /\ stack'[t][1] = f /\ Len(stack'[t]) = Len(stack[t]) + 1
      /\ \A j \in DOMAIN stack'[t] :
            /\ j \in Nat \ {0}
            /\ j # 1 => j - 1 \in DOMAIN stack[t] /\ stack'[t][j] = stack[t][j - 1]
      /\ \A i \in DOMAIN stack[t] :
            i + 1 \in DOMAIN stack'[t] /\ stack'[t][i + 1] = stack[t][i]
  BY PushFrames DEF TypeInv
<1>d. 1 \in DOMAIN stack'[t]
  <2>1. Len(stack[t]) \in Nat /\ DOMAIN stack'[t] = 1..Len(stack'[t])
    BY <1>1, LenProperties DEF TypeInv, Stacks
  <2> QED  BY <1>1, <2>1
<1>2. ASSUME NEW u \in Threads, NEW j \in DOMAIN stack'[u]
      PROVE  \/ /\ u = t /\ j = 1 /\ Left(u, j)' = f.left
             \/ /\ u = t /\ j # 1 /\ j \in Nat
                /\ j - 1 \in DOMAIN stack[u] /\ Left(u, j)' = Left(u, j - 1)
             \/ /\ u # t /\ j \in DOMAIN stack[u] /\ Left(u, j)' = Left(u, j)
  BY <1>1, <1>2 DEF Left
<1>3. QueuesApart'
  <2>1. ASSUME NEW u \in Threads, NEW j \in DOMAIN stack'[u]
        PROVE  IsInjective(Left(u, j)') /\ Range(Left(u, j)') \cap Range(queue') = {}
    BY <1>2, <2>1 DEF AccountInv, QueuesApart
  <2>2. ASSUME NEW u \in Threads, NEW v \in Threads, NEW j \in DOMAIN stack'[u],
               NEW k \in DOMAIN stack'[v], <<u, j>> # <<v, k>>
        PROVE  Range(Left(u, j)') \cap Range(Left(v, k)') = {}
    <3>1. CASE u = t /\ j = 1
      <4>1. Left(u, j)' = f.left /\ ~(v = t /\ k = 1)
        BY <1>2, <2>2, <3>1
      <4> QED  BY <1>2, <4>1 DEF AccountInv, QueuesApart
    <3>2. CASE v = t /\ k = 1
      <4>1. Left(v, k)' = f.left /\ ~(u = t /\ j = 1)
        BY <1>2, <2>2, <3>2
      <4> QED  BY <1>2, <4>1 DEF AccountInv, QueuesApart
    <3>3. CASE u = v /\ u = t /\ j # 1 /\ k # 1
      <4>1. j - 1 # k - 1 /\ j - 1 \in DOMAIN stack[t] /\ k - 1 \in DOMAIN stack[t]
            /\ Left(u, j)' = Left(t, j - 1) /\ Left(v, k)' = Left(t, k - 1)
        BY <1>2, <2>2, <3>3
      <4>2. <<t, j - 1>> # <<t, k - 1>>
        BY <4>1
      <4> QED  BY <4>1, <4>2 DEF AccountInv, QueuesApart
    <3>4. CASE u # v \/ (u = v /\ u # t)
      BY <1>2, <2>2, <3>1, <3>2, <3>4 DEF AccountInv, QueuesApart
    <3> QED  BY <3>1, <3>2, <3>3, <3>4
  <2> QED  BY <2>1, <2>2 DEF QueuesApart
<1>4. TakenOnce'
  BY <1>2 DEF AccountInv, TakenOnce
<1>5. NoneMissing'
  <2> SUFFICES ASSUME NEW e \in 1..Len(posted),
                      e \notin begun \cup dropped \cup Range(queue')
               PROVE  \E u \in Threads : \E j \in DOMAIN stack'[u] :
                         e \in Range(Left(u, j)')
    BY DEF NoneMissing
  <2>1. CASE e \in Range(queue)
    BY <1>1, <1>d, <2>1 DEF Left
  <2>2. CASE e \notin Range(queue)
    <3>p. PICK u \in Threads : \E i \in DOMAIN stack[u] : e \in Range(Left(u, i))
      BY <2>2 DEF AccountInv, NoneMissing
    <3>1. PICK i \in DOMAIN stack[u] : e \in Range(Left(u, i))
      BY <3>p
    <3>2. CASE u = t
      <4>1. i + 1 \in DOMAIN stack'[t] /\ Left(t, i + 1)' = Left(t, i)
        BY <1>1, <3>2 DEF Left
      <4> QED  BY <3>1, <3>2, <4>1
    <3>3. CASE u # t
      BY <1>1, <3>1, <3>3 DEF Left
    <3> QED  BY <3>2, <3>3
  <2> QED  BY <2>1, <2>2
<1> QED
  BY <1>3, <1>4, <1>5 DEF AccountInv

\* A call goes on, and what leaves its local queue has begun.
LEMMA BecomeAccount ==
    ASSUME TypeInv, AccountInv, NEW t \in Threads, NEW f \in Frame, Becomes(t, f),
           IsInjective(f.left), Range(f.left) \subseteq Range(Left(t, 1)),
           begun' = begun \cup (Range(Left(t, 1)) \ Range(f.left)),
           UNCHANGED <<posted, dropped, queue>>
    PROVE  AccountInv'
<1>1. /\ stack' \in Stacks /\ \A u \in Threads \ {t} : stack'[u] = stack[u]
      /\ stack'[t][1] = f /\ 1 \in DOMAIN stack[t] /\ DOMAIN stack'[t] = DOMAIN stack[t]
      /\ \A i \in DOMAIN stack[t] \ {1} : stack'[t][i] = stack[t][i]
  BY BecomeFrames DEF TypeInv
<1>2. ASSUME NEW u \in Threads, NEW j \in DOMAIN stack'[u]
      PROVE  /\ j \in DOMAIN stack[u] /\ Range(Left(u, j)') \subseteq Range(Left(u, j))
             /\ \/ u = t /\ j = 1 /\ Left(u, j)' = f.left
                \/ <<u, j>> # <<t, 1>> /\ Left(u, j)' = Left(u, j)
  BY <1>1, <1>2 DEF Left
<1>3. QueuesApart'
  <2>1. ASSUME NEW u \in Threads, NEW j \in DOMAIN stack'[u]
        PROVE  IsInjective(Left(u, j)') /\ Range(Left(u, j)') \cap Range(queue') = {}
    BY <1>2, <2>1 DEF AccountInv, QueuesApart
  <2>2. ASSUME NEW u \in Threads, NEW v \in Threads, NEW j \in DOMAIN stack'[u],
               NEW k \in DOMAIN stack'[v], <<u, j>> # <<v, k>>
        PROVE  Range(Left(u, j)') \cap Range(Left(v, k)') = {}
    <3>1. Range(Left(u, j)) \cap Range(Left(v, k)) = {}
      BY <1>2, <2>2 DEF AccountInv, QueuesApart
    <3> QED  BY <1>2, <3>1
  <2>3. IsInjective(queue')
    BY DEF AccountInv, QueuesApart
  <2> QED  BY <2>1, <2>2, <2>3 DEF QueuesApart
<1>4. TakenOnce'
  <2>1. begun' \cap dropped' = {}
    BY <1>1 DEF AccountInv, TakenOnce
  <2>2. Range(queue') \cap (begun' \cup dropped') = {}
    BY <1>1 DEF AccountInv, TakenOnce, QueuesApart
  <2>3. ASSUME NEW u \in Threads, NEW j \in DOMAIN stack'[u]
        PROVE  Range(Left(u, j)') \cap (begun' \cup dropped') = {}
    <3>1. Range(Left(u, j)) \cap (begun \cup dropped) = {}
      BY <1>2 DEF AccountInv, TakenOnce
    <3>2. CASE u = t /\ j = 1
      BY <1>2, <3>1, <3>2
    <3>3. CASE <<u, j>> # <<t, 1>>
      <4>1. Range(Left(u, j)) \cap Range(Left(t, 1)) = {}
        BY <1>1, <1>2, <3>3 DEF AccountInv, QueuesApart
      <4> QED  BY <1>2, <3>1, <4>1
    <3> QED  BY <3>2, <3>3
  <2> QED  BY <2>1, <2>2, <2>3 DEF TakenOnce
<1>5. NoneMissing'
  <2> SUFFICES ASSUME NEW e \in 1..Len(posted),
                      e \notin begun' \cup dropped \cup Range(queue)
               PROVE  \E u \in Threads : \E j \in DOMAIN stack'[u] :
                         e \in Range(Left(u, j)')
    BY DEF NoneMissing
  <2>p. PICK u \in Threads : \E i \in DOMAIN stack[u] : e \in Range(Left(u, i))
    BY DEF AccountInv, NoneMissing
  <2>1. PICK i \in DOMAIN stack[u] : e \in Range(Left(u, i))
    BY <2>p
  <2>2. i \in DOMAIN stack'[u]
    BY <1>1
  <2>3. e \in Range(Left(u, i)')
    BY <1>2, <2>1, <2>2
  <2> QED  BY <2>2, <2>3
<1> QED
  BY <1>3, <1>4, <1>5 DEF AccountInv

\* A call ends, and what is left of its local queue waits in m_event_queue.
LEMMA PopAccount ==
    ASSUME TypeInv, AccountInv, NEW t \in Threads, Pops(t),
           IsInjective(queue'), Range(queue') = Range(Left(t, 1)) \cup Range(queue),
           UNCHANGED <<posted, dropped, begun>>
    PROVE  AccountInv'
<1>1. /\ stack' \in Stacks /\ \A u \in Threads \ {t} : stack'[u] = stack[u]
      /\ \A j \in DOMAIN stack'[t] :
            /\ j \in Nat \ {0}
            /\ j + 1 \in DOMAIN stack[t] /\ stack'[t][j] = stack[t][j + 1]
      /\ \A i \in DOMAIN stack[t] :
            i # 1 => i - 1 \in DOMAIN stack'[t] /\ stack'[t][i - 1] = stack[t][i]
      /\ 1 \in DOMAIN stack[t]
  BY PopFrames, TopFrame DEF TypeInv, Pops
<1>2. ASSUME NEW u \in Threads, NEW j \in DOMAIN stack'[u]
      PROVE  \/ /\ u = t /\ j \in Nat \ {0} /\ j + 1 \in DOMAIN stack[u]
                /\ Left(u, j)' = Left(u, j + 1)
             \/ /\ u # t /\ j \in DOMAIN stack[u] /\ Left(u, j)' = Left(u, j)
  BY <1>1, <1>2 DEF Left
<1>3. QueuesApart'
  <2>1. ASSUME NEW u \in Threads, NEW j \in DOMAIN stack'[u]
        PROVE  IsInjective(Left(u, j)') /\ Range(Left(u, j)') \cap Range(queue') = {}
    <3>1. CASE u = t
      <4>1. /\ j \in Nat \ {0} /\ j + 1 \in DOMAIN stack[t]
            /\ Left(u, j)' = Left(t, j + 1) /\ <<t, j + 1>> # <<t, 1>>
        BY <1>2, <3>1
      <4>2. Range(Left(t, j + 1)) \cap Range(Left(t, 1)) = {}
        BY <1>1, <4>1 DEF AccountInv, QueuesApart
      <4> QED  BY <4>1, <4>2 DEF AccountInv, QueuesApart
    <3>2. CASE u # t
      <4>1. j \in DOMAIN stack[u] /\ Left(u, j)' = Left(u, j) /\ <<u, j>> # <<t, 1>>
        BY <1>2, <3>2
      <4>2. Range(Left(u, j)) \cap Range(Left(t, 1)) = {}
        BY <1>1, <4>1 DEF AccountInv, QueuesApart
      <4> QED  BY <4>1, <4>2 DEF AccountInv, QueuesApart
    <3> QED  BY <3>1, <3>2
  <2>2. ASSUME NEW u \in Threads, NEW v \in Threads, NEW j \in DOMAIN stack'[u],
               NEW k \in DOMAIN stack'[v], <<u, j>> # <<v, k>>
        PROVE  Range(Left(u, j)') \cap Range(Left(v, k)') = {}
    <3>1. CASE u = v /\ u = t
      <4>1. j + 1 # k + 1 /\ j + 1 \in DOMAIN stack[t] /\ k + 1 \in DOMAIN stack[t]
            /\ Left(u, j)' = Left(t, j + 1) /\ Left(v, k)' = Left(t, k + 1)
        BY <1>2, <2>2, <3>1
      <4>2. <<t, j + 1>> # <<t, k + 1>>
        BY <4>1
      <4> QED  BY <4>1, <4>2 DEF AccountInv, QueuesApart
    <3>2. CASE u # v \/ (u = v /\ u # t)
      BY <1>2, <2>2, <3>2 DEF AccountInv, QueuesApart
    <3> QED  BY <3>1, <3>2
  <2> QED  BY <2>1, <2>2 DEF QueuesApart
<1>4. TakenOnce'
  BY <1>1, <1>2 DEF AccountInv, TakenOnce
<1>5. NoneMissing'
  <2> SUFFICES ASSUME NEW e \in 1..Len(posted),
                      e \notin begun \cup dropped \cup Range(queue')
               PROVE  \E u \in Threads : \E j \in DOMAIN stack'[u] :
                         e \in Range(Left(u, j)')
    BY DEF NoneMissing
  <2>p. PICK u \in Threads : \E i \in DOMAIN stack[u] : e \in Range(Left(u, i))
    BY DEF AccountInv, NoneMissing
  <2>1. PICK i \in DOMAIN stack[u] : e \in Range(Left(u, i))
    BY <2>p
  <2>2. CASE u = t
    <3>1. i # 1
      BY <2>1, <2>2
    <3>2. i - 1 \in DOMAIN stack'[t] /\ Left(t, i - 1)' = Left(t, i)
      BY <1>1, <2>2, <3>1 DEF Left
    <3> QED  BY <2>1, <2>2, <3>2
  <2>3. CASE u # t
    BY <1>1, <2>1, <2>3 DEF Left
  <2> QED  BY <2>2, <2>3
<1> QED
  BY <1>3, <1>4, <1>5 DEF AccountInv

\* What the clients do to the queue: an event joins it, it is dropped, or it stays.
LEMMA ClientQueue ==
    ASSUME Clients
    PROVE  \/ \E ty \in Types : Post(ty)
           \/ ClearPending
           \/ UNCHANGED <<queue, posted, dropped>>
BY DEF Clients, Post, Notify, ClearPending, Subscribe, Unsubscribe, UnsubscribeAll,
       SetExceptionHandler, RegisterAwaiter, Deactivate, CloseBegin, CloseFinish, Erase,
       queueVars

\* Every event stays accounted for.
LEMMA AccountStep ==
    ASSUME TypeInv, AccountInv, [Next]_vars
    PROVE  AccountInv'
<1>0. /\ Len(posted) \in Nat /\ queue \in Seq(1..Len(posted))
      /\ begun \subseteq 1..Len(posted) /\ dropped \subseteq 1..Len(posted)
      /\ \A t \in Threads : \A i \in DOMAIN stack[t] : Left(t, i) \in Seq(1..Len(posted))
  BY DEF TypeInv, BusOK, FramesOK, FrameOK, Left
<1>1. ASSUME NEW ty \in Types, Post(ty) PROVE AccountInv'
  <2> DEFINE e == Len(posted) + 1
  <2>1. /\ UNCHANGED <<stack, begun, dropped>> /\ Len(posted') = e
        /\ queue' = Append(queue, e)
    BY <1>1 DEF Post, TypeInv, BusOK
  <2>2. \A s \in Seq(1..Len(posted)) : e \notin Range(s)
    BY <1>0 DEF Range
  <2>3. e \notin begun \cup dropped
    BY <1>0
  <2>4. IsInjective(queue') /\ Range(queue') = Range(queue) \cup {e}
    BY <1>0, <2>1, <2>2, AppendJoins DEF AccountInv, QueuesApart
  <2>5. \A t \in Threads : \A i \in DOMAIN stack[t] :
           Left(t, i)' = Left(t, i) /\ e \notin Range(Left(t, i))
    BY <1>0, <2>1, <2>2 DEF Left
  <2>6. \A d \in 1..Len(posted') : d = e \/ d \in 1..Len(posted)
    BY <1>0, <2>1
  <2> HIDE DEF e
  <2>7. QueuesApart'
    BY <2>1, <2>4, <2>5 DEF AccountInv, QueuesApart
  <2>8. TakenOnce'
    BY <2>1, <2>3, <2>4, <2>5 DEF AccountInv, TakenOnce
  <2>9. NoneMissing'
    BY <2>1, <2>4, <2>5, <2>6 DEF AccountInv, NoneMissing
  <2> QED  BY <2>7, <2>8, <2>9 DEF AccountInv
<1>2. CASE ClearPending
  <2>1. /\ UNCHANGED <<stack, begun, posted>> /\ dropped' = dropped \cup Range(queue)
        /\ IsInjective(queue') /\ Range(queue') = {}
        /\ \A t \in Threads : \A i \in DOMAIN stack[t] : Left(t, i)' = Left(t, i)
    BY <1>2, NoneWaits DEF ClearPending, Left
  <2>2. QueuesApart'
    BY <2>1 DEF AccountInv, QueuesApart
  <2>3. TakenOnce'
    BY <2>1 DEF AccountInv, TakenOnce, QueuesApart
  <2>4. NoneMissing'
    BY <2>1 DEF AccountInv, NoneMissing
  <2> QED  BY <2>2, <2>3, <2>4 DEF AccountInv
<1>3. CASE UNCHANGED <<queue, posted, dropped, stack, begun>>
  BY <1>3 DEF AccountInv, QueuesApart, TakenOnce, NoneMissing, Left
<1>4. CASE Clients
  BY <1>1, <1>2, <1>3, <1>4, ClientFrames, ClientQueue
<1>5. ASSUME NEW t \in Threads, NEW ty \in Types, EmitBegin(t, ty) PROVE AccountInv'
  <2>1. PICK f \in Frame : Pushes(t, f) /\ f.left = <<>>
    BY <1>5, EmitFrames
  <2>2. UNCHANGED <<posted, dropped, begun, queue>>
    BY <1>5, EmitFrames DEF queueVars
  <2>3. IsInjective(queue)
    BY DEF AccountInv, QueuesApart
  <2> QED  BY <2>1, <2>2, <2>3, NoneWaits, PushAccount
<1>6. ASSUME NEW t \in Pumps, ProcessBegin(t) PROVE AccountInv'
  <2>1. PICK f \in Frame : Pushes(t, f) /\ f.left = queue
    BY <1>6, ProcessFrames
  <2>2. UNCHANGED <<posted, dropped, begun>> /\ queue' = <<>> /\ t \in Threads
    BY <1>6, ProcessFrames
  <2>3. IsInjective(queue)
    BY DEF AccountInv, QueuesApart
  <2> QED  BY <2>1, <2>2, <2>3, NoneWaits, PushAccount
<1>7. ASSUME NEW t \in Threads, Steps(t) PROVE AccountInv'
  <2>1. /\ stack[t] # <<>> /\ UNCHANGED <<posted, dropped>>
        /\ Continues(t) \/ Takes(t) \/ Ends(t)
    BY <1>7, StepShapes
  <2>2. 1 \in DOMAIN stack[t]
    BY <2>1, TopFrame
  <2>3. /\ IsInjective(Left(t, 1)) /\ IsInjective(queue)
        /\ Range(Left(t, 1)) \cap Range(queue) = {} /\ Left(t, 1) \in Seq(1..Len(posted))
    BY <1>0, <2>2 DEF AccountInv, QueuesApart
  <2>4. CASE Continues(t)
    <3>1. PICK f \in Frame :
             Becomes(t, f) /\ f.left = Left(t, 1) /\ UNCHANGED <<queue, begun>>
      BY <2>4 DEF Continues, Left
    <3> QED  BY <2>1, <2>3, <3>1, BecomeAccount
  <2>5. CASE Takes(t)
    <3>1. PICK f \in Frame :
             /\ Becomes(t, f) /\ f.left = Tail(Left(t, 1)) /\ Left(t, 1) # <<>>
             /\ begun' = begun \cup {Head(Left(t, 1))} /\ UNCHANGED queue
      BY <2>5 DEF Takes, Left
    <3>2. /\ IsInjective(f.left) /\ Head(Left(t, 1)) \in Range(Left(t, 1))
          /\ Range(f.left) = Range(Left(t, 1)) \ {Head(Left(t, 1))}
      BY <2>3, <3>1, TailTakes
    <3>3. Range(Left(t, 1)) \ Range(f.left) = {Head(Left(t, 1))}
      BY <3>2
    <3> QED  BY <2>1, <3>1, <3>2, <3>3, BecomeAccount
  <2>6. CASE Ends(t)
    <3>1. Pops(t) /\ queue' = Left(t, 1) \o queue /\ begun' = begun
      BY <2>6 DEF Ends, Left
    <3>2. IsInjective(queue') /\ Range(queue') = Range(Left(t, 1)) \cup Range(queue)
      BY <1>0, <2>3, <3>1, ConcatKeeps
    <3> QED  BY <2>1, <3>1, <3>2, PopAccount
  <2> QED  BY <2>1, <2>4, <2>5, <2>6
<1>8. CASE UNCHANGED vars
  BY <1>3, <1>8 DEF vars, queueVars
<1> QED
  BY <1>4, <1>5, <1>6, <1>7, <1>8, NextCases

\* At the start there is no event.
LEMMA AccountInit == Init => AccountInv
<1> SUFFICES ASSUME Init PROVE AccountInv
  OBVIOUS
<1>1. /\ IsInjective(queue) /\ Range(queue) = {}
      /\ \A t \in Threads : DOMAIN stack[t] = {}
      /\ Len(posted) = 0 /\ begun = {} /\ dropped = {}
  BY NoneWaits, EmptySeq DEF Init
<1> QED
  BY <1>1 DEF AccountInv, QueuesApart, TakenOnce, NoneMissing

\* The size of a set with at most one element.
LEMMA SizeOfOne ==
    ASSUME NEW S, \A x, y \in S : x = y
    PROVE  /\ S = {} => Cardinality(S) = 0
           /\ S # {} => Cardinality(S) = 1
<1>1. S = {} => Cardinality(S) = 0
  BY FS_EmptySet
<1>2. ASSUME NEW x \in S PROVE Cardinality(S) = 1
  <2>1. S = {x}
    OBVIOUS
  <2> QED  BY <2>1, FS_Singleton
<1> QED
  BY <1>1, <1>2

\* AccountInv in the numbers of EventsAccounted.
LEMMA AccountCounts == TypeInv /\ AccountInv => EventsAccounted
<1> SUFFICES ASSUME TypeInv, AccountInv, NEW e \in 1..Len(posted)
             PROVE  Cardinality(QueuedAt(e)) + Cardinality(CapturedAt(e))
                      + Cardinality({e} \cap begun) + Cardinality({e} \cap dropped) = 1
  BY DEF EventsAccounted
<1>d. \A t \in Threads : \A i \in DOMAIN stack[t] : i \in 1..MaxDepth
  <2> SUFFICES ASSUME NEW t \in Threads, NEW i \in DOMAIN stack[t] PROVE i \in 1..MaxDepth
    OBVIOUS
  <2>1. /\ Len(stack[t]) \in Nat /\ DOMAIN stack[t] = 1..Len(stack[t])
        /\ Len(stack[t]) <= MaxDepth
    BY LenProperties DEF TypeInv, Stacks, FramesOK
  <2> QED  BY <2>1, BusAssumption
<1>1. /\ \A x, y \in QueuedAt(e) : x = y
      /\ QueuedAt(e) # {} <=> e \in Range(queue)
  BY DEF QueuedAt, Range, AccountInv, QueuesApart, IsInjective
<1> DEFINE Spot(x) ==
             /\ x = <<x[1], x[2]>> /\ x[1] = <<x[1][1], x[1][2]>>
             /\ x[1][1] \in Threads /\ x[1][2] \in DOMAIN stack[x[1][1]]
             /\ x[2] \in DOMAIN Left(x[1][1], x[1][2])
             /\ Left(x[1][1], x[1][2])[x[2]] = e
<1>2. ASSUME NEW x \in CapturedAt(e) PROVE Spot(x)
  <2>1. PICK p \in Threads \X (1..MaxDepth) :
           /\ p[2] \in DOMAIN stack[p[1]]
           /\ \E i \in DOMAIN Left(p[1], p[2]) : Left(p[1], p[2])[i] = e /\ x = <<p, i>>
    BY <1>2, Zenon DEF CapturedAt, Left
  <2>2. PICK i \in DOMAIN Left(p[1], p[2]) : Left(p[1], p[2])[i] = e /\ x = <<p, i>>
    BY <2>1
  <2>3. x[1] = p /\ x[2] = i /\ p = <<p[1], p[2]>> /\ p[1] \in Threads
    BY <2>1, <2>2
  <2> QED  BY <2>1, <2>2, <2>3
<1>3. \A x, y \in CapturedAt(e) : x = y
  <2> SUFFICES ASSUME NEW x \in CapturedAt(e), NEW y \in CapturedAt(e) PROVE x = y
    OBVIOUS
  <2>1. Spot(x) /\ Spot(y)
    BY <1>2
  <2>2. /\ e \in Range(Left(x[1][1], x[1][2])) /\ e \in Range(Left(y[1][1], y[1][2]))
    BY <2>1 DEF Range
  <2>3. <<x[1][1], x[1][2]>> = <<y[1][1], y[1][2]>>
    BY <2>1, <2>2 DEF AccountInv, QueuesApart
  <2>4. x[1] = y[1] /\ IsInjective(Left(x[1][1], x[1][2]))
    BY <2>1, <2>3 DEF AccountInv, QueuesApart
  <2>5. x[2] = y[2]
    BY <2>1, <2>4 DEF IsInjective
  <2> QED  BY <2>1, <2>4, <2>5
<1>4. CapturedAt(e) # {} <=>
        \E t \in Threads : \E i \in DOMAIN stack[t] : e \in Range(Left(t, i))
  <2>1. ASSUME NEW x \in CapturedAt(e)
        PROVE  \E t \in Threads : \E i \in DOMAIN stack[t] : e \in Range(Left(t, i))
    BY <1>2, <2>1 DEF Range
  <2>2. ASSUME NEW t \in Threads, NEW i \in DOMAIN stack[t], e \in Range(Left(t, i))
        PROVE  CapturedAt(e) # {}
    <3>1. PICK k \in DOMAIN Left(t, i) : Left(t, i)[k] = e
      BY <2>2 DEF Range
    <3> DEFINE p == <<t, i>>
    <3>2. p \in Threads \X (1..MaxDepth) /\ p[1] = t /\ p[2] = i
      BY <1>d
    <3>3. p \in {q \in Threads \X (1..MaxDepth) : q[2] \in DOMAIN stack[q[1]]}
      BY <3>2
    <3>4. <<p, k>> \in {<<p, j>> : j \in {l \in DOMAIN stack[p[1]][p[2]].left :
                                            stack[p[1]][p[2]].left[l] = e}}
      BY <3>1, <3>2 DEF Left
    <3>5. <<p, k>> \in CapturedAt(e)
      <4> DEFINE At(q) == {<<q, j>> : j \in {l \in DOMAIN stack[q[1]][q[2]].left :
                                               stack[q[1]][q[2]].left[l] = e}}
                 Q == {q \in Threads \X (1..MaxDepth) : q[2] \in DOMAIN stack[q[1]]}
      <4>1. CapturedAt(e) = UNION {At(q) : q \in Q}
        BY Zenon DEF CapturedAt
      <4>2. p \in Q /\ <<p, k>> \in At(p)
        BY <3>3, <3>4
      <4> HIDE DEF p, At, Q
      <4> QED  BY <4>1, <4>2
    <3> QED  BY <3>5
  <2> QED  BY <2>1, <2>2
<1> HIDE DEF Spot
<1>5. /\ {e} \cap begun = {} <=> e \notin begun
      /\ {e} \cap dropped = {} <=> e \notin dropped
      /\ \A x, y \in {e} \cap begun : x = y
      /\ \A x, y \in {e} \cap dropped : x = y
  OBVIOUS
<1>6. /\ Cardinality(QueuedAt(e)) = IF e \in Range(queue) THEN 1 ELSE 0
      /\ Cardinality(CapturedAt(e)) =
           IF \E t \in Threads : \E i \in DOMAIN stack[t] : e \in Range(Left(t, i))
           THEN 1 ELSE 0
      /\ Cardinality({e} \cap begun) = IF e \in begun THEN 1 ELSE 0
      /\ Cardinality({e} \cap dropped) = IF e \in dropped THEN 1 ELSE 0
  BY <1>1, <1>3, <1>4, <1>5, SizeOfOne
<1>7. CASE e \in begun \cup dropped
  BY <1>6, <1>7 DEF AccountInv, TakenOnce
<1>8. CASE e \notin begun \cup dropped /\ e \in Range(queue)
  BY <1>6, <1>8 DEF AccountInv, QueuesApart
<1>9. CASE e \notin begun \cup dropped /\ e \notin Range(queue)
  <2>1. \E t \in Threads : \E i \in DOMAIN stack[t] : e \in Range(Left(t, i))
    BY <1>9 DEF AccountInv, NoneMissing
  <2> QED  BY <1>6, <1>9, <2>1
<1> QED
  BY <1>7, <1>8, <1>9

\* No posted event is lost, duplicated or dispatched twice, whatever the callbacks
\* throw, however process() calls nest or overlap, and with clear_pending() at any
\* time.
THEOREM NoEventLost == Spec => []EventsAccounted
<1>1. Init => TypeInv /\ AccountInv
  BY TypeInit, AccountInit
<1>2. TypeInv /\ AccountInv /\ [Next]_vars => (TypeInv /\ AccountInv)'
  BY TypeStep, AccountStep
<1> QED
  BY <1>1, <1>2, AccountCounts, PTL DEF Spec

\* The sequence s ascends, and every number of A is below every number of B.
Ascends(s) == \A i, j \in DOMAIN s : i < j => s[i] < s[j]
Below(A, B) == \A a \in A, b \in B : a < b

\* What is left behind the front of an ascending queue is above it.
LEMMA TailAscends ==
    ASSUME NEW S, NEW s \in Seq(S), s # <<>>, Ascends(s)
    PROVE  Ascends(Tail(s)) /\ Below({Head(s)}, Range(Tail(s)))
<1>1. /\ Tail(s) \in Seq(S) /\ Len(Tail(s)) = Len(s) - 1 /\ Len(s) \in Nat \ {0}
      /\ \A i \in 1..Len(Tail(s)) : Tail(s)[i] = s[i + 1]
      /\ Head(s) = s[1] /\ DOMAIN s = 1..Len(s) /\ DOMAIN Tail(s) = 1..Len(Tail(s))
  BY HeadTailProperties, LenProperties, EmptySeq
<1>2. \A i \in 1..Len(Tail(s)) : i + 1 \in DOMAIN s /\ 1 \in DOMAIN s /\ 1 < i + 1
  BY <1>1
<1>3. Ascends(Tail(s))
  <2> SUFFICES ASSUME NEW i \in 1..Len(Tail(s)), NEW j \in 1..Len(Tail(s)), i < j
               PROVE  Tail(s)[i] < Tail(s)[j]
    BY <1>1 DEF Ascends
  <2>1. i + 1 < j + 1
    OBVIOUS
  <2> QED  BY <1>1, <1>2, <2>1 DEF Ascends
<1>4. ASSUME NEW b \in Range(Tail(s)) PROVE Head(s) < b
  <2>1. PICK i \in 1..Len(Tail(s)) : b = s[i + 1]
    BY <1>1, <1>4 DEF Range
  <2> QED  BY <1>1, <1>2, <2>1 DEF Ascends
<1> QED
  BY <1>3, <1>4 DEF Below

\* An ascending queue in front of another that is above it.
LEMMA ConcatAscends ==
    ASSUME NEW S, NEW s \in Seq(S), NEW q \in Seq(S), Ascends(s), Ascends(q),
           Below(Range(s), Range(q))
    PROVE  Ascends(s \o q)
<1> DEFINE r == s \o q
<1>1. /\ r \in Seq(S) /\ Len(r) = Len(s) + Len(q) /\ Len(s) \in Nat /\ Len(q) \in Nat
      /\ \A i \in 1..Len(r) : r[i] = IF i <= Len(s) THEN s[i] ELSE q[i - Len(s)]
      /\ DOMAIN s = 1..Len(s) /\ DOMAIN q = 1..Len(q) /\ DOMAIN r = 1..Len(r)
  BY ConcatProperties, LenProperties
<1> HIDE DEF r
<1>2. \A i \in 1..Len(r) :
         \/ i \in 1..Len(s) /\ r[i] = s[i] /\ s[i] \in Range(s)
         \/ /\ i - Len(s) \in 1..Len(q) /\ r[i] = q[i - Len(s)]
            /\ q[i - Len(s)] \in Range(q)
  <2> SUFFICES ASSUME NEW i \in 1..Len(r)
               PROVE  \/ i \in 1..Len(s) /\ r[i] = s[i] /\ s[i] \in Range(s)
                      \/ /\ i - Len(s) \in 1..Len(q) /\ r[i] = q[i - Len(s)]
                         /\ q[i - Len(s)] \in Range(q)
    OBVIOUS
  <2>1. CASE i <= Len(s)
    <3>1. i \in 1..Len(s) /\ r[i] = s[i]
      BY <1>1, <2>1
    <3> QED  BY <1>1, <3>1 DEF Range
  <2>2. CASE ~(i <= Len(s))
    <3>1. i - Len(s) \in 1..Len(q) /\ r[i] = q[i - Len(s)]
      BY <1>1, <2>2
    <3> QED  BY <1>1, <3>1 DEF Range
  <2> QED  BY <2>1, <2>2
<1>3. ASSUME NEW i \in 1..Len(r), NEW j \in 1..Len(r), i < j PROVE r[i] < r[j]
  <2>1. CASE i \in 1..Len(s) /\ j \in 1..Len(s)
    <3>1. r[i] = s[i] /\ r[j] = s[j]
      BY <1>1, <1>2, <2>1
    <3> QED  BY <1>1, <1>3, <2>1, <3>1 DEF Ascends
  <2>2. CASE i - Len(s) \in 1..Len(q) /\ j - Len(s) \in 1..Len(q)
    <3>1. r[i] = q[i - Len(s)] /\ r[j] = q[j - Len(s)] /\ i - Len(s) < j - Len(s)
      BY <1>1, <1>2, <1>3, <2>2
    <3> QED  BY <1>1, <2>2, <3>1 DEF Ascends
  <2>3. CASE i \in 1..Len(s) /\ j - Len(s) \in 1..Len(q)
    <3>1. r[i] \in Range(s) /\ r[j] \in Range(q)
      BY <1>1, <1>2, <2>3
    <3> QED  BY <3>1 DEF Below
  <2>4. ~(i - Len(s) \in 1..Len(q) /\ j \in 1..Len(s))
    BY <1>1, <1>3
  <2> QED  BY <1>2, <2>1, <2>2, <2>3, <2>4
<1> QED
  BY <1>1, <1>3 DEF r, Ascends

\* An event that is newer than all of the queue joins it.
LEMMA AppendAscends ==
    ASSUME NEW n \in Nat, NEW s \in Seq(1..n), Ascends(s)
    PROVE  Ascends(Append(s, n + 1))
<1> DEFINE r == Append(s, n + 1)
<1>1. /\ Len(s) \in Nat /\ DOMAIN s = 1..Len(s) /\ DOMAIN r = 1..(Len(s) + 1)
      /\ \A i \in 1..Len(s) : r[i] = s[i] /\ s[i] \in 1..n
      /\ r[Len(s) + 1] = n + 1
  BY AppendProperties, LenProperties, ElementOfSeq
<1> HIDE DEF r
<1>2. ASSUME NEW i \in 1..(Len(s) + 1), NEW j \in 1..(Len(s) + 1), i < j PROVE r[i] < r[j]
  <2>1. i \in 1..Len(s) /\ (j \in 1..Len(s) \/ j = Len(s) + 1)
    BY <1>1, <1>2
  <2>2. CASE j \in 1..Len(s)
    BY <1>1, <1>2, <2>1, <2>2 DEF Ascends
  <2>3. CASE j = Len(s) + 1
    BY <1>1, <2>1, <2>3
  <2> QED  BY <2>1, <2>2, <2>3
<1> QED
  BY <1>1, <1>2 DEF r, Ascends

--------------------------------------------------------------------------------
(* Order, where one thread calls process() and no callback does. *)

OnePump == (\A p, q \in Pumps : p = q) /\ Reentrant = FALSE

\* A process() call is the outermost call of a pump.
PumpOutside ==
    \A t \in Threads : \A i \in DOMAIN stack[t] :
        stack[t][i].call = "process" => t \in Pumps /\ i = Len(stack[t])

\* The queues ascend, what is captured is older than what is queued, and what has
\* begun is older than what waits.
InOrder ==
    /\ Ascends(queue) /\ Below(begun, Range(queue))
    /\ \A t \in Threads : \A i \in DOMAIN stack[t] :
          /\ Ascends(Left(t, i))
          /\ Below(Range(Left(t, i)), Range(queue))
          /\ Below(begun, Range(Left(t, i)))

OrderInv == PumpOutside /\ InOrder

\* There is one local queue at a time.
LEMMA OneLocalQueue ==
    ASSUME OnePump, TypeInv, PumpOutside,
           NEW t \in Threads, NEW u \in Threads,
           NEW i \in DOMAIN stack[t], NEW j \in DOMAIN stack[u],
           Range(Left(t, i)) # {}, Range(Left(u, j)) # {}
    PROVE  t = u /\ i = j
<1>1. \A v \in Threads : \A k \in DOMAIN stack[v] :
         Range(Left(v, k)) # {} => stack[v][k].call = "process"
  <2> SUFFICES ASSUME NEW v \in Threads, NEW k \in DOMAIN stack[v], Range(Left(v, k)) # {}
               PROVE  stack[v][k].call = "process"
    OBVIOUS
  <2>1. stack[v][k] \in Frame /\ FrameOK(stack[v][k], Len(record), Len(posted))
    BY ElementOfSeq, LenProperties DEF TypeInv, FramesOK, Stacks
  <2>2. Left(v, k) # <<>>
    BY NoneWaits
  <2> QED  BY <2>1, <2>2 DEF FrameOK, Frame, Left
<1> QED
  BY <1>1 DEF PumpOutside, OnePump

\* process() calls stay outermost.
LEMMA PumpStep ==
    ASSUME OnePump, TypeInv, PumpOutside, [Next]_vars
    PROVE  PumpOutside'
<1>s. /\ stack \in Stacks /\ \A t \in Threads : Len(stack[t]) \in Nat
  BY LenProperties DEF TypeInv, Stacks
<1>1. CASE stack' = stack
  BY <1>1 DEF PumpOutside
<1>2. ASSUME NEW t \in Threads, NEW f \in Frame, Pushes(t, f),
             f.call = "process" => t \in Pumps /\ stack[t] = <<>>
      PROVE  PumpOutside'
  <2>1. /\ \A u \in Threads \ {t} : stack'[u] = stack[u]
        /\ stack'[t][1] = f /\ Len(stack'[t]) = Len(stack[t]) + 1
        /\ \A j \in DOMAIN stack'[t] :
              /\ j \in Nat \ {0}
              /\ j # 1 => j - 1 \in DOMAIN stack[t] /\ stack'[t][j] = stack[t][j - 1]
    BY <1>2, <1>s, PushFrames
  <2>2. ASSUME NEW j \in DOMAIN stack'[t], stack'[t][j].call = "process"
        PROVE  t \in Pumps /\ j = Len(stack'[t])
    <3>1. CASE j = 1
      BY <1>2, <2>1, <2>2, <3>1, EmptySeq
    <3>2. CASE j # 1
      BY <1>s, <2>1, <2>2, <3>2 DEF PumpOutside
    <3> QED  BY <3>1, <3>2
  <2> QED  BY <2>1, <2>2 DEF PumpOutside
<1>3. CASE Clients
  BY <1>1, <1>3, ClientFrames
<1>4. ASSUME NEW t \in Threads, NEW ty \in Types, EmitBegin(t, ty) PROVE PumpOutside'
  BY <1>2, <1>4, EmitFrames
<1>5. ASSUME NEW t \in Pumps, ProcessBegin(t) PROVE PumpOutside'
  BY <1>2, <1>5, ProcessFrames DEF OnePump
<1>6. ASSUME NEW t \in Threads, Steps(t) PROVE PumpOutside'
  <2>1. stack[t] # <<>> /\ (Continues(t) \/ Takes(t) \/ Ends(t))
    BY <1>6, StepShapes
  <2>2. ASSUME NEW f \in Frame, Becomes(t, f), f.call = stack[t][1].call
        PROVE  PumpOutside'
    <3>1. /\ \A u \in Threads \ {t} : stack'[u] = stack[u]
          /\ stack'[t][1] = f /\ Len(stack'[t]) = Len(stack[t])
          /\ 1 \in DOMAIN stack[t] /\ DOMAIN stack'[t] = DOMAIN stack[t]
          /\ \A i \in DOMAIN stack[t] \ {1} : stack'[t][i] = stack[t][i]
      BY <1>s, <2>2, BecomeFrames
    <3> QED  BY <2>2, <3>1 DEF PumpOutside
  <2>3. CASE Ends(t)
    <3>1. /\ \A u \in Threads \ {t} : stack'[u] = stack[u]
          /\ Len(stack'[t]) = Len(stack[t]) - 1
          /\ \A j \in DOMAIN stack'[t] :
                /\ j \in Nat \ {0}
                /\ j + 1 \in DOMAIN stack[t] /\ stack'[t][j] = stack[t][j + 1]
      BY <1>s, <2>3, PopFrames DEF Ends
    <3>2. ASSUME NEW j \in DOMAIN stack'[t], stack'[t][j].call = "process"
          PROVE  t \in Pumps /\ j = Len(stack'[t])
      <4>1. t \in Pumps /\ j + 1 = Len(stack[t])
        BY <3>1, <3>2 DEF PumpOutside
      <4> QED  BY <1>s, <3>1, <4>1
    <3> QED  BY <3>1, <3>2 DEF PumpOutside
  <2> QED  BY <2>1, <2>2, <2>3 DEF Continues, Takes
<1>7. CASE UNCHANGED vars
  BY <1>1, <1>7 DEF vars
<1> QED
  BY <1>3, <1>4, <1>5, <1>6, <1>7, NextCases

\* The order is kept: what is captured, or put back, is older than what waits.
LEMMA OrderStep ==
    ASSUME OnePump, TypeInv, AccountInv, OrderInv, [Next]_vars
    PROVE  InOrder'
<1>0. /\ Len(posted) \in Nat /\ queue \in Seq(1..Len(posted)) /\ stack \in Stacks
      /\ begun \subseteq 1..Len(posted)
      /\ \A t \in Threads : \A i \in DOMAIN stack[t] : Left(t, i) \in Seq(1..Len(posted))
  BY DEF TypeInv, BusOK, FramesOK, FrameOK, Left
<1>1. ASSUME NEW ty \in Types, Post(ty) PROVE InOrder'
  <2> DEFINE e == Len(posted) + 1
  <2>1. /\ UNCHANGED <<stack, begun>> /\ queue' = Append(queue, e)
        /\ \A t \in Threads : \A i \in DOMAIN stack[t] : Left(t, i)' = Left(t, i)
    BY <1>1 DEF Post, TypeInv, BusOK, Left
  <2>2. \A s \in Seq(1..Len(posted)) : Range(s) \subseteq 1..Len(posted)
    BY DEF Range
  <2>3. e \notin Range(queue)
    BY <1>0, <2>2
  <2>4. Ascends(queue') /\ Range(queue') = Range(queue) \cup {e}
    BY <1>0, <2>1, <2>3, AppendAscends, AppendJoins
       DEF OrderInv, InOrder, AccountInv, QueuesApart
  <2>5. \A A : A \subseteq 1..Len(posted) => Below(A, {e})
    BY <1>0 DEF Below
  <2>6. /\ Below(begun, {e})
        /\ \A t \in Threads : \A i \in DOMAIN stack[t] : Below(Range(Left(t, i)), {e})
    BY <1>0, <2>2, <2>5
  <2>7. \A A : Below(A, Range(queue)) /\ Below(A, {e}) => Below(A, Range(queue'))
    BY <2>4 DEF Below
  <2> HIDE DEF e
  <2> QED  BY <2>1, <2>4, <2>6, <2>7 DEF OrderInv, InOrder
<1>2. \A A, B, C : /\ Below({}, A) /\ Below(A, {})
                   /\ Below(A, C) /\ B \subseteq A => Below(B, C)
                   /\ Below(C, A) /\ B \subseteq A => Below(C, B)
                   /\ Below(A, C) /\ Below(B, C) => Below(A \cup B, C)
                   /\ Below(C, A) /\ Below(C, B) => Below(C, A \cup B)
  BY DEF Below
<1>3. CASE UNCHANGED <<queue, stack, begun>>
  BY <1>3 DEF OrderInv, InOrder, Left
<1>e. Ascends(<<>>)
  BY EmptySeq DEF Ascends
<1>4. CASE Clients
  <2>1. UNCHANGED <<stack, begun>>
    BY <1>4, ClientFrames
  <2>2. CASE ClearPending
    <3>1. Ascends(queue') /\ Range(queue') = {}
      BY <1>e, <2>2, NoneWaits DEF ClearPending
    <3> QED  BY <1>2, <2>1, <3>1 DEF OrderInv, InOrder, Left
  <2> QED  BY <1>1, <1>3, <1>4, <2>1, <2>2, ClientQueue
<1>5. ASSUME NEW t \in Threads, NEW f \in Frame, Pushes(t, f), begun' = begun,
             \/ f.left = <<>> /\ queue' = queue
             \/ f.left = queue /\ queue' = <<>>
      PROVE  InOrder'
  <2>1. /\ \A u \in Threads \ {t} : stack'[u] = stack[u]
        /\ stack'[t][1] = f
        /\ \A j \in DOMAIN stack'[t] :
              j # 1 => j - 1 \in DOMAIN stack[t] /\ stack'[t][j] = stack[t][j - 1]
    BY <1>0, <1>5, PushFrames
  <2>2. /\ Ascends(f.left) /\ Ascends(queue') /\ Below(begun, Range(f.left))
        /\ Below(Range(f.left), Range(queue'))
        /\ Range(queue') \subseteq Range(queue)
    BY <1>2, <1>5, <1>e, NoneWaits DEF OrderInv, InOrder
  <2>3. ASSUME NEW u \in Threads, NEW j \in DOMAIN stack'[u]
        PROVE  \/ Left(u, j)' = f.left
               \/ \E i \in DOMAIN stack[u] : Left(u, j)' = Left(u, i)
    BY <2>1, <2>3 DEF Left
  <2>4. ASSUME NEW u \in Threads, NEW j \in DOMAIN stack'[u]
        PROVE  /\ Ascends(Left(u, j)') /\ Below(Range(Left(u, j)'), Range(queue'))
               /\ Below(begun, Range(Left(u, j)'))
    BY <1>2, <2>2, <2>3, <2>4 DEF OrderInv, InOrder
  <2>5. Below(begun, Range(queue'))
    BY <1>2, <2>2 DEF OrderInv, InOrder
  <2> QED  BY <1>5, <2>2, <2>4, <2>5 DEF InOrder
<1>6. ASSUME NEW t \in Threads, NEW ty \in Types, EmitBegin(t, ty) PROVE InOrder'
  BY <1>5, <1>6, EmitFrames DEF queueVars
<1>7. ASSUME NEW t \in Pumps, ProcessBegin(t) PROVE InOrder'
  BY <1>5, <1>7, ProcessFrames
<1>8. ASSUME NEW t \in Threads, Steps(t) PROVE InOrder'
  <2>1. stack[t] # <<>> /\ (Continues(t) \/ Takes(t) \/ Ends(t))
    BY <1>8, StepShapes
  <2>2. 1 \in DOMAIN stack[t]
    BY <2>1, TopFrame
  <2>3. ASSUME NEW u \in Threads, NEW j \in DOMAIN stack[u], Range(Left(t, 1)) # {},
               <<u, j>> # <<t, 1>>
        PROVE  Range(Left(u, j)) = {}
    BY <2>2, <2>3, OneLocalQueue DEF OrderInv
  <2>4. ASSUME NEW f \in Frame, Becomes(t, f)
        PROVE  /\ \A u \in Threads : \A j \in DOMAIN stack'[u] :
                     \/ u = t /\ j = 1 /\ Left(u, j)' = f.left
                     \/ /\ <<u, j>> # <<t, 1>> /\ j \in DOMAIN stack[u]
                        /\ Left(u, j)' = Left(u, j)
    BY <1>0, <2>4, BecomeFrames DEF Left
  <2>5. CASE Continues(t)
    <3>1. PICK f \in Frame :
             Becomes(t, f) /\ f.left = Left(t, 1) /\ UNCHANGED <<queue, begun>>
      BY <2>5 DEF Continues, Left
    <3> QED  BY <2>2, <2>4, <3>1 DEF OrderInv, InOrder
  <2>6. CASE Takes(t)
    <3> DEFINE h == Head(Left(t, 1))
    <3>1. PICK f \in Frame :
             /\ Becomes(t, f) /\ f.left = Tail(Left(t, 1)) /\ Left(t, 1) # <<>>
             /\ begun' = begun \cup {h} /\ UNCHANGED queue
      BY <2>6 DEF Takes, Left
    <3>2. /\ h \in Range(Left(t, 1)) /\ Range(f.left) \subseteq Range(Left(t, 1))
      BY <1>0, <2>2, <3>1, TailTakes DEF AccountInv, QueuesApart
    <3>3. Ascends(f.left) /\ Below({h}, Range(f.left))
      BY <1>0, <2>2, <3>1, TailAscends DEF OrderInv, InOrder
    <3> HIDE DEF h
    <3>h. {h} \subseteq Range(Left(t, 1))
      BY <3>2
    <3>4. /\ Below(Range(f.left), Range(queue)) /\ Below({h}, Range(queue))
          /\ Below(begun, Range(f.left)) /\ Below(begun, Range(queue))
      <4>1. /\ Below(Range(Left(t, 1)), Range(queue)) /\ Below(begun, Range(Left(t, 1)))
            /\ Below(begun, Range(queue))
        BY <2>2 DEF OrderInv, InOrder
      <4>2. Below(Range(f.left), Range(queue)) /\ Below(begun, Range(f.left))
        BY <3>2, <4>1 DEF Below
      <4>3. Below({h}, Range(queue))
        BY <3>h, <4>1 DEF Below
      <4> QED  BY <4>1, <4>2, <4>3
    <3>5. Below(begun', Range(queue')) /\ Below(begun', Range(f.left))
      BY <1>2, <3>1, <3>3, <3>4
    <3>6. ASSUME NEW u \in Threads, NEW j \in DOMAIN stack'[u]
          PROVE  /\ Ascends(Left(u, j)') /\ Below(Range(Left(u, j)'), Range(queue'))
                 /\ Below(begun', Range(Left(u, j)'))
      <4>1. CASE Left(u, j)' = f.left
        BY <3>1, <3>3, <3>4, <3>5, <4>1
      <4>2. CASE <<u, j>> # <<t, 1>> /\ j \in DOMAIN stack[u] /\ Left(u, j)' = Left(u, j)
        <5>1. Range(Left(u, j)) = {} /\ Ascends(Left(u, j))
          BY <2>3, <3>2, <4>2 DEF OrderInv, InOrder
        <5> QED  BY <1>2, <4>2, <5>1
      <4> QED  BY <2>4, <3>1, <3>6, <4>1, <4>2
    <3> QED  BY <3>1, <3>5, <3>6 DEF OrderInv, InOrder
  <2>7. CASE Ends(t)
    <3>1. Pops(t) /\ queue' = Left(t, 1) \o queue /\ begun' = begun
      BY <2>7 DEF Ends, Left
    <3>2. Range(queue') = Range(Left(t, 1)) \cup Range(queue)
      BY <1>0, <2>2, <3>1, ConcatKeeps DEF AccountInv, QueuesApart
    <3>3. Ascends(queue')
      BY <1>0, <2>2, <3>1, ConcatAscends DEF OrderInv, InOrder
    <3>4. Below(begun', Range(queue'))
      BY <1>2, <2>2, <3>1, <3>2 DEF OrderInv, InOrder
    <3>5. ASSUME NEW u \in Threads, NEW j \in DOMAIN stack'[u]
          PROVE  \E i \in DOMAIN stack[u] :
                    <<u, i>> # <<t, 1>> /\ Left(u, j)' = Left(u, i)
      <4>1. /\ \A v \in Threads \ {t} : stack'[v] = stack[v]
            /\ \A k \in DOMAIN stack'[t] :
                  /\ k \in Nat \ {0}
                  /\ k + 1 \in DOMAIN stack[t] /\ stack'[t][k] = stack[t][k + 1]
        BY <1>0, <3>1, PopFrames
      <4>2. CASE u = t
        <5>1. j + 1 # 1 /\ j + 1 \in DOMAIN stack[u] /\ Left(u, j)' = Left(u, j + 1)
          BY <3>5, <4>1, <4>2 DEF Left
        <5> QED  BY <5>1
      <4>3. CASE u # t
        BY <3>5, <4>1, <4>3 DEF Left
      <4> QED  BY <4>2, <4>3
    <3>6. ASSUME NEW u \in Threads, NEW j \in DOMAIN stack'[u]
          PROVE  /\ Ascends(Left(u, j)') /\ Below(Range(Left(u, j)'), Range(queue'))
                 /\ Below(begun', Range(Left(u, j)'))
      <4>1. PICK i \in DOMAIN stack[u] : <<u, i>> # <<t, 1>> /\ Left(u, j)' = Left(u, i)
        BY <3>5
      <4>2. /\ Ascends(Left(u, i)) /\ Below(Range(Left(u, i)), Range(queue))
            /\ Below(begun, Range(Left(u, i)))
        BY DEF OrderInv, InOrder
      <4>3. Below(Range(Left(u, i)), Range(Left(t, 1)))
        BY <1>2, <2>3, <4>1
      <4>4. Below(Range(Left(u, i)), Range(queue'))
        BY <1>2, <3>2, <4>2, <4>3
      <4> QED  BY <3>1, <4>1, <4>2, <4>4
    <3> QED  BY <3>3, <3>4, <3>6 DEF InOrder
  <2> QED  BY <2>1, <2>5, <2>6, <2>7
<1>9. CASE UNCHANGED vars
  BY <1>3, <1>9 DEF vars, queueVars
<1> QED
  BY <1>4, <1>6, <1>7, <1>8, <1>9, NextCases

\* At the start nothing waits.
LEMMA OrderInit == Init => OrderInv
<1> SUFFICES ASSUME Init PROVE OrderInv
  OBVIOUS
<1>1. /\ queue = <<>> /\ DOMAIN queue = {} /\ Range(queue) = {}
      /\ \A t \in Threads : DOMAIN stack[t] = {}
  BY NoneWaits, EmptySeq DEF Init
<1> QED
  BY <1>1 DEF OrderInv, PumpOutside, InOrder, Ascends, Below

\* What was posted before an event that has begun was taken before.
LEMMA OrderImplies == TypeInv /\ AccountInv /\ OrderInv => DispatchedInOrder
<1> SUFFICES ASSUME TypeInv, AccountInv, OrderInv,
                    NEW e \in begun, NEW d \in 1..(e - 1), d \notin begun \cup dropped
             PROVE  FALSE
  BY DEF DispatchedInOrder
<1>1. Len(posted) \in Nat /\ e \in 1..Len(posted)
  BY DEF TypeInv, BusOK
<1>2. d \in 1..Len(posted) /\ ~(e < d)
  BY <1>1
<1>3. d \notin Range(queue)
  BY <1>2 DEF OrderInv, InOrder, Below
<1>4. \A t \in Threads : \A i \in DOMAIN stack[t] : d \notin Range(Left(t, i))
  BY <1>2 DEF OrderInv, InOrder, Below
<1> QED
  BY <1>2, <1>3, <1>4 DEF AccountInv, NoneMissing

\* With one thread calling process(), and not from a callback, events are
\* dispatched in the order in which they were posted, also after an exception has
\* put the rest of a local queue back among newer posts.
THEOREM InOrderOfPosting == ASSUME OnePump PROVE Spec => []DispatchedInOrder
<1>1. Init => TypeInv /\ AccountInv /\ OrderInv
  BY TypeInit, AccountInit, OrderInit
<1>2. TypeInv /\ AccountInv /\ OrderInv /\ [Next]_vars
        => (TypeInv /\ AccountInv /\ OrderInv)'
  BY TypeStep, AccountStep, OrderStep, PumpStep DEF OrderInv
<1> QED
  BY <1>1, <1>2, OrderImplies, PTL DEF Spec

--------------------------------------------------------------------------------
(* The bus keeps its contract: which call dispatches which event. *)

\* The calls that dispatch event e, in any stacks of calls.
CallsIn(calls, e) ==
    UNION {{f \in Range(calls[t]) : f.event = e} : t \in Threads}

LEMMA CallsAre ==
    ASSUME NEW calls, NEW e, NEW f
    PROVE  f \in CallsIn(calls, e) <=>
              f.event = e /\ \E t \in Threads : \E i \in DOMAIN calls[t] : f = calls[t][i]
BY DEF CallsIn, Range

\* A call that dispatches an event has taken it, and is not between two events.
Dispatches(f, taken) ==
    /\ f.event # 0 =>
          /\ f.event \in taken /\ f.call = "process"
          /\ f.step \in {"dispatching", "running", "handling", "unwinding"}
    /\ f.step = "unwinding" => f.todo = {}

\* No two calls dispatch the same event.
Apart(calls) ==
    \A t, u \in Threads : \A i \in DOMAIN calls[t], j \in DOMAIN calls[u] :
        calls[t][i].event # 0 /\ calls[t][i].event = calls[u][j].event
            => t = u /\ i = j

DispatchInv ==
    /\ \A t \in Threads : \A i \in DOMAIN stack[t] : Dispatches(stack[t][i], begun)
    /\ Apart(stack)

\* So there is at most one call for an event.
LEMMA OneCall ==
    ASSUME NEW calls, Apart(calls), NEW t \in Threads, NEW i \in DOMAIN calls[t],
           calls[t][i].event # 0
    PROVE  CallsIn(calls, calls[t][i].event) = {calls[t][i]}
<1> DEFINE e == calls[t][i].event
<1>1. calls[t][i] \in CallsIn(calls, e)
  BY CallsAre
<1>2. ASSUME NEW f \in CallsIn(calls, e) PROVE f = calls[t][i]
  <2>0. PICK u \in Threads : \E j \in DOMAIN calls[u] : f = calls[u][j] /\ f.event = e
    BY CallsAre
  <2>1. PICK j \in DOMAIN calls[u] : f = calls[u][j] /\ f.event = e
    BY <2>0
  <2>2. u = t /\ j = i
    BY <2>1 DEF Apart
  <2> QED  BY <2>1, <2>2
<1> QED
  BY <1>1, <1>2

\* A call that begins dispatches no event yet.
LEMMA PushCalls ==
    ASSUME stack \in Stacks, NEW t \in Threads, NEW f \in Frame, Pushes(t, f),
           f.event = 0, NEW e \in Events
    PROVE  CallsIn(stack', e) = CallsIn(stack, e)
<1>1. /\ \A u \in Threads \ {t} : stack'[u] = stack[u]
      /\ stack'[t][1] = f
      /\ \A j \in DOMAIN stack'[t] :
            j # 1 => j - 1 \in DOMAIN stack[t] /\ stack'[t][j] = stack[t][j - 1]
      /\ \A i \in DOMAIN stack[t] :
            i + 1 \in DOMAIN stack'[t] /\ stack'[t][i + 1] = stack[t][i]
  BY PushFrames
<1>2. e # 0
  BY DEF Events
<1>3. ASSUME NEW g \in CallsIn(stack', e) PROVE g \in CallsIn(stack, e)
  <2>0. PICK u \in Threads : \E j \in DOMAIN stack'[u] : g = stack'[u][j] /\ g.event = e
    BY CallsAre
  <2>1. PICK j \in DOMAIN stack'[u] : g = stack'[u][j] /\ g.event = e
    BY <2>0
  <2>2. CASE u = t
    <3>1. j # 1
      BY <1>1, <1>2, <2>1, <2>2
    <3> QED  BY <1>1, <2>1, <2>2, <3>1, CallsAre
  <2>3. CASE u # t
    BY <1>1, <2>1, <2>3, CallsAre
  <2> QED  BY <2>2, <2>3
<1>4. ASSUME NEW g \in CallsIn(stack, e) PROVE g \in CallsIn(stack', e)
  <2>0. PICK u \in Threads : \E i \in DOMAIN stack[u] : g = stack[u][i] /\ g.event = e
    BY CallsAre
  <2>1. PICK i \in DOMAIN stack[u] : g = stack[u][i] /\ g.event = e
    BY <2>0
  <2>2. CASE u = t
    BY <1>1, <2>1, <2>2, CallsAre
  <2>3. CASE u # t
    BY <1>1, <2>1, <2>3, CallsAre
  <2> QED  BY <2>2, <2>3
<1> QED
  BY <1>3, <1>4

\* A call that goes on, or ends, concerns the event it dispatched and the one it
\* dispatches now.
LEMMA BecomeCalls ==
    ASSUME stack \in Stacks, NEW t \in Threads, NEW f \in Frame, Becomes(t, f),
           NEW e \in Events, e \notin {f.event, stack[t][1].event}
    PROVE  CallsIn(stack', e) = CallsIn(stack, e)
<1>1. /\ \A u \in Threads \ {t} : stack'[u] = stack[u]
      /\ stack'[t][1] = f /\ DOMAIN stack'[t] = DOMAIN stack[t]
      /\ \A i \in DOMAIN stack[t] \ {1} : stack'[t][i] = stack[t][i]
  BY BecomeFrames
<1>2. ASSUME NEW g \in CallsIn(stack', e) PROVE g \in CallsIn(stack, e)
  <2>0. PICK u \in Threads : \E j \in DOMAIN stack'[u] : g = stack'[u][j] /\ g.event = e
    BY CallsAre
  <2>1. PICK j \in DOMAIN stack'[u] : g = stack'[u][j] /\ g.event = e
    BY <2>0
  <2>2. j \in DOMAIN stack[u] /\ stack[u][j] = g
    BY <1>1, <2>1
  <2> QED  BY <2>1, <2>2, CallsAre
<1>3. ASSUME NEW g \in CallsIn(stack, e) PROVE g \in CallsIn(stack', e)
  <2>0. PICK u \in Threads : \E i \in DOMAIN stack[u] : g = stack[u][i] /\ g.event = e
    BY CallsAre
  <2>1. PICK i \in DOMAIN stack[u] : g = stack[u][i] /\ g.event = e
    BY <2>0
  <2>2. i \in DOMAIN stack'[u] /\ stack'[u][i] = g
    BY <1>1, <2>1
  <2> QED  BY <2>1, <2>2, CallsAre
<1> QED
  BY <1>2, <1>3

LEMMA PopCalls ==
    ASSUME stack \in Stacks, NEW t \in Threads, Pops(t),
           NEW e \in Events, e # stack[t][1].event
    PROVE  CallsIn(stack', e) = CallsIn(stack, e)
<1>1. /\ \A u \in Threads \ {t} : stack'[u] = stack[u]
      /\ \A j \in DOMAIN stack'[t] :
            j + 1 \in DOMAIN stack[t] /\ stack'[t][j] = stack[t][j + 1]
      /\ \A i \in DOMAIN stack[t] :
            i # 1 => i - 1 \in DOMAIN stack'[t] /\ stack'[t][i - 1] = stack[t][i]
  BY PopFrames
<1>2. ASSUME NEW g \in CallsIn(stack', e) PROVE g \in CallsIn(stack, e)
  <2>0. PICK u \in Threads : \E j \in DOMAIN stack'[u] : g = stack'[u][j] /\ g.event = e
    BY CallsAre
  <2>1. PICK j \in DOMAIN stack'[u] : g = stack'[u][j] /\ g.event = e
    BY <2>0
  <2>2. CASE u = t
    BY <1>1, <2>1, <2>2, CallsAre
  <2>3. CASE u # t
    BY <1>1, <2>1, <2>3, CallsAre
  <2> QED  BY <2>2, <2>3
<1>3. ASSUME NEW g \in CallsIn(stack, e) PROVE g \in CallsIn(stack', e)
  <2>0. PICK u \in Threads : \E i \in DOMAIN stack[u] : g = stack[u][i] /\ g.event = e
    BY CallsAre
  <2>1. PICK i \in DOMAIN stack[u] : g = stack[u][i] /\ g.event = e
    BY <2>0
  <2>2. CASE u = t
    <3>1. i # 1
      BY <2>1, <2>2
    <3> QED  BY <1>1, <2>1, <2>2, <3>1, CallsAre
  <2>3. CASE u # t
    BY <1>1, <2>1, <2>3, CallsAre
  <2> QED  BY <2>2, <2>3
<1> QED
  BY <1>2, <1>3

\* When a call has left its event behind, nobody dispatches it.
LEMMA PopLast ==
    ASSUME stack \in Stacks, Apart(stack), NEW t \in Threads, Pops(t),
           stack[t][1].event # 0
    PROVE  CallsIn(stack', stack[t][1].event) = {}
<1> DEFINE e == stack[t][1].event
<1>1. /\ \A u \in Threads \ {t} : stack'[u] = stack[u]
      /\ \A j \in DOMAIN stack'[t] :
            /\ j \in Nat \ {0}
            /\ j + 1 \in DOMAIN stack[t] /\ stack'[t][j] = stack[t][j + 1]
      /\ 1 \in DOMAIN stack[t]
  <2>1. 1 \in DOMAIN stack[t]
    BY LenProperties, EmptySeq DEF Pops, Stacks
  <2> QED  BY <2>1, PopFrames
<1>2. ASSUME NEW g \in CallsIn(stack', e) PROVE FALSE
  <2>0. PICK u \in Threads : \E j \in DOMAIN stack'[u] : g = stack'[u][j] /\ g.event = e
    BY CallsAre
  <2>1. PICK j \in DOMAIN stack'[u] : g = stack'[u][j] /\ g.event = e
    BY <2>0
  <2>2. CASE u = t
    <3>1. 1 = j + 1
      BY <1>1, <2>1, <2>2 DEF Apart
    <3> QED  BY <1>1, <2>2, <3>1
  <2>3. CASE u # t
    <3>1. t = u
      BY <1>1, <2>1, <2>3 DEF Apart
    <3> QED  BY <2>3, <3>1
  <2> QED  BY <2>2, <2>3
<1> QED
  BY <1>2

LEMMA BecomeLast ==
    ASSUME stack \in Stacks, Apart(stack), NEW t \in Threads, NEW f \in Frame,
           Becomes(t, f), stack[t][1].event # 0, f.event # stack[t][1].event
    PROVE  CallsIn(stack', stack[t][1].event) = {}
<1> DEFINE e == stack[t][1].event
<1>1. /\ \A u \in Threads \ {t} : stack'[u] = stack[u]
      /\ stack'[t][1] = f /\ 1 \in DOMAIN stack[t] /\ DOMAIN stack'[t] = DOMAIN stack[t]
      /\ \A i \in DOMAIN stack[t] \ {1} : stack'[t][i] = stack[t][i]
  BY BecomeFrames
<1>2. ASSUME NEW g \in CallsIn(stack', e) PROVE FALSE
  <2>0. PICK u \in Threads : \E j \in DOMAIN stack'[u] : g = stack'[u][j] /\ g.event = e
    BY CallsAre
  <2>1. PICK j \in DOMAIN stack'[u] : g = stack'[u][j] /\ g.event = e
    BY <2>0
  <2>2. u # t \/ j # 1
    BY <1>1, <2>1
  <2>3. j \in DOMAIN stack[u] /\ stack[u][j].event = e
    BY <1>1, <2>1, <2>2
  <2> QED  BY <1>1, <2>2, <2>3 DEF Apart
<1> QED
  BY <1>2

--------------------------------------------------------------------------------
(* What a step inside a call means to the event that the call dispatches. *)

\* The call g goes on as f: nothing happens to the dispatch, a record is passed
\* over, its callback starts, or is over, with the dispatch if it has thrown.
Quiet(f, g) == f.todo = g.todo /\ f.run = g.run
Passes(f, g) ==
    /\ g.run = 0 /\ f.run = 0 /\ g.todo # {}
    /\ FirstOf(g.todo) \in GivenUp
    /\ f.todo = g.todo \ {FirstOf(g.todo)}
Starts(f, g) ==
    /\ g.run = 0 /\ g.todo # {}
    /\ f.run = FirstOf(g.todo)
    /\ f.todo = g.todo \ {FirstOf(g.todo)}
Over(f, g) == g.run # 0 /\ f.run = 0 /\ f.todo \in {g.todo, {}}

GoesOn(t) ==
    \E f \in Frame :
        /\ Becomes(t, f) /\ Dispatches(f, begun)
        /\ f.event = stack[t][1].event
        /\ \/ Quiet(f, stack[t][1]) \/ Passes(f, stack[t][1])
           \/ Starts(f, stack[t][1]) \/ Over(f, stack[t][1])
        /\ begun' = begun

\* The call begins to dispatch an event that nobody has taken before.
TakesUp(t) ==
    \E f \in Frame :
        /\ Becomes(t, f) /\ stack[t][1].event = 0
        /\ f.event \in 1..Len(posted) /\ f.event \notin begun \cup dropped
        /\ f.call = "process" /\ f.step = "dispatching"
        /\ f.todo = callbacks[posted[f.event]] /\ f.run = 0
        /\ begun' = begun \cup {f.event}

\* The call is done with its event, if it has one.
Leaves(t) ==
    /\ \/ Pops(t)
       \/ \E f \in Frame : Becomes(t, f) /\ f.event = 0 /\ f.step # "unwinding"
    /\ stack[t][1].event # 0 => stack[t][1].todo = {} /\ stack[t][1].run = 0
    /\ begun' = begun

\* A call that goes on is a call.
LEMMA StillFrame ==
    ASSUME stack \in Stacks, stack' \in Stacks, NEW t \in Threads, NEW f, Becomes(t, f)
    PROVE  f \in Frame
<1>1. stack[t] \in Seq(Frame) /\ stack'[t] \in Seq(Frame) /\ stack[t] # <<>>
  BY DEF Stacks, Becomes
<1>2. 1 \in DOMAIN stack[t] /\ stack'[t] = [stack[t] EXCEPT ![1] = f]
  BY <1>1, LenProperties, EmptySeq DEF Stacks, Becomes
<1>3. 1 \in DOMAIN stack'[t] /\ stack'[t][1] = f
  BY <1>2
<1> QED
  BY <1>1, <1>3, ElementOfSeq

\* A guard that does not lock has been given up.
LEMMA ExpiredGivenUp ==
    ASSUME NEW r \in DOMAIN record, Expired(r)
    PROVE  r \in GivenUp
BY DEF Expired, GivenUp

\* Every step inside a call has one of the three meanings.
LEMMA StepMeans ==
    ASSUME TypeInv, TypeInv', AccountInv, DispatchInv, NEW t \in Threads, Steps(t)
    PROVE  GoesOn(t) \/ TakesUp(t) \/ Leaves(t)
<1> DEFINE g == stack[t][1]
<1>1. /\ stack[t] # <<>> /\ 1 \in DOMAIN stack[t] /\ g \in Frame
      /\ FrameOK(g, Len(record), Len(posted)) /\ Dispatches(g, begun)
      /\ stack \in Stacks /\ stack' \in Stacks /\ stack[t] \in Seq(Frame)
  <2>1. stack[t] # <<>>
    BY StepShapes
  <2> QED  BY <2>1, TopFrame DEF TypeInv, DispatchInv, Stacks
<1>2. \A f : Becomes(t, f) => f \in Frame
  BY <1>1, StillFrame
<1>3. /\ Len(record) \in Nat /\ Len(posted) \in Nat
      /\ DOMAIN record = 1..Len(record)
  BY LenProperties DEF TypeInv, BusOK
<1>4. CASE DispatchNext(t)
  <2> DEFINE e == Head(g.left)
             f == [g EXCEPT !.step = "dispatching", !.event = e, !.left = Tail(g.left),
                            !.todo = callbacks[posted[e]]]
  <2>1. g.left # <<>> /\ g.step = "draining" /\ begun' = begun \cup {e}
    BY <1>4 DEF DispatchNext, In
  <2>2. g.left \in Seq(1..Len(posted)) /\ g.left = Left(t, 1)
    BY <1>1 DEF FrameOK, Left
  <2>3. e \in 1..Len(posted) /\ e \in Range(Left(t, 1))
    <3>1. e \in 1..Len(posted)
      BY <2>1, <2>2, HeadTailProperties
    <3>2. 1 \in DOMAIN g.left /\ e = g.left[1]
      BY <2>1, <2>2, LenProperties, EmptySeq
    <3> QED  BY <2>2, <3>1, <3>2 DEF Range
  <2>4. e \notin begun \cup dropped
    BY <1>1, <2>3 DEF AccountInv, TakenOnce
  <2>5. Becomes(t, f)
    <3>1. stack[t] # <<>> /\ g \in Frame /\ stack[t] \in Seq(Frame) /\ stack \in Stacks
      BY <1>1
    <3> QED  BY <1>4, <3>1 DEF DispatchNext, Becomes, Stacks
  <2>6. /\ f.event = e /\ f.todo = callbacks[posted[e]] /\ f.step = "dispatching"
        /\ f.run = g.run /\ f.call = g.call
    BY <1>1 DEF Frame
  <2>7. g.event = 0 /\ g.run = 0
    BY <1>1, <2>1 DEF Dispatches, FrameOK
  <2>8. g.call = "process"
    BY <1>1, <2>1 DEF FrameOK, Frame
  <2> HIDE DEF f, e
  <2>9. f \in Frame
    BY <1>2, <2>5
  <2> QED  BY <2>1, <2>3, <2>4, <2>5, <2>6, <2>7, <2>8, <2>9 DEF TakesUp
<1>5. CASE SkipCallback(t)
  <2> DEFINE r == FirstOf(g.todo)
             f == [g EXCEPT !.todo = g.todo \ {r}]
  <2>1. g.step = "dispatching" /\ g.todo # {} /\ Expired(r) /\ begun' = begun
    BY <1>5 DEF SkipCallback, In, Lapsed
  <2>2. g.run = 0
    BY <1>1, <2>1 DEF FrameOK
  <2>3. r \in GivenUp
    BY <1>1, <1>3, <2>1, FirstOfTodo, ExpiredGivenUp DEF FrameOK
  <2>4. Becomes(t, f)
    BY <1>1, <1>5 DEF SkipCallback, Becomes, Stacks
  <2>5. /\ f.event = g.event /\ f.run = g.run /\ f.step = g.step /\ f.call = g.call
        /\ f.todo = g.todo \ {r}
    BY <1>1 DEF Frame
  <2> HIDE DEF f
  <2>6. Passes(f, g)
    BY <2>1, <2>2, <2>3, <2>5 DEF Passes
  <2>7. Dispatches(f, begun)
    BY <1>1, <2>1, <2>5 DEF Dispatches
  <2> QED  BY <1>2, <2>1, <2>4, <2>5, <2>6, <2>7 DEF GoesOn
<1>6. CASE StartCallback(t)
  <2> DEFINE r == FirstOf(g.todo)
             f == [g EXCEPT !.step = "running", !.run = r, !.todo = g.todo \ {r}]
  <2>1. g.step = "dispatching" /\ g.todo # {} /\ begun' = begun
    BY <1>6 DEF StartCallback, In
  <2>2. g.run = 0
    BY <1>1, <2>1 DEF FrameOK
  <2>3. Becomes(t, f)
    BY <1>1, <1>6 DEF StartCallback, Becomes, Stacks
  <2>4. /\ f.event = g.event /\ f.run = r /\ f.step = "running" /\ f.call = g.call
        /\ f.todo = g.todo \ {r}
    BY <1>1 DEF Frame
  <2> HIDE DEF f
  <2>5. Starts(f, g)
    BY <2>1, <2>2, <2>4 DEF Starts
  <2>6. Dispatches(f, begun)
    BY <1>1, <2>1, <2>4 DEF Dispatches
  <2> QED  BY <1>2, <2>1, <2>3, <2>4, <2>5, <2>6 DEF GoesOn
<1>7. ASSUME NEW step \in {"running", "handling"}, ReturnFrom(t, step) PROVE GoesOn(t)
  <2> DEFINE f == [g EXCEPT !.step = "dispatching", !.run = 0]
  <2>1. g.step = step /\ begun' = begun
    BY <1>7 DEF ReturnFrom, In
  <2>2. g.run # 0
    BY <1>1, <2>1 DEF FrameOK
  <2>3. Becomes(t, f)
    BY <1>1, <1>7 DEF ReturnFrom, Becomes, Stacks
  <2>4. /\ f.event = g.event /\ f.run = 0 /\ f.step = "dispatching" /\ f.call = g.call
        /\ f.todo = g.todo
    BY <1>1 DEF Frame
  <2> HIDE DEF f
  <2>5. Over(f, g)
    BY <2>2, <2>4 DEF Over
  <2>6. Dispatches(f, begun)
    BY <1>1, <2>1, <2>4 DEF Dispatches
  <2> QED  BY <1>2, <2>1, <2>3, <2>4, <2>5, <2>6 DEF GoesOn
<1>8. ASSUME Unwind(t), g.step \in {"running", "handling"} PROVE GoesOn(t)
  <2> DEFINE f == [g EXCEPT !.step = "unwinding", !.run = 0, !.todo = {}]
  <2>1. g.run # 0 /\ begun' = begun
    BY <1>1, <1>8 DEF FrameOK, Unwind
  <2>2. Becomes(t, f)
    BY <1>1, <1>8 DEF Unwind, Becomes, Stacks
  <2>3. /\ f.event = g.event /\ f.run = 0 /\ f.step = "unwinding" /\ f.call = g.call
        /\ f.todo = {}
    BY <1>1 DEF Frame
  <2> HIDE DEF f
  <2>4. Over(f, g)
    BY <2>1, <2>3 DEF Over
  <2>5. Dispatches(f, begun)
    BY <1>1, <1>8, <2>3 DEF Dispatches
  <2> QED  BY <1>2, <2>1, <2>2, <2>3, <2>4, <2>5 DEF GoesOn
<1>9. CASE CallbackThrows(t)
  <2>1. CASE Unwind(t)
    BY <1>8, <1>9, <2>1 DEF CallbackThrows, In
  <2>2. CASE ~Unwind(t)
    <3> DEFINE f == [g EXCEPT !.step = "handling"]
    <3>1. g.step = "running" /\ begun' = begun
      BY <1>9, <2>2 DEF CallbackThrows, In
    <3>2. Becomes(t, f)
      BY <1>1, <1>9, <2>2 DEF CallbackThrows, Becomes, Stacks
    <3>3. /\ f.event = g.event /\ f.run = g.run /\ f.step = "handling"
          /\ f.call = g.call /\ f.todo = g.todo
      BY <1>1 DEF Frame
    <3> HIDE DEF f
    <3>4. Quiet(f, g)
      BY <3>3 DEF Quiet
    <3>5. Dispatches(f, begun)
      BY <1>1, <3>1, <3>3 DEF Dispatches
    <3> QED  BY <1>2, <3>1, <3>2, <3>3, <3>4, <3>5 DEF GoesOn
  <2> QED  BY <2>1, <2>2
<1>10. CASE EventDone(t)
  <2> DEFINE f == [g EXCEPT !.step = "draining", !.event = 0]
  <2>1. g.step = "dispatching" /\ g.todo = {} /\ begun' = begun
    BY <1>10 DEF EventDone, In
  <2>2. g.run = 0
    BY <1>1, <2>1 DEF FrameOK
  <2>3. Becomes(t, f)
    BY <1>1, <1>10 DEF EventDone, Becomes, Stacks
  <2>4. f.event = 0 /\ f.step = "draining"
    BY <1>1 DEF Frame
  <2> HIDE DEF f
  <2> QED  BY <1>2, <2>1, <2>2, <2>3, <2>4 DEF Leaves
<1>11. CASE Rethrow(t) \/ CallReturns(t)
  <2>1. Pops(t) /\ begun' = begun
    BY <1>1, <1>11 DEF Rethrow, CallReturns, Leave, Pops
  <2>2. g.event # 0 => g.step = "unwinding"
    BY <1>1, <1>11 DEF Rethrow, CallReturns, In, Dispatches
  <2>3. g.event # 0 => g.todo = {} /\ g.run = 0
    BY <1>1, <2>2 DEF Dispatches, FrameOK
  <2> QED  BY <2>1, <2>3 DEF Leaves
<1>12. ASSUME NEW f, Becomes(t, f), f.event = g.event, f.todo = g.todo, f.run = g.run,
              g.event = 0, f.step # "unwinding", begun' = begun
       PROVE  GoesOn(t)
  <2>1. Quiet(f, g) /\ Dispatches(f, begun)
    BY <1>12 DEF Quiet, Dispatches
  <2> QED  BY <1>2, <1>12, <2>1 DEF GoesOn
<1>13. CASE PollBegin(t)
  <2> DEFINE f == [g EXCEPT !.step = "polling", !.live = awaiters \cap active]
  <2>1. g.event = 0 /\ begun' = begun
    BY <1>1, <1>13 DEF PollBegin, In, Dispatches
  <2>2. Becomes(t, f)
    BY <1>1, <1>13 DEF PollBegin, Becomes, Stacks
  <2>3. f.event = g.event /\ f.todo = g.todo /\ f.run = g.run /\ f.step = "polling"
    BY <1>1 DEF Frame
  <2> HIDE DEF f
  <2> QED  BY <1>12, <2>1, <2>2, <2>3
<1>14. ASSUME NEW a \in Awaiters, PollOne(t, a) PROVE GoesOn(t)
  <2>0. g.step = "polling" /\ begun' = begun
    BY <1>14 DEF PollOne, In
  <2>1. g.event = 0
    BY <1>1, <2>0 DEF Dispatches
  <2>2. CASE stack' = [stack EXCEPT ![t][1].live = @ \ {a}]
    <3> DEFINE f == [g EXCEPT !.live = g.live \ {a}]
    <3>1. Becomes(t, f)
      BY <1>1, <2>2 DEF Becomes, Stacks
    <3>2. f.event = g.event /\ f.todo = g.todo /\ f.run = g.run /\ f.step = "polling"
      BY <1>1, <2>0 DEF Frame
    <3> HIDE DEF f
    <3> QED  BY <1>12, <2>0, <2>1, <3>1, <3>2
  <2>3. CASE stack' = [stack EXCEPT ![t][1].live = @ \ {a}, ![t][1].step = "timing"]
    <3> DEFINE f == [g EXCEPT !.live = g.live \ {a}, !.step = "timing"]
    <3>1. Becomes(t, f)
      BY <1>1, <2>3 DEF Becomes, Stacks
    <3>2. f.event = g.event /\ f.todo = g.todo /\ f.run = g.run /\ f.step = "timing"
      BY <1>1 DEF Frame
    <3> HIDE DEF f
    <3> QED  BY <1>12, <2>0, <2>1, <3>1, <3>2
  <2> QED  BY <1>14, <2>2, <2>3 DEF PollOne
<1>15. CASE TimeoutReturns(t)
  <2> DEFINE f == [g EXCEPT !.step = "polling"]
  <2>1. g.event = 0 /\ begun' = begun
    BY <1>1, <1>15 DEF TimeoutReturns, In, Dispatches
  <2>2. Becomes(t, f)
    BY <1>1, <1>15 DEF TimeoutReturns, Becomes, Stacks
  <2>3. f.event = g.event /\ f.todo = g.todo /\ f.run = g.run /\ f.step = "polling"
    BY <1>1 DEF Frame
  <2> HIDE DEF f
  <2> QED  BY <1>12, <2>1, <2>2, <2>3
<1>16. CASE CallbackReturns(t) \/ HandlerReturns(t)
  BY <1>7, <1>16 DEF CallbackReturns, HandlerReturns
<1>17. CASE HandlerThrows(t)
  BY <1>8, <1>17 DEF HandlerThrows, In
<1> QED
  BY <1>4, <1>5, <1>6, <1>9, <1>10, <1>11, <1>13, <1>14, <1>15, <1>16, <1>17
     DEF Steps, Inside, UserEnds

--------------------------------------------------------------------------------
(* An event is dispatched by one call. *)

\* A call begins without an event.
LEMMA CallBegins ==
    ASSUME TypeInv, NEW t \in Threads,
           (\E ty \in Types : EmitBegin(t, ty)) \/ (t \in Pumps /\ ProcessBegin(t))
    PROVE  \E f \in Frame : Pushes(t, f) /\ f.event = 0 /\ f.step # "unwinding"
<1>1. ASSUME NEW f \in Frame, Pushes(t, f) PROVE stack'[t][1] = f
  BY <1>1, PushFrames DEF TypeInv
<1>2. ASSUME NEW f, Call(t, f) PROVE Pushes(t, f) /\ stack'[t] = <<f>> \o stack[t]
  BY <1>2 DEF Call, Pushes, TypeInv, Stacks
<1>3. ASSUME NEW f, Call(t, f), NEW h \in Frame, Pushes(t, h) PROVE h = f
  <2>1. stack[t] \in Seq(Frame)
    BY DEF TypeInv, Stacks
  <2>2. <<f>> \o stack[t] = <<h>> \o stack[t]
    BY <1>2, <1>3 DEF Pushes, TypeInv, Stacks
  <2>3. (<<f>> \o stack[t])[1] = f /\ (<<h>> \o stack[t])[1] = h
    BY <2>1
  <2> QED  BY <2>2, <2>3
<1>4. ASSUME NEW ty \in Types, EmitBegin(t, ty)
      PROVE  \E f \in Frame : Pushes(t, f) /\ f.event = 0 /\ f.step # "unwinding"
  <2> DEFINE f == [NewFrame EXCEPT !.todo = callbacks[ty]]
  <2>1. f.event = 0 /\ f.step = "dispatching"
    BY DEF NewFrame
  <2>2. Call(t, f)
    BY <1>4 DEF EmitBegin
  <2> HIDE DEF f
  <2>3. PICK h \in Frame : Pushes(t, h)
    BY <1>4, EmitFrames
  <2> QED  BY <1>3, <2>1, <2>2, <2>3
<1>5. ASSUME t \in Pumps, ProcessBegin(t)
      PROVE  \E f \in Frame : Pushes(t, f) /\ f.event = 0 /\ f.step # "unwinding"
  <2> DEFINE f == [NewFrame EXCEPT !.call = "process", !.step = "draining",
                                   !.left = queue]
  <2>1. f.event = 0 /\ f.step = "draining"
    BY DEF NewFrame
  <2>2. Call(t, f)
    BY <1>5 DEF ProcessBegin
  <2> HIDE DEF f
  <2>3. PICK h \in Frame : Pushes(t, h)
    BY <1>5, ProcessFrames
  <2> QED  BY <1>3, <2>1, <2>2, <2>3
<1> QED
  BY <1>4, <1>5

\* A call that begins changes nothing for the others.
LEMMA PushDispatch ==
    ASSUME stack \in Stacks, DispatchInv, NEW t \in Threads, NEW f \in Frame,
           Pushes(t, f), f.event = 0, f.step # "unwinding", begun' = begun
    PROVE  DispatchInv'
<1>1. /\ \A u \in Threads \ {t} : stack'[u] = stack[u]
      /\ stack'[t][1] = f
      /\ \A j \in DOMAIN stack'[t] :
            /\ j \in Nat \ {0}
            /\ j # 1 => j - 1 \in DOMAIN stack[t] /\ stack'[t][j] = stack[t][j - 1]
  BY PushFrames
<1>2. ASSUME NEW u \in Threads, NEW j \in DOMAIN stack'[u] PROVE Dispatches(stack'[u][j], begun')
  <2>1. CASE u = t /\ j = 1
    BY <1>1, <2>1 DEF Dispatches
  <2>2. CASE ~(u = t /\ j = 1)
    <3>1. \E i \in DOMAIN stack[u] : stack'[u][j] = stack[u][i]
      BY <1>1, <1>2, <2>2
    <3> QED  BY <3>1 DEF DispatchInv, Dispatches
  <2> QED  BY <2>1, <2>2
<1>3. ASSUME NEW u \in Threads, NEW v \in Threads,
             NEW i \in DOMAIN stack'[u], NEW j \in DOMAIN stack'[v],
             stack'[u][i].event # 0, stack'[u][i].event = stack'[v][j].event
      PROVE  u = v /\ i = j
  <2>1. (u = t => i # 1) /\ (v = t => j # 1)
    BY <1>1, <1>3
  <2>2. CASE u = t /\ v = t
    <3>1. /\ i - 1 \in DOMAIN stack[t] /\ stack'[t][i] = stack[t][i - 1]
          /\ j - 1 \in DOMAIN stack[t] /\ stack'[t][j] = stack[t][j - 1]
          /\ i \in Nat /\ j \in Nat
      BY <1>1, <1>3, <2>1, <2>2
    <3>2. i - 1 = j - 1
      BY <1>3, <2>2, <3>1 DEF DispatchInv, Apart
    <3> QED  BY <2>2, <3>1, <3>2
  <2>3. CASE u = t /\ v # t
    <3>1. i - 1 \in DOMAIN stack[t] /\ stack'[t][i] = stack[t][i - 1] /\ stack'[v] = stack[v]
      BY <1>1, <1>3, <2>1, <2>3
    <3> QED  BY <1>3, <2>3, <3>1 DEF DispatchInv, Apart
  <2>4. CASE u # t /\ v = t
    <3>1. j - 1 \in DOMAIN stack[t] /\ stack'[t][j] = stack[t][j - 1] /\ stack'[u] = stack[u]
      BY <1>1, <1>3, <2>1, <2>4
    <3> QED  BY <1>3, <2>4, <3>1 DEF DispatchInv, Apart
  <2>5. CASE u # t /\ v # t
    BY <1>1, <1>3, <2>5 DEF DispatchInv, Apart
  <2> QED  BY <2>2, <2>3, <2>4, <2>5
<1> QED
  BY <1>2, <1>3 DEF DispatchInv, Apart

\* A call that goes on keeps its event, leaves it, or takes one nobody has.
LEMMA BecomeDispatch ==
    ASSUME stack \in Stacks, DispatchInv, NEW t \in Threads, NEW f \in Frame,
           Becomes(t, f), Dispatches(f, begun'), begun \subseteq begun',
           f.event \in {0, stack[t][1].event} \/ f.event \notin begun
    PROVE  DispatchInv'
<1>1. /\ \A u \in Threads \ {t} : stack'[u] = stack[u]
      /\ stack'[t][1] = f /\ 1 \in DOMAIN stack[t] /\ DOMAIN stack'[t] = DOMAIN stack[t]
      /\ \A i \in DOMAIN stack[t] \ {1} : stack'[t][i] = stack[t][i]
  BY BecomeFrames
<1>a. ASSUME NEW u \in Threads, NEW j \in DOMAIN stack'[u], ~(u = t /\ j = 1)
      PROVE  j \in DOMAIN stack[u] /\ stack'[u][j] = stack[u][j]
  BY <1>1, <1>a
<1>2. ASSUME NEW u \in Threads, NEW j \in DOMAIN stack'[u] PROVE Dispatches(stack'[u][j], begun')
  <2>1. CASE u = t /\ j = 1
    BY <1>1, <2>1
  <2>2. CASE ~(u = t /\ j = 1)
    BY <1>a, <2>2 DEF DispatchInv, Dispatches
  <2> QED  BY <2>1, <2>2
<1>3. ASSUME NEW u \in Threads, NEW j \in DOMAIN stack'[u], ~(u = t /\ j = 1),
             f.event # 0
      PROVE  stack'[u][j].event # f.event
  <2>1. j \in DOMAIN stack[u] /\ stack'[u][j] = stack[u][j]
    BY <1>a, <1>3
  <2>2. CASE f.event = stack[t][1].event
    BY <1>1, <1>3, <2>1, <2>2 DEF DispatchInv, Apart
  <2>3. CASE f.event \notin begun
    BY <1>3, <2>1, <2>3 DEF DispatchInv, Dispatches
  <2> QED  BY <1>3, <2>2, <2>3
<1>4. ASSUME NEW u \in Threads, NEW v \in Threads,
             NEW i \in DOMAIN stack'[u], NEW j \in DOMAIN stack'[v],
             stack'[u][i].event # 0, stack'[u][i].event = stack'[v][j].event
      PROVE  u = v /\ i = j
  <2>1. CASE u = t /\ i = 1
    BY <1>1, <1>3, <1>4, <2>1
  <2>2. CASE v = t /\ j = 1
    BY <1>1, <1>3, <1>4, <2>2
  <2>3. CASE ~(u = t /\ i = 1) /\ ~(v = t /\ j = 1)
    BY <1>a, <1>4, <2>3 DEF DispatchInv, Apart
  <2> QED  BY <2>1, <2>2, <2>3
<1> QED
  BY <1>2, <1>4 DEF DispatchInv, Apart

\* A call that ends leaves the others as they are.
LEMMA PopDispatch ==
    ASSUME stack \in Stacks, DispatchInv, NEW t \in Threads, Pops(t), begun' = begun
    PROVE  DispatchInv'
<1>1. /\ \A u \in Threads \ {t} : stack'[u] = stack[u]
      /\ \A j \in DOMAIN stack'[t] :
            /\ j \in Nat \ {0}
            /\ j + 1 \in DOMAIN stack[t] /\ stack'[t][j] = stack[t][j + 1]
  BY PopFrames
<1>2. ASSUME NEW u \in Threads, NEW j \in DOMAIN stack'[u] PROVE Dispatches(stack'[u][j], begun')
  <2>1. \E i \in DOMAIN stack[u] : stack'[u][j] = stack[u][i]
    BY <1>1, <1>2
  <2> QED  BY <2>1 DEF DispatchInv, Dispatches
<1>3. ASSUME NEW u \in Threads, NEW v \in Threads,
             NEW i \in DOMAIN stack'[u], NEW j \in DOMAIN stack'[v],
             stack'[u][i].event # 0, stack'[u][i].event = stack'[v][j].event
      PROVE  u = v /\ i = j
  <2>1. CASE u = t /\ v = t
    <3>1. /\ i + 1 \in DOMAIN stack[t] /\ stack'[t][i] = stack[t][i + 1]
          /\ j + 1 \in DOMAIN stack[t] /\ stack'[t][j] = stack[t][j + 1]
          /\ i \in Nat /\ j \in Nat
      BY <1>1, <1>3, <2>1
    <3>2. i + 1 = j + 1
      BY <1>3, <2>1, <3>1 DEF DispatchInv, Apart
    <3> QED  BY <2>1, <3>1, <3>2
  <2>2. CASE u = t /\ v # t
    <3>1. i + 1 \in DOMAIN stack[t] /\ stack'[t][i] = stack[t][i + 1] /\ stack'[v] = stack[v]
      BY <1>1, <1>3, <2>2
    <3> QED  BY <1>3, <2>2, <3>1 DEF DispatchInv, Apart
  <2>3. CASE u # t /\ v = t
    <3>1. j + 1 \in DOMAIN stack[t] /\ stack'[t][j] = stack[t][j + 1] /\ stack'[u] = stack[u]
      BY <1>1, <1>3, <2>3
    <3> QED  BY <1>3, <2>3, <3>1 DEF DispatchInv, Apart
  <2>4. CASE u # t /\ v # t
    BY <1>1, <1>3, <2>4 DEF DispatchInv, Apart
  <2> QED  BY <2>1, <2>2, <2>3, <2>4
<1> QED
  BY <1>2, <1>3 DEF DispatchInv, Apart

\* Every step keeps DispatchInv.
LEMMA DispatchStep ==
    ASSUME TypeInv, TypeInv', AccountInv, DispatchInv, [Next]_vars
    PROVE  DispatchInv'
<1>0. stack \in Stacks /\ begun \subseteq 1..Len(posted)
  BY DEF TypeInv, BusOK
<1>1. CASE UNCHANGED <<stack, begun>>
  BY <1>1 DEF DispatchInv, Dispatches, Apart
<1>2. CASE Clients \/ UNCHANGED vars
  BY <1>1, <1>2, ClientFrames DEF vars
<1>3. ASSUME NEW t \in Threads,
             (\E ty \in Types : EmitBegin(t, ty)) \/ (t \in Pumps /\ ProcessBegin(t))
      PROVE  DispatchInv'
  <2>1. begun' = begun
    BY <1>3 DEF EmitBegin, ProcessBegin
  <2> QED  BY <1>0, <1>3, <2>1, CallBegins, PushDispatch
<1>4. ASSUME NEW t \in Threads, Steps(t) PROVE DispatchInv'
  <2>1. CASE GoesOn(t)
    <3>1. PICK f \in Frame : /\ Becomes(t, f) /\ Dispatches(f, begun) /\ begun' = begun
                             /\ f.event = stack[t][1].event
      BY <2>1 DEF GoesOn
    <3>2. Dispatches(f, begun')
      BY <3>1 DEF Dispatches
    <3> QED  BY <1>0, <3>1, <3>2, BecomeDispatch
  <2>2. CASE TakesUp(t)
    <3>1. PICK f \in Frame : /\ Becomes(t, f) /\ f.event \notin begun
                             /\ f.call = "process" /\ f.step = "dispatching"
                             /\ begun' = begun \cup {f.event}
      BY <2>2 DEF TakesUp
    <3>2. Dispatches(f, begun')
      BY <3>1 DEF Dispatches
    <3> QED  BY <1>0, <3>1, <3>2, BecomeDispatch
  <2>3. CASE Leaves(t)
    <3>1. ASSUME NEW f \in Frame, Becomes(t, f), f.event = 0, f.step # "unwinding",
                 begun' = begun
          PROVE  DispatchInv'
      <4>1. Dispatches(f, begun')
        BY <3>1 DEF Dispatches
      <4> QED  BY <1>0, <3>1, <4>1, BecomeDispatch
    <3> QED  BY <1>0, <2>3, <3>1, PopDispatch DEF Leaves
  <2> QED  BY <1>4, <2>1, <2>2, <2>3, StepMeans
<1> QED
  BY <1>2, <1>3, <1>4, NextCases, BusAssumption

LEMMA DispatchStarts == Init => DispatchInv
<1> SUFFICES ASSUME Init PROVE DispatchInv
  OBVIOUS
<1>1. \A t \in Threads : DOMAIN stack[t] = {}
  BY EmptySeq DEF Init
<1> QED
  BY <1>1 DEF DispatchInv, Apart

--------------------------------------------------------------------------------
(* The mapped variables, and what a step does to them. *)

FateMap == [e \in Events |-> FateOf(e)]
DueMap == [e \in Events |-> DueFor(e)]
CalledMap == [e \in Events |-> CalledFor(e)]

\* A step is nothing to event e.
Untouched(e) == FateOf(e)' = FateOf(e) /\ DueFor(e)' = DueFor(e) /\ CalledFor(e)' = CalledFor(e)

\* Neither the calls for the event nor its place change.
LEMMA NotConcerned ==
    ASSUME NEW e \in Events, CallsIn(stack', e) = CallsIn(stack, e),
           e \in begun' <=> e \in begun, UNCHANGED <<posted, dropped>>
    PROVE  Untouched(e)
<1>1. CallsFor(e)' = CallsFor(e)
  BY DEF CallsFor, CallsIn
<1>2. FateOf(e)' = FateOf(e)
  BY <1>1 DEF FateOf
<1> QED
  BY <1>1, <1>2 DEF Untouched, DueFor, CalledFor

LEMMA AllUntouched ==
    ASSUME \A e \in Events : Untouched(e)
    PROVE  UNCHANGED <<FateMap, DueMap, CalledMap>>
BY DEF Untouched, FateMap, DueMap, CalledMap

\* All events but one.
LEMMA OneTouched ==
    ASSUME NEW e \in Events, \A x \in Events \ {e} : Untouched(x)
    PROVE  /\ FateMap' = [FateMap EXCEPT ![e] = FateOf(e)']
           /\ DueMap' = [DueMap EXCEPT ![e] = DueFor(e)']
           /\ CalledMap' = [CalledMap EXCEPT ![e] = CalledFor(e)']
           /\ FateMap[e] = FateOf(e) /\ DueMap[e] = DueFor(e) /\ CalledMap[e] = CalledFor(e)
BY DEF Untouched, FateMap, DueMap, CalledMap

\* The contract sees these, the subscriptions and the guards that were given up.
LEMMA NothingSeen ==
    ASSUME UNCHANGED <<posted, callbacks, record, open>>, \A e \in Events : Untouched(e)
    PROVE  UNCHANGED Contract!contractVars
<1>1. UNCHANGED <<FateMap, DueMap, CalledMap>>
  BY AllUntouched
<1>2. GivenUp' = GivenUp
  BY DEF GivenUp
<1> QED
  BY <1>1, <1>2 DEF Contract!contractVars, Contract!eventVars, Contract!audienceVars,
     Contract!dispatchVars, FateMap, DueMap, CalledMap

\* dispatch() reaches the copied records in their order.
LEMMA FirstIsLeast ==
    ASSUME NEW n \in Nat, NEW todo \in SUBSET (1..n), todo # {}
    PROVE  FirstOf(todo) \in todo /\ \A s \in todo : FirstOf(todo) <= s
<1>1. \E r \in todo : \A s \in todo : r <= s
  BY LeastNatural
<1> QED
  BY <1>1 DEF FirstOf

\* An event without calls.
LEMMA NoCallFor ==
    ASSUME NEW e, CallsFor(e) = {}
    PROVE  DueFor(e) = {} /\ CalledFor(e) = {}
BY DEF DueFor, CalledFor

\* An event that was taken was posted, and is not dropped.
LEMMA TakenFate ==
    ASSUME TypeInv, AccountInv, NEW e \in begun
    PROVE  /\ e \in Events /\ e <= Len(posted) /\ e \notin dropped
           /\ CallsFor(e) = {} => FateOf(e) = "done"
           /\ CallsFor(e) # {} => FateOf(e) = "dispatching"
<1>1. /\ e \in 1..Len(posted) /\ Len(posted) \in Nat /\ Len(posted) <= MaxEvent
      /\ e \notin dropped
  BY DEF TypeInv, BusOK, AccountInv, TakenOnce
<1>2. e \in Events /\ ~(e > Len(posted))
  BY <1>1, BusAssumption DEF Events
<1> QED
  BY <1>1, <1>2 DEF FateOf

--------------------------------------------------------------------------------
(* Every step of the bus is a step of the contract, or none. *)

BusStep == [Contract!ContractNext]_(Contract!contractVars)

\* The innermost call goes on with its event.
LEMMA GoesOnKeeps ==
    ASSUME TypeInv, TypeInv', AccountInv, AccountInv', DispatchInv, DispatchInv',
           NEW t \in Threads, GoesOn(t), UNCHANGED <<subVars, posted, dropped, open>>
    PROVE  BusStep
<1>g. PICK g : g = stack[t][1]
  OBVIOUS
<1>e. PICK e : e = g.event
  OBVIOUS
<1>1. PICK f \in Frame :
         /\ Becomes(t, f) /\ Dispatches(f, begun) /\ f.event = e
         /\ Quiet(f, g) \/ Passes(f, g) \/ Starts(f, g) \/ Over(f, g)
         /\ begun' = begun
  BY <1>g, <1>e DEF GoesOn
<1>2. /\ stack \in Stacks /\ 1 \in DOMAIN stack[t] /\ DOMAIN stack'[t] = DOMAIN stack[t]
      /\ stack'[t][1] = f /\ FrameOK(g, Len(record), Len(posted)) /\ Len(record) \in Nat
      /\ g = stack[t][1] /\ e = g.event
  BY <1>1, <1>g, <1>e, BecomeFrames DEF TypeInv, FramesOK, BusOK
<1>3. ASSUME NEW x \in Events, x # e PROVE Untouched(x)
  <2>1. CallsIn(stack', x) = CallsIn(stack, x)
    BY <1>1, <1>2, <1>3, BecomeCalls
  <2> QED  BY <1>1, <2>1, NotConcerned
<1>4. CASE e = 0
  <2>1. \A x \in Events : Untouched(x)
    BY <1>3, <1>4 DEF Events
  <2> QED  BY <2>1, NothingSeen DEF BusStep, subVars
<1>5. CASE e # 0
  <2>1. /\ CallsIn(stack, e) = {g} /\ CallsIn(stack', e) = {f}
    <3>1. CallsIn(stack, stack[t][1].event) = {stack[t][1]}
      BY <1>2, <1>5, OneCall DEF DispatchInv
    <3>2. CallsIn(stack', stack'[t][1].event) = {stack'[t][1]}
      <4>1. Apart(stack')
        BY DEF DispatchInv, Apart
      <4>2. 1 \in DOMAIN stack'[t] /\ stack'[t][1].event # 0
        BY <1>1, <1>2, <1>5
      <4> QED  BY <4>1, <4>2, OneCall
    <3> QED  BY <1>1, <1>2, <3>1, <3>2
  <2>2. CallsFor(e) = {g} /\ CallsFor(e)' = {f}
    BY <2>1 DEF CallsFor, CallsIn
  <2>3. /\ e \in begun /\ e \in Events
        /\ FateOf(e) = "dispatching" /\ FateOf(e)' = "dispatching"
    <3>1. e \in begun
      BY <1>2, <1>5 DEF DispatchInv, Dispatches
    <3>2. FateOf(e) = "dispatching" /\ e \in Events /\ e <= Len(posted) /\ e \notin dropped
      BY <2>2, <3>1, TakenFate
    <3>3. /\ e \in begun' /\ CallsFor(e)' # {} /\ ~(e > Len(posted')) /\ e \notin dropped'
      BY <1>1, <2>2, <3>1, <3>2 DEF Events
    <3>4. FateOf(e)' = "dispatching"
      BY <3>3 DEF FateOf
    <3> QED  BY <3>1, <3>2, <3>4
  <2>4. /\ DueFor(e) = g.todo /\ DueFor(e)' = f.todo
        /\ CalledFor(e) = {g.run} \ {0} /\ CalledFor(e)' = {f.run} \ {0}
    BY <2>2 DEF DueFor, CalledFor
  <2>5. /\ FateMap' = [FateMap EXCEPT ![e] = "dispatching"] /\ FateMap[e] = "dispatching"
        /\ DueMap' = [DueMap EXCEPT ![e] = f.todo] /\ DueMap[e] = g.todo
        /\ CalledMap' = [CalledMap EXCEPT ![e] = {f.run} \ {0}]
        /\ CalledMap[e] = {g.run} \ {0}
    BY <1>3, <2>3, <2>4, OneTouched
  <2>6. FateMap' = FateMap
    BY <2>5 DEF FateMap
  <2>7. UNCHANGED <<posted, callbacks>> /\ Len(record)' = Len(record) /\ GivenUp' = GivenUp
    BY DEF subVars, GivenUp
  <2>8. CASE Quiet(f, g)
    <3>1. DueMap' = DueMap /\ CalledMap' = CalledMap
      BY <2>3, <2>5, <2>8 DEF Quiet, DueMap, CalledMap
    <3> QED  BY <2>6, <2>7, <3>1 DEF BusStep, Contract!contractVars, Contract!eventVars,
                 Contract!audienceVars, Contract!dispatchVars, FateMap, DueMap, CalledMap
  <2>9. ASSUME NEW r, r = FirstOf(g.todo), g.todo # {}
        PROVE  r \in g.todo /\ (\A s \in g.todo : r <= s) /\ r # 0
    <3>1. g.todo \in SUBSET (1..Len(record))
      BY <1>2 DEF FrameOK
    <3>2. Len(record) \in Nat
      BY <1>2
    <3>3. FirstOf(g.todo) \in g.todo /\ \A s \in g.todo : FirstOf(g.todo) <= s
      BY <2>9, <3>1, <3>2, FirstIsLeast
    <3> QED  BY <2>9, <3>1, <3>3
  <2>10. CASE Passes(f, g)
    <3> DEFINE r == FirstOf(g.todo)
    <3>1. /\ g.run = 0 /\ f.run = 0 /\ r \in GivenUp /\ f.todo = g.todo \ {r}
          /\ r \in g.todo /\ \A s \in g.todo : r <= s
      BY <2>9, <2>10 DEF Passes
    <3> HIDE DEF r
    <3>2. CalledMap' = CalledMap /\ CalledMap[e] = {}
      BY <2>3, <2>5, <3>1 DEF CalledMap
    <3>3. Contract!PassOver(e, r)
      BY <2>5, <2>6, <2>7, <3>1, <3>2
         DEF Contract!PassOver, Contract!Reach, Contract!eventVars, Contract!audienceVars,
             FateMap, DueMap, CalledMap
    <3>4. r \in DueMap[e]
      BY <2>5, <3>1
    <3> QED  BY <2>3, <3>3, <3>4 DEF BusStep, Contract!ContractNext, DueMap
  <2>11. CASE Starts(f, g)
    <3> DEFINE r == FirstOf(g.todo)
    <3>1. /\ g.run = 0 /\ f.run = r /\ f.todo = g.todo \ {r}
          /\ r \in g.todo /\ (\A s \in g.todo : r <= s) /\ r # 0
      BY <2>9, <2>11 DEF Starts
    <3> HIDE DEF r
    <3>2. CalledMap' = [CalledMap EXCEPT ![e] = {r}] /\ CalledMap[e] = {}
      <4>1. {r} \ {0} = {r} /\ {g.run} \ {0} = {}
        BY <3>1
      <4> QED  BY <2>5, <3>1, <4>1
    <3>3. Contract!Invoke(e, r)
      BY <2>5, <2>6, <2>7, <3>1, <3>2
         DEF Contract!Invoke, Contract!Reach, Contract!eventVars, Contract!audienceVars,
             FateMap, DueMap, CalledMap
    <3>4. r \in DueMap[e]
      BY <2>5, <3>1
    <3> QED  BY <2>3, <3>3, <3>4 DEF BusStep, Contract!ContractNext, DueMap
  <2>12. CASE Over(f, g)
    <3>1. /\ CalledMap' = [CalledMap EXCEPT ![e] = {}] /\ CalledMap[e] # {}
      BY <2>5, <2>12 DEF Over
    <3>2. DueMap' \in {DueMap, [DueMap EXCEPT ![e] = {}]}
      BY <2>3, <2>5, <2>12 DEF Over, DueMap
    <3>3. Contract!End(e)
      BY <2>6, <2>7, <3>1, <3>2
         DEF Contract!End, Contract!eventVars, Contract!audienceVars,
             FateMap, DueMap, CalledMap
    <3> QED  BY <2>3, <3>3 DEF BusStep, Contract!ContractNext
  <2> QED  BY <1>1, <2>8, <2>10, <2>11, <2>12
<1> QED
  BY <1>4, <1>5

\* The innermost call takes up an event.
LEMMA TakesUpKeeps ==
    ASSUME TypeInv, AccountInv, DispatchInv, DispatchInv',
           NEW t \in Threads, TakesUp(t), UNCHANGED <<subVars, posted, dropped, open>>
    PROVE  BusStep
<1>1. PICK f \in Frame :
         /\ Becomes(t, f) /\ stack[t][1].event = 0
         /\ f.event \in 1..Len(posted) /\ f.event \notin begun \cup dropped
         /\ f.todo = callbacks[posted[f.event]] /\ f.run = 0
         /\ begun' = begun \cup {f.event}
  BY DEF TakesUp
<1>e. PICK e : e = f.event
  OBVIOUS
<1>2. /\ stack \in Stacks /\ 1 \in DOMAIN stack[t] /\ DOMAIN stack'[t] = DOMAIN stack[t]
      /\ stack'[t][1] = f /\ e = f.event /\ Len(posted) \in Nat /\ Len(posted) <= MaxEvent
  BY <1>1, <1>e, BecomeFrames DEF TypeInv, BusOK
<1>3. e \in Events /\ e # 0 /\ ~(e > Len(posted))
  BY <1>1, <1>2, BusAssumption DEF Events
<1>4. ASSUME NEW x \in Events, x # e PROVE Untouched(x)
  <2>1. x # 0
    BY DEF Events
  <2>2. CallsIn(stack', x) = CallsIn(stack, x)
    BY <1>1, <1>2, <1>4, <2>1, BecomeCalls
  <2> QED  BY <1>1, <1>2, <1>4, <2>2, NotConcerned
<1>5. CallsFor(e) = {} /\ CallsFor(e)' = {f}
  <2>1. CallsIn(stack, e) = {}
    <3>1. ASSUME NEW h \in CallsIn(stack, e) PROVE FALSE
      <4>1. Dispatches(h, begun) /\ h.event = e
        BY CallsAre DEF DispatchInv
      <4> QED  BY <1>1, <1>2, <1>3, <4>1 DEF Dispatches
    <3> QED  BY <3>1
  <2>2. CallsIn(stack', stack'[t][1].event) = {stack'[t][1]}
    <3>1. Apart(stack')
      BY DEF DispatchInv, Apart
    <3> QED  BY <1>2, <1>3, <3>1, OneCall
  <2> QED  BY <1>2, <2>1, <2>2 DEF CallsFor, CallsIn
<1>6. FateOf(e) = "waiting" /\ FateOf(e)' = "dispatching"
  <2>1. FateOf(e) = "waiting"
    BY <1>1, <1>2, <1>3 DEF FateOf
  <2>2. e \in begun' /\ e \notin dropped' /\ ~(e > Len(posted')) /\ CallsFor(e)' # {}
    BY <1>1, <1>2, <1>3, <1>5
  <2>3. FateOf(e)' = "dispatching"
    BY <2>2 DEF FateOf
  <2> QED  BY <2>1, <2>3
<1>7. /\ DueFor(e)' = f.todo /\ CalledFor(e) = {} /\ CalledFor(e)' = {}
  BY <1>1, <1>5 DEF DueFor, CalledFor
<1>8. /\ FateMap' = [FateMap EXCEPT ![e] = "dispatching"] /\ FateMap[e] = "waiting"
      /\ DueMap' = [DueMap EXCEPT ![e] = callbacks[posted[e]]]
      /\ CalledMap' = [CalledMap EXCEPT ![e] = {}] /\ CalledMap[e] = {}
  BY <1>1, <1>2, <1>3, <1>4, <1>6, <1>7, OneTouched
<1>9. CalledMap' = CalledMap
  BY <1>3, <1>8 DEF CalledMap
<1>10. UNCHANGED <<posted, callbacks>> /\ Len(record)' = Len(record) /\ GivenUp' = GivenUp
  BY DEF subVars, GivenUp
<1>11. Contract!Begin(e)
  BY <1>8, <1>9, <1>10
     DEF Contract!Begin, Contract!audienceVars, FateMap, DueMap, CalledMap
<1> QED
  BY <1>3, <1>11 DEF BusStep, Contract!ContractNext

\* The innermost call is done with its event.
LEMMA LeavesKeeps ==
    ASSUME TypeInv, AccountInv, DispatchInv,
           NEW t \in Threads, Leaves(t), 1 \in DOMAIN stack[t],
           UNCHANGED <<subVars, posted, dropped, open>>
    PROVE  BusStep
<1>g. PICK g : g = stack[t][1]
  OBVIOUS
<1>e. PICK e : e = g.event
  OBVIOUS
<1>1. /\ e # 0 => g.todo = {} /\ g.run = 0
      /\ begun' = begun /\ stack \in Stacks
      /\ g = stack[t][1] /\ e = g.event
  BY <1>g, <1>e DEF Leaves, TypeInv
<1>2. ASSUME NEW x \in Events, x # e PROVE Untouched(x)
  <2>1. x # 0
    BY DEF Events
  <2>2. CallsIn(stack', x) = CallsIn(stack, x)
    BY <1>1, <1>2, <2>1, BecomeCalls, PopCalls DEF Leaves
  <2> QED  BY <1>1, <2>2, NotConcerned
<1>3. CASE e = 0
  <2>1. \A x \in Events : Untouched(x)
    BY <1>2, <1>3 DEF Events
  <2> QED  BY <2>1, NothingSeen DEF BusStep, subVars
<1>4. CASE e # 0
  <2>1. CallsIn(stack, e) = {g} /\ CallsIn(stack', e) = {}
    <3>1. CallsIn(stack, stack[t][1].event) = {stack[t][1]}
      BY <1>1, <1>4, OneCall DEF DispatchInv
    <3>2. CallsIn(stack', stack[t][1].event) = {}
      BY <1>1, <1>4, PopLast, BecomeLast DEF DispatchInv, Leaves
    <3> QED  BY <1>1, <3>1, <3>2
  <2>2. CallsFor(e) = {g} /\ CallsFor(e)' = {}
    BY <2>1 DEF CallsFor, CallsIn
  <2>3. e \in Events /\ FateOf(e) = "dispatching" /\ FateOf(e)' = "done"
    <3>1. e \in begun
      BY <1>1, <1>4 DEF DispatchInv, Dispatches
    <3>2. FateOf(e) = "dispatching" /\ e \in Events /\ e <= Len(posted) /\ e \notin dropped
      BY <2>2, <3>1, TakenFate
    <3>3. Len(posted) \in Nat
      BY DEF TypeInv, BusOK
    <3>4. e \in begun' /\ CallsFor(e)' = {} /\ ~(e > Len(posted')) /\ e \notin dropped'
      BY <1>1, <2>2, <3>1, <3>2, <3>3 DEF Events
    <3>5. FateOf(e)' = "done"
      BY <3>4 DEF FateOf
    <3> QED  BY <3>2, <3>5
  <2>4. /\ DueFor(e) = {} /\ DueFor(e)' = {} /\ CalledFor(e) = {} /\ CalledFor(e)' = {}
    BY <1>1, <1>4, <2>2 DEF DueFor, CalledFor
  <2>5. /\ FateMap' = [FateMap EXCEPT ![e] = "done"] /\ FateMap[e] = "dispatching"
        /\ DueMap' = [DueMap EXCEPT ![e] = {}] /\ DueMap[e] = {}
        /\ CalledMap' = [CalledMap EXCEPT ![e] = {}] /\ CalledMap[e] = {}
    BY <1>2, <2>3, <2>4, OneTouched
  <2>6. DueMap' = DueMap /\ CalledMap' = CalledMap
    BY <2>3, <2>5 DEF DueMap, CalledMap
  <2>7. UNCHANGED <<posted, callbacks>> /\ Len(record)' = Len(record) /\ GivenUp' = GivenUp
    BY DEF subVars, GivenUp
  <2>8. Contract!Finish(e)
    BY <2>5, <2>6, <2>7
       DEF Contract!Finish, Contract!audienceVars, Contract!dispatchVars,
           FateMap, DueMap, CalledMap
  <2> QED  BY <2>3, <2>8 DEF BusStep, Contract!ContractNext
<1> QED
  BY <1>3, <1>4

\* A call that begins concerns no posted event.
LEMMA BeginsKeeps ==
    ASSUME TypeInv, NEW t \in Threads,
           (\E ty \in Types : EmitBegin(t, ty)) \/ (t \in Pumps /\ ProcessBegin(t))
    PROVE  BusStep
<1>1. UNCHANGED <<subVars, open, posted, dropped, begun>>
  BY DEF EmitBegin, ProcessBegin, idleVars, ownerVars, queueVars
<1>2. PICK f \in Frame : Pushes(t, f) /\ f.event = 0
  BY CallBegins
<1>3. ASSUME NEW x \in Events PROVE Untouched(x)
  <2>1. CallsIn(stack', x) = CallsIn(stack, x)
    BY <1>2, PushCalls DEF TypeInv
  <2> QED  BY <1>1, <2>1, NotConcerned
<1> QED
  BY <1>1, <1>3, NothingSeen DEF BusStep, subVars

\* While the calls stay the same, so do the events but for their posting and dropping.
LEMMA SameCalls ==
    ASSUME UNCHANGED <<stack, begun>>
    PROVE  /\ \A x : CallsFor(x)' = CallsFor(x) /\ DueFor(x)' = DueFor(x)
                        /\ CalledFor(x)' = CalledFor(x)
           /\ UNCHANGED <<posted, dropped>> => \A x \in Events : Untouched(x)
<1>1. \A x : CallsFor(x)' = CallsFor(x)
  BY DEF CallsFor
<1>2. \A x : DueFor(x)' = DueFor(x) /\ CalledFor(x)' = CalledFor(x)
  BY <1>1 DEF DueFor, CalledFor
<1>3. ASSUME UNCHANGED <<posted, dropped>>, NEW x \in Events PROVE Untouched(x)
  <2>1. FateOf(x)' = FateOf(x)
    BY <1>1, <1>3 DEF FateOf
  <2> QED  BY <1>2, <2>1 DEF Untouched
<1> QED
  BY <1>1, <1>2, <1>3

LEMMA PostKeeps ==
    ASSUME TypeInv, NEW ty \in Types, Post(ty)
    PROVE  BusStep
<1>e. PICK e : e = Len(posted) + 1
  OBVIOUS
<1>1. /\ UNCHANGED <<subVars, open, stack, begun, dropped>>
      /\ posted' = Append(posted, ty) /\ Len(posted) < MaxEvent
  BY DEF Post, ownerVars
<1>2. /\ Len(posted) \in Nat /\ Len(posted') = e /\ e \in Events /\ e = Len(posted) + 1
      /\ begun \subseteq 1..Len(posted) /\ dropped \subseteq 1..Len(posted)
  BY <1>1, <1>e, BusAssumption DEF TypeInv, BusOK, Events
<1>3. \A x : DueFor(x)' = DueFor(x) /\ CalledFor(x)' = CalledFor(x) /\ CallsFor(x)' = CallsFor(x)
  BY <1>1, SameCalls
<1>4. ASSUME NEW x \in Events, x # e PROVE Untouched(x)
  <2>1. x \in Nat /\ (x > Len(posted') <=> x > Len(posted))
    BY <1>2, <1>4, BusAssumption DEF Events
  <2>2. FateOf(x)' = FateOf(x)
    BY <1>1, <1>3, <2>1 DEF FateOf
  <2> QED  BY <1>3, <2>2 DEF Untouched
<1>5. FateOf(e) = "new" /\ FateOf(e)' = "waiting"
  <2>1. e > Len(posted) /\ ~(e > Len(posted')) /\ e \notin dropped \cup begun
        /\ e \notin dropped' \cup begun'
    BY <1>1, <1>2
  <2>2. FateOf(e) = "new"
    BY <2>1 DEF FateOf
  <2>3. FateOf(e)' = "waiting"
    BY <2>1 DEF FateOf
  <2> QED  BY <2>2, <2>3
<1>6. FateMap' = [FateMap EXCEPT ![e] = "waiting"] /\ FateMap[e] = "new"
  BY <1>2, <1>4, <1>5, OneTouched
<1>7. DueMap' = DueMap /\ CalledMap' = CalledMap
  BY <1>3 DEF DueMap, CalledMap
<1>8. UNCHANGED callbacks /\ Len(record)' = Len(record) /\ GivenUp' = GivenUp
  BY <1>1 DEF subVars, GivenUp
<1>9. Contract!Post(ty)
  BY <1>1, <1>2, <1>6, <1>7, <1>8
     DEF Contract!Post, Contract!audienceVars, Contract!dispatchVars,
         FateMap, DueMap, CalledMap
<1> QED
  BY <1>9 DEF BusStep, Contract!ContractNext

LEMMA ClearKeeps ==
    ASSUME TypeInv, AccountInv, ClearPending
    PROVE  BusStep
<1>g. PICK gone : gone = Range(queue)
  OBVIOUS
<1>1. /\ UNCHANGED <<subVars, open, stack, begun, posted>>
      /\ dropped' = dropped \cup gone /\ gone = Range(queue)
  BY <1>g DEF ClearPending, ownerVars
<1>2. gone # {}
  <2>1. 1 \in DOMAIN queue
    BY LenProperties, EmptySeq DEF ClearPending, TypeInv, BusOK
  <2> QED  BY <1>1, <2>1 DEF Range
<1>3. /\ \A x : CallsFor(x)' = CallsFor(x)
      /\ DueMap' = DueMap /\ CalledMap' = CalledMap
  BY <1>1, SameCalls DEF DueMap, CalledMap
<1>4. ASSUME NEW x \in gone
      PROVE  x \in Events /\ FateOf(x) = "waiting" /\ FateOf(x)' = "dropped"
  <2>1. x \in 1..Len(posted) /\ Len(posted) \in Nat /\ Len(posted) <= MaxEvent
    BY <1>1 DEF TypeInv, BusOK, Range
  <2>2. x \in Events /\ ~(x > Len(posted)) /\ ~(x > Len(posted'))
    BY <1>1, <2>1, BusAssumption DEF Events
  <2>3. x \notin begun /\ x \notin dropped /\ x \in dropped' /\ x \notin begun'
    BY <1>1 DEF AccountInv, TakenOnce
  <2>4. FateOf(x) = "waiting"
    BY <2>2, <2>3 DEF FateOf
  <2>5. FateOf(x)' = "dropped"
    BY <2>2, <2>3 DEF FateOf
  <2> QED  BY <2>2, <2>4, <2>5
<1>5. ASSUME NEW x \in Events, x \notin gone PROVE FateOf(x)' = FateOf(x)
  BY <1>1, <1>3, <1>5 DEF FateOf
<1>6. FateMap' = [x \in Events |-> IF x \in gone THEN "dropped" ELSE FateMap[x]]
  BY <1>4, <1>5 DEF FateMap
<1>7. gone \in SUBSET {x \in Events : FateMap[x] = "waiting"}
  BY <1>4 DEF FateMap
<1>8. UNCHANGED callbacks /\ Len(record)' = Len(record) /\ GivenUp' = GivenUp
  BY <1>1 DEF subVars, GivenUp
<1>9. Contract!Drop(gone)
  BY <1>1, <1>2, <1>3, <1>6, <1>8
     DEF Contract!Drop, Contract!audienceVars, Contract!dispatchVars,
         FateMap, DueMap, CalledMap
<1> QED
  BY <1>7, <1>9 DEF BusStep, Contract!ContractNext, FateMap

\* The calls and the events stay: what the contract sees of the rest.
LEMMA EventsKept ==
    ASSUME UNCHANGED <<stack, begun, posted, dropped>>
    PROVE  UNCHANGED <<FateMap, DueMap, CalledMap>>
BY SameCalls, AllUntouched

LEMMA SubscribeKeeps ==
    ASSUME TypeInv, NEW o \in Owners, NEW ty \in Types, NEW g \in Guards,
           Subscribe(o, ty, g)
    PROVE  BusStep
<1> DEFINE r == [owner |-> o, guard |-> GuardOf(o, g)]
<1>1. /\ UNCHANGED <<open, stack, begun, posted, dropped>>
      /\ record' = Append(record, r)
      /\ callbacks' = [callbacks EXCEPT ![ty] = @ \cup {Len(record')}]
  BY DEF Subscribe, ownerVars, queueVars
<1>2. /\ record \in Seq(Record) /\ r \in Record /\ Len(record) \in Nat
  BY BusAssumption DEF TypeInv, BusOK, Record, GuardOf
<1>3. /\ Len(record') = Len(record) + 1 /\ DOMAIN record = 1..Len(record)
      /\ DOMAIN record' = 1..(Len(record) + 1)
      /\ \A i \in DOMAIN record : record'[i] = record[i]
  BY <1>1, <1>2, LenProperties
<1> HIDE DEF r
<1>4. /\ DOMAIN record' = DOMAIN record \cup {Len(record')}
      /\ Len(record') \notin DOMAIN record
  BY <1>2, <1>3
<1>5. GivenUp' \in {GivenUp, GivenUp \cup {Len(record')}}
  <2>1. ASSUME NEW i \in DOMAIN record PROVE i \in GivenUp' <=> i \in GivenUp
    BY <1>1, <1>3, <1>4, <2>1 DEF GivenUp
  <2>2. GivenUp \subseteq DOMAIN record /\ GivenUp' \subseteq DOMAIN record'
    BY DEF GivenUp
  <2> QED  BY <1>4, <2>1, <2>2
<1>6. UNCHANGED <<FateMap, DueMap, CalledMap>>
  BY <1>1, EventsKept
<1>7. Contract!Subscribe(ty)
  BY <1>1, <1>3, <1>5, <1>6
     DEF Contract!Subscribe, Contract!eventVars, Contract!dispatchVars,
         FateMap, DueMap, CalledMap
<1> QED
  BY <1>7 DEF BusStep, Contract!ContractNext

\* Subscriptions go; records and guards stay.
LEMMA EraseKeeps ==
    ASSUME TypeInv, NEW types, NEW drop, Erase(types, drop)
    PROVE  BusStep
<1>1. /\ UNCHANGED <<record, open, stack, begun, posted, dropped>>
      /\ callbacks' = [ty \in Types |-> IF ty \in types THEN callbacks[ty] \ drop
                                                        ELSE callbacks[ty]]
  BY DEF Erase, queueVars
<1>2. /\ callbacks \in [Types -> SUBSET Subs]
  BY BusAssumption DEF TypeInv, BusOK, Subs
<1>3. /\ callbacks' \in [Types -> SUBSET Subs]
      /\ \A ty \in Types : callbacks'[ty] \subseteq callbacks[ty]
  BY <1>1, <1>2
<1>4. UNCHANGED <<FateMap, DueMap, CalledMap>> /\ Len(record)' = Len(record) /\ GivenUp' = GivenUp
  BY <1>1, EventsKept DEF GivenUp
<1>5. CASE callbacks' = callbacks
  BY <1>1, <1>5, SameCalls, NothingSeen DEF BusStep
<1>6. CASE callbacks' # callbacks
  <2>1. Contract!Unsubscribe
    BY <1>1, <1>3, <1>4, <1>6
       DEF Contract!Unsubscribe, Contract!eventVars, Contract!dispatchVars,
           FateMap, DueMap, CalledMap
  <2> QED  BY <2>1 DEF BusStep, Contract!ContractNext
<1> QED
  BY <1>5, <1>6

LEMMA CloseKeeps ==
    ASSUME TypeInv, NEW o \in Owners, CloseBegin(o)
    PROVE  BusStep
<1>1. UNCHANGED <<subVars, stack, begun, posted, dropped>> /\ open' = open \ {o}
  BY DEF CloseBegin, queueVars
<1>2. /\ UNCHANGED <<FateMap, DueMap, CalledMap, callbacks, record>>
      /\ Len(record)' = Len(record)
  BY <1>1, EventsKept DEF subVars
<1>3. GivenUp \subseteq GivenUp'
  BY <1>1, <1>2 DEF GivenUp
<1>4. GivenUp' \subseteq Subs
  <2>1. DOMAIN record \subseteq Subs
    BY LenProperties, BusAssumption DEF TypeInv, BusOK, Subs
  <2> QED  BY <1>2, <2>1 DEF GivenUp
<1>5. CASE GivenUp' = GivenUp
  BY <1>1, <1>2, <1>5
     DEF BusStep, Contract!contractVars, Contract!eventVars, Contract!audienceVars,
         Contract!dispatchVars, FateMap, DueMap, CalledMap
<1>6. CASE GivenUp' # GivenUp
  <2>1. Contract!GiveUp
    BY <1>1, <1>2, <1>3, <1>4, <1>6
       DEF Contract!GiveUp, Contract!eventVars, Contract!dispatchVars,
           FateMap, DueMap, CalledMap
  <2> QED  BY <2>1 DEF BusStep, Contract!ContractNext
<1> QED
  BY <1>5, <1>6

LEMMA ClientKeeps ==
    ASSUME TypeInv, AccountInv, Clients
    PROVE  BusStep
<1>1. CASE UNCHANGED <<posted, callbacks, record, open, stack, begun, dropped>>
  BY <1>1, SameCalls, NothingSeen DEF BusStep
<1>2. CASE \E h \in Handled : SetExceptionHandler(h)
  BY <1>1, <1>2 DEF SetExceptionHandler, subVars, queueVars, ownerVars
<1>3. CASE Notify \/ \E a \in Awaiters : RegisterAwaiter(a) \/ Deactivate(a)
  BY <1>1, <1>3 DEF Notify, RegisterAwaiter, Deactivate, subVars, queueVars, ownerVars
<1>4. CASE \E s \in Subs : Unsubscribe(s)
  BY <1>4, EraseKeeps DEF Unsubscribe
<1>5. CASE \/ \E o \in Owners : UnsubscribeAll(o, Types)
           \/ \E o \in Owners, ty \in Types : UnsubscribeAll(o, {ty})
  BY <1>5, EraseKeeps DEF UnsubscribeAll
<1>6. CASE \E o \in Owners : CloseBegin(o) \/ CloseFinish(o)
  BY <1>6, CloseKeeps, EraseKeeps DEF CloseFinish
<1> QED
  BY <1>2, <1>3, <1>4, <1>5, <1>6, PostKeeps, ClearKeeps, SubscribeKeeps DEF Clients

LEMMA ContractStep ==
    ASSUME TypeInv, TypeInv', AccountInv, AccountInv', DispatchInv, DispatchInv',
           [Next]_vars
    PROVE  BusStep
<1>1. ASSUME NEW t \in Threads, Steps(t) PROVE BusStep
  <2>1. /\ UNCHANGED <<subVars, posted, dropped, open>> /\ 1 \in DOMAIN stack[t]
    BY <1>1, StepShapes, TopFrame DEF ownerVars
  <2> QED  BY <1>1, <2>1, StepMeans, GoesOnKeeps, TakesUpKeeps, LeavesKeeps
<1>2. CASE UNCHANGED vars
  BY <1>2, SameCalls, NothingSeen DEF BusStep, vars, subVars, queueVars, ownerVars
<1>3. ASSUME NEW t \in Pumps, ProcessBegin(t) PROVE BusStep
  BY <1>3, BeginsKeeps, BusAssumption
<1> QED
  BY <1>1, <1>2, <1>3, ClientKeeps, BeginsKeeps, NextCases

\* It starts as the contract does.
LEMMA ContractStarts ==
    ASSUME Init
    PROVE  Contract!ContractInit
<1>1. /\ posted = <<>> /\ record = <<>> /\ begun = {} /\ dropped = {}
      /\ callbacks = [ty \in Types |-> {}] /\ stack = [t \in Threads |-> <<>>]
  BY DEF Init
<1>2. /\ Len(posted) = 0 /\ Len(record) = 0 /\ DOMAIN record = {}
      /\ \A t \in Threads : DOMAIN stack[t] = {}
  BY <1>1, EmptySeq
<1>3. \A e : CallsFor(e) = {} /\ DueFor(e) = {} /\ CalledFor(e) = {}
  <2>1. \A e : CallsFor(e) = {}
    BY <1>2 DEF CallsFor, Range
  <2> QED  BY <2>1, NoCallFor
<1>4. \A e \in Events : FateOf(e) = "new"
  BY <1>1, <1>2, BusAssumption DEF FateOf, Events
<1>5. GivenUp = {}
  BY <1>2 DEF GivenUp
<1> QED
  BY <1>1, <1>2, <1>3, <1>4, <1>5 DEF Contract!ContractInit

\* EventBus implements BusContract: for any number of threads that emit and
\* process, nested in callbacks to any depth, with throwing callbacks, restored
\* queues and closing endpoints, process() dispatches an event at most once, to
\* the subscriptions dispatch() has copied, in the order of subscribe(), one
\* callback at a time, and passes over only those whose guard has been given up.
THEOREM ContractKept == Spec => KeepsContract
<1> DEFINE Inv == TypeInv /\ AccountInv /\ DispatchInv
<1>1. Init => Inv /\ Contract!ContractInit
  BY TypeInit, AccountInit, DispatchStarts, ContractStarts
<1>2. Inv /\ [Next]_vars => Inv'
  BY TypeStep, AccountStep, DispatchStep
<1>3. Inv /\ Inv' /\ [Next]_vars => [Contract!ContractNext]_(Contract!contractVars)
  BY ContractStep DEF BusStep
<1> QED
  BY <1>1, <1>2, <1>3, PTL DEF Spec, KeepsContract, Contract!ContractSpec
================================================================================
