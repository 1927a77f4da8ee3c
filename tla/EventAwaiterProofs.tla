--------------------------- MODULE EventAwaiterProofs ---------------------------
(***************************************************************************)
(* Theorems about EventAwaiter for every value of its constants.           *)
(***************************************************************************)
EXTENDS EventAwaiter, ProofLemmas, SequenceTheorems, TLAPS

--------------------------------------------------------------------------------
(* What a step does to the calls of a thread. *)

Stacks == [Threads -> Seq(Frame)]

\* Thread t begins the call f, its innermost call becomes f, or its innermost
\* call ends.
Pushes(t, f) == stack' = [stack EXCEPT ![t] = <<f>> \o stack[t]]
Becomes(t, f) ==
    stack[t] # <<>> /\ stack' = [stack EXCEPT ![t] = [stack[t] EXCEPT ![1] = f]]
Pops(t) == stack[t] # <<>> /\ stack' = [stack EXCEPT ![t] = Tail(stack[t])]

\* A call that begins is the innermost, and the calls below it are the ones that
\* were there.
LEMMA PushFrames ==
    ASSUME stack \in Stacks, NEW t \in Threads, NEW f \in Frame, Pushes(t, f)
    PROVE  /\ stack' \in Stacks /\ \A u \in Threads \ {t} : stack'[u] = stack[u]
           /\ stack'[t] # <<>> /\ stack'[t][1] = f
           /\ \A j \in DOMAIN stack'[t] : j \in Nat \ {0}
           /\ \A j \in DOMAIN stack'[t] :
                 j # 1 => j - 1 \in DOMAIN stack[t] /\ stack'[t][j] = stack[t][j - 1]
           /\ \A i \in DOMAIN stack[t] :
                 i + 1 \in DOMAIN stack'[t] /\ stack'[t][i + 1] = stack[t][i]
<1>1. stack'[t] = <<f>> \o stack[t] /\ stack[t] \in Seq(Frame)
  BY DEF Pushes, Stacks
<1>2. stack'[t] \in Seq(Frame)
  BY <1>1, PushSeq
<1>3. stack' \in Stacks /\ \A u \in Threads \ {t} : stack'[u] = stack[u]
  BY <1>2 DEF Pushes, Stacks
<1> QED
  BY <1>1, <1>3, PushSeq

\* A call that goes on is still the innermost, and the calls below it stay.
LEMMA BecomeFrames ==
    ASSUME stack \in Stacks, NEW t \in Threads, NEW f \in Frame, Becomes(t, f)
    PROVE  /\ stack' \in Stacks /\ \A u \in Threads \ {t} : stack'[u] = stack[u]
           /\ stack'[t] # <<>> /\ stack'[t][1] = f
           /\ 1 \in DOMAIN stack[t] /\ DOMAIN stack'[t] = DOMAIN stack[t]
           /\ \A i \in DOMAIN stack[t] \ {1} : stack'[t][i] = stack[t][i]
<1>1. /\ stack'[t] = [stack[t] EXCEPT ![1] = f]
      /\ stack[t] \in Seq(Frame) /\ stack[t] # <<>>
  BY DEF Becomes, Stacks
<1>2. stack'[t] \in Seq(Frame)
  BY <1>1, ReplaceTop
<1>3. stack' \in Stacks /\ \A u \in Threads \ {t} : stack'[u] = stack[u]
  BY <1>2 DEF Becomes, Stacks
<1> QED
  BY <1>1, <1>3, ReplaceTop

\* A call that ends leaves the calls below it.
LEMMA PopFrames ==
    ASSUME stack \in Stacks, NEW t \in Threads, Pops(t)
    PROVE  /\ stack' \in Stacks /\ \A u \in Threads \ {t} : stack'[u] = stack[u]
           /\ \A j \in DOMAIN stack'[t] :
                 /\ j \in Nat \ {0}
                 /\ j + 1 \in DOMAIN stack[t] /\ stack'[t][j] = stack[t][j + 1]
<1>1. stack'[t] = Tail(stack[t]) /\ stack[t] \in Seq(Frame) /\ stack[t] # <<>>
  BY DEF Pops, Stacks
<1>2. stack'[t] \in Seq(Frame)
  BY <1>1, PopSeq
<1>3. stack' \in Stacks /\ \A u \in Threads \ {t} : stack'[u] = stack[u]
  BY <1>2 DEF Pops, Stacks
<1> QED
  BY <1>1, <1>3, PopSeq

\* Return ends a call.
LEMMA ReturnFrame ==
    ASSUME NEW t \in Threads, stack \in Stacks, stack[t] # <<>>, Return(t)
    PROVE  Pops(t)
BY DEF Return, Pops

\* Begin begins one.
LEMMA BeginFrame ==
    ASSUME NEW t \in Threads, stack \in Stacks, NEW op, NEW step, Begin(t, op, step)
    PROVE  Pushes(t, [op |-> op, at |-> step, then |-> "return", fn |-> FALSE])
BY DEF Begin, Pushes

--------------------------------------------------------------------------------
(* The steps of a call. *)

\* The innermost call of t goes on at `step', and after the cancel() it may make
\* at `then'.
Goes(t, step, then) ==
    \E f \in Frame : /\ Becomes(t, f)
                     /\ f.op = stack[t][1].op /\ f.at = step /\ f.then = then

\* The steps of a call by what they do to the stack: where the innermost call
\* was, and where it goes.
StepShape(t) ==
    LET op   == stack[t][1].op
        at   == stack[t][1].at
        then == stack[t][1].then
    IN  \/ /\ \/ at = "copied" /\ Locks /\ Goes(t, "active", then)
              \/ at = "copied" /\ ~Locks /\ Pops(t)
              \/ at = "active" /\ cancelled /\ Pops(t)
              \/ at = "active" /\ ~cancelled /\ Goes(t, "token", then)
              \/ at = "token" /\ Goes(t, "cas", then)
              \/ at = "token" /\ op = "event" /\ Goes(t, "predicate", then)
              \/ at = "token" /\ op # "event" /\ Goes(t, "deadline", then)
              \/ at = "deadline" /\ expired /\ Goes(t, "take", then)
              \/ at = "deadline" /\ Pops(t)
              \/ at = "take" /\ Goes(t, "drop", then)
              \/ at = "predicate" /\ Pops(t)
              \/ at = "predicate" /\ singleShot /\ Goes(t, "cas", "callback")
              \/ at = "predicate" /\ ~singleShot /\ Goes(t, "callback", "callback")
              \/ at = "read" /\ stored /\ Goes(t, "unsubscribe", then)
              \/ at = "read" /\ ~stored /\ Goes(t, "release", then)
              \/ at \in {"return", "inCallback", "inTimeout"} /\ Pops(t)
           /\ UNCHANGED <<history, members>>
        \/ /\ at = "drop"
           /\ Goes(t, "cas", "timeout") \/ Goes(t, "cas", "return")
           /\ onTimeout' = FALSE
           /\ UNCHANGED <<history, cancelled, stored, subscribed, retain>>
        \/ /\ at = "cas"
           /\ \/ cancelled /\ Goes(t, then, then)
              \/ ~cancelled /\ Goes(t, "read", then)
           /\ cancelled' = TRUE
           /\ UNCHANGED <<history, stored, subscribed, retain, onTimeout>>
        \/ /\ at = "unsubscribe" /\ Goes(t, "clear", then)
           /\ subscribed' = FALSE
           /\ UNCHANGED <<history, cancelled, stored, retain, onTimeout>>
        \/ /\ at = "clear" /\ Goes(t, "release", then)
           /\ stored' = FALSE
           /\ UNCHANGED <<history, cancelled, subscribed, retain, onTimeout>>
        \/ /\ at = "release" /\ Goes(t, then, then)
           /\ retain' = FALSE
           /\ UNCHANGED <<history, cancelled, stored, subscribed, onTimeout>>
        \/ /\ at = "callback" /\ Goes(t, "inCallback", then)
           /\ calls' = IF calls < 2 THEN calls + 1 ELSE 2
           /\ UNCHANGED <<members, timeouts>>
        \/ /\ at = "timeout" /\ Goes(t, "inTimeout", then)
           /\ timeouts' = IF timeouts < 2 THEN timeouts + 1 ELSE 2
           /\ UNCHANGED <<members, calls>>

\* A call that only changes its step.
LEMMA GotoGoes ==
    ASSUME stack \in Stacks, NEW t \in Threads, stack[t] # <<>>, stack[t][1] \in Frame,
           NEW step \in {"active", "token", "deadline", "take", "cas", "predicate",
                         "read", "unsubscribe", "clear", "release", "inCallback",
                         "inTimeout", stack[t][1].then},
           Goto(t, step)
    PROVE  Goes(t, step, stack[t][1].then)
<1> DEFINE f == [stack[t][1] EXCEPT !.at = step]
<1>1. Becomes(t, f)
  BY DEF Goto, Becomes
<1>2. /\ f \in Frame /\ f.op = stack[t][1].op /\ f.at = step
      /\ f.then = stack[t][1].then
  BY DEF Frame, UserCode
<1> QED
  BY <1>1, <1>2 DEF Goes

\* Every step of a call has one of these shapes.
LEMMA StepFrames ==
    ASSUME stack \in Stacks, onTimeout \in BOOLEAN, NEW t \in Threads, Step(t)
    PROVE  /\ stack[t] # <<>> /\ 1 \in DOMAIN stack[t] /\ stack[t][1] \in Frame
           /\ UNCHANGED <<lifeVars, envVars>>
           /\ StepShape(t)
<1>1. stack[t] # <<>>
  BY DEF Step, LockSelf, CheckActive, CheckToken, CheckDeadline, TakeOnTimeout,
         DropOnTimeout, PredicateReturns, CancelCas, ReadId, UnsubscribeRecord,
         ClearId, Release, Invoke, Leave, At
<1>2. 1 \in DOMAIN stack[t] /\ stack[t][1] \in Frame
  BY <1>1, LenProperties, EmptySeq, ElementOfSeq DEF Stacks
<1>3. \A s \in {"active", "token", "deadline", "take", "cas", "predicate", "read",
                "unsubscribe", "clear", "release", "inCallback", "inTimeout",
                stack[t][1].then} :
         Goto(t, s) => Goes(t, s, stack[t][1].then)
  BY <1>1, <1>2, GotoGoes
<1>4. Return(t) => Pops(t)
  BY <1>1, ReturnFrame
<1>5. UNCHANGED <<lifeVars, envVars>>
  BY DEF Step, LockSelf, CheckActive, CheckToken, CheckDeadline, TakeOnTimeout,
         DropOnTimeout, PredicateReturns, CancelCas, ReadId, UnsubscribeRecord,
         ClearId, Release, Invoke, Leave
<1> SUFFICES StepShape(t)
  BY <1>1, <1>2, <1>5
<1>6. CASE LockSelf(t)
  BY <1>3, <1>4, <1>6 DEF LockSelf, At, StepShape
<1>7. CASE CheckActive(t)
  BY <1>3, <1>4, <1>7 DEF CheckActive, StaysQuiet, At, StepShape
<1>8. CASE CheckToken(t)
  BY <1>3, <1>4, <1>8 DEF CheckToken, AfterToken, At, StepShape
<1>9. CASE CheckDeadline(t)
  BY <1>3, <1>4, <1>9 DEF CheckDeadline, At, StepShape
<1>10. CASE TakeOnTimeout(t)
  <2> DEFINE f == [stack[t][1] EXCEPT !.at = "drop", !.fn = onTimeout]
  <2>1. Becomes(t, f)
    BY <1>10, <1>1, <1>2 DEF TakeOnTimeout, Becomes, Stacks
  <2>2. /\ f \in Frame /\ f.op = stack[t][1].op /\ f.at = "drop"
        /\ f.then = stack[t][1].then
    BY <1>2 DEF Frame, UserCode
  <2>3. Goes(t, "drop", stack[t][1].then)
    BY <2>1, <2>2 DEF Goes
  <2> QED  BY <1>10, <2>3 DEF TakeOnTimeout, At, StepShape
<1>11. CASE DropOnTimeout(t)
  <2> DEFINE r == IF stack[t][1].fn THEN "timeout" ELSE "return"
             f == [stack[t][1] EXCEPT !.at = "cas", !.then = r]
  <2>1. Becomes(t, f)
    BY <1>11, <1>1, <1>2 DEF DropOnTimeout, Becomes, Stacks
  <2>2. f \in Frame /\ f.op = stack[t][1].op /\ f.at = "cas" /\ f.then = r
    BY <1>2 DEF Frame, UserCode
  <2>3. Goes(t, "cas", r)
    BY <2>1, <2>2 DEF Goes
  <2> QED  BY <1>11, <2>3 DEF DropOnTimeout, At, StepShape
<1>12. CASE PredicateReturns(t)
  <2>1. CASE Return(t)
    BY <1>12, <1>4, <2>1 DEF PredicateReturns, At, StepShape
  <2>2. CASE ~Return(t)
    <3> DEFINE f == [stack[t][1] EXCEPT !.at = Matched, !.then = "callback"]
    <3>1. Becomes(t, f)
      BY <1>12, <2>2, <1>1, <1>2 DEF PredicateReturns, Becomes, Stacks
    <3>2. f \in Frame /\ f.op = stack[t][1].op /\ f.at = Matched /\ f.then = "callback"
      BY <1>2 DEF Frame, UserCode, Matched
    <3>3. Goes(t, Matched, "callback")
      BY <3>1, <3>2 DEF Goes
    <3> QED  BY <1>12, <3>3 DEF PredicateReturns, Matched, At, StepShape
  <2> QED  BY <2>1, <2>2
<1>13. CASE CancelCas(t)
  BY <1>3, <1>13 DEF CancelCas, At, StepShape
<1>14. CASE ReadId(t)
  BY <1>3, <1>14 DEF ReadId, At, StepShape
<1>15. CASE UnsubscribeRecord(t) \/ ClearId(t) \/ Release(t)
  BY <1>3, <1>15 DEF UnsubscribeRecord, ClearId, Release, At, StepShape
<1>16. CASE Invoke(t)
  BY <1>3, <1>16 DEF Invoke, At, StepShape
<1>17. CASE Leave(t)
  BY <1>4, <1>17 DEF Leave, At, StepShape
<1> QED
  BY <1>6, <1>7, <1>8, <1>9, <1>10, <1>11, <1>12, <1>13, <1>14, <1>15, <1>16,
     <1>17 DEF Step

--------------------------------------------------------------------------------
(* Types. *)

\* Where the functions go.
FrameInPlace(f) ==
    /\ f.at \in {"predicate", "callback", "inCallback"} => f.op = "event"
    /\ f.at \in {"deadline", "take", "drop", "timeout", "inTimeout"} => f.op = "poll"
\* The way back from cancel() belongs to the function that made it.
FrameThen(f) ==
    /\ f.then = "callback" => f.op = "event"
    /\ f.then = "timeout" => f.op = "poll"
    /\ f.op = "cancel" =>
          f.at \in {"cas", "read", "unsubscribe", "clear", "release", "return"}
FramesInPlace == \A t \in Threads : \A i \in DOMAIN stack[t] :
                    FrameInPlace(stack[t][i]) /\ FrameThen(stack[t][i])

Flags == /\ born \in {"new", "retained", "subscribed", "stored", "done"}
         /\ {singleShot, cancelled, stored, subscribed, registered, retain, handle,
             destroyed, token, expired, onTimeout} \subseteq BOOLEAN
         /\ calls \in 0..2 /\ timeouts \in 0..2

TypeInv == Flags /\ stack \in Stacks /\ FramesInPlace

\* TypeInv is TypeOK and what the proofs need besides.
LEMMA TypeInvIsTypeOK == TypeInv => TypeOK
BY DEF TypeInv, TypeOK, Flags, FramesInPlace, Stacks, FrameInPlace

\* A step of a call keeps the flags and the counters in their types.
LEMMA StepFlags ==
    ASSUME TypeInv, NEW t \in Threads, Step(t)
    PROVE  Flags'
<1>1. StepShape(t) /\ UNCHANGED <<lifeVars, envVars>>
  BY StepFrames DEF TypeInv, Flags
<1>2. calls' \in 0..2 /\ timeouts' \in 0..2
  BY <1>1 DEF StepShape, TypeInv, Flags, history
<1>3. {cancelled', stored', subscribed', retain', onTimeout'} \subseteq BOOLEAN
  BY <1>1 DEF StepShape, TypeInv, Flags, members
<1> QED
  BY <1>1, <1>2, <1>3 DEF TypeInv, Flags, lifeVars, envVars

\* A step keeps every call in its own function.
LEMMA StepInPlace ==
    ASSUME TypeInv, NEW t \in Threads, Step(t)
    PROVE  stack' \in Stacks /\ FramesInPlace'
<1> USE DEF TypeInv
<1>1. /\ 1 \in DOMAIN stack[t] /\ stack[t][1] \in Frame /\ StepShape(t)
  BY StepFrames DEF Flags
<1>2. FrameInPlace(stack[t][1]) /\ FrameThen(stack[t][1])
  BY <1>1 DEF FramesInPlace
<1>3. CASE Pops(t)
  BY <1>3, PopFrames DEF FramesInPlace
<1>4. ASSUME NEW g \in Frame, Becomes(t, g), FrameInPlace(g), FrameThen(g)
      PROVE  stack' \in Stacks /\ FramesInPlace'
  BY <1>4, BecomeFrames DEF FramesInPlace
<1>5. Pops(t) \/ \E g \in Frame : Becomes(t, g) /\ FrameInPlace(g) /\ FrameThen(g)
  BY <1>1, <1>2 DEF StepShape, Goes, FrameInPlace, FrameThen, Frame, Flags
<1> QED
  BY <1>3, <1>4, <1>5

\* A call begins as its kind does.
Begins(t, op, step) ==
    \E f \in Frame : Pushes(t, f) /\ f.op = op /\ f.at = step /\ f.then = "return"

\* Begin pushes a call of this kind.
LEMMA BeginBegins ==
    ASSUME stack \in Stacks, NEW t \in Threads,
           NEW op \in {"event", "poll", "cancel"},
           NEW step \in {"copied", "active", "cas"},
           Begin(t, op, step)
    PROVE  Begins(t, op, step)
<1> DEFINE f == [op |-> op, at |-> step, then |-> "return", fn |-> FALSE]
<1>1. f \in Frame /\ f.op = op /\ f.at = step /\ f.then = "return"
  BY DEF Frame, UserCode
<1> QED
  BY <1>1, BeginFrame DEF Begins

\* What a dispatch that copies the record does.
LEMMA DispatchFrames ==
    ASSUME stack \in Stacks, NEW t \in Dispatchers, DispatchBegin(t)
    PROVE  /\ t \in Threads /\ MayCall(t) /\ subscribed /\ Begins(t, "event", "copied")
           /\ UNCHANGED <<lifeVars, envVars, history, members>>
BY BeginBegins DEF DispatchBegin, Threads

\* What poll_awaiters() does when it comes to the awaiter.
LEMMA PollFrames ==
    ASSUME stack \in Stacks, NEW t \in Dispatchers, PollBegin(t)
    PROVE  /\ t \in Threads /\ MayCall(t) /\ registered
           /\ \/ Alive /\ ~destroyed /\ ~cancelled /\ Begins(t, "poll", "active")
                   /\ UNCHANGED registered
              \/ registered' = FALSE /\ UNCHANGED stack
           /\ UNCHANGED <<born, handle, destroyed, envVars, history, members>>
BY BeginBegins DEF PollBegin, Threads

\* What a cancel() through the handle does.
LEMMA CancelFrames ==
    ASSUME stack \in Stacks, NEW t \in Cancellers, CancelBegin(t)
    PROVE  /\ t \in Threads /\ stack[t] = <<>> /\ handle /\ Begins(t, "cancel", "cas")
           /\ UNCHANGED <<lifeVars, envVars, history, members>>
BY BeginBegins DEF CancelBegin, Threads

\* Everything but the calls: the creator, the token, the deadline, the handle and
\* the destructor.
Outside ==
    Create \/ CancelToken \/ DeadlinePasses \/ DropHandle \/ Destroy \/ UNCHANGED vars

\* The steps of the specification, by whose they are.
LEMMA NextCases ==
    ASSUME [Next]_vars
    PROVE  \/ Outside
           \/ \E t \in Dispatchers : DispatchBegin(t)
           \/ \E t \in Dispatchers : PollBegin(t)
           \/ \E t \in Cancellers : CancelBegin(t)
           \/ \E t \in Threads : Step(t)
BY DEF Next, Outside

\* They leave the calls alone.
LEMMA OutsideFrame ==
    ASSUME Outside
    PROVE  UNCHANGED <<stack, history>> /\ singleShot' = singleShot
BY DEF Outside, Create, Retain, SubscribeRecord, StoreId, Register, CancelToken,
       DeadlinePasses, DropHandle, Destroy, vars, envVars, members, lifeVars

\* A call begins in its own function.
LEMMA BeginInPlace ==
    ASSUME TypeInv, NEW t \in Threads,
           \/ Begins(t, "event", "copied") \/ Begins(t, "poll", "active")
           \/ Begins(t, "cancel", "cas")
    PROVE  stack' \in Stacks /\ FramesInPlace'
<1> USE DEF TypeInv
<1>1. PICK f \in Frame : Pushes(t, f) /\ FrameInPlace(f) /\ FrameThen(f)
  BY DEF Begins, FrameInPlace, FrameThen
<1>2. stack' \in Stacks
  BY <1>1, PushFrames
<1>3. \A i \in DOMAIN stack'[t] : FrameInPlace(stack'[t][i]) /\ FrameThen(stack'[t][i])
  BY <1>1, PushFrames DEF FramesInPlace
<1>4. \A u \in Threads \ {t} : stack'[u] = stack[u]
  BY <1>1, PushFrames
<1> QED
  BY <1>2, <1>3, <1>4 DEF FramesInPlace

\* Every step keeps the types.
LEMMA TypeStep == TypeInv /\ [Next]_vars => TypeInv'
<1> SUFFICES ASSUME TypeInv, [Next]_vars PROVE TypeInv'
  OBVIOUS
<1> USE DEF TypeInv
<1>1. CASE Outside
  <2>1. stack' \in Stacks /\ FramesInPlace'
    BY <1>1, OutsideFrame DEF FramesInPlace
  <2>2. Flags'
    BY <1>1 DEF Outside, Create, Retain, SubscribeRecord, StoreId, Register,
           CancelToken, DeadlinePasses, DropHandle, Destroy, vars, lifeVars, envVars,
           history, members, Flags
  <2> QED  BY <2>1, <2>2
<1>2. ASSUME NEW t \in Dispatchers, DispatchBegin(t) PROVE TypeInv'
  BY <1>2, DispatchFrames, BeginInPlace DEF Flags, lifeVars, envVars, history, members
<1>3. ASSUME NEW t \in Dispatchers, PollBegin(t) PROVE TypeInv'
  <2>1. Flags'
    BY <1>3, PollFrames DEF Flags, lifeVars, envVars, history, members
  <2>2. CASE UNCHANGED stack
    BY <2>1, <2>2 DEF FramesInPlace
  <2>3. CASE Begins(t, "poll", "active")
    BY <1>3, <2>1, <2>3, PollFrames, BeginInPlace
  <2> QED  BY <1>3, <2>2, <2>3, PollFrames
<1>4. ASSUME NEW t \in Cancellers, CancelBegin(t) PROVE TypeInv'
  BY <1>4, CancelFrames, BeginInPlace DEF Flags, lifeVars, envVars, history, members
<1>5. ASSUME NEW t \in Threads, Step(t) PROVE TypeInv'
  BY <1>5, StepFlags, StepInPlace
<1> QED
  BY <1>1, <1>2, <1>3, <1>4, <1>5, NextCases

\* The types hold at the start.
LEMMA TypeInit == Init => TypeInv
<1> SUFFICES ASSUME Init PROVE TypeInv
  OBVIOUS
<1>1. \A t \in Threads : stack[t] = <<>> /\ DOMAIN stack[t] = {}
  BY DEF Init
<1>2. stack \in Stacks
  BY DEF Init, Stacks
<1>3. FramesInPlace
  BY <1>1 DEF FramesInPlace
<1>4. {singleShot, cancelled, stored, subscribed, registered, retain, handle,
       destroyed, token, expired, onTimeout} \subseteq BOOLEAN
  BY Zenon DEF Init
<1>5. born \in {"new", "retained", "subscribed", "stored", "done"}
      /\ calls \in 0..2 /\ timeouts \in 0..2
  BY DEF Init
<1> QED
  BY <1>2, <1>3, <1>4, <1>5 DEF TypeInv, Flags

\* Every variable keeps its type, and handle_event(), poll_timeout() and cancel()
\* each stay in their own code.
THEOREM TypeCorrect == Spec => []TypeOK
<1> QED
  BY TypeInit, TypeStep, TypeInvIsTypeOK, PTL DEF Spec

--------------------------------------------------------------------------------
(* Lifetime, and the gate of is_active(). *)

\* A call that holds a reference to the awaiter.
Holds(t) == \E i \in DOMAIN stack[t] : stack[t][i].at # "copied"

\* The destructor has run: nothing refers to the awaiter, now or later.
Gone ==
    destroyed => /\ born = "done" /\ ~handle /\ ~retain
                 /\ \A t \in Threads : ~Holds(t)

\* A destroyed awaiter stays unreferenced: a late call finds weak_self expired.
LEMMA GoneStep ==
    ASSUME TypeInv, Gone, [Next]_vars
    PROVE  Gone'
<1> USE DEF TypeInv
<1>f. destroyed \in BOOLEAN /\ stack \in Stacks /\ onTimeout \in BOOLEAN
  BY DEF Flags
<1>1. CASE Outside
  <2>1. \A t \in Threads : Holds(t)' <=> Holds(t)
    BY <1>1, OutsideFrame DEF Holds
  <2>2. CASE Destroy
    <3>1. born = "done" /\ ~handle /\ ~retain /\ \A t \in Threads : ~Holds(t)
      BY <2>2 DEF Destroy, Alive, Holding, Holds
    <3>2. UNCHANGED <<born, handle, retain>>
      BY <2>2 DEF Destroy
    <3> QED  BY <2>1, <3>1, <3>2 DEF Gone
  <2>3. CASE ~Destroy
    <3>1. destroyed' = destroyed
      BY <1>1, <2>3 DEF Outside, Create, Retain, SubscribeRecord, StoreId, Register,
             CancelToken, DeadlinePasses, DropHandle, vars, lifeVars
    <3>2. born = "done" => born' = born /\ (~handle => ~handle') /\ retain' = retain
      BY <1>1, <2>3 DEF Outside, Create, Retain, SubscribeRecord, StoreId, Register,
             CancelToken, DeadlinePasses, DropHandle, vars, lifeVars, members
    <3> QED  BY <2>1, <3>1, <3>2 DEF Gone
  <2> QED  BY <2>2, <2>3
<1>2. ASSUME NEW t \in Dispatchers, DispatchBegin(t) PROVE Gone'
  <2>1. PICK f \in Frame : Pushes(t, f) /\ f.at = "copied"
    BY <1>2, DispatchFrames DEF Begins
  <2>2. UNCHANGED <<born, handle, destroyed, retain>> /\ t \in Threads
    BY <1>2, DispatchFrames DEF lifeVars, members
  <2>3. \A u \in Threads : ~Holds(u) => ~Holds(u)'
    BY <2>1, <2>2, PushFrames DEF Holds
  <2> QED  BY <2>2, <2>3 DEF Gone
<1>3. ASSUME NEW t \in Dispatchers, PollBegin(t) PROVE Gone'
  <2>1. UNCHANGED <<born, handle, destroyed, retain>>
    BY <1>3, PollFrames DEF members
  <2>2. UNCHANGED stack \/ ~destroyed
    BY <1>3, PollFrames
  <2> QED  BY <2>1, <2>2 DEF Gone, Holds
<1>4. ASSUME NEW t \in Cancellers, CancelBegin(t) PROVE Gone'
  BY <1>4, CancelFrames DEF Gone, lifeVars
<1>5. ASSUME NEW t \in Threads, Step(t) PROVE Gone'
  <2>1. /\ 1 \in DOMAIN stack[t] /\ StepShape(t) /\ UNCHANGED <<lifeVars, envVars>>
    BY <1>5, <1>f, StepFrames
  <2>2. SUFFICES ASSUME destroyed PROVE Gone'
    BY <2>1 DEF Gone, lifeVars
  <2>3. /\ born = "done" /\ ~handle /\ ~retain /\ \A u \in Threads : ~Holds(u)
    BY <2>2 DEF Gone
  <2>4. stack[t][1].at = "copied"
    BY <2>1, <2>3 DEF Holds
  <2>5. Pops(t) /\ UNCHANGED retain
    BY <2>1, <2>2, <2>4 DEF StepShape, Locks, members
  <2>6. \A u \in Threads : ~Holds(u)'
    BY <1>f, <2>3, <2>5, PopFrames DEF Holds
  <2> QED  BY <2>1, <2>3, <2>5, <2>6 DEF Gone, lifeVars
<1> QED
  BY <1>1, <1>2, <1>3, <1>4, <1>5, NextCases

\* The members of an awaiter are never used after its destructor, whatever
\* threads create, dispatch, poll, cancel and drop it and wherever the callbacks
\* nest: a dispatch that copied the record in time finds weak_self expired.
THEOREM NoCallAfterFree == Spec => []NoUseAfterFree
<1>1. Init => Gone
  BY DEF Init, Gone
<1>2. TypeInv /\ Gone /\ [Next]_vars => Gone'
  BY GoneStep
<1>3. Gone => NoUseAfterFree
  BY DEF Gone, NoUseAfterFree, Holding, Holds
<1> QED
  BY <1>1, <1>2, <1>3, TypeInit, TypeStep, PTL DEF Spec

\* An element counted from the end of a sequence stays when one is put in front.
LEMMA PushLevel ==
    ASSUME NEW F, NEW s \in Seq(F), NEW f \in F, NEW p, p = <<f>> \o s,
           NEW d \in 1..Len(p)
    PROVE  \/ d = Len(p) /\ p[Len(p) + 1 - d] = f
           \/ d \in 1..Len(s) /\ p[Len(p) + 1 - d] = s[Len(s) + 1 - d]
<1>1. /\ p \in Seq(F) /\ p[1] = f /\ Len(p) = Len(s) + 1
      /\ \A j \in DOMAIN p : j # 1 => p[j] = s[j - 1]
  BY PushSeq
<1>2. Len(s) \in Nat /\ DOMAIN p = 1..(Len(s) + 1)
  BY <1>1, LenProperties
<1>3. CASE d = Len(s) + 1
  <2>1. Len(p) + 1 - d = 1
    BY <1>1, <1>2, <1>3
  <2> QED  BY <1>1, <1>3, <2>1
<1>4. CASE d # Len(s) + 1
  <2> DEFINE k == Len(s) + 2 - d
  <2>1. /\ d \in 1..Len(s) /\ k \in 1..(Len(s) + 1) /\ k # 1
        /\ Len(p) + 1 - d = k /\ k - 1 = Len(s) + 1 - d
    BY <1>1, <1>2, <1>4
  <2>2. p[k] = s[k - 1]
    BY <1>1, <1>2, <2>1
  <2> QED  BY <2>1, <2>2
<1> QED
  BY <1>3, <1>4

\* It stays when the first element is taken away.
LEMMA PopLevel ==
    ASSUME NEW F, NEW s \in Seq(F), s # <<>>, NEW p, p = Tail(s), NEW d \in 1..Len(p)
    PROVE  d \in 1..Len(s) /\ p[Len(p) + 1 - d] = s[Len(s) + 1 - d]
<1>1. /\ p \in Seq(F) /\ Len(p) = Len(s) - 1
      /\ \A j \in DOMAIN p : p[j] = s[j + 1]
  BY PopSeq
<1>2. Len(s) \in Nat /\ DOMAIN p = 1..(Len(s) - 1)
  BY <1>1, LenProperties
<1> DEFINE k == Len(s) - d
<1>3. /\ d \in 1..Len(s) /\ k \in 1..(Len(s) - 1)
      /\ Len(p) + 1 - d = k /\ k + 1 = Len(s) + 1 - d
  BY <1>1, <1>2
<1>4. p[k] = s[k + 1]
  BY <1>1, <1>2, <1>3
<1> QED
  BY <1>3, <1>4

\* A call that begins takes a level of its own, on top of the others.
LEMMA PushLevels ==
    ASSUME stack \in Stacks, NEW t \in Threads, NEW f \in Frame, Pushes(t, f), ~Open(f)
    PROVE  \A u \in Threads : OpenLevels(u)' \subseteq OpenLevels(u)
<1>1. \A u \in Threads \ {t} : stack'[u] = stack[u]
  BY PushFrames
<1>2. stack'[t] = <<f>> \o stack[t] /\ stack[t] \in Seq(Frame)
  BY DEF Pushes, Stacks
<1>3. ASSUME NEW d \in 1..Len(stack'[t]), Open(stack'[t][Len(stack'[t]) + 1 - d])
      PROVE  d \in 1..Len(stack[t]) /\ Open(stack[t][Len(stack[t]) + 1 - d])
  BY <1>2, <1>3, PushLevel
<1> QED
  BY <1>1, <1>3 DEF OpenLevels

\* A call that ends gives up its level and leaves the others theirs.
LEMMA PopLevels ==
    ASSUME stack \in Stacks, NEW t \in Threads, Pops(t)
    PROVE  \A u \in Threads : OpenLevels(u)' \subseteq OpenLevels(u)
<1>1. \A u \in Threads \ {t} : stack'[u] = stack[u]
  BY PopFrames
<1>2. stack'[t] = Tail(stack[t]) /\ stack[t] \in Seq(Frame) /\ stack[t] # <<>>
  BY DEF Pops, Stacks
<1>3. ASSUME NEW d \in 1..Len(stack'[t]), Open(stack'[t][Len(stack'[t]) + 1 - d])
      PROVE  d \in 1..Len(stack[t]) /\ Open(stack[t][Len(stack[t]) + 1 - d])
  BY <1>2, <1>3, PopLevel
<1> QED
  BY <1>1, <1>3 DEF OpenLevels

\* A call that goes on keeps its level: it is open only if it was.
LEMMA BecomeLevels ==
    ASSUME stack \in Stacks, NEW t \in Threads, NEW f \in Frame, Becomes(t, f),
           Open(f) => Open(stack[t][1])
    PROVE  \A u \in Threads : OpenLevels(u)' \subseteq OpenLevels(u)
<1>1. \A u \in Threads \ {t} : stack'[u] = stack[u]
  BY BecomeFrames
<1>2. /\ stack'[t] = [stack[t] EXCEPT ![1] = f]
      /\ stack[t] \in Seq(Frame) /\ stack[t] # <<>>
  BY DEF Becomes, Stacks
<1>3. /\ Len(stack[t]) \in Nat /\ Len(stack'[t]) = Len(stack[t])
      /\ DOMAIN stack[t] = 1..Len(stack[t]) /\ stack'[t][1] = f
      /\ \A i \in DOMAIN stack[t] \ {1} : stack'[t][i] = stack[t][i]
  BY <1>2, ReplaceTop, LenProperties
<1>4. ASSUME NEW d \in 1..Len(stack'[t]), Open(stack'[t][Len(stack'[t]) + 1 - d])
      PROVE  d \in 1..Len(stack[t]) /\ Open(stack[t][Len(stack[t]) + 1 - d])
  <2>1. Len(stack[t]) + 1 - d \in DOMAIN stack[t]
    BY <1>3
  <2>2. CASE Len(stack[t]) + 1 - d = 1
    BY <1>3, <1>4, <2>2
  <2>3. CASE Len(stack[t]) + 1 - d # 1
    BY <1>3, <1>4, <2>1, <2>3
  <2> QED  BY <2>2, <2>3
<1> QED
  BY <1>1, <1>4 DEF OpenLevels

\* A cancelled awaiter: a step opens no call.  is_active() ends a call that comes
\* to it, and a call that has reported or decided to leave does not come back.
LEMMA StepOpensNone ==
    ASSUME stack \in Stacks, NEW t \in Threads, stack[t][1] \in Frame, StepShape(t),
           cancelled
    PROVE  \/ Pops(t)
           \/ \E f \in Frame : Becomes(t, f) /\ (Open(f) => Open(stack[t][1]))
<1> SUFFICES ASSUME ~Pops(t)
             PROVE  \E f \in Frame : Becomes(t, f) /\ (Open(f) => Open(stack[t][1]))
  OBVIOUS
<1>1. stack[t][1].then \in {"return", "callback", "timeout"}
  BY DEF Frame
<1>2. ASSUME NEW step, NEW then, Goes(t, step, then),
             \A f \in Frame : f.at = step /\ f.then = then /\ Open(f) => Open(stack[t][1])
      PROVE  \E f \in Frame : Becomes(t, f) /\ (Open(f) => Open(stack[t][1]))
  BY <1>2 DEF Goes
<1>3. CASE Open(stack[t][1])
  BY <1>3 DEF StepShape, Goes
<1>4. CASE ~Open(stack[t][1])
  <2>1. \E step, then : /\ Goes(t, step, then)
                        /\ \/ step \in {"active", "return", "inCallback", "inTimeout"}
                           \/ step \in {"cas"} \cup Closing /\ then = "return"
    BY <1>1, <1>4 DEF StepShape, Open, Closing
  <2> QED  BY <1>2, <2>1 DEF Open, Closing
<1> QED
  BY <1>3, <1>4

\* Every step of the specification opens no call once the awaiter is cancelled.
LEMMA QuietStep ==
    ASSUME TypeInv, [Next]_vars, cancelled
    PROVE  OpensNone
<1> SUFFICES \A u \in Threads : OpenLevels(u)' \subseteq OpenLevels(u)
  BY DEF OpensNone
<1> USE DEF TypeInv
<1>f. stack \in Stacks /\ onTimeout \in BOOLEAN
  BY DEF Flags
<1>0. UNCHANGED stack => \A u \in Threads : OpenLevels(u)' \subseteq OpenLevels(u)
  BY DEF OpenLevels
<1>1. CASE Outside
  BY <1>0, <1>1, OutsideFrame
<1>2. ASSUME NEW t \in Dispatchers, DispatchBegin(t)
      PROVE  \A u \in Threads : OpenLevels(u)' \subseteq OpenLevels(u)
  <2>1. PICK f \in Frame : Pushes(t, f) /\ f.at = "copied"
    BY <1>2, <1>f, DispatchFrames DEF Begins
  <2> QED  BY <1>2, <1>f, <2>1, DispatchFrames, PushLevels DEF Open, Closing
<1>3. ASSUME NEW t \in Dispatchers, PollBegin(t)
      PROVE  \A u \in Threads : OpenLevels(u)' \subseteq OpenLevels(u)
  BY <1>0, <1>3, <1>f, PollFrames
<1>4. ASSUME NEW t \in Cancellers, CancelBegin(t)
      PROVE  \A u \in Threads : OpenLevels(u)' \subseteq OpenLevels(u)
  <2>1. PICK f \in Frame : Pushes(t, f) /\ f.at = "cas" /\ f.then = "return"
    BY <1>4, <1>f, CancelFrames DEF Begins
  <2> QED  BY <1>4, <1>f, <2>1, CancelFrames, PushLevels DEF Open, Closing
<1>5. ASSUME NEW t \in Threads, Step(t)
      PROVE  \A u \in Threads : OpenLevels(u)' \subseteq OpenLevels(u)
  <2>1. stack[t][1] \in Frame /\ StepShape(t)
    BY <1>5, <1>f, StepFrames
  <2>2. Pops(t) \/ \E f \in Frame : Becomes(t, f) /\ (Open(f) => Open(stack[t][1]))
    BY <1>f, <2>1, StepOpensNone
  <2> QED  BY <1>f, <2>2, PopLevels, BecomeLevels
<1> QED
  BY <1>1, <1>2, <1>3, <1>4, <1>5, NextCases

\* Once an awaiter is cancelled, by whatever thread, no event and no timeout gets
\* past is_active() in any thread at any depth of nesting, and each call that had
\* passed it reports at most once more.
THEOREM QuietOnceCancelled == Spec => QuietAfterCancel
<1>1. TypeInv /\ [Next]_vars => [cancelled => OpensNone]_vars
  BY QuietStep
<1> QED
  BY <1>1, TypeInit, TypeStep, PTL DEF Spec, QuietAfterCancel

--------------------------------------------------------------------------------
(* One loop and its cancellers: what cancel() leaves, what is reported. *)

\* How an awaiter is meant to be used: one loop creates it, dispatches to it and
\* polls it, others at most cancel it, and the predicate does not dispatch.
OneLoop ==
    /\ Dispatchers = {Creator} /\ Creator \notin Cancellers
    /\ "predicate" \notin Nesting

\* Nothing is called before the awaiter is complete.
BornFirst ==
    /\ \A t \in Threads : stack[t] # <<>> => born = "done"
    /\ handle \/ cancelled => born = "done"
    /\ born \in {"subscribed", "stored"} => subscribed
    /\ born \in {"stored", "done"} /\ ~cancelled => stored /\ subscribed

\* One call at most is behind the compare-exchange, and at each of its steps what
\* the steps before it have done is done.
OneCloser ==
    /\ \A t, u \in Threads : \A i \in DOMAIN stack[t], j \in DOMAIN stack[u] :
          stack[t][i].at \in Closing /\ stack[u][j].at \in Closing => t = u /\ i = j
    /\ \A t \in Threads : \A i \in DOMAIN stack[t] :
          /\ stack[t][i].at \in Closing => cancelled
          /\ stack[t][i].at = "read" => stored
          /\ stack[t][i].at \in {"clear", "release"} => ~subscribed

CloseInv == BornFirst /\ OneCloser /\ NothingLeft

\* What is true of a call f: a call that closes the awaiter or reports its end
\* has cancelled it, and an open one has nothing reported before it.
FrameOnce(f, isCancelled, once, results, ends) ==
    /\ f.at \in Closing \cup {"timeout"} => isCancelled
    /\ f.at = "callback" /\ once => isCancelled
    /\ Open(f) => ends = 0 /\ (once => results = 0)

EachOnce ==
    \A t \in Threads : \A i \in DOMAIN stack[t] :
        FrameOnce(stack[t][i], cancelled, singleShot, calls, timeouts)

\* The cancellers do nothing else, and only the loop's innermost call runs.
OnlyCancels ==
    \A t \in Cancellers : \A i \in DOMAIN stack[t] :
        stack[t][i].op = "cancel" /\ stack[t][i].then = "return"

OnlyTopRuns ==
    \A i \in DOMAIN stack[Creator] :
        i # 1 => stack[Creator][i].at \in {"inCallback", "inTimeout"}

\* What has been reported has cancelled the awaiter.
Reported ==
    /\ timeouts > 0 => cancelled
    /\ singleShot /\ calls > 0 => cancelled
    /\ SingleShotOnce /\ ResultOrTimeout

OnceInv == OnlyCancels /\ OnlyTopRuns /\ EachOnce /\ Reported

\* A call that goes on is the only one that changes.
LEMMA GoesFrames ==
    ASSUME stack \in Stacks, NEW t \in Threads, NEW step, NEW then, Goes(t, step, then)
    PROVE  /\ \A u \in Threads : DOMAIN stack'[u] = DOMAIN stack[u]
           /\ \A u \in Threads : stack'[u] # <<>> => stack[u] # <<>>
           /\ stack'[t][1].op = stack[t][1].op /\ stack'[t][1].at = step
           /\ stack'[t][1].then = then
           /\ \A u \in Threads : \A i \in DOMAIN stack[u] :
                 u # t \/ i # 1 => stack'[u][i] = stack[u][i]
<1>1. PICK f \in Frame : /\ Becomes(t, f) /\ f.op = stack[t][1].op
                         /\ f.at = step /\ f.then = then
  BY DEF Goes
<1> QED
  BY <1>1, BecomeFrames DEF Becomes

\* A call that ends leaves the others as they are.
LEMMA PopsFrames ==
    ASSUME stack \in Stacks, NEW t \in Threads, Pops(t)
    PROVE  /\ \A u \in Threads : stack'[u] # <<>> => stack[u] # <<>>
           /\ \A u \in Threads \ {t} : stack'[u] = stack[u]
           /\ \A j \in DOMAIN stack'[t] :
                 /\ j \in Nat \ {0}
                 /\ j + 1 \in DOMAIN stack[t] /\ stack'[t][j] = stack[t][j + 1]
BY PopFrames DEF Pops

\* The calls below it are still there.
LEMMA PopBack ==
    ASSUME stack \in Stacks, NEW t \in Threads, Pops(t)
    PROVE  \A i \in DOMAIN stack[t] :
              i # 1 => i - 1 \in DOMAIN stack'[t] /\ stack'[t][i - 1] = stack[t][i]
BY PopSeq DEF Pops, Stacks

\* A call that begins leaves the others as they are.
LEMMA BeginsFrames ==
    ASSUME stack \in Stacks, NEW t \in Threads, NEW op, NEW step, Begins(t, op, step)
    PROVE  /\ \A u \in Threads \ {t} : stack'[u] = stack[u]
           /\ stack'[t][1].op = op /\ stack'[t][1].at = step
           /\ stack'[t][1].then = "return"
           /\ \A j \in DOMAIN stack'[t] :
                 /\ j \in Nat \ {0}
                 /\ j # 1 => j - 1 \in DOMAIN stack[t] /\ stack'[t][j] = stack[t][j - 1]
           /\ \A i \in DOMAIN stack[t] :
                 i + 1 \in DOMAIN stack'[t] /\ stack'[t][i + 1] = stack[t][i]
BY PushFrames DEF Begins

\* Cancelling, read backwards: no call is behind the compare-exchange.
LEMMA NotCancelling ==
    ~Cancelling <=>
        \A t \in Threads : \A i \in DOMAIN stack[t] : stack[t][i].at \notin Closing
BY DEF Cancelling, Closing

\* What is true of every call that is closing stays true when no call closes that
\* did not, and the members stay.
LEMMA KeepClosers ==
    ASSUME TypeInv, CloseInv,
           UNCHANGED <<cancelled, stored, subscribed, retain>>,
           born = "done" => born' = "done",
           born' = "done" => born = "done",
           \A t \in Threads : \A j \in DOMAIN stack'[t] : stack'[t][j].at \in Closing =>
               \E i \in DOMAIN stack[t] : stack[t][i].at = stack'[t][j].at,
           \A t \in Threads : \A i, j \in DOMAIN stack'[t] :
               stack'[t][i].at \in Closing /\ stack'[t][j].at \in Closing => i = j,
           \A t \in Threads : \A i \in DOMAIN stack[t] : stack[t][i].at \in Closing =>
               \E j \in DOMAIN stack'[t] : stack'[t][j].at \in Closing
    PROVE  OneCloser' /\ NothingLeft'
<1> USE DEF CloseInv
<1>1. \A t, u \in Threads : \A i \in DOMAIN stack'[t], j \in DOMAIN stack'[u] :
          stack'[t][i].at \in Closing /\ stack'[u][j].at \in Closing => t = u /\ i = j
  <2> SUFFICES ASSUME NEW t \in Threads, NEW u \in Threads, NEW i \in DOMAIN stack'[t],
                      NEW j \in DOMAIN stack'[u],
                      stack'[t][i].at \in Closing, stack'[u][j].at \in Closing
               PROVE  t = u /\ i = j
    OBVIOUS
  <2>1. PICK k \in DOMAIN stack[t] : stack[t][k].at \in Closing
    OBVIOUS
  <2>2. PICK m \in DOMAIN stack[u] : stack[u][m].at \in Closing
    OBVIOUS
  <2>3. t = u
    BY <2>1, <2>2 DEF OneCloser
  <2> QED  BY <2>3
<1>2. OneCloser'
  <2>1. \A t \in Threads : \A i \in DOMAIN stack'[t] :
          /\ stack'[t][i].at \in Closing => cancelled'
          /\ stack'[t][i].at = "read" => stored'
          /\ stack'[t][i].at \in {"clear", "release"} => ~subscribed'
    BY DEF OneCloser, Closing
  <2> QED  BY <1>1, <2>1 DEF OneCloser
<1>3. NothingLeft'
  <2>1. ~Cancelling' => ~Cancelling
    BY DEF Cancelling, Closing
  <2> QED  BY <2>1 DEF NothingLeft
<1> QED
  BY <1>2, <1>3

\* Creation, the token, the deadline, the handle and the destructor keep CloseInv.
LEMMA CloseOutside ==
    ASSUME TypeInv, CloseInv, Outside
    PROVE  CloseInv'
<1> USE DEF TypeInv, CloseInv
<1>f. /\ {cancelled, stored, subscribed, retain, handle} \subseteq BOOLEAN
      /\ born \in {"new", "retained", "subscribed", "stored", "done"}
  BY DEF Flags
<1>s. stack' = stack
  BY OutsideFrame
<1>1. CASE born # "done"
  <2>1. \A t \in Threads : stack[t] = <<>> /\ DOMAIN stack[t] = {}
    BY <1>1 DEF BornFirst
  <2>2. ~cancelled /\ ~handle
    BY <1>1 DEF BornFirst
  <2>3. cancelled' = cancelled /\ (handle' => born' = "done")
    BY <1>1, <2>2 DEF Outside, Create, Retain, SubscribeRecord, StoreId, Register,
           CancelToken, DeadlinePasses, DropHandle, Destroy, vars, lifeVars, members
  <2>4. /\ born' \in {"subscribed", "stored"} => subscribed'
        /\ born' \in {"stored", "done"} => stored' /\ subscribed'
    BY <1>1, <2>2 DEF Outside, Create, Retain, SubscribeRecord, StoreId, Register,
           CancelToken, DeadlinePasses, DropHandle, Destroy, vars, lifeVars, members,
           BornFirst
  <2>5. BornFirst'
    BY <1>s, <2>1, <2>2, <2>3, <2>4 DEF BornFirst
  <2>6. OneCloser' /\ NothingLeft'
    BY <1>s, <2>1, <2>2, <2>3 DEF OneCloser, NothingLeft
  <2> QED  BY <2>5, <2>6
<1>2. CASE born = "done" /\ ~Destroy
  <2>1. UNCHANGED <<born, cancelled, stored, subscribed, retain>>
    BY <1>2 DEF Outside, Create, Retain, SubscribeRecord, StoreId, Register,
           CancelToken, DeadlinePasses, DropHandle, vars, lifeVars, members
  <2>2. BornFirst'
    BY <1>2, <2>1 DEF BornFirst
  <2>3. OneCloser' /\ NothingLeft'
    BY <1>s, <2>1 DEF OneCloser, NothingLeft, Cancelling, Closing
  <2> QED  BY <2>2, <2>3
<1>3. CASE Destroy
  <2>1. \A t \in Threads : \A i \in DOMAIN stack[t] : stack[t][i].at \notin Closing
    BY <1>3 DEF Destroy, Alive, Holding, Closing
  <2>2. born = "done" /\ ~retain /\ cancelled' /\ UNCHANGED <<born, retain>>
    BY <1>3 DEF Destroy, Alive
  <2>3. ~subscribed'
    <3>1. CASE cancelled
      <4>1. ~subscribed
        BY <2>1, <2>2, <3>1, NotCancelling DEF NothingLeft
      <4> QED  BY <1>3, <3>1, <4>1 DEF Destroy
    <3>2. CASE ~cancelled
      BY <1>3, <2>2, <3>2 DEF Destroy, BornFirst
    <3> QED  BY <3>1, <3>2
  <2>4. OneCloser'
    BY <1>s, <2>1 DEF OneCloser, Closing
  <2> QED  BY <2>2, <2>3, <2>4 DEF BornFirst, NothingLeft
<1> QED
  BY <1>1, <1>2, <1>3

\* So does the beginning of a call.
LEMMA CloseBegin ==
    ASSUME TypeInv, CloseInv, born = "done", NEW t \in Threads,
           \/ Begins(t, "event", "copied") \/ Begins(t, "poll", "active")
           \/ Begins(t, "cancel", "cas"),
           UNCHANGED <<born, handle, cancelled, stored, subscribed, retain>>
    PROVE  CloseInv'
<1> USE DEF TypeInv
<1>1. PICK op, step : Begins(t, op, step) /\ step \notin Closing
  BY DEF Closing
<1>2. /\ \A u \in Threads \ {t} : stack'[u] = stack[u]
      /\ stack'[t][1].at \notin Closing
      /\ \A j \in DOMAIN stack'[t] :
                 /\ j \in Nat \ {0}
                 /\ j # 1 => j - 1 \in DOMAIN stack[t] /\ stack'[t][j] = stack[t][j - 1]
      /\ \A i \in DOMAIN stack[t] :
                 i + 1 \in DOMAIN stack'[t] /\ stack'[t][i + 1] = stack[t][i]
  BY <1>1, BeginsFrames
<1>3. BornFirst'
  BY DEF BornFirst, CloseInv
<1>4. \A u \in Threads : \A j \in DOMAIN stack'[u] : stack'[u][j].at \in Closing =>
               \E i \in DOMAIN stack[u] : stack[u][i].at = stack'[u][j].at
  BY <1>2
<1>5. \A u \in Threads : \A i, j \in DOMAIN stack'[u] :
               stack'[u][i].at \in Closing /\ stack'[u][j].at \in Closing => i = j
  <2>1. \A i, j \in DOMAIN stack'[t] :
               stack'[t][i].at \in Closing /\ stack'[t][j].at \in Closing => i - 1 = j - 1
    BY <1>2 DEF CloseInv, OneCloser
  <2>2. \A i, j \in DOMAIN stack'[t] :
               stack'[t][i].at \in Closing /\ stack'[t][j].at \in Closing => i = j
    BY <2>1, <1>2
  <2> QED  BY <1>2, <2>2 DEF CloseInv, OneCloser
<1>6. \A u \in Threads : \A i \in DOMAIN stack[u] : stack[u][i].at \in Closing =>
               \E j \in DOMAIN stack'[u] : stack'[u][j].at \in Closing
  BY <1>2
<1> QED
  BY <1>3, <1>4, <1>5, <1>6, KeepClosers DEF CloseInv

\* So does every step of a call: the compare-exchange lets one through, and that
\* one does the rest of cancel() alone.
LEMMA CloseStep ==
    ASSUME TypeInv, CloseInv, NEW t \in Threads, Step(t)
    PROVE  CloseInv'
<1> USE DEF TypeInv
<1>f. /\ {cancelled, stored, subscribed, retain, handle, onTimeout} \subseteq BOOLEAN
      /\ stack \in Stacks
  BY DEF Flags
<1>1. /\ 1 \in DOMAIN stack[t] /\ stack[t] # <<>> /\ stack[t][1] \in Frame
      /\ StepShape(t) /\ UNCHANGED <<lifeVars, envVars>>
  BY <1>f, StepFrames
<1>2. born = "done" /\ UNCHANGED <<born, handle>>
  BY <1>1 DEF CloseInv, BornFirst, lifeVars
<1>3. ASSUME stack[t][1].at \notin Closing,
             UNCHANGED <<cancelled, stored, subscribed, retain>>,
             \/ Pops(t)
             \/ \E step, then : Goes(t, step, then) /\ step \notin Closing
      PROVE  CloseInv'
  <2>1. BornFirst'
    BY <1>2, <1>3 DEF CloseInv, BornFirst
  <2>2. CASE Pops(t)
    <3>1. /\ \A u \in Threads \ {t} : stack'[u] = stack[u]
          /\ \A j \in DOMAIN stack'[t] :
                 /\ j \in Nat \ {0}
                 /\ j + 1 \in DOMAIN stack[t] /\ stack'[t][j] = stack[t][j + 1]
      BY <2>2, <1>f, PopsFrames
    <3>2. \A i \in DOMAIN stack[t] : stack[t][i].at \in Closing =>
               \E j \in DOMAIN stack'[t] : stack'[t][j].at \in Closing
      <4>1. \A i \in DOMAIN stack[t] :
               i # 1 => i - 1 \in DOMAIN stack'[t] /\ stack'[t][i - 1] = stack[t][i]
        BY <2>2, <1>f, PopBack
      <4> QED  BY <4>1, <1>3
    <3>3. \A i, j \in DOMAIN stack'[t] :
               stack'[t][i].at \in Closing /\ stack'[t][j].at \in Closing => i + 1 = j + 1
      BY <3>1 DEF CloseInv, OneCloser
    <3>4. \A i, j \in DOMAIN stack'[t] :
               stack'[t][i].at \in Closing /\ stack'[t][j].at \in Closing => i = j
      BY <3>1, <3>3
    <3>5. \A u \in Threads : \A j \in DOMAIN stack'[u] : stack'[u][j].at \in Closing =>
               \E i \in DOMAIN stack[u] : stack[u][i].at = stack'[u][j].at
      BY <3>1
    <3>6. \A u \in Threads : \A i, j \in DOMAIN stack'[u] :
               stack'[u][i].at \in Closing /\ stack'[u][j].at \in Closing => i = j
      BY <3>1, <3>4 DEF CloseInv, OneCloser
    <3>7. \A u \in Threads : \A i \in DOMAIN stack[u] : stack[u][i].at \in Closing =>
               \E j \in DOMAIN stack'[u] : stack'[u][j].at \in Closing
      BY <3>1, <3>2
    <3> QED  BY <1>2, <1>3, <2>1, <3>5, <3>6, <3>7, KeepClosers DEF CloseInv
  <2>3. ASSUME NEW step, NEW then, Goes(t, step, then), step \notin Closing
        PROVE  CloseInv'
    <3>1. /\ \A u \in Threads : DOMAIN stack'[u] = DOMAIN stack[u]
          /\ stack'[t][1].at \notin Closing
          /\ \A u \in Threads : \A i \in DOMAIN stack[u] :
                 u # t \/ i # 1 => stack'[u][i] = stack[u][i]
      BY <2>3, <1>f, GoesFrames
    <3>2. \A u \in Threads : \A j \in DOMAIN stack'[u] : stack'[u][j].at \in Closing =>
               \E i \in DOMAIN stack[u] : stack[u][i].at = stack'[u][j].at
      BY <3>1
    <3>3. \A u \in Threads : \A i, j \in DOMAIN stack'[u] :
               stack'[u][i].at \in Closing /\ stack'[u][j].at \in Closing => i = j
      BY <3>1 DEF CloseInv, OneCloser
    <3>4. \A u \in Threads : \A i \in DOMAIN stack[u] : stack[u][i].at \in Closing =>
               \E j \in DOMAIN stack'[u] : stack'[u][j].at \in Closing
      BY <3>1, <1>3
    <3> QED  BY <1>2, <1>3, <2>1, <3>2, <3>3, <3>4, KeepClosers DEF CloseInv
  <2> QED  BY <1>3, <2>2, <2>3
<1>4. \A step, then : Goes(t, step, then) =>
          /\ \A u \in Threads : DOMAIN stack'[u] = DOMAIN stack[u]
          /\ stack'[t][1].at = step
          /\ \A u \in Threads : \A i \in DOMAIN stack[u] :
                 u # t \/ i # 1 => stack'[u][i] = stack[u][i]
  BY <1>f, GoesFrames
<1>5. ASSUME stack[t][1].at \in Closing
      PROVE  /\ cancelled
             /\ \A u \in Threads : \A i \in DOMAIN stack[u] :
                   u # t \/ i # 1 => stack[u][i].at \notin Closing
  BY <1>1, <1>5 DEF CloseInv, OneCloser
<1>6. CASE stack[t][1].at = "cas" /\ ~cancelled
  <2>1. /\ Goes(t, "read", stack[t][1].then) /\ cancelled'
        /\ UNCHANGED <<stored, subscribed, retain>>
    BY <1>1, <1>6 DEF StepShape
  <2>2. \A u \in Threads : \A i \in DOMAIN stack[u] : stack[u][i].at \notin Closing
    BY <1>6 DEF CloseInv, OneCloser
  <2>3. stored
    BY <1>2, <1>6 DEF CloseInv, BornFirst
  <2>4. OneCloser'
    BY <1>4, <2>1, <2>2, <2>3 DEF OneCloser, Closing
  <2>5. Cancelling'
    BY <1>1, <1>4, <2>1 DEF Cancelling, Closing
  <2> QED  BY <1>2, <2>1, <2>4, <2>5 DEF CloseInv, BornFirst, NothingLeft
<1>7. CASE stack[t][1].at = "read"
  <2>1. /\ Goes(t, "unsubscribe", stack[t][1].then)
        /\ UNCHANGED <<cancelled, stored, subscribed, retain>>
    BY <1>1, <1>7 DEF StepShape, members, CloseInv, OneCloser
  <2>2. OneCloser'
    BY <1>4, <1>5, <1>7, <2>1 DEF OneCloser, Closing
  <2>3. Cancelling'
    BY <1>1, <1>4, <2>1 DEF Cancelling, Closing
  <2> QED  BY <1>2, <2>1, <2>2, <2>3 DEF CloseInv, BornFirst, NothingLeft
<1>8. CASE stack[t][1].at = "unsubscribe"
  <2>1. /\ Goes(t, "clear", stack[t][1].then) /\ ~subscribed'
        /\ UNCHANGED <<cancelled, stored, retain>>
    BY <1>1, <1>8 DEF StepShape
  <2>2. OneCloser'
    BY <1>4, <1>5, <1>8, <2>1 DEF OneCloser, Closing
  <2>3. Cancelling'
    BY <1>1, <1>4, <2>1 DEF Cancelling, Closing
  <2>4. cancelled
    BY <1>5, <1>8 DEF Closing
  <2> QED  BY <1>2, <2>1, <2>2, <2>3, <2>4 DEF CloseInv, BornFirst, NothingLeft
<1>9. CASE stack[t][1].at = "clear"
  <2>1. /\ Goes(t, "release", stack[t][1].then)
        /\ UNCHANGED <<cancelled, subscribed, retain>>
    BY <1>1, <1>9 DEF StepShape
  <2>2. ~subscribed /\ cancelled
    BY <1>1, <1>9 DEF CloseInv, OneCloser, Closing
  <2>3. OneCloser'
    BY <1>4, <1>5, <1>9, <2>1, <2>2 DEF OneCloser, Closing
  <2>4. Cancelling'
    BY <1>1, <1>4, <2>1 DEF Cancelling, Closing
  <2> QED  BY <1>2, <2>1, <2>2, <2>3, <2>4 DEF CloseInv, BornFirst, NothingLeft
<1>10. CASE stack[t][1].at = "release"
  <2>1. /\ Goes(t, stack[t][1].then, stack[t][1].then) /\ ~retain'
        /\ UNCHANGED <<cancelled, stored, subscribed>>
    BY <1>1, <1>10 DEF StepShape
  <2>2. ~subscribed /\ cancelled
    BY <1>1, <1>10 DEF CloseInv, OneCloser, Closing
  <2>3. stack[t][1].then \notin Closing
    BY <1>1 DEF Frame, Closing
  <2>4. \A u \in Threads : \A i \in DOMAIN stack'[u] : stack'[u][i].at \notin Closing
    BY <1>4, <1>5, <1>10, <2>1, <2>3 DEF Closing
  <2>5. OneCloser'
    BY <2>4 DEF OneCloser, Closing
  <2> QED  BY <1>2, <2>1, <2>2, <2>5 DEF CloseInv, BornFirst, NothingLeft
<1>11. CASE stack[t][1].at \notin Closing /\ ~(stack[t][1].at = "cas" /\ ~cancelled)
  <2>1. UNCHANGED <<cancelled, stored, subscribed, retain>>
    BY <1>f, <1>1, <1>11 DEF StepShape, members, Closing
  <2>2. stack[t][1].then \notin Closing
    BY <1>1 DEF Frame, Closing
  <2>3. Pops(t) \/ \E step, then : Goes(t, step, then) /\ step \notin Closing
    BY <1>1, <1>11, <2>2 DEF StepShape, Closing
  <2> QED  BY <1>3, <1>11, <2>1, <2>3
<1> QED
  BY <1>6, <1>7, <1>8, <1>9, <1>10, <1>11 DEF Closing

\* The start state, and every step of one loop and its cancellers.
LEMMA CloseInit == Init => CloseInv
<1> SUFFICES ASSUME Init PROVE CloseInv
  OBVIOUS
<1>1. \A t \in Threads : stack[t] = <<>> /\ DOMAIN stack[t] = {}
  BY DEF Init
<1>2. OneCloser
  BY <1>1 DEF OneCloser
<1>3. BornFirst /\ NothingLeft
  BY <1>1 DEF Init, BornFirst, NothingLeft
<1> QED
  BY <1>2, <1>3 DEF CloseInv

\* So every step does.
LEMMA CloseNext ==
    ASSUME OneLoop, TypeInv, CloseInv, [Next]_vars
    PROVE  CloseInv'
<1> USE DEF TypeInv
<1>1. CASE Outside
  BY <1>1, CloseOutside
<1>2. ASSUME NEW t \in Dispatchers, DispatchBegin(t) PROVE CloseInv'
  <2>1. /\ t \in Threads /\ born = "done" /\ Begins(t, "event", "copied")
        /\ UNCHANGED <<born, handle, cancelled, stored, subscribed, retain>>
    BY <1>2, DispatchFrames DEF OneLoop, MayCall, lifeVars, members
  <2> QED  BY <2>1, CloseBegin
<1>3. ASSUME NEW t \in Dispatchers, PollBegin(t) PROVE CloseInv'
  <2>1. /\ t \in Threads /\ born = "done"
        /\ UNCHANGED <<born, handle, cancelled, stored, subscribed, retain>>
        /\ Begins(t, "poll", "active") \/ UNCHANGED stack
    BY <1>3, PollFrames DEF OneLoop, MayCall, members
  <2>2. CASE Begins(t, "poll", "active")
    BY <2>1, <2>2, CloseBegin
  <2>3. CASE UNCHANGED stack
    BY <2>1, <2>3 DEF CloseInv, BornFirst, OneCloser, NothingLeft, Cancelling, Closing
  <2> QED  BY <2>1, <2>2, <2>3
<1>4. ASSUME NEW t \in Cancellers, CancelBegin(t) PROVE CloseInv'
  <2>1. /\ t \in Threads /\ handle /\ Begins(t, "cancel", "cas")
        /\ UNCHANGED <<born, handle, cancelled, stored, subscribed, retain>>
    BY <1>4, CancelFrames DEF lifeVars, members
  <2>2. born = "done"
    BY <2>1 DEF CloseInv, BornFirst
  <2> QED  BY <2>1, <2>2, CloseBegin
<1>5. ASSUME NEW t \in Threads, Step(t) PROVE CloseInv'
  BY <1>5, CloseStep
<1> QED
  BY <1>1, <1>2, <1>3, <1>4, <1>5, NextCases

\* Once the cancel() that won is over the bus has no record of the awaiter and
\* the awaiter does not keep itself alive, for one loop and any cancellers.
THEOREM CancelReleases == OneLoop => (Spec => []NothingLeft)
<1> SUFFICES ASSUME OneLoop PROVE Spec => []NothingLeft
  OBVIOUS
<1>1. TypeInv /\ CloseInv /\ [Next]_vars => CloseInv'
  BY CloseNext
<1>2. CloseInv => NothingLeft
  BY DEF CloseInv
<1> QED
  BY <1>1, <1>2, CloseInit, TypeInit, TypeStep, PTL DEF Spec

\* A step of a canceller: it reports nothing.
LEMMA OnceCanceller ==
    ASSUME OneLoop, TypeInv, OnceInv, NEW t \in Cancellers, Step(t)
    PROVE  OnceInv'
<1> USE DEF TypeInv
<1>f. /\ {cancelled, onTimeout, singleShot} \subseteq BOOLEAN
      /\ stack \in Stacks /\ t \in Threads
  BY DEF Flags, Threads
<1>1. /\ 1 \in DOMAIN stack[t] /\ stack[t] # <<>> /\ stack[t][1] \in Frame
      /\ StepShape(t) /\ singleShot' = singleShot
  BY <1>f, StepFrames DEF envVars
<1>2. stack[t][1].op = "cancel" /\ stack[t][1].then = "return"
  BY <1>1 DEF OnceInv, OnlyCancels
<1>3. stack[t][1].at \in {"cas", "read", "unsubscribe", "clear", "release", "return"}
  BY <1>f, <1>1, <1>2 DEF FramesInPlace, FrameThen
<1>4. UNCHANGED history /\ (cancelled => cancelled')
  BY <1>1, <1>3 DEF StepShape, members
<1>5. Reported'
  BY <1>1, <1>4 DEF OnceInv, Reported, history, SingleShotOnce, ResultOrTimeout
<1>6. \A f : FrameOnce(f, cancelled, singleShot, calls, timeouts) =>
             FrameOnce(f, cancelled', singleShot', calls', timeouts')
  BY <1>1, <1>4 DEF FrameOnce, history, Open
<1>7. CASE Pops(t)
  <2>1. /\ \A u \in Threads \ {t} : stack'[u] = stack[u]
        /\ \A j \in DOMAIN stack'[t] :
                 j + 1 \in DOMAIN stack[t] /\ stack'[t][j] = stack[t][j + 1]
    BY <1>7, <1>f, PopsFrames
  <2>2. OnlyTopRuns'
    BY <2>1 DEF OnceInv, OnlyTopRuns, OneLoop, Threads
  <2>3. OnlyCancels'
    BY <2>1 DEF OnceInv, OnlyCancels, Threads
  <2>4. \A u \in Threads : \A i \in DOMAIN stack'[u] :
           FrameOnce(stack'[u][i], cancelled', singleShot', calls', timeouts')
    BY <1>6, <2>1 DEF OnceInv, EachOnce
  <2> QED  BY <1>5, <2>2, <2>3, <2>4 DEF OnceInv, EachOnce
<1>8. ASSUME NEW step, Goes(t, step, "return"),
             step \in Closing \cup {"return"}, step \in Closing => cancelled'
      PROVE  OnceInv'
  <2>1. /\ \A u \in Threads : DOMAIN stack'[u] = DOMAIN stack[u]
        /\ stack'[t][1].op = "cancel" /\ stack'[t][1].at = step
        /\ stack'[t][1].then = "return"
        /\ \A u \in Threads : \A i \in DOMAIN stack[u] :
                 u # t \/ i # 1 => stack'[u][i] = stack[u][i]
    BY <1>2, <1>8, <1>f, GoesFrames
  <2>2. OnlyTopRuns'
    BY <2>1 DEF OnceInv, OnlyTopRuns, OneLoop, Threads
  <2>3. OnlyCancels'
    BY <2>1 DEF OnceInv, OnlyCancels, Threads
  <2>4. FrameOnce(stack'[t][1], cancelled', singleShot', calls', timeouts')
    BY <1>8, <2>1 DEF FrameOnce, Open, Closing
  <2>5. \A u \in Threads : \A i \in DOMAIN stack'[u] :
           FrameOnce(stack'[u][i], cancelled', singleShot', calls', timeouts')
    BY <1>6, <2>1, <2>4 DEF OnceInv, EachOnce
  <2> QED  BY <1>5, <2>2, <2>3, <2>5 DEF OnceInv, EachOnce
<1>9. \/ Pops(t)
      \/ \E step \in Closing \cup {"return"} :
            Goes(t, step, "return") /\ (step \in Closing => cancelled')
  <2>1. stack[t][1].at \in Closing => cancelled
    BY <1>1, <1>f DEF OnceInv, EachOnce, FrameOnce
  <2> QED  BY <1>1, <1>2, <1>3, <1>4, <2>1 DEF StepShape, Closing
<1> QED
  BY <1>7, <1>8, <1>9

\* A step of the loop.
LEMMA OnceLoop ==
    ASSUME OneLoop, TypeInv, OnceInv, Step(Creator)
    PROVE  OnceInv'
<1> DEFINE t == Creator
<1> USE DEF TypeInv
<1>f. /\ {cancelled, onTimeout, singleShot} \subseteq BOOLEAN
      /\ stack \in Stacks /\ t \in Threads
  BY DEF Flags, Threads, OneLoop
<1>n. calls \in 0..2 /\ timeouts \in 0..2
  BY DEF Flags
<1>1. /\ 1 \in DOMAIN stack[t] /\ stack[t] # <<>> /\ stack[t][1] \in Frame
      /\ StepShape(t) /\ singleShot' = singleShot
  BY <1>f, StepFrames DEF envVars
<1>2. FrameOnce(stack[t][1], cancelled, singleShot, calls, timeouts)
  BY <1>1, <1>f DEF OnceInv, EachOnce
<1>3. \A u \in Threads : \A i \in DOMAIN stack[u] :
          u # t \/ i # 1 => ~Open(stack[u][i])
  <2>1. \A i \in DOMAIN stack[t] : i # 1 => ~Open(stack[t][i])
    BY DEF OnceInv, OnlyTopRuns, Open, Closing
  <2>2. \A u \in Cancellers : \A i \in DOMAIN stack[u] : ~Open(stack[u][i])
    BY DEF OnceInv, OnlyCancels, Open, Closing, FramesInPlace, FrameThen, Threads
  <2> QED  BY <2>1, <2>2 DEF Threads, OneLoop
<1>4. cancelled => cancelled'
  BY <1>1 DEF StepShape, members
<1>5. \A u \in Threads : \A i \in DOMAIN stack[u] :
          u # t \/ i # 1 =>
             FrameOnce(stack[u][i], cancelled', singleShot', calls', timeouts')
  <2>1. \A f : FrameOnce(f, cancelled, singleShot, calls, timeouts) /\ ~Open(f) =>
             FrameOnce(f, cancelled', singleShot', calls', timeouts')
    BY <1>1, <1>4 DEF FrameOnce, Open
  <2> QED  BY <1>3, <2>1 DEF OnceInv, EachOnce
<1>6. Reported'
  <2>1. CASE UNCHANGED history
    BY <1>1, <1>4, <2>1 DEF OnceInv, Reported, history, SingleShotOnce, ResultOrTimeout
  <2>2. CASE stack[t][1].at = "callback"
    <3>1. timeouts = 0 /\ (singleShot => calls = 0 /\ cancelled)
      BY <1>2, <2>2 DEF FrameOnce, Open
    <3>2. calls' = (IF calls < 2 THEN calls + 1 ELSE 2) /\ timeouts' = timeouts
      BY <1>1, <2>2 DEF StepShape
    <3> QED  BY <1>1, <1>4, <1>n, <3>1, <3>2 DEF Reported, SingleShotOnce, ResultOrTimeout
  <2>3. CASE stack[t][1].at = "timeout"
    <3>1. timeouts = 0 /\ (singleShot => calls = 0) /\ cancelled
      BY <1>2, <2>3 DEF FrameOnce, Open
    <3>2. timeouts' = (IF timeouts < 2 THEN timeouts + 1 ELSE 2) /\ calls' = calls
      BY <1>1, <2>3 DEF StepShape
    <3> QED  BY <1>1, <1>4, <1>n, <3>1, <3>2 DEF Reported, SingleShotOnce, ResultOrTimeout
  <2> QED  BY <1>1, <2>1, <2>2, <2>3 DEF StepShape
<1>7. CASE Pops(t)
  <2>1. /\ \A u \in Threads \ {t} : stack'[u] = stack[u]
        /\ \A j \in DOMAIN stack'[t] :
                 /\ j \in Nat \ {0}
                 /\ j + 1 \in DOMAIN stack[t] /\ stack'[t][j] = stack[t][j + 1]
    BY <1>7, <1>f, PopsFrames
  <2>2. OnlyTopRuns'
    BY <2>1 DEF OnceInv, OnlyTopRuns
  <2>3. OnlyCancels'
    BY <2>1 DEF OnceInv, OnlyCancels, Threads, OneLoop
  <2>4. \A u \in Threads : \A i \in DOMAIN stack'[u] :
           FrameOnce(stack'[u][i], cancelled', singleShot', calls', timeouts')
    BY <1>5, <2>1
  <2> QED  BY <1>6, <2>2, <2>3, <2>4 DEF OnceInv, EachOnce
<1>8. ASSUME NEW f \in Frame, Becomes(t, f),
             FrameOnce(f, cancelled', singleShot', calls', timeouts')
      PROVE  OnceInv'
  <2>1. /\ \A u \in Threads \ {t} : stack'[u] = stack[u]
        /\ stack'[t][1] = f /\ DOMAIN stack'[t] = DOMAIN stack[t]
        /\ \A i \in DOMAIN stack[t] \ {1} : stack'[t][i] = stack[t][i]
    BY <1>8, <1>f, BecomeFrames
  <2>2. OnlyTopRuns'
    BY <2>1 DEF OnceInv, OnlyTopRuns
  <2>3. OnlyCancels'
    BY <2>1 DEF OnceInv, OnlyCancels, Threads, OneLoop
  <2>4. FrameOnce(stack'[t][1], cancelled', singleShot', calls', timeouts')
    BY <1>8, <2>1
  <2>5. \A u \in Threads : \A i \in DOMAIN stack'[u] :
           FrameOnce(stack'[u][i], cancelled', singleShot', calls', timeouts')
    BY <1>5, <2>1, <2>4
  <2> QED  BY <1>6, <2>2, <2>3, <2>5 DEF OnceInv, EachOnce
<1>9. \/ Pops(t)
      \/ \E f \in Frame :
            Becomes(t, f) /\ FrameOnce(f, cancelled', singleShot', calls', timeouts')
  <2>1. CASE stack[t][1].at = "active"
    <3>1. ~cancelled => timeouts = 0 /\ (singleShot => calls = 0)
      BY <1>n DEF OnceInv, Reported
    <3> QED  BY <1>1, <2>1, <3>1 DEF StepShape, Goes, FrameOnce, Open, Closing,
           history, members
  <2>2. CASE stack[t][1].at \in {"callback", "timeout"}
    BY <1>1, <2>2 DEF StepShape, Goes, FrameOnce, Open, Closing
  <2>3. CASE stack[t][1].at \notin {"active", "callback", "timeout"}
    <3>1. UNCHANGED <<calls, timeouts>>
      BY <1>1, <2>3 DEF StepShape, history
    <3> QED  BY <1>1, <1>2, <1>4, <2>3, <3>1 DEF StepShape, Goes, FrameOnce, Open,
           Closing, Frame
  <2> QED  BY <2>1, <2>2, <2>3
<1> QED
  BY <1>7, <1>8, <1>9

\* Calls that begin are not open, and begin where nothing else runs.
LEMMA OnceBegin ==
    ASSUME OneLoop, TypeInv, OnceInv, NEW t \in Threads, NEW op, NEW step,
           Begins(t, op, step), step \in {"copied", "active", "cas"},
           t \in Cancellers => stack[t] = <<>> /\ op = "cancel",
           t = Creator =>
              stack[t] = <<>> \/ stack[t][1].at \in {"inCallback", "inTimeout"},
           UNCHANGED <<singleShot, cancelled, calls, timeouts>>
    PROVE  OnceInv'
<1> USE DEF TypeInv
<1>1. /\ \A u \in Threads \ {t} : stack'[u] = stack[u]
      /\ stack'[t][1].op = op /\ stack'[t][1].at = step
      /\ stack'[t][1].then = "return"
      /\ \A j \in DOMAIN stack'[t] :
            /\ j \in Nat \ {0}
            /\ j # 1 => j - 1 \in DOMAIN stack[t] /\ stack'[t][j] = stack[t][j - 1]
  BY BeginsFrames
<1>2. FrameOnce(stack'[t][1], cancelled', singleShot', calls', timeouts')
  BY <1>1 DEF FrameOnce, Open, Closing
<1>3. EachOnce'
  BY <1>1, <1>2 DEF OnceInv, EachOnce
<1>4. OnlyCancels'
  <2>1. t \in Cancellers => DOMAIN stack[t] = {}
    OBVIOUS
  <2> QED  BY <1>1, <2>1 DEF OnceInv, OnlyCancels, Threads
<1>5. OnlyTopRuns'
  <2>1. stack[t] = <<>> => DOMAIN stack[t] = {}
    OBVIOUS
  <2>2. CASE t = Creator
    BY <1>1, <2>1, <2>2 DEF OnceInv, OnlyTopRuns
  <2>3. CASE t # Creator
    BY <1>1, <2>3 DEF OnceInv, OnlyTopRuns, OneLoop, Threads
  <2> QED  BY <2>2, <2>3
<1>6. Reported'
  BY DEF OnceInv, Reported, SingleShotOnce, ResultOrTimeout
<1> QED
  BY <1>3, <1>4, <1>5, <1>6 DEF OnceInv

\* Every step of one loop and its cancellers keeps OnceInv.
LEMMA OnceNext ==
    ASSUME OneLoop, TypeInv, OnceInv, [Next]_vars
    PROVE  OnceInv'
<1> USE DEF TypeInv
<1>m. ASSUME NEW t \in Dispatchers, MayCall(t)
      PROVE  /\ t = Creator /\ t \notin Cancellers
             /\ stack[t] = <<>> \/ stack[t][1].at \in {"inCallback", "inTimeout"}
  BY <1>m, AwaiterAssumption DEF OneLoop, MayCall, At, UserCode
<1>1. CASE Outside
  <2>1. UNCHANGED <<stack, calls, timeouts, singleShot>>
    BY <1>1, OutsideFrame DEF history
  <2>2. cancelled => cancelled'
    BY <1>1 DEF Outside, Create, Retain, SubscribeRecord, StoreId, Register,
           CancelToken, DeadlinePasses, DropHandle, Destroy, vars, members
  <2>3. OnlyCancels' /\ OnlyTopRuns' /\ Reported'
    BY <2>1, <2>2 DEF OnceInv, OnlyCancels, OnlyTopRuns, Reported, SingleShotOnce,
           ResultOrTimeout
  <2>4. EachOnce'
    BY <2>1, <2>2 DEF OnceInv, EachOnce, FrameOnce
  <2> QED  BY <2>3, <2>4 DEF OnceInv
<1>2. ASSUME NEW t \in Dispatchers, DispatchBegin(t) PROVE OnceInv'
  <2>1. /\ t \in Threads /\ MayCall(t) /\ Begins(t, "event", "copied")
        /\ UNCHANGED <<singleShot, cancelled, calls, timeouts>>
    BY <1>2, DispatchFrames DEF envVars, members, history
  <2> QED  BY <1>m, <2>1, OnceBegin
<1>3. ASSUME NEW t \in Dispatchers, PollBegin(t) PROVE OnceInv'
  <2>1. /\ t \in Threads /\ MayCall(t)
        /\ UNCHANGED <<singleShot, cancelled, calls, timeouts>>
        /\ Begins(t, "poll", "active") \/ UNCHANGED stack
    BY <1>3, PollFrames DEF envVars, members, history
  <2>2. CASE Begins(t, "poll", "active")
    BY <1>m, <2>1, <2>2, OnceBegin
  <2>3. CASE UNCHANGED stack
    BY <2>1, <2>3 DEF OnceInv, OnlyCancels, OnlyTopRuns, EachOnce, Reported,
           SingleShotOnce, ResultOrTimeout
  <2> QED  BY <2>1, <2>2, <2>3
<1>4. ASSUME NEW t \in Cancellers, CancelBegin(t) PROVE OnceInv'
  <2>1. /\ t \in Threads /\ stack[t] = <<>> /\ Begins(t, "cancel", "cas")
        /\ UNCHANGED <<singleShot, cancelled, calls, timeouts>>
    BY <1>4, CancelFrames DEF envVars, members, history
  <2> QED  BY <2>1, OnceBegin DEF OneLoop
<1>5. ASSUME NEW t \in Threads, Step(t) PROVE OnceInv'
  BY <1>5, OnceLoop, OnceCanceller DEF OneLoop, Threads
<1> QED
  BY <1>1, <1>2, <1>3, <1>4, <1>5, NextCases

\* OnceInv is an invariant of one loop and its cancellers.
LEMMA OnceInvariant ==
    ASSUME OneLoop
    PROVE  Spec => []OnceInv
<1>1. Init => OnceInv
  <2> SUFFICES ASSUME Init PROVE OnceInv
    OBVIOUS
  <2>1. \A t \in Threads : stack[t] = <<>> /\ DOMAIN stack[t] = {}
    BY DEF Init
  <2>2. Creator \in Threads /\ Cancellers \subseteq Threads
    BY DEF OneLoop, Threads
  <2>3. OnlyCancels /\ OnlyTopRuns /\ EachOnce
    BY <2>1, <2>2 DEF OnlyCancels, OnlyTopRuns, EachOnce
  <2>4. Reported
    BY DEF Init, Reported, SingleShotOnce, ResultOrTimeout
  <2> QED  BY <2>3, <2>4 DEF OnceInv
<1>2. TypeInv /\ OnceInv /\ [Next]_vars => OnceInv'
  BY OnceNext
<1> QED
  BY <1>1, <1>2, TypeInit, TypeStep, PTL DEF Spec

\* A single-shot awaiter of one loop calls its callback once, however its events,
\* polls, nested dispatches and the cancellers' calls fall.
THEOREM CallsOnce == OneLoop => (Spec => []SingleShotOnce)
<1> SUFFICES ASSUME OneLoop PROVE Spec => []SingleShotOnce
  OBVIOUS
<1>1. OnceInv => SingleShotOnce
  BY DEF OnceInv, Reported
<1> QED
  BY <1>1, OnceInvariant, PTL

\* It reports a result or a timeout and never both, and the timeout once.
THEOREM NeverBoth == OneLoop => (Spec => []ResultOrTimeout)
<1> SUFFICES ASSUME OneLoop PROVE Spec => []ResultOrTimeout
  OBVIOUS
<1>1. OnceInv => ResultOrTimeout
  BY DEF OnceInv, Reported
<1> QED
  BY <1>1, OnceInvariant, PTL
================================================================================
