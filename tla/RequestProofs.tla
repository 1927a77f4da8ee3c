------------------------------ MODULE RequestProofs ------------------------------
(***************************************************************************)
(* Theorems about Request for every value of its constants: any number of  *)
(* dispatching, polling and cancelling threads, any nesting of user code.  *)
(*                                                                         *)
(* A step of Request is a step of EventAwaiter or leaves the awaiter       *)
(* alone, so the types proved there carry over.                            *)
(***************************************************************************)
EXTENDS Request, EventAwaiterProofs, FiniteSetTheorems

\* A step of Request is one of EventAwaiter, or the awaiter does not notice it.
LEMMA AwaiterStep == [RequestNext]_allVars => [Next]_vars
<1> SUFFICES ASSUME [RequestNext]_allVars PROVE [Next]_vars
  OBVIOUS
<1>1. CASE UNCHANGED allVars \/ DrawId \/ OthersDraw \/ PostRequest \/ StoreRequestId
  BY <1>1 DEF allVars, DrawId, OthersDraw, PostRequest, StoreRequestId
<1>2. CASE AwaitResult \/ Withdraw
  BY <1>2 DEF AwaitResult, Withdraw, Next
<1>3. CASE (DeadlinePasses \/ DropHandle \/ Destroy) /\ UNCHANGED requestVars
  BY <1>3 DEF Next
<1>4. CASE \E t \in Dispatchers : BeginCall(t)
  BY <1>4 DEF BeginCall, Next
<1>5. ASSUME NEW t \in Threads, RequestStep(t) PROVE [Next]_vars
  <2>1. CASE MatchId(t) \/ Settle(t) \/ OtherStep(t)
    <3>1. Step(t)
      BY <2>1 DEF MatchId, Settle, OtherStep, Step
    <3> QED  BY <3>1 DEF Next
  <2>2. CASE SetPromise(t)
    BY <2>2 DEF SetPromise
  <2> QED  BY <1>5, <2>1, <2>2 DEF RequestStep
<1> QED
  BY <1>1, <1>2, <1>3, <1>4, <1>5 DEF RequestNext

\* The awaiter of a request keeps its types.
LEMMA AwaiterTypes == RequestSpec => []TypeInv
<1>1. RequestInit => TypeInv
  BY TypeInit DEF RequestInit
<1>2. TypeInv /\ [RequestNext]_allVars => TypeInv'
  BY TypeStep, AwaiterStep
<1> QED
  BY <1>1, <1>2, PTL DEF RequestSpec

--------------------------------------------------------------------------------

\* The id drawn, and where the call stands.
IdInv ==
    /\ next \in RequestIds /\ id \in RequestIds \cup {NotDrawn}
    /\ call \in {"id", "await", "post", "store", "returned"}
    /\ requestId \in RequestIds
    /\ call # "id" => id \in RequestIds \ {Invalid}
    /\ call = "id" /\ id # NotDrawn => id = Invalid /\ next # 0
    /\ call # "returned" => requestId = Invalid
    /\ call = "returned" => requestId = id

\* Every step keeps IdInv: next() goes past the invalid id, also where it wraps.
LEMMA IdStep == IdInv /\ [RequestNext]_allVars => IdInv'
<1> SUFFICES ASSUME IdInv, [RequestNext]_allVars PROVE IdInv'
  OBVIOUS
<1>a. IdSpace \in Nat \ {0, 1}
  BY RequestAssumption
<1>m. \A n \in RequestIds : (n + 1) % IdSpace \in RequestIds
  BY <1>a DEF RequestIds
<1>z. \A n \in RequestIds : n # IdSpace - 1 => (n + 1) % IdSpace = n + 1
  BY <1>a DEF RequestIds
<1>1. CASE DrawId
  <2>1. CASE id = NotDrawn /\ next = Invalid
    <3>1. id' = Invalid /\ next' = 1
      BY <1>1, <1>a, <1>z, <2>1 DEF DrawId, Invalid, IdInv, RequestIds
    <3>2. call' = "id" /\ UNCHANGED requestId /\ 1 \in RequestIds
      BY <1>1, <1>a, <2>1 DEF DrawId, DrawsAgain, RequestIds
    <3> QED  BY <3>1, <3>2, <1>1 DEF DrawId, IdInv, Invalid, RequestIds
  <2>2. CASE ~(id = NotDrawn /\ next = Invalid)
    <3>1. next # Invalid
      BY <1>1, <2>2 DEF IdInv, DrawId, Invalid
    <3>2. call' = "await" /\ id' = next /\ UNCHANGED requestId /\ next' \in RequestIds
      BY <1>1, <1>m, <2>2 DEF DrawId, DrawsAgain, IdInv
    <3> QED  BY <1>1, <3>1, <3>2 DEF IdInv, DrawId
  <2> QED  BY <2>1, <2>2
<1>2. CASE OthersDraw
  <2>1. UNCHANGED <<id, call, requestId>> /\ call = "id"
    BY <1>2 DEF OthersDraw, callVars
  <2>2. next' \in RequestIds
    BY <1>2, <1>m DEF OthersDraw, IdInv
  <2>3. id # NotDrawn => next' # 0
    BY <1>2, <1>z DEF OthersDraw, IdInv, RequestIds
  <2> QED  BY <2>1, <2>2, <2>3 DEF IdInv
<1>3. CASE AwaitResult
  BY <1>3 DEF AwaitResult, IdInv
<1>4. CASE PostRequest \/ StoreRequestId
  BY <1>4 DEF PostRequest, StoreRequestId, IdInv
<1>5. CASE UNCHANGED <<callVars, requestId>>
  BY <1>5 DEF callVars, IdInv
<1>6. ASSUME NEW t \in Threads, RequestStep(t) PROVE UNCHANGED <<callVars, requestId>>
  BY <1>6 DEF RequestStep, MatchId, Settle, SetPromise, OtherStep, requestVars
<1> QED
  BY <1>1, <1>2, <1>3, <1>4, <1>5, <1>6 DEF RequestNext, Withdraw, BeginCall,
     requestVars, allVars

\* Who settles the promise: at most one thread has won *completed and not yet set
\* it, and once it is set nobody has.
SettleInv ==
    /\ completed \in BOOLEAN /\ withdrawn \in BOOLEAN
    /\ owed \in [Threads -> {"nothing", "value", "timeout"}]
    /\ outcome \in Seq(Outcome) /\ Len(outcome) <= 1
    /\ ~completed => outcome = <<>> /\ \A t \in Threads : owed[t] = "nothing"
    /\ \A t, u \in Threads : owed[t] # "nothing" /\ owed[u] # "nothing" => t = u
    /\ outcome # <<>> => \A t \in Threads : owed[t] = "nothing"

\* Every step keeps SettleInv: the compare-exchange lets one lambda through.
LEMMA SettleStep == IdInv /\ SettleInv /\ [RequestNext]_allVars => SettleInv'
<1> SUFFICES ASSUME IdInv, SettleInv, [RequestNext]_allVars PROVE SettleInv'
  OBVIOUS
<1>1. ASSUME UNCHANGED promiseVars, withdrawn' \in BOOLEAN PROVE SettleInv'
  BY <1>1 DEF SettleInv, promiseVars
<1>2. ASSUME NEW t \in Threads, Settle(t) PROVE SettleInv'
  <2>1. PICK kind \in {"value", "timeout"} : Claim(t, kind)
    BY <1>2 DEF Settle
  <2>2. UNCHANGED <<outcome, withdrawn>>
    BY <1>2 DEF Settle
  <2> QED  BY <2>1, <2>2 DEF Claim, SettleInv
<1>3. ASSUME NEW t \in Threads, SetPromise(t) PROVE SettleInv'
  <2>1. outcome = <<>> /\ completed
    BY <1>3 DEF SettleInv, SetPromise
  <2>2. PICK o \in Outcome : outcome' = Append(outcome, o)
    BY <1>3 DEF SetPromise, Outcome, IdInv
  <2>3. outcome' \in Seq(Outcome) /\ Len(outcome') = 1
    BY <2>1, <2>2
  <2>4. /\ owed' = [owed EXCEPT ![t] = "nothing"]
        /\ \A u \in Threads : owed'[u] = "nothing"
    BY <1>3 DEF SetPromise, SettleInv
  <2> QED  BY <1>3, <2>1, <2>3, <2>4 DEF SetPromise, SettleInv
<1>4. ASSUME NEW t \in Threads, MatchId(t) \/ OtherStep(t) PROVE SettleInv'
  BY <1>1, <1>4 DEF MatchId, OtherStep, requestVars, SettleInv
<1>5. CASE \E t \in Threads : RequestStep(t)
  BY <1>2, <1>3, <1>4, <1>5 DEF RequestStep
<1>6. CASE ~\E t \in Threads : RequestStep(t)
  <2>1. UNCHANGED promiseVars /\ withdrawn' \in BOOLEAN
    BY <1>6 DEF RequestNext, DrawId, OthersDraw, AwaitResult, PostRequest,
           StoreRequestId, Withdraw, BeginCall, requestVars, allVars, SettleInv
  <2> QED  BY <1>1, <2>1
<1> QED
  BY <1>5, <1>6

\* Both hold at the start.
LEMMA RequestStart == RequestInit => IdInv /\ SettleInv
<1> SUFFICES ASSUME RequestInit PROVE IdInv /\ SettleInv
  OBVIOUS
<1>1. IdInv
  BY RequestAssumption DEF RequestInit, IdInv, RequestIds, Invalid, NotDrawn
<1>2. completed \in BOOLEAN /\ withdrawn \in BOOLEAN
  BY Zenon DEF RequestInit
<1>3. SettleInv
  BY <1>2 DEF RequestInit, SettleInv
<1> QED
  BY <1>1, <1>3

\* Both are invariants of the request.
LEMMA RequestInvariant == RequestSpec => [](IdInv /\ SettleInv)
  BY RequestStart, IdStep, SettleStep, PTL DEF RequestSpec

\* The future becomes ready once, whatever dispatchers, pollers and timeouts race
\* for it: a second set_value() or set_exception() is never made.
THEOREM FutureSetOnce == RequestSpec => []SettledOnce
<1>1. SettleInv => SettledOnce
  <2> SUFFICES ASSUME SettleInv PROVE SettledOnce
    OBVIOUS
  <2> DEFINE O == {t \in Threads : owed[t] # "nothing"}
  <2>1. CASE O = {}
    <3>1. Cardinality(O) = 0
      BY <2>1, FS_EmptySet
    <3> QED  BY <3>1 DEF SettleInv, SettledOnce
  <2>2. CASE O # {}
    <3>1. PICK t \in Threads : O = {t}
      BY <2>2 DEF SettleInv
    <3>2. Cardinality(O) = 1
      BY <3>1, FS_Singleton
    <3>3. outcome = <<>>
      BY <3>1 DEF SettleInv
    <3> QED  BY <3>2, <3>3 DEF SettledOnce
  <2> QED  BY <2>1, <2>2
<1> QED
  BY <1>1, RequestInvariant, PTL

--------------------------------------------------------------------------------

\* What a call of the awaiter knows: one on its way to the callback has matched an
\* answer to the posted request, one on its way to on_timeout has seen the deadline.
FrameTrue(f, posted, late) ==
    /\ f.at \in {"callback", "inCallback"} => f.then = "callback"
    /\ f.then = "callback" => posted
    /\ f.at \in {"timeout", "inTimeout"} => f.then = "timeout"
    /\ f.then = "timeout" \/ f.at \in {"take", "drop"} => late

FramesTrue ==
    \A t \in Threads : \A i \in DOMAIN stack[t] : FrameTrue(stack[t][i], Posted, expired)

\* What the thread that won *completed knows.
OwedTrue ==
    \A t \in Threads :
        /\ owed[t] = "value" => Posted /\ calls > 0
        /\ owed[t] = "timeout" => expired /\ timeouts > 0

\* What the promise was set to, before and after the id is stored.
SetTrue ==
    \A i \in DOMAIN outcome :
        /\ outcome[i].kind = "value" => Posted /\ calls > 0
        /\ outcome[i].kind = "timeout" =>
               /\ expired /\ timeouts > 0
               /\ outcome[i].id # Invalid => call = "returned" /\ outcome[i].id = id

TruthInv == singleShot /\ FramesTrue /\ OwedTrue /\ SetTrue

\* Nothing that was true is taken back.
Grows ==
    /\ singleShot' = singleShot
    /\ Posted => Posted'
    /\ call = "returned" => call' = "returned" /\ id' = id
    /\ expired => expired'
    /\ calls > 0 => calls' > 0
    /\ timeouts > 0 => timeouts' > 0

\* Every step leaves true what was.
LEMMA OnlyGrows ==
    ASSUME TypeInv, IdInv, [RequestNext]_allVars
    PROVE  Grows
<1> USE DEF TypeInv
<1>n. calls \in 0..2 /\ timeouts \in 0..2 /\ onTimeout \in BOOLEAN /\ stack \in Stacks
  BY DEF Flags
<1>1. /\ Posted => Posted'
      /\ call = "returned" => call' = "returned" /\ id' = id
  <2>1. CASE \E t \in Threads : RequestStep(t)
    BY <2>1 DEF RequestStep, MatchId, Settle, SetPromise, OtherStep, requestVars,
           callVars, Posted
  <2>2. CASE ~\E t \in Threads : RequestStep(t)
    BY <2>2 DEF RequestNext, DrawId, OthersDraw, AwaitResult, PostRequest,
           StoreRequestId, Withdraw, BeginCall, requestVars, callVars, allVars, Posted
  <2> QED  BY <2>1, <2>2
<1>2. [Next]_vars
  BY AwaiterStep
<1>3. CASE Outside
  <2>1. UNCHANGED <<calls, timeouts, singleShot>>
    BY <1>3, OutsideFrame DEF history
  <2>2. expired => expired'
    BY <1>3 DEF Outside, Create, Retain, SubscribeRecord, StoreId, Register,
           CancelToken, DeadlinePasses, DropHandle, Destroy, vars, envVars
  <2> QED  BY <1>1, <2>1, <2>2 DEF Grows
<1>4. ASSUME NEW t \in Threads, Step(t) PROVE Grows
  <2>1. StepShape(t) /\ UNCHANGED envVars
    BY <1>4, <1>n, StepFrames
  <2>2. (calls > 0 => calls' > 0) /\ (timeouts > 0 => timeouts' > 0)
    BY <1>n, <2>1 DEF StepShape, history
  <2> QED  BY <1>1, <2>1, <2>2 DEF Grows, envVars
<1>5. CASE UNCHANGED <<envVars, history>>
  BY <1>1, <1>5 DEF Grows, envVars, history
<1> QED
  BY <1>2, <1>3, <1>4, <1>5, NextCases DEF DispatchBegin, PollBegin, CancelBegin

\* What was true of a call stays true of it.
LEMMA FrameStays ==
    ASSUME Grows, NEW f, FrameTrue(f, Posted, expired)
    PROVE  FrameTrue(f, Posted', expired')
BY DEF Grows, FrameTrue

\* A call that goes on.
LEMMA FramesBecome ==
    ASSUME stack \in Stacks, Grows, FramesTrue, NEW t \in Threads, NEW f \in Frame,
           Becomes(t, f), FrameTrue(f, Posted', expired')
    PROVE  FramesTrue'
<1>1. /\ \A u \in Threads \ {t} : stack'[u] = stack[u]
      /\ stack'[t][1] = f /\ DOMAIN stack'[t] = DOMAIN stack[t]
      /\ \A i \in DOMAIN stack[t] \ {1} : stack'[t][i] = stack[t][i]
  BY BecomeFrames
<1>2. \A u \in Threads : \A i \in DOMAIN stack'[u] :
         FrameTrue(stack'[u][i], Posted', expired')
  BY <1>1, FrameStays DEF FramesTrue
<1> QED
  BY <1>2 DEF FramesTrue

\* A call that ends.
LEMMA FramesPop ==
    ASSUME stack \in Stacks, Grows, FramesTrue, NEW t \in Threads, Pops(t)
    PROVE  FramesTrue'
<1>1. /\ \A u \in Threads \ {t} : stack'[u] = stack[u]
      /\ \A j \in DOMAIN stack'[t] :
            j + 1 \in DOMAIN stack[t] /\ stack'[t][j] = stack[t][j + 1]
  BY PopFrames
<1>2. \A u \in Threads : \A i \in DOMAIN stack'[u] :
         FrameTrue(stack'[u][i], Posted', expired')
  BY <1>1, FrameStays DEF FramesTrue
<1> QED
  BY <1>2 DEF FramesTrue

\* A call that begins has nothing to show yet.
LEMMA FramesBegin ==
    ASSUME stack \in Stacks, Grows, FramesTrue, NEW t \in Threads, NEW op,
           NEW step \in {"copied", "active", "cas"}, Begins(t, op, step)
    PROVE  FramesTrue'
<1>1. /\ \A u \in Threads \ {t} : stack'[u] = stack[u]
      /\ stack'[t][1].at = step /\ stack'[t][1].then = "return"
      /\ \A j \in DOMAIN stack'[t] :
            j # 1 => j - 1 \in DOMAIN stack[t] /\ stack'[t][j] = stack[t][j - 1]
  BY BeginsFrames
<1>2. FrameTrue(stack'[t][1], Posted', expired')
  BY <1>1 DEF FrameTrue
<1>3. \A u \in Threads : \A i \in DOMAIN stack'[u] :
         FrameTrue(stack'[u][i], Posted', expired')
  BY <1>1, <1>2, FrameStays DEF FramesTrue
<1> QED
  BY <1>3 DEF FramesTrue

\* A step of a call, which matches only an answer to the posted request.
LEMMA FramesStep ==
    ASSUME TypeInv, Grows, FramesTrue, NEW t \in Threads, Step(t),
           stack[t][1].at = "predicate" => Pops(t) \/ Posted
    PROVE  FramesTrue'
<1> USE DEF TypeInv
<1>f. stack \in Stacks /\ onTimeout \in BOOLEAN
  BY DEF Flags
<1>1. /\ 1 \in DOMAIN stack[t] /\ stack[t][1] \in Frame /\ StepShape(t)
      /\ UNCHANGED envVars
  BY <1>f, StepFrames
<1>2. FrameTrue(stack[t][1], Posted', expired')
  BY <1>1, FrameStays DEF FramesTrue
<1>3. Pops(t) \/ \E f \in Frame : Becomes(t, f) /\ FrameTrue(f, Posted', expired')
  BY <1>1, <1>2 DEF StepShape, Goes, FrameTrue, Frame, envVars, Grows
<1> QED
  BY <1>3, <1>f, FramesPop, FramesBecome

\* What is owed and what is set stays true while nobody claims or sets it.
LEMMA PromiseStays ==
    ASSUME TypeInv, IdInv, Grows, OwedTrue, SetTrue, UNCHANGED <<owed, outcome>>
    PROVE  OwedTrue' /\ SetTrue'
<1>1. OwedTrue'
  BY DEF OwedTrue, Grows
<1>2. SetTrue'
  BY DEF SetTrue, Grows
<1> QED
  BY <1>1, <1>2

\* Every step keeps TruthInv.
LEMMA TruthStep ==
    ASSUME TypeInv, IdInv, SettleInv, TruthInv, [RequestNext]_allVars
    PROVE  TruthInv'
<1> USE DEF TypeInv
<1>f. /\ stack \in Stacks /\ onTimeout \in BOOLEAN
      /\ calls \in 0..2 /\ timeouts \in 0..2
  BY DEF Flags
<1>g. Grows
  BY OnlyGrows
<1>s. singleShot'
  BY <1>g DEF TruthInv, Grows
<1>p. ASSUME UNCHANGED <<owed, outcome>> PROVE OwedTrue' /\ SetTrue'
  BY <1>g, <1>p, PromiseStays DEF TruthInv
<1>1. ASSUME UNCHANGED <<owed, outcome>>, Outside PROVE TruthInv'
  <2>1. FramesTrue'
    <3>1. \A u \in Threads : \A i \in DOMAIN stack'[u] :
             FrameTrue(stack'[u][i], Posted', expired')
      BY <1>1, <1>g, OutsideFrame, FrameStays DEF TruthInv, FramesTrue
    <3> QED  BY <3>1 DEF FramesTrue
  <2> QED  BY <1>1, <1>p, <1>s, <2>1 DEF TruthInv
<1>2. ASSUME NEW t \in Threads, MatchId(t) PROVE TruthInv'
  <2>1. Step(t) /\ UNCHANGED <<owed, outcome>>
    BY <1>2 DEF MatchId, Step, requestVars, promiseVars
  <2>2. Pops(t) \/ Posted
    <3> SUFFICES ASSUME ~Posted PROVE Pops(t)
      OBVIOUS
    <3>1. stack'[t] = Tail(stack[t]) /\ stack[t] # <<>>
      BY <1>2 DEF MatchId, PredicateReturns, At
    <3>2. \E x : stack' = [stack EXCEPT ![t] = x]
      BY <1>2 DEF MatchId, PredicateReturns, Return
    <3>3. stack' = [stack EXCEPT ![t] = stack'[t]]
      BY <1>f, <3>2 DEF Stacks
    <3> QED  BY <3>1, <3>3 DEF Pops
  <2>3. FramesTrue'
    BY <1>g, <2>1, <2>2, FramesStep DEF TruthInv
  <2> QED  BY <1>p, <1>s, <2>1, <2>3 DEF TruthInv
<1>3. ASSUME NEW t \in Threads, OtherStep(t) PROVE TruthInv'
  <2>1. Step(t) /\ UNCHANGED <<owed, outcome>>
    BY <1>3 DEF OtherStep, Step, requestVars, promiseVars
  <2>2. stack[t][1].at # "predicate"
    BY <1>3 DEF OtherStep, LockSelf, CheckActive, CheckToken, CheckDeadline,
           TakeOnTimeout, DropOnTimeout, CancelCas, ReadId, UnsubscribeRecord,
           ClearId, Release, Leave, At
  <2>3. FramesTrue'
    BY <1>g, <2>1, <2>2, FramesStep DEF TruthInv
  <2> QED  BY <1>p, <1>s, <2>1, <2>3 DEF TruthInv
<1>4. ASSUME NEW t \in Threads, Settle(t) PROVE TruthInv'
  <2>1. Step(t) /\ UNCHANGED outcome
    BY <1>4 DEF Settle, Step
  <2>2. stack[t] # <<>> /\ stack[t][1].at \in {"callback", "timeout"}
    BY <1>4 DEF Settle, Invoke, At
  <2>3. FramesTrue'
    BY <1>g, <2>1, <2>2, FramesStep DEF TruthInv
  <2>4. FrameTrue(stack[t][1], Posted, expired)
    BY <1>f, <2>1, StepFrames DEF TruthInv, FramesTrue
  <2>5. OwedTrue'
    <3>1. CASE stack[t][1].at = "callback"
      <4>1. Claim(t, "value") /\ calls' > 0 /\ Posted'
        BY <1>4, <1>f, <1>g, <2>2, <2>4, <3>1 DEF Settle, At, Invoke, FrameTrue, Grows
      <4> QED  BY <1>g, <4>1 DEF Claim, OwedTrue, TruthInv, Grows, SettleInv
    <3>2. CASE stack[t][1].at = "timeout"
      <4>1. Claim(t, "timeout") /\ timeouts' > 0 /\ expired'
        BY <1>4, <1>f, <1>g, <2>2, <2>4, <3>2 DEF Settle, At, Invoke, FrameTrue, Grows
      <4> QED  BY <1>g, <4>1 DEF Claim, OwedTrue, TruthInv, Grows, SettleInv
    <3> QED  BY <2>2, <3>1, <3>2
  <2>6. SetTrue'
    BY <1>g, <2>1 DEF TruthInv, SetTrue, Grows
  <2> QED  BY <1>s, <2>3, <2>5, <2>6 DEF TruthInv
<1>5. ASSUME NEW t \in Threads, SetPromise(t) PROVE TruthInv'
  <2>1. UNCHANGED <<stack, expired, calls, timeouts, call, id, requestId>>
    BY <1>5 DEF SetPromise, vars, envVars, history, callVars
  <2>2. outcome = <<>>
    BY <1>5 DEF SetPromise, SettleInv
  <2>3. OwedTrue'
    BY <1>5, <2>1 DEF SetPromise, OwedTrue, TruthInv, SettleInv, Posted
  <2>4. SetTrue'
    <3>1. PICK o : /\ outcome' = Append(outcome, o)
                   /\ \/ owed[t] = "value" /\ o = [kind |-> "value"]
                      \/ owed[t] = "timeout" /\ o = [kind |-> "timeout", id |-> requestId]
      BY <1>5 DEF SetPromise, SettleInv
    <3>2. DOMAIN outcome' = {1} /\ outcome'[1] = o
      BY <2>2, <3>1
    <3>3. /\ o.kind = "value" => Posted /\ calls > 0
          /\ o.kind = "timeout" => /\ expired /\ timeouts > 0
                                   /\ o.id # Invalid => call = "returned" /\ o.id = id
      BY <3>1 DEF TruthInv, OwedTrue, IdInv
    <3> QED  BY <2>1, <3>2, <3>3 DEF SetTrue, Posted
  <2>5. FramesTrue'
    BY <2>1 DEF FramesTrue, TruthInv, Posted
  <2> QED  BY <1>s, <2>3, <2>4, <2>5 DEF TruthInv
<1>6. ASSUME NEW t \in Dispatchers, BeginCall(t) PROVE TruthInv'
  <2>1. t \in Threads /\ UNCHANGED <<owed, outcome>>
    BY <1>6 DEF BeginCall, Threads, requestVars, promiseVars
  <2>2. CASE Begins(t, "event", "copied") \/ Begins(t, "poll", "active")
    <3>1. FramesTrue'
      BY <1>f, <1>g, <2>1, <2>2, FramesBegin DEF TruthInv
    <3> QED  BY <1>p, <1>s, <2>1, <3>1 DEF TruthInv
  <2>3. CASE UNCHANGED stack
    <3>1. \A u \in Threads : \A i \in DOMAIN stack'[u] :
             FrameTrue(stack'[u][i], Posted', expired')
      BY <1>g, <2>3, FrameStays DEF TruthInv, FramesTrue
    <3> QED  BY <1>p, <1>s, <2>1, <3>1 DEF TruthInv, FramesTrue
  <2> QED  BY <1>6, <1>f, <2>2, <2>3, DispatchFrames, PollFrames DEF BeginCall
<1>7. CASE Withdraw
  <2>1. UNCHANGED <<owed, outcome>>
    BY <1>7 DEF Withdraw, promiseVars
  <2>2. CASE CancelToken
    BY <1>1, <2>1, <2>2 DEF Outside
  <2>3. ASSUME NEW t \in Cancellers, CancelBegin(t) PROVE TruthInv'
    <3>1. t \in Threads /\ Begins(t, "cancel", "cas")
      BY <1>f, <2>3, CancelFrames
    <3>2. FramesTrue'
      BY <1>f, <1>g, <3>1, FramesBegin DEF TruthInv
    <3> QED  BY <1>p, <1>s, <2>1, <3>2 DEF TruthInv
  <2> QED  BY <1>7, <2>2, <2>3 DEF Withdraw
<1>8. CASE \/ UNCHANGED allVars \/ DrawId \/ OthersDraw \/ AwaitResult \/ PostRequest
           \/ StoreRequestId
           \/ (DeadlinePasses \/ DropHandle \/ Destroy) /\ UNCHANGED requestVars
  <2>1. UNCHANGED <<owed, outcome>>
    BY <1>8 DEF allVars, DrawId, OthersDraw, AwaitResult, PostRequest, StoreRequestId,
           requestVars, promiseVars
  <2>2. Outside
    BY <1>8 DEF allVars, DrawId, OthersDraw, AwaitResult, PostRequest, StoreRequestId,
           Outside
  <2> QED  BY <1>1, <2>1, <2>2
<1> QED
  BY <1>2, <1>3, <1>4, <1>5, <1>6, <1>7, <1>8 DEF RequestNext, RequestStep

\* It holds at the start.
LEMMA TruthStart == RequestInit => TruthInv
<1> SUFFICES ASSUME RequestInit PROVE TruthInv
  OBVIOUS
<1>1. \A t \in Threads : stack[t] = <<>> /\ DOMAIN stack[t] = {}
  BY DEF RequestInit, Init
<1>2. FramesTrue
  BY <1>1 DEF FramesTrue
<1>3. OwedTrue
  BY DEF RequestInit, OwedTrue
<1>4. SetTrue
  BY DEF RequestInit, SetTrue
<1> QED
  BY <1>2, <1>3, <1>4 DEF RequestInit, TruthInv

\* TruthInv is an invariant of the request.
LEMMA TruthInvariant == RequestSpec => []TruthInv
<1>1. TypeInv /\ (IdInv /\ SettleInv) /\ TruthInv /\ [RequestNext]_allVars => TruthInv'
  BY TruthStep
<1> QED
  BY <1>1, TruthStart, AwaiterTypes, RequestInvariant, PTL DEF RequestSpec

\* A value answers a request that was posted under a valid id, a timeout stands
\* for a deadline that has passed and names this request or none.
THEOREM FutureTellsTruth == RequestSpec => []OutcomeIsTrue
<1>1. IdInv /\ SettleInv /\ TruthInv => OutcomeIsTrue
  BY DEF IdInv, TruthInv, SetTrue, OutcomeIsTrue, Posted
<1> QED
  BY <1>1, TruthInvariant, RequestInvariant, PTL

\* Every variable of a request keeps its type.
THEOREM RequestTypes == RequestSpec => []RequestTypeOK
<1>1. TypeInv /\ (IdInv /\ SettleInv) /\ TruthInv => RequestTypeOK
  <2> SUFFICES ASSUME TypeInv, IdInv, SettleInv, TruthInv PROVE RequestTypeOK
    OBVIOUS
  <2>1. TypeOK
    BY TypeInvIsTypeOK
  <2>2. Len(outcome) <= 2
    BY DEF SettleInv
  <2> QED  BY <2>1, <2>2 DEF IdInv, SettleInv, TruthInv, RequestTypeOK
<1> QED
  BY <1>1, AwaiterTypes, TruthInvariant, RequestInvariant, PTL
================================================================================
