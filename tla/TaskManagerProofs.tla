--------------------------- MODULE TaskManagerProofs ---------------------------
(***************************************************************************)
(* Theorems about TaskManager for every value of its constants.            *)
(***************************************************************************)
EXTENDS TaskManager, ProofLemmas, FiniteSetTheorems, SequenceTheorems, TLAPS

--------------------------------------------------------------------------------
(* The sequences of the model. *)

\* s with id put in behind its first k elements.
Spliced(s, k, id) ==
    [i \in 1..(Len(s) + 1) |->
        IF i <= k THEN s[i] ELSE IF i = k + 1 THEN id ELSE s[i - 1]]

\* push_heap() puts the new entry in at some place of the heap's order.
LEMMA InsertIsSplice ==
    ASSUME NEW s \in Seq(Ids), NEW id, NEW due
    PROVE  \E k \in 0..Len(s) : InsertDelayed(s, id, due) = Spliced(s, k, id)
<1> DEFINE sooner == {i \in DOMAIN s : entry[s[i]].due <= due}
           k == Cardinality(sooner)
<1>1. Len(s) \in Nat /\ DOMAIN s = 1..Len(s)
  BY LenProperties
<1>2. IsFiniteSet(1..Len(s)) /\ Cardinality(1..Len(s)) = Len(s)
  BY <1>1, FS_Interval
<1>3. k \in Nat /\ k <= Len(s)
  BY <1>1, <1>2, FS_Subset, FS_CardinalityType
<1>4. InsertDelayed(s, id, due) = Spliced(s, k, id)
  BY DEF InsertDelayed, Spliced
<1> HIDE DEF k, sooner
<1>5. k \in 0..Len(s)
  BY <1>1, <1>3
<1> QED
  BY <1>4, <1>5

\* Putting an element in keeps a sequence a sequence, keeps what was there and
\* adds the element, and repeats nothing when the element is new.
LEMMA SpliceProperties ==
    ASSUME NEW S, NEW s \in Seq(S), NEW k \in 0..Len(s), NEW id \in S
    PROVE  /\ Spliced(s, k, id) \in Seq(S)
           /\ Elems(Spliced(s, k, id)) = Elems(s) \cup {id}
           /\ NoRepeats(s) /\ id \notin Elems(s) => NoRepeats(Spliced(s, k, id))
<1> DEFINE t == Spliced(s, k, id)
<1>1. Len(s) \in Nat /\ DOMAIN s = 1..Len(s) /\ \A i \in 1..Len(s) : s[i] \in S
  BY LenProperties, ElementOfSeq
<1>2. DOMAIN t = 1..(Len(s) + 1)
  BY DEF Spliced
<1>3. \A i \in 1..(Len(s) + 1) :
        t[i] = IF i <= k THEN s[i] ELSE IF i = k + 1 THEN id ELSE s[i - 1]
  BY DEF Spliced
<1>4. \A i \in 1..(Len(s) + 1) : t[i] \in S
  BY <1>1, <1>3
<1>5. t \in Seq(S)
  BY <1>1, <1>4, IsASeq DEF Spliced
<1>6. Elems(t) = Elems(s) \cup {id}
  <2>1. ASSUME NEW i \in 1..(Len(s) + 1) PROVE t[i] \in Elems(s) \cup {id}
    <3>1. CASE i <= k
      <4>1. i \in DOMAIN s /\ t[i] = s[i]
        BY <1>1, <1>3, <3>1
      <4> QED  BY <4>1 DEF Elems
    <3>2. CASE i = k + 1
      BY <1>3, <3>2
    <3>3. CASE i > k + 1
      <4>1. i - 1 \in DOMAIN s /\ t[i] = s[i - 1]
        BY <1>1, <1>3, <3>3
      <4> QED  BY <4>1 DEF Elems
    <3> QED  BY <1>1, <3>1, <3>2, <3>3
  <2>2. id \in Elems(t)
    <3>1. k + 1 \in 1..(Len(s) + 1) /\ t[k + 1] = id
      BY <1>1, <1>3
    <3> QED  BY <3>1, <1>2 DEF Elems
  <2>3. ASSUME NEW i \in 1..Len(s) PROVE s[i] \in Elems(t)
    <3>1. CASE i <= k
      <4>1. i \in DOMAIN t /\ t[i] = s[i]
        BY <1>1, <1>2, <1>3, <3>1
      <4> QED  BY <4>1 DEF Elems
    <3>2. CASE i > k
      <4>1. i + 1 \in DOMAIN t /\ t[i + 1] = s[i]
        BY <1>1, <1>2, <1>3, <3>2
      <4> QED  BY <4>1 DEF Elems
    <3> QED  BY <1>1, <3>1, <3>2
  <2>4. Elems(t) \subseteq Elems(s) \cup {id}
    BY <1>2, <2>1 DEF Elems
  <2>5. Elems(s) \subseteq Elems(t)
    BY <1>1, <2>3 DEF Elems
  <2> QED  BY <2>2, <2>4, <2>5
<1>7. ASSUME NoRepeats(s), id \notin Elems(s) PROVE NoRepeats(t)
  <2>1. \A i \in 1..Len(s) : s[i] # id
    BY <1>1, <1>7 DEF Elems
  <2>2. \A i, j \in 1..Len(s) : s[i] = s[j] => i = j
    BY <1>1, <1>7 DEF NoRepeats
  <2>3. ASSUME NEW i \in 1..(Len(s) + 1), NEW j \in 1..(Len(s) + 1), t[i] = t[j]
        PROVE  i = j
    BY <1>1, <1>3, <2>1, <2>2, <2>3
  <2> QED  BY <1>2, <2>3 DEF NoRepeats
<1> QED  BY <1>5, <1>6, <1>7

\* push_back() of a task that is not in the queue.
LEMMA AppendElems ==
    ASSUME NEW S, NEW s \in Seq(S), NEW id \in S
    PROVE  /\ Elems(Append(s, id)) = Elems(s) \cup {id}
           /\ NoRepeats(s) /\ id \notin Elems(s) => NoRepeats(Append(s, id))
<1> DEFINE t == Append(s, id)
<1>1. Len(s) \in Nat /\ DOMAIN s = 1..Len(s)
  BY LenProperties
<1>2. DOMAIN t = 1..(Len(s) + 1)
  BY <1>1, AppendProperties, LenProperties
<1>3. t[Len(s) + 1] = id /\ \A i \in 1..Len(s) : t[i] = s[i]
  BY <1>1, AppendProperties
<1> HIDE DEF t
<1>4. \A i \in 1..(Len(s) + 1) : i \in 1..Len(s) \/ i = Len(s) + 1
  BY <1>1
<1>5. 1..Len(s) \subseteq DOMAIN t /\ Len(s) + 1 \in DOMAIN t
  BY <1>1, <1>2
<1>6. Elems(t) = Elems(s) \cup {id}
  BY <1>1, <1>2, <1>3, <1>4, <1>5 DEF Elems
<1>7. NoRepeats(s) /\ id \notin Elems(s) => NoRepeats(t)
  BY <1>1, <1>2, <1>3, <1>4 DEF Elems, NoRepeats
<1> QED  BY <1>6, <1>7 DEF t

\* pop_front().
LEMMA TailElems ==
    ASSUME NEW S, NEW s \in Seq(S), s # <<>>
    PROVE  /\ Head(s) \in S /\ Tail(s) \in Seq(S)
           /\ Elems(s) = Elems(Tail(s)) \cup {Head(s)}
           /\ NoRepeats(s) => NoRepeats(Tail(s)) /\ Head(s) \notin Elems(Tail(s))
<1> DEFINE t == Tail(s)
<1>1. Len(s) \in Nat \ {0} /\ DOMAIN s = 1..Len(s)
  BY LenProperties, EmptySeq
<1>2. Head(s) = s[1]
  OBVIOUS
<1>3. /\ Head(s) \in S /\ t \in Seq(S)
      /\ Len(t) = Len(s) - 1 /\ \A i \in 1..Len(t) : t[i] = s[i + 1]
  BY HeadTailProperties
<1>4. DOMAIN t = 1..(Len(s) - 1)
  BY <1>3, LenProperties
<1> HIDE DEF t
<1>5. \A i \in 1..(Len(s) - 1) : i + 1 \in 1..Len(s) /\ t[i] = s[i + 1]
  BY <1>1, <1>3
<1>6. \A i \in 1..Len(s) : i = 1 \/ (i - 1 \in 1..(Len(s) - 1) /\ t[i - 1] = s[i])
  BY <1>1, <1>3
<1>7. Elems(s) = Elems(t) \cup {s[1]}
  <2>1. Elems(s) \subseteq Elems(t) \cup {s[1]}
    BY <1>1, <1>4, <1>6 DEF Elems
  <2>2. Elems(t) \subseteq Elems(s)
    BY <1>1, <1>4, <1>5 DEF Elems
  <2>3. s[1] \in Elems(s)
    BY <1>1 DEF Elems
  <2> QED  BY <2>1, <2>2, <2>3
<1>8. NoRepeats(s) => NoRepeats(t)
  BY <1>1, <1>4, <1>5 DEF NoRepeats
<1>9. NoRepeats(s) => s[1] \notin Elems(t)
  BY <1>1, <1>4, <1>5 DEF NoRepeats, Elems
<1> QED  BY <1>2, <1>3, <1>7, <1>8, <1>9 DEF t

\* Taking the last entry of the batch.
LEMMA FrontElems ==
    ASSUME NEW S, NEW s \in Seq(S), s # <<>>
    PROVE  LET t == SubSeq(s, 1, Len(s) - 1)
               last == s[Len(s)]
           IN  /\ last \in S /\ t \in Seq(S)
               /\ Elems(s) = Elems(t) \cup {last}
               /\ NoRepeats(s) => NoRepeats(t) /\ last \notin Elems(t)
<1> DEFINE t == SubSeq(s, 1, Len(s) - 1)
           n == Len(s)
<1>1. n \in Nat \ {0} /\ DOMAIN s = 1..n /\ \A i \in 1..n : s[i] \in S
  BY LenProperties, EmptySeq, ElementOfSeq
<1> HIDE DEF n
<1>2. /\ t \in Seq(S) /\ Len(t) = n - 1
      /\ \A i \in 1..(n - 1) : t[i] = s[i]
  <2>1. 1 \in Int /\ n - 1 \in Int /\ \A i \in 1..(n - 1) : s[i] \in S
    BY <1>1
  <2>2. SubSeq(s, 1, n - 1) \in Seq(S)
    BY <2>1, SubSeqProperties
  <2>3. Len(SubSeq(s, 1, n - 1)) = IF 1 <= n - 1 THEN n - 1 - 1 + 1 ELSE 0
    BY <2>1, SubSeqProperties
  <2>4. \A i \in 1..(n - 1 - 1 + 1) : SubSeq(s, 1, n - 1)[i] = s[1 + i - 1]
    BY <2>1, SubSeqProperties
  <2> QED  BY <1>1, <2>2, <2>3, <2>4 DEF n
<1>3. DOMAIN t = 1..(n - 1)
  BY <1>2, LenProperties
<1> HIDE DEF t
<1>4. \A i \in 1..n : i = n \/ i \in 1..(n - 1)
  BY <1>1
<1>5. 1..(n - 1) \subseteq 1..n /\ n \in 1..n /\ n \notin 1..(n - 1)
  BY <1>1
<1>6. Elems(s) = Elems(t) \cup {s[n]}
  BY <1>1, <1>2, <1>3, <1>4, <1>5 DEF Elems
<1>7. NoRepeats(s) => NoRepeats(t)
  BY <1>1, <1>2, <1>3, <1>5 DEF NoRepeats
<1>8. NoRepeats(s) => s[n] \notin Elems(t)
  BY <1>1, <1>2, <1>3, <1>5 DEF NoRepeats, Elems
<1> QED  BY <1>1, <1>2, <1>5, <1>6, <1>7, <1>8 DEF t, n

\* Two sequences behind each other.
LEMMA ConcatElems ==
    ASSUME NEW S, NEW s \in Seq(S), NEW u \in Seq(S)
    PROVE  /\ s \o u \in Seq(S)
           /\ Elems(s \o u) = Elems(s) \cup Elems(u)
           /\ /\ NoRepeats(s) /\ NoRepeats(u)
              /\ Elems(s) \cap Elems(u) = {}
              => NoRepeats(s \o u)
<1> DEFINE t == s \o u
           m == Len(s)
           n == Len(u)
<1>1. m \in Nat /\ n \in Nat /\ DOMAIN s = 1..m /\ DOMAIN u = 1..n
  BY LenProperties
<1>2. t \in Seq(S) /\ Len(t) = m + n
  BY ConcatProperties
<1>3. \A i \in 1..(m + n) : t[i] = IF i <= m THEN s[i] ELSE u[i - m]
  BY <1>1, ConcatProperties
<1>4. DOMAIN t = 1..(m + n)
  BY <1>2, LenProperties
<1> HIDE DEF t, m, n
<1>5. \A i \in 1..m : i \in 1..(m + n) /\ t[i] = s[i]
  BY <1>1, <1>3
<1>6. \A i \in 1..n : m + i \in 1..(m + n) /\ t[m + i] = u[i]
  BY <1>1, <1>3
<1>7. \A i \in 1..(m + n) : i \in 1..m \/ (i - m \in 1..n /\ t[i] = u[i - m])
  BY <1>1, <1>3
<1>8. Elems(t) = Elems(s) \cup Elems(u)
  <2>1. Elems(t) \subseteq Elems(s) \cup Elems(u)
    BY <1>1, <1>4, <1>5, <1>7 DEF Elems
  <2>2. Elems(s) \subseteq Elems(t) /\ Elems(u) \subseteq Elems(t)
    BY <1>1, <1>4, <1>5, <1>6 DEF Elems
  <2> QED  BY <2>1, <2>2
<1>9. ASSUME NoRepeats(s), NoRepeats(u), Elems(s) \cap Elems(u) = {}
      PROVE  NoRepeats(t)
  <2>1. \A i \in 1..m, j \in 1..n : s[i] # u[j]
    BY <1>1, <1>9 DEF Elems
  <2>2. ASSUME NEW i \in 1..(m + n), NEW j \in 1..(m + n), t[i] = t[j]
        PROVE  i = j
    <3>1. CASE i \in 1..m /\ j \in 1..m
      BY <1>1, <1>5, <1>9, <2>2, <3>1 DEF NoRepeats
    <3>2. CASE i \notin 1..m /\ j \notin 1..m
      <4>1. i - m = j - m
        BY <1>1, <1>7, <1>9, <2>2, <3>2 DEF NoRepeats
      <4> QED  BY <1>1, <4>1
    <3>3. CASE ~(i \in 1..m <=> j \in 1..m)
      BY <1>5, <1>7, <2>1, <2>2, <3>3
    <3> QED  BY <3>1, <3>2, <3>3
  <2> QED  BY <1>4, <2>2 DEF NoRepeats
<1> QED  BY <1>2, <1>8, <1>9 DEF t

\* There are finitely many ids, so every set of them can be counted.
LEMMA IdsFinite ==
    ASSUME NEW S, S \subseteq Ids
    PROVE  IsFiniteSet(S) /\ Cardinality(S) \in Nat
<1>1. IsFiniteSet(Ids)
  <2>1. MaxId \in Int
    BY BoundsAssumption
  <2> QED  BY <2>1, FS_Interval DEF Ids
<1>2. IsFiniteSet(S)
  BY <1>1, FS_Subset
<1> QED  BY <1>2, FS_CardinalityType

--------------------------------------------------------------------------------
(* Type correctness. *)

\* Queueing a task keeps the types of what it changes.
LEMMA PlaceType ==
    ASSUME TypeOK, NEW id \in Ids, NEW e \in Entry, Place(id, e)
    PROVE  /\ state' \in [Ids -> State]
           /\ entry' \in [Ids -> Entry]
           /\ ready' \in [Priority -> Seq(Ids)]
           /\ delayed' \in Seq(Ids)
           /\ readyCount' \in Int
<1> USE DEF TypeOK
<1>1. e.priority \in Priority /\ e.due \in Nat
  BY DEF Entry
<1>2. entry' \in [Ids -> Entry]
  BY DEF Place
<1>3. CASE IsDue(e.due, now')
  <2>1. Append(ready[e.priority], id) \in Seq(Ids)
    BY <1>1, AppendProperties
  <2>2. state' = [state EXCEPT ![id] = "queued_ready"]
    BY <1>3 DEF Place
  <2>3. ready' = [ready EXCEPT ![e.priority] = Append(@, id)]
    BY <1>3 DEF Place
  <2>4. readyCount' = readyCount + 1 /\ delayed' = delayed
    BY <1>3 DEF Place
  <2>5. state' \in [Ids -> State]
    BY <2>2 DEF State
  <2>6. ready' \in [Priority -> Seq(Ids)]
    BY <1>1, <2>1, <2>3
  <2>7. readyCount' \in Int /\ delayed' \in Seq(Ids)
    BY <2>4
  <2> QED  BY <1>2, <2>5, <2>6, <2>7
<1>4. CASE ~IsDue(e.due, now')
  <2>1. PICK k \in 0..Len(delayed) :
            InsertDelayed(delayed, id, e.due) = Spliced(delayed, k, id)
    BY InsertIsSplice
  <2>2. InsertDelayed(delayed, id, e.due) \in Seq(Ids)
    BY <2>1, SpliceProperties
  <2> QED  BY <1>2, <1>4, <2>2 DEF Place, State
<1> QED  BY <1>3, <1>4

\* No step breaks a type.
LEMMA TypeStep == TypeOK /\ [Next]_vars => TypeOK'
<1> USE BoundsAssumption, ArgumentsAssumption
<1> SUFFICES ASSUME TypeOK, [Next]_vars PROVE TypeOK'
  OBVIOUS
<1> USE DEF taskVars, queueVars, consumerVars, cancelVars, envVars
<1>1. ASSUME NEW p \in Urgencies, NEW k \in Nat \ {0}, EnqueueReady(p, k)
      PROVE  TypeOK'
  <2> DEFINE new == [i \in 1..k |-> nextId + i - 1]
             e == [NoEntry EXCEPT !.priority = p]
  <2>1. p \in Priority /\ nextId \in Nat /\ nextId + k - 1 <= MaxId
    <3>1. p \in Priority
      OBVIOUS
    <3>2. nextId \in Nat
      BY DEF TypeOK
    <3>3. nextId + k - 1 <= MaxId
      BY <1>1 DEF EnqueueReady, Accepts
    <3> QED BY <3>1, <3>2, <3>3
  <2>2. \A i \in 1..k : new[i] \in Ids
    BY <2>1 DEF Ids, TypeOK
  <2>3. new \in Seq(Ids)
    BY <2>2, IsASeq
  <2>4. ready[p] \o new \in Seq(Ids)
    BY <2>1, <2>3, ConcatProperties DEF TypeOK
  <2>5. ready' \in [Priority -> Seq(Ids)]
    BY <1>1, <2>1, <2>4 DEF EnqueueReady, TypeOK
  <2>6. e \in Entry
    BY <2>1 DEF Entry, NoEntry
  <2>7. entry' \in [Ids -> Entry]
    BY <1>1, <2>6 DEF EnqueueReady, TypeOK
  <2>8. state' \in [Ids -> State]
    BY <1>1 DEF EnqueueReady, TypeOK, State
  <2>9. index' \subseteq Ids /\ nextId' \in 1..(MaxId + 1)
    <3>1. index \subseteq Ids /\ nextId \in 1..(MaxId + 1)
      BY DEF TypeOK
    <3>2. index' = index \cup nextId..(nextId + k - 1) /\ nextId' = nextId + k
      BY <1>1 DEF EnqueueReady
    <3> QED  BY <2>1, <3>1, <3>2 DEF Ids
  <2>10. owed' \in 0..Producers /\ readyCount' \in Int /\ pendingCount' \in Int
    <3>1. owed \in 0..Producers /\ readyCount \in Int /\ pendingCount \in Int
      BY DEF TypeOK
    <3>2. /\ owed < Producers /\ owed' = owed + 1
          /\ readyCount' = readyCount + k /\ pendingCount' = pendingCount + k
      BY <1>1 DEF EnqueueReady, Accepts
    <3> QED  BY <3>1, <3>2
  <2> QED
    BY <1>1, <2>5, <2>7, <2>8, <2>9, <2>10 DEF EnqueueReady, TypeOK
<1>2. ASSUME NEW e \in Entry, EnqueueNew(e)
      PROVE  TypeOK'
  <2>1. nextId \in Ids
    BY <1>2 DEF EnqueueNew, Accepts, TypeOK, Ids
  <2>2. Place(nextId, e)
    BY <1>2 DEF EnqueueNew
  <2>3. /\ index' \subseteq Ids /\ nextId' \in 1..(MaxId + 1)
        /\ owed' \in 0..Producers /\ pendingCount' \in Int
    BY <1>2, <2>1 DEF EnqueueNew, Accepts, TypeOK, Ids
  <2> QED
    BY <1>2, <2>1, <2>2, <2>3, PlaceType DEF EnqueueNew, TypeOK
<1>3. CASE Submit
  <2>1. ASSUME NEW p \in Urgencies, NEW due \in Dues PROVE
          [NoEntry EXCEPT !.priority = p, !.due = due] \in Entry
    BY DEF NoEntry, Entry, Priority
  <2>2. ASSUME NEW p \in Urgencies, NEW due \in Dues, NEW i \in Intervals,
               NEW s \in Schedules
        PROVE  [priority |-> p, due |-> due, interval |-> i,
                schedule |-> s] \in Entry
    BY DEF Entry, Priority
  <2>3. CASE \E p \in Urgencies : Post(p)
    BY <1>1, <2>3 DEF Post
  <2>4. CASE \E p \in Urgencies, k \in BatchSizes : PostBatch(p, k)
    BY <1>1, <2>4 DEF PostBatch
  <2>5. CASE \E p \in Urgencies, due \in Dues : PostAt(p, due)
    <3>1. PICK p \in Urgencies, due \in Dues : PostAt(p, due)
      BY <2>5
    <3>2. CASE EnqueueReady(p, 1)
      BY <1>1, <3>2
    <3>3. CASE EnqueueNew([NoEntry EXCEPT !.priority = p, !.due = due])
      BY <1>2, <2>1, <3>3
    <3> QED  BY <3>1, <3>2, <3>3 DEF PostAt
  <2>6. CASE \E p \in Urgencies, due \in Dues, i \in Intervals,
                s \in Schedules : PostEvery(p, due, i, s)
    BY <1>2, <2>2, <2>6 DEF PostEvery
  <2> QED
    BY <1>3, <2>3, <2>4, <2>5, <2>6 DEF Submit
<1>4. CASE Cancel
  <2>1. ASSUME NEW id \in Ids, CancelLoad(id) PROVE TypeOK'
    BY <2>1 DEF CancelLoad, TypeOK
  <2>2. CASE CancelCommit
    <3>1. cancelling \in Ids
      BY <2>2 DEF CancelCommit, TypeOK
    <3>2. state' \in [Ids -> State] /\ index' \subseteq Ids
      BY <2>2, <3>1 DEF CancelCommit, TypeOK, State
    <3>3. resched' \in [Ids -> Nat \cup {NoDue}]
      BY <2>2, <3>1 DEF CancelCommit, TypeOK
    <3>4. readyCount \in Int /\ pendingCount \in Int
      BY DEF TypeOK
    <3>5. readyCount' = readyCount - ReadyShare(seen)
          /\ pendingCount' = pendingCount - 1
      BY <2>2 DEF CancelCommit
    <3>6. readyCount' \in Int /\ pendingCount' \in Int
      BY <3>4, <3>5 DEF ReadyShare
    <3> QED
      BY <2>2, <3>2, <3>3, <3>6 DEF CancelCommit, TypeOK, State
  <2>3. CASE CancelLost
    BY <2>3 DEF CancelLost, TypeOK, State
  <2> QED  BY <1>4, <2>1, <2>2, <2>3 DEF Cancel
<1>5. CASE Environment
  <2>1. CASE NextDeadline
    <3>1. PICK k \in 2..(Len(delayed) + 1) :
               delayed' = SubSeq(delayed, k, Len(delayed))
      BY <2>1 DEF NextDeadline
    <3>2. delayed' \in Seq(Ids)
      BY <3>1, SubSeqProperties, LenProperties DEF TypeOK
    <3> QED  BY <2>1, <3>2 DEF NextDeadline, TypeOK
  <2>2. CASE ClearPending
    <3>1. /\ state' \in [Ids -> State]
          /\ index' \subseteq Ids
          /\ delayed' \in Seq(Ids)
          /\ ready' \in [Priority -> Seq(Ids)]
      BY <2>2 DEF ClearPending, TypeOK, State
    <3>2. readyCount' \in Int /\ pendingCount' \in Int
      <4> DEFINE inReady   == UNION {Elems(ready[p]) : p \in Priority}
                 dropReady == {id \in inReady : state[id] = "queued_ready"}
                 dropLater == {id \in Elems(delayed) :
                                  state[id] = "queued_delayed"}
      <4>2. inReady \subseteq Ids /\ Elems(delayed) \subseteq Ids
        BY LenProperties, ElementOfSeq DEF TypeOK, Elems
      <4>3. dropReady \subseteq Ids /\ dropReady \cup dropLater \subseteq Ids
        BY <4>2
      <4>4. /\ readyCount' = readyCount - Cardinality(dropReady)
            /\ pendingCount' =
                  pendingCount - Cardinality(dropReady \cup dropLater)
        BY <2>2 DEF ClearPending
      <4> HIDE DEF dropReady, dropLater
      <4>5. /\ Cardinality(dropReady) \in Nat
            /\ Cardinality(dropReady \cup dropLater) \in Nat
        BY <4>3, IdsFinite
      <4>6. readyCount \in Int /\ pendingCount \in Int
        BY DEF TypeOK
      <4> QED  BY <4>4, <4>5, <4>6
    <3> QED  BY <2>2, <3>1, <3>2 DEF ClearPending, TypeOK
  <2>3. CASE Notify \/ Tick \/ Close
             \/ \E h \in Handlers : SetExceptionHandler(h)
    <3>1. /\ owed \in 0..Producers /\ now \in Nat /\ closed \in BOOLEAN
          /\ handler \in HandlerKinds
      BY DEF TypeOK
    <3>2. owed' \in 0..Producers
      BY <2>3, <3>1 DEF Notify, Tick, Close, SetExceptionHandler
    <3>3. now' \in Nat
      BY <2>3, <3>1 DEF Notify, Tick, Close, SetExceptionHandler
    <3>4. closed' \in BOOLEAN
      BY <2>3, <3>1 DEF Notify, Tick, Close, SetExceptionHandler
    <3>5. handler' \in HandlerKinds
      BY <2>3, <3>1 DEF Notify, Tick, Close, SetExceptionHandler
    <3>6. UNCHANGED <<taskVars, queueVars, consumerVars, cancelVars, nextId>>
      BY <2>3 DEF Notify, Tick, Close, SetExceptionHandler
    <3> QED  BY <3>2, <3>3, <3>4, <3>5, <3>6 DEF TypeOK
  <2> QED  BY <1>5, <2>1, <2>2, <2>3 DEF Environment
<1>6. CASE \E q \in Quotas : ProcessBegin(q)
  BY <1>6 DEF ProcessBegin, TypeOK, Steps
<1>7. CASE Advance
  <2>1. CASE PruneTop
    BY <2>1, HeadTailProperties DEF PruneTop, TypeOK
  <2>2. CASE PromoteTop
    <3>1. Head(delayed) \in Ids /\ Tail(delayed) \in Seq(Ids)
      BY <2>2, HeadTailProperties DEF PromoteTop, TypeOK
    <3>2. entry[Head(delayed)].priority \in Priority
      BY <3>1 DEF TypeOK, Entry
    <3>3. ready' \in [Priority -> Seq(Ids)]
      BY <2>2, <3>1, <3>2, AppendProperties DEF PromoteTop, TypeOK
    <3> QED
      BY <2>2, <3>1, <3>3 DEF PromoteTop, TypeOK, State
  <2>3. CASE PromoteDone \/ TakeDone \/ CountStarted \/ ProcessReturn
             \/ ExceptionHandled \/ ExceptionEscapes \/ Rethrow
    BY <2>3 DEF PromoteDone, TakeDone, CountStarted, ProcessReturn,
                ExceptionHandled, ExceptionEscapes, Rethrow, TypeOK, Steps
  <2>4. ASSUME NEW p \in Priority, TakeOne(p) PROVE TypeOK'
    <3>1. Head(ready[p]) \in Ids /\ Tail(ready[p]) \in Seq(Ids)
      BY <2>4, HeadTailProperties DEF TakeOne, TakesFrom, TypeOK
    <3>2. batch' \in Seq(Ids)
      BY <2>4, <3>1, AppendProperties DEF TakeOne, TypeOK
    <3>3. room' \in Nat
      BY <2>4 DEF TakeOne, TakesFrom, TypeOK
    <3> QED
      BY <2>4, <3>1, <3>2, <3>3 DEF TakeOne, TypeOK, State
  <2>5. ASSUME NEW p \in Priority, TakeSkip(p) PROVE TypeOK'
    BY <2>5, HeadTailProperties DEF TakeSkip, TakesFrom, TypeOK
  <2>6. CASE StartTask
    <3>1. Head(batch) \in Ids /\ Tail(batch) \in Seq(Ids)
      BY <2>6, HeadTailProperties DEF StartTask, TypeOK
    <3>2. Head(batch) # 0
      BY <3>1 DEF Ids
    <3> QED
      BY <2>6, <3>1, <3>2 DEF StartTask, TypeOK, State, Steps
  <2>7. CASE SkipTask
    BY <2>7, HeadTailProperties DEF SkipTask, TypeOK
  <2>8. CASE RestoreOne \/ RestoreSkip
    <3> DEFINE id == batch[Len(batch)]
    <3>1. Len(batch) \in Nat /\ Len(batch) > 0
      BY <2>8, LenProperties, EmptySeq DEF RestoreOne, RestoreSkip, TypeOK
    <3>2. id \in Ids
      BY <3>1, ElementOfSeq DEF TypeOK
    <3>3. batch' \in Seq(Ids)
      <4>1. \A i \in 1..(Len(batch) - 1) : batch[i] \in Ids
        BY <3>1, ElementOfSeq DEF TypeOK
      <4>2. SubSeq(batch, 1, Len(batch) - 1) \in Seq(Ids)
        BY <3>1, <4>1, SubSeqProperties
      <4> QED  BY <2>8, <4>2 DEF RestoreOne, RestoreSkip
    <3>4. entry[id].priority \in Priority
      BY <3>2 DEF TypeOK, Entry
    <3>5. <<id>> \o ready[entry[id].priority] \in Seq(Ids)
      BY <3>2, <3>4, ConcatProperties DEF TypeOK
    <3>6. CASE RestoreOne
      BY <3>6, <3>2, <3>3, <3>4, <3>5 DEF RestoreOne, PutBack, TypeOK, State
    <3>7. CASE RestoreSkip
      BY <3>7, <3>3 DEF RestoreSkip, TypeOK
    <3> QED  BY <2>8, <3>6, <3>7
  <2> QED
    BY <1>7, <2>1, <2>2, <2>3, <2>4, <2>5, <2>6, <2>7, <2>8 DEF Advance
<1>8. CASE Finish \/ Callback
  <2>1. cur \in Ids
    BY <1>8 DEF Finish, Callback, FinishCancelled, FinishClosed,
                FinishOneShot, FinishRescheduled, FinishPeriodic,
                ContextCancel, ContextReschedule, CallbackThrows, InCallback,
                TypeOK
  <2>2. CASE FinishCancelled \/ FinishClosed \/ FinishOneShot
             \/ CallbackThrows
    <3>1. Forget("scanning") \/ Forget("failing")
      BY <2>2 DEF FinishCancelled, FinishClosed, FinishOneShot,
                  CallbackThrows
    <3>2. Complete \/ UNCHANGED <<state, pendingCount>>
      BY <2>2 DEF FinishCancelled, FinishClosed, FinishOneShot,
                  CallbackThrows
    <3>3. state' \in [Ids -> State]
      BY <2>1, <3>2 DEF Complete, TypeOK, State
    <3>4. pendingCount' \in Int
      BY <2>1, <3>2 DEF Complete, TypeOK
    <3>5. resched' \in [Ids -> Nat \cup {NoDue}] /\ index' \subseteq Ids
      BY <2>1, <3>1 DEF Forget, TypeOK
    <3>6. cur' = 0 /\ pc' \in {"scanning", "failing"}
      BY <3>1 DEF Forget
    <3>7. UNCHANGED <<entry, ready, delayed, readyCount, passNow, room, batch,
                      cancelVars, envVars, nextId, owed>>
      BY <3>1 DEF Forget
    <3> QED
      BY <3>3, <3>4, <3>5, <3>6, <3>7 DEF TypeOK, Steps
  <2>3. ASSUME NEW due \in Nat, EnqueueExisting(due)
        PROVE  /\ state' \in [Ids -> State]
               /\ entry' \in [Ids -> Entry]
               /\ ready' \in [Priority -> Seq(Ids)]
               /\ delayed' \in Seq(Ids)
               /\ readyCount' \in Int /\ pendingCount' \in Int
    <3>1. [entry[cur] EXCEPT !.due = due] \in Entry
      BY <2>1 DEF TypeOK, Entry
    <3>2. Place(cur, [entry[cur] EXCEPT !.due = due]) /\ cur \in Ids
      BY <2>1, <2>3 DEF EnqueueExisting
    <3>3. /\ state' \in [Ids -> State] /\ entry' \in [Ids -> Entry]
          /\ ready' \in [Priority -> Seq(Ids)] /\ delayed' \in Seq(Ids)
          /\ readyCount' \in Int
      BY <3>1, <3>2, PlaceType
    <3>4. pendingCount' \in Int
      BY <2>3 DEF EnqueueExisting, TypeOK
    <3> QED
      BY <3>3, <3>4
  <2>4. CASE FinishRescheduled
    <3>1. resched[cur] \in Nat
      BY <2>1, <2>4 DEF FinishRescheduled, TypeOK
    <3> QED
      BY <2>1, <2>3, <2>4, <3>1 DEF FinishRescheduled, TypeOK, Steps
  <2>5. CASE FinishPeriodic
    <3>1. NextPeriodicDue(entry[cur]) \in Nat
      BY <2>1 DEF NextPeriodicDue, TypeOK, Entry
    <3> QED
      BY <2>3, <2>5, <3>1 DEF FinishPeriodic, TypeOK, Steps
  <2>6. CASE ContextCancel \/ \E due \in Dues : ContextReschedule(due)
    <3>1. state' \in [Ids -> State]
      BY <2>1, <2>6 DEF ContextCancel, ContextReschedule, TypeOK, State
    <3>2. resched' \in [Ids -> Nat \cup {NoDue}]
      BY <2>1, <2>6 DEF ContextCancel, ContextReschedule, TypeOK
    <3>3. pendingCount' \in Int
      BY <2>6 DEF ContextCancel, ContextReschedule, TypeOK
    <3>4. UNCHANGED <<entry, index, ready, delayed, readyCount, consumerVars,
                      cancelVars, envVars, nextId, owed>>
      BY <2>6 DEF ContextCancel, ContextReschedule
    <3> QED
      BY <3>1, <3>2, <3>3, <3>4 DEF TypeOK
  <2> QED
    BY <1>8, <2>2, <2>4, <2>5, <2>6 DEF Finish, Callback
<1>9. CASE UNCHANGED vars
  BY <1>9 DEF vars, TypeOK
<1> QED
  BY <1>3, <1>4, <1>5, <1>6, <1>7, <1>8, <1>9 DEF Next

\* The manager starts well typed.
LEMMA InitTyped == Init => TypeOK
<1> USE BoundsAssumption
<1> SUFFICES ASSUME Init PROVE TypeOK
  OBVIOUS
<1>1. NoEntry \in Entry
  BY DEF NoEntry, Entry, Priority
<1>2. state \in [Ids -> State] /\ entry \in [Ids -> Entry]
  BY <1>1 DEF Init, State
<1>3. /\ resched \in [Ids -> Nat \cup {NoDue}] /\ index \subseteq Ids
      /\ ready \in [Priority -> Seq(Ids)] /\ delayed \in Seq(Ids)
  BY DEF Init
<1>4. /\ readyCount \in Int /\ pendingCount \in Int
      /\ nextId \in 1..(MaxId + 1) /\ now \in Nat /\ owed \in 0..Producers
  BY DEF Init
<1>5. /\ closed \in BOOLEAN /\ handler \in HandlerKinds
      /\ cancelling \in Ids \cup {0} /\ seen \in State
  BY DEF Init, HandlerKinds, State
<1>6. /\ pc \in Steps /\ passNow \in Nat /\ room \in Nat
      /\ batch \in Seq(Ids) /\ cur \in Ids \cup {0}
      /\ cur # 0 <=> pc \in {"counting", "running"}
  BY DEF Init, Steps
<1> QED
  BY <1>2, <1>3, <1>4, <1>5, <1>6 DEF TypeOK

\* Every reachable state of the manager is well typed, whatever the number of
\* tasks, the deadlines, the periods and the limits of process().
THEOREM TypeCorrect == Spec => []TypeOK
BY InitTyped, TypeStep, PTL DEF Spec
--------------------------------------------------------------------------------
(* Nothing is lost, duplicated, leaked or early.                           *)

Inv == TypeOK /\ OneHome /\ IndexExact /\ NeverEarly /\ Links

\* The elements of the containers are ids.
LEMMA ElemsAreIds ==
    ASSUME NEW s \in Seq(Ids)
    PROVE  Elems(s) \subseteq Ids
BY LenProperties, ElementOfSeq DEF Elems

\* Queueing a task that is in no container gives it its home.
LEMMA PlaceHome ==
    ASSUME TypeOK, OneHome, NEW id \in Ids, NEW e \in Entry, Place(id, e),
           state[id] \notin Queued \cup {"cancelled"},
           batch' = batch, cur' = cur \/ cur = id
    PROVE  OneHome'
<1> USE DEF Queued
<1>1. /\ e.priority \in Priority /\ entry \in [Ids -> Entry]
      /\ state \in [Ids -> State] /\ ready \in [Priority -> Seq(Ids)]
      /\ delayed \in Seq(Ids) /\ batch \in Seq(Ids)
  BY DEF Entry, TypeOK
<1>2. /\ \A p \in Priority : id \notin Elems(ready[p]) /\ Elems(ready[p]) \subseteq Ids
      /\ id \notin Elems(delayed) /\ Elems(delayed) \subseteq Ids
      /\ id \notin Elems(batch) /\ Elems(batch) \subseteq Ids
  BY <1>1, ElemsAreIds DEF OneHome, ReadyHome, DelayedHome, BatchHome
<1>3. /\ \A x \in Ids : x # id => state'[x] = state[x] /\ entry'[x] = entry[x]
      /\ entry'[id] = e
  BY <1>1 DEF Place
<1>4. BatchHome'
  BY <1>2, <1>3 DEF OneHome, BatchHome
<1>5. CASE IsDue(e.due, now')
  <2>1. /\ state'[id] = "queued_ready" /\ delayed' = delayed
        /\ ready' = [ready EXCEPT ![e.priority] = Append(@, id)]
    BY <1>1, <1>5 DEF Place
  <2>2. /\ Elems(ready'[e.priority]) = Elems(ready[e.priority]) \cup {id}
        /\ NoRepeats(ready'[e.priority])
        /\ \A p \in Priority : p # e.priority => ready'[p] = ready[p]
    BY <1>1, <1>2, <2>1, AppendElems DEF OneHome, ReadyHome
  <2>3. ReadyHome'
    <3> SUFFICES ASSUME NEW p \in Priority
                 PROVE  /\ NoRepeats(ready'[p])
                        /\ \A x \in Elems(ready'[p]) :
                             /\ state'[x] \in {"queued_ready", "cancelled"}
                             /\ entry'[x].priority = p
      BY DEF ReadyHome
    <3>1. /\ NoRepeats(ready[p])
          /\ \A x \in Elems(ready[p]) :
               /\ state'[x] \in {"queued_ready", "cancelled"}
               /\ entry'[x].priority = p
      BY <1>2, <1>3 DEF OneHome, ReadyHome
    <3>2. CASE p = e.priority
      BY <1>3, <2>1, <2>2, <3>1, <3>2
    <3>3. CASE p # e.priority
      BY <2>2, <3>1, <3>3
    <3> QED  BY <3>2, <3>3
  <2>4. DelayedHome'
    BY <1>2, <1>3, <2>1 DEF OneHome, DelayedHome
  <2>5. Housed'
    <3> SUFFICES ASSUME NEW x \in Ids
                 PROVE  (/\ state[x] = "queued_ready" =>
                              x \in Elems(ready[entry[x].priority])
                         /\ state[x] = "queued_delayed" => x \in Elems(delayed)
                         /\ state[x] = "ready_snapshot" => x \in Elems(batch)
                         /\ state[x] = "executing" => x = cur)'
      BY DEF Housed
    <3>1. CASE x = id
      BY <1>3, <2>1, <2>2, <3>1
    <3>2. CASE x # id
      <4>1. entry[x].priority \in Priority
        BY <1>1 DEF Entry
      <4> QED
        BY <1>3, <2>1, <2>2, <3>2, <4>1 DEF OneHome, Housed
    <3> QED  BY <3>1, <3>2
  <2> QED  BY <1>4, <2>3, <2>4, <2>5 DEF OneHome
<1>6. CASE ~IsDue(e.due, now')
  <2>1. /\ state'[id] = "queued_delayed" /\ ready' = ready
        /\ delayed' = InsertDelayed(delayed, id, e.due)
    BY <1>1, <1>6 DEF Place
  <2>2. Elems(delayed') = Elems(delayed) \cup {id} /\ NoRepeats(delayed')
    <3>1. PICK k \in 0..Len(delayed) :
              InsertDelayed(delayed, id, e.due) = Spliced(delayed, k, id)
      BY <1>1, InsertIsSplice
    <3> QED
      BY <1>1, <1>2, <2>1, <3>1, SpliceProperties DEF OneHome, DelayedHome
  <2>3. ReadyHome'
    BY <1>2, <1>3, <2>1 DEF OneHome, ReadyHome
  <2>4. DelayedHome'
    BY <1>2, <1>3, <2>1, <2>2 DEF OneHome, DelayedHome
  <2>5. Housed'
    BY <1>2, <1>3, <2>1, <2>2 DEF OneHome, Housed
  <2> QED  BY <1>4, <2>3, <2>4, <2>5 DEF OneHome
<1> QED  BY <1>5, <1>6

\* Changing states of tasks to "cancelled" or "completed" evicts nobody.
LEMMA RetireHome ==
    ASSUME TypeOK, OneHome, NEW S \in SUBSET Ids,
           state' = [id \in Ids |-> IF id \in S THEN "cancelled" ELSE state[id]],
           UNCHANGED <<entry, ready, delayed, batch, cur>>
    PROVE  OneHome'
<1>1. /\ \A p \in Priority : Elems(ready[p]) \subseteq Ids
      /\ Elems(delayed) \subseteq Ids /\ Elems(batch) \subseteq Ids
  BY ElemsAreIds DEF TypeOK
<1>2. \A x \in Ids : state'[x] = state[x] \/ state'[x] = "cancelled"
  OBVIOUS
<1>3. ReadyHome'
  BY <1>1, <1>2 DEF OneHome, ReadyHome
<1>4. DelayedHome'
  BY <1>1, <1>2 DEF OneHome, DelayedHome
<1>5. BatchHome'
  BY <1>1, <1>2 DEF OneHome, BatchHome
<1>6. Housed'
  BY <1>2 DEF OneHome, Housed
<1> QED  BY <1>3, <1>4, <1>5, <1>6 DEF OneHome
\* A step that leaves the tasks and their places alone keeps every home and
\* the index.
LEMMA FrameHome ==
    ASSUME OneHome, IndexExact,
           UNCHANGED <<state, entry, index, ready, delayed, batch, cur>>
    PROVE  OneHome' /\ IndexExact'
<1>1. ReadyHome' /\ DelayedHome' /\ BatchHome' /\ Housed'
  BY DEF OneHome, ReadyHome, DelayedHome, BatchHome, Housed
<1>2. IndexExact'
  BY DEF IndexExact
<1> QED  BY <1>1, <1>2 DEF OneHome

\* One task moves from the front of a queue into the snapshot.
LEMMA TakeOneHome ==
    ASSUME TypeOK, OneHome, NEW p \in Priority, TakeOne(p)
    PROVE  OneHome'
<1> DEFINE id == Head(ready[p])
<1>1. /\ id \in Ids /\ Tail(ready[p]) \in Seq(Ids)
      /\ Elems(ready[p]) = Elems(Tail(ready[p])) \cup {id}
      /\ NoRepeats(Tail(ready[p])) /\ id \notin Elems(Tail(ready[p]))
  <2>1. ready[p] \in Seq(Ids) /\ ready[p] # <<>> /\ NoRepeats(ready[p])
    BY DEF TypeOK, TakeOne, TakesFrom, OneHome, ReadyHome
  <2> QED  BY <2>1, TailElems
<1> HIDE DEF id
<1>2. /\ state[id] = "queued_ready" /\ state' = [state EXCEPT ![id] = "ready_snapshot"]
      /\ ready' = [ready EXCEPT ![p] = Tail(@)]
      /\ batch' = Append(batch, id)
      /\ UNCHANGED <<entry, delayed, cur>>
  BY DEF TakeOne, id
<1>3. /\ state \in [Ids -> State] /\ entry \in [Ids -> Entry]
      /\ ready \in [Priority -> Seq(Ids)]
      /\ delayed \in Seq(Ids) /\ batch \in Seq(Ids)
      /\ \A q \in Priority : Elems(ready[q]) \subseteq Ids
      /\ Elems(delayed) \subseteq Ids /\ Elems(batch) \subseteq Ids
  BY ElemsAreIds DEF TypeOK
<1>4. entry[id].priority = p /\ id \notin Elems(batch) /\ id \notin Elems(delayed)
  BY <1>1, <1>2 DEF OneHome, ReadyHome, BatchHome, DelayedHome
<1>5. /\ \A x \in Ids : x # id => state'[x] = state[x]
      /\ state'[id] = "ready_snapshot"
  BY <1>1, <1>2, <1>3
<1>6. /\ Elems(batch') = Elems(batch) \cup {id} /\ NoRepeats(batch')
  BY <1>1, <1>2, <1>3, <1>4, AppendElems DEF OneHome, BatchHome
<1>7. /\ ready'[p] = Tail(ready[p])
      /\ \A q \in Priority : q # p => ready'[q] = ready[q]
  BY <1>2, <1>3
<1>8. ReadyHome'
  <2> SUFFICES ASSUME NEW q \in Priority
               PROVE  /\ NoRepeats(ready'[q])
                      /\ \A x \in Elems(ready'[q]) :
                           /\ state'[x] \in {"queued_ready", "cancelled"}
                           /\ entry'[x].priority = q
    BY DEF ReadyHome
  <2>1. CASE q = p
    BY <1>1, <1>2, <1>3, <1>5, <1>7, <2>1 DEF OneHome, ReadyHome
  <2>2. CASE q # p
    BY <1>2, <1>3, <1>4, <1>5, <1>7, <2>2 DEF OneHome, ReadyHome
  <2> QED  BY <2>1, <2>2
<1>9. DelayedHome' /\ BatchHome'
  BY <1>2, <1>3, <1>4, <1>5, <1>6 DEF OneHome, DelayedHome, BatchHome
<1>10. Housed'
  <2> SUFFICES ASSUME NEW x \in Ids
               PROVE  /\ state'[x] = "queued_ready" =>
                            x \in Elems(ready'[entry'[x].priority])
                      /\ state'[x] = "queued_delayed" => x \in Elems(delayed')
                      /\ state'[x] = "ready_snapshot" => x \in Elems(batch')
                      /\ state'[x] = "executing" => x = cur'
    BY DEF Housed
  <2>1. CASE x = id
    BY <1>5, <1>6, <2>1
  <2>2. CASE x # id
    <3>1. entry[x].priority \in Priority
      BY <1>3 DEF Entry
    <3> QED  BY <1>1, <1>2, <1>5, <1>6, <1>7, <2>2, <3>1 DEF OneHome, Housed
  <2> QED  BY <2>1, <2>2
<1> QED  BY <1>8, <1>9, <1>10 DEF OneHome

\* One task moves from the snapshot back to the front of its queue.
LEMMA RestoreOneHome ==
    ASSUME TypeOK, OneHome, RestoreOne
    PROVE  OneHome'
<1> DEFINE id == batch[Len(batch)]
           p == entry[id].priority
           front == SubSeq(batch, 1, Len(batch) - 1)
<1>1. /\ id \in Ids /\ front \in Seq(Ids)
      /\ Elems(batch) = Elems(front) \cup {id}
      /\ NoRepeats(front) /\ id \notin Elems(front)
  <2>1. batch \in Seq(Ids) /\ batch # <<>> /\ NoRepeats(batch)
    BY DEF TypeOK, RestoreOne, OneHome, BatchHome
  <2> QED  BY <2>1, FrontElems
<1>2. /\ state[id] = "ready_snapshot" /\ state' = [state EXCEPT ![id] = "queued_ready"]
      /\ ready' = [ready EXCEPT ![p] = <<id>> \o @]
      /\ batch' = front
      /\ UNCHANGED <<entry, delayed, cur>>
  BY DEF RestoreOne, PutBack
<1>3. /\ state \in [Ids -> State] /\ entry \in [Ids -> Entry]
      /\ ready \in [Priority -> Seq(Ids)]
      /\ delayed \in Seq(Ids) /\ batch \in Seq(Ids)
      /\ \A q \in Priority : Elems(ready[q]) \subseteq Ids
      /\ Elems(delayed) \subseteq Ids /\ Elems(batch) \subseteq Ids
  BY ElemsAreIds DEF TypeOK
<1>p. p \in Priority
  BY <1>1, <1>3 DEF Entry
<1> HIDE DEF id, front
<1>4. /\ \A q \in Priority : id \notin Elems(ready[q])
      /\ id \notin Elems(delayed)
  BY <1>1, <1>2 DEF OneHome, ReadyHome, DelayedHome
<1>5. /\ \A x \in Ids : x # id => state'[x] = state[x]
      /\ state'[id] = "queued_ready"
  BY <1>1, <1>2, <1>3
<1>6. Elems(<<id>> \o ready[p]) = Elems(ready[p]) \cup {id}
      /\ NoRepeats(<<id>> \o ready[p])
  <2>1. <<id>> \in Seq(Ids) /\ ready[p] \in Seq(Ids) /\ NoRepeats(ready[p])
    BY <1>1, <1>3, <1>p DEF OneHome, ReadyHome
  <2>2. Elems(<<id>>) = {id} /\ NoRepeats(<<id>>)
    BY DEF Elems, NoRepeats
  <2>3. Elems(<<id>>) \cap Elems(ready[p]) = {}
    BY <1>4, <1>p, <2>2
  <2>4. /\ Elems(<<id>> \o ready[p]) = Elems(<<id>>) \cup Elems(ready[p])
        /\ NoRepeats(<<id>> \o ready[p])
    <3> DEFINE one == <<id>>
    <3> HIDE DEF one
    <3>1. /\ one \in Seq(Ids) /\ NoRepeats(one)
          /\ Elems(one) \cap Elems(ready[p]) = {}
      BY <2>1, <2>2, <2>3 DEF one
    <3>2. /\ Elems(one \o ready[p]) = Elems(one) \cup Elems(ready[p])
          /\ NoRepeats(one \o ready[p])
      BY <2>1, <3>1, ConcatElems
    <3> QED  BY ONLY <3>2 DEF one
  <2> QED  BY <2>2, <2>4
<1>7. /\ ready'[p] = <<id>> \o ready[p]
      /\ \A q \in Priority : q # p => ready'[q] = ready[q]
  BY <1>2, <1>3, <1>p
<1>8. ReadyHome'
  <2> SUFFICES ASSUME NEW q \in Priority
               PROVE  /\ NoRepeats(ready'[q])
                      /\ \A x \in Elems(ready'[q]) :
                           /\ state'[x] \in {"queued_ready", "cancelled"}
                           /\ entry'[x].priority = q
    BY DEF ReadyHome
  <2>1. CASE q = p
    BY <1>2, <1>3, <1>4, <1>5, <1>6, <1>7, <2>1 DEF OneHome, ReadyHome
  <2>2. CASE q # p
    BY <1>2, <1>3, <1>4, <1>5, <1>7, <2>2 DEF OneHome, ReadyHome
  <2> QED  BY <2>1, <2>2
<1>9. DelayedHome' /\ BatchHome'
  BY <1>1, <1>2, <1>3, <1>4, <1>5 DEF OneHome, DelayedHome, BatchHome
<1>10. Housed'
  <2> SUFFICES ASSUME NEW x \in Ids
               PROVE  /\ state'[x] = "queued_ready" =>
                            x \in Elems(ready'[entry'[x].priority])
                      /\ state'[x] = "queued_delayed" => x \in Elems(delayed')
                      /\ state'[x] = "ready_snapshot" => x \in Elems(batch')
                      /\ state'[x] = "executing" => x = cur'
    BY DEF Housed
  <2>1. CASE x = id
    BY <1>2, <1>5, <1>6, <1>7, <2>1
  <2>2. CASE x # id
    <3>1. entry[x].priority \in Priority
      BY <1>3 DEF Entry
    <3> QED
      BY <1>1, <1>2, <1>5, <1>6, <1>7, <2>2, <3>1 DEF OneHome, Housed
  <2> QED  BY <2>1, <2>2
<1> QED  BY <1>8, <1>9, <1>10 DEF OneHome
\* The top of the heap becomes ready.
LEMMA PromoteTopHome ==
    ASSUME TypeOK, OneHome, PromoteTop
    PROVE  OneHome'
<1> DEFINE id == Head(delayed)
           p == entry[id].priority
<1>1. /\ id \in Ids /\ Tail(delayed) \in Seq(Ids)
      /\ Elems(delayed) = Elems(Tail(delayed)) \cup {id}
      /\ NoRepeats(Tail(delayed)) /\ id \notin Elems(Tail(delayed))
  <2>1. delayed \in Seq(Ids) /\ delayed # <<>> /\ NoRepeats(delayed)
    BY DEF TypeOK, PromoteTop, OneHome, DelayedHome
  <2> QED  BY <2>1, TailElems
<1>2. /\ state[id] = "queued_delayed" /\ state' = [state EXCEPT ![id] = "queued_ready"]
      /\ ready' = [ready EXCEPT ![p] = Append(@, id)]
      /\ delayed' = Tail(delayed)
      /\ UNCHANGED <<entry, batch, cur>>
  BY DEF PromoteTop, consumerVars
<1>3. /\ state \in [Ids -> State] /\ entry \in [Ids -> Entry]
      /\ ready \in [Priority -> Seq(Ids)]
      /\ \A q \in Priority : Elems(ready[q]) \subseteq Ids
      /\ Elems(delayed) \subseteq Ids /\ Elems(batch) \subseteq Ids
  BY ElemsAreIds DEF TypeOK
<1>p. p \in Priority
  BY <1>1, <1>3 DEF Entry
<1> HIDE DEF id
<1>4. /\ \A q \in Priority : id \notin Elems(ready[q])
      /\ id \notin Elems(batch)
  BY <1>1, <1>2 DEF OneHome, ReadyHome, BatchHome
<1>5. /\ \A x \in Ids : x # id => state'[x] = state[x]
      /\ state'[id] = "queued_ready"
  BY <1>1, <1>2, <1>3
<1>6. /\ ready'[p] = Append(ready[p], id)
      /\ \A q \in Priority : q # p => ready'[q] = ready[q]
  BY <1>2, <1>3, <1>p
<1>7. Elems(ready'[p]) = Elems(ready[p]) \cup {id} /\ NoRepeats(ready'[p])
  BY <1>1, <1>3, <1>4, <1>6, <1>p, AppendElems DEF OneHome, ReadyHome
<1>8. ReadyHome'
  <2> SUFFICES ASSUME NEW q \in Priority
               PROVE  /\ NoRepeats(ready'[q])
                      /\ \A x \in Elems(ready'[q]) :
                           /\ state'[x] \in {"queued_ready", "cancelled"}
                           /\ entry'[x].priority = q
    BY DEF ReadyHome
  <2>1. CASE q = p
    BY <1>2, <1>3, <1>4, <1>5, <1>7, <2>1 DEF OneHome, ReadyHome
  <2>2. CASE q # p
    BY <1>2, <1>3, <1>4, <1>5, <1>6, <2>2 DEF OneHome, ReadyHome
  <2> QED  BY <2>1, <2>2
<1>9. DelayedHome' /\ BatchHome'
  BY <1>1, <1>2, <1>3, <1>4, <1>5 DEF OneHome, DelayedHome, BatchHome
<1>10. Housed'
  <2> SUFFICES ASSUME NEW x \in Ids
               PROVE  /\ state'[x] = "queued_ready" =>
                            x \in Elems(ready'[entry'[x].priority])
                      /\ state'[x] = "queued_delayed" => x \in Elems(delayed')
                      /\ state'[x] = "ready_snapshot" => x \in Elems(batch')
                      /\ state'[x] = "executing" => x = cur'
    BY DEF Housed
  <2>1. CASE x = id
    BY <1>2, <1>5, <1>7, <2>1
  <2>2. CASE x # id
    <3>1. entry[x].priority \in Priority
      BY <1>3 DEF Entry
    <3> QED
      BY <1>1, <1>2, <1>5, <1>6, <1>7, <2>2, <3>1 DEF OneHome, Housed
  <2> QED  BY <2>1, <2>2
<1> QED  BY <1>8, <1>9, <1>10 DEF OneHome

\* k new tasks join the end of a queue.
LEMMA EnqueueReadyHome ==
    ASSUME TypeOK, OneHome, Links,
           NEW p \in Priority, NEW k \in Nat \ {0}, EnqueueReady(p, k)
    PROVE  OneHome'
<1> DEFINE new == nextId..(nextId + k - 1)
           seq == [i \in 1..k |-> nextId + i - 1]
<1>1. nextId \in 1..(MaxId + 1) /\ MaxId \in Nat
  BY BoundsAssumption DEF TypeOK
<1>2. nextId + k - 1 <= MaxId
  BY DEF EnqueueReady, Accepts
<1>3. new \subseteq Ids /\ \A x \in new : state[x] = "none"
  BY <1>1, <1>2 DEF Ids, Links
<1>4. seq \in Seq(Ids)
  <2>1. \A i \in 1..k : nextId + i - 1 \in Ids
    BY <1>1, <1>2 DEF Ids
  <2> QED  BY <2>1, IsASeq
<1>5. Elems(seq) = new /\ NoRepeats(seq)
  <2>1. DOMAIN seq = 1..k /\ \A i \in 1..k : seq[i] = nextId + i - 1
    OBVIOUS
  <2>2. \A x \in new : x - nextId + 1 \in 1..k
                      /\ nextId + (x - nextId + 1) - 1 = x
    BY <1>1
  <2>3. \A i \in 1..k : nextId + i - 1 \in new
    BY <1>1
  <2>4. NoRepeats(seq)
    BY <1>1, <2>1 DEF NoRepeats
  <2>5. Elems(seq) = new
    BY <2>1, <2>2, <2>3 DEF Elems
  <2> QED  BY <2>4, <2>5
<1>6. /\ state' = [id \in Ids |-> IF id \in new THEN "queued_ready" ELSE state[id]]
      /\ entry' = [id \in Ids |->
                      IF id \in new THEN [NoEntry EXCEPT !.priority = p]
                                    ELSE entry[id]]
      /\ ready' = [ready EXCEPT ![p] = @ \o seq]
      /\ UNCHANGED <<delayed, batch, cur>>
  BY DEF EnqueueReady, consumerVars
<1>7. /\ state \in [Ids -> State] /\ entry \in [Ids -> Entry]
      /\ ready \in [Priority -> Seq(Ids)]
      /\ \A q \in Priority : Elems(ready[q]) \subseteq Ids
      /\ Elems(delayed) \subseteq Ids /\ Elems(batch) \subseteq Ids
  BY ElemsAreIds DEF TypeOK
<1> HIDE DEF new, seq
<1>8. /\ \A x \in Ids : x \notin new => state'[x] = state[x] /\ entry'[x] = entry[x]
      /\ \A x \in new : state'[x] = "queued_ready" /\ entry'[x].priority = p
  BY <1>3, <1>6 DEF NoEntry
<1>9. /\ \A q \in Priority : Elems(ready[q]) \cap new = {}
      /\ Elems(delayed) \cap new = {} /\ Elems(batch) \cap new = {}
  BY <1>3 DEF OneHome, ReadyHome, DelayedHome, BatchHome
<1>10. /\ ready'[p] = ready[p] \o seq
       /\ \A q \in Priority : q # p => ready'[q] = ready[q]
  BY <1>6, <1>7
<1>11. Elems(ready'[p]) = Elems(ready[p]) \cup new /\ NoRepeats(ready'[p])
  <2>1. ready[p] \in Seq(Ids) /\ NoRepeats(ready[p])
    BY <1>7 DEF OneHome, ReadyHome
  <2>2. Elems(ready[p]) \cap Elems(seq) = {}
    BY <1>5, <1>9
  <2> QED  BY <1>4, <1>5, <1>10, <2>1, <2>2, ConcatElems
<1>12. ReadyHome'
  <2> SUFFICES ASSUME NEW q \in Priority
               PROVE  /\ NoRepeats(ready'[q])
                      /\ \A x \in Elems(ready'[q]) :
                           /\ state'[x] \in {"queued_ready", "cancelled"}
                           /\ entry'[x].priority = q
    BY DEF ReadyHome
  <2>1. CASE q = p
    BY <1>7, <1>8, <1>9, <1>11, <2>1 DEF OneHome, ReadyHome
  <2>2. CASE q # p
    BY <1>7, <1>8, <1>9, <1>10, <2>2 DEF OneHome, ReadyHome
  <2> QED  BY <2>1, <2>2
<1>13. DelayedHome' /\ BatchHome'
  BY <1>6, <1>7, <1>8, <1>9 DEF OneHome, DelayedHome, BatchHome
<1>14. Housed'
  <2> SUFFICES ASSUME NEW x \in Ids
               PROVE  /\ state'[x] = "queued_ready" =>
                            x \in Elems(ready'[entry'[x].priority])
                      /\ state'[x] = "queued_delayed" => x \in Elems(delayed')
                      /\ state'[x] = "ready_snapshot" => x \in Elems(batch')
                      /\ state'[x] = "executing" => x = cur'
    BY DEF Housed
  <2>1. CASE x \in new
    BY <1>8, <1>11, <2>1
  <2>2. CASE x \notin new
    <3>1. entry[x].priority \in Priority
      BY <1>7 DEF Entry
    <3> QED
      BY <1>6, <1>8, <1>10, <1>11, <2>2, <3>1 DEF OneHome, Housed
  <2> QED  BY <2>1, <2>2
<1> QED  BY <1>12, <1>13, <1>14 DEF OneHome
\* A task starts: it leaves the snapshot and becomes the running one.
LEMMA StartTaskHome ==
    ASSUME TypeOK, OneHome, StartTask
    PROVE  OneHome'
<1> DEFINE id == Head(batch)
<1>1. /\ id \in Ids /\ Elems(batch) = Elems(Tail(batch)) \cup {id}
      /\ NoRepeats(Tail(batch)) /\ id \notin Elems(Tail(batch))
  <2>1. batch \in Seq(Ids) /\ batch # <<>> /\ NoRepeats(batch)
    BY DEF TypeOK, StartTask, OneHome, BatchHome
  <2> QED  BY <2>1, TailElems
<1>2. /\ state[id] = "ready_snapshot" /\ state' = [state EXCEPT ![id] = "executing"]
      /\ batch' = Tail(batch) /\ cur' = id
      /\ UNCHANGED <<entry, ready, delayed>>
  BY DEF StartTask, queueVars
<1>3. cur = 0
  BY DEF StartTask, TypeOK
<1>4. /\ state \in [Ids -> State] /\ 0 \notin Ids
      /\ \A q \in Priority : Elems(ready[q]) \subseteq Ids
      /\ Elems(delayed) \subseteq Ids /\ Elems(batch) \subseteq Ids
  BY ElemsAreIds DEF TypeOK, Ids
<1> HIDE DEF id
<1>5. /\ \A x \in Ids : x # id => state'[x] = state[x]
      /\ state'[id] = "executing"
  BY <1>1, <1>2, <1>4
<1>6. /\ \A q \in Priority : id \notin Elems(ready[q])
      /\ id \notin Elems(delayed)
  BY <1>2 DEF OneHome, ReadyHome, DelayedHome
<1>7. ReadyHome'
  BY <1>2, <1>4, <1>5, <1>6 DEF OneHome, ReadyHome
<1>8. DelayedHome' /\ BatchHome'
  BY <1>1, <1>2, <1>4, <1>5, <1>6 DEF OneHome, DelayedHome, BatchHome
<1>9. Housed'
  BY <1>1, <1>2, <1>3, <1>4, <1>5 DEF OneHome, Housed
<1> QED  BY <1>7, <1>8, <1>9 DEF OneHome

\* An entry that is not live is thrown away: from the heap, from a queue or
\* from the snapshot.
LEMMA DiscardHome ==
    ASSUME TypeOK, OneHome, UNCHANGED <<state, entry, cur>>,
           NEW dead \in SUBSET Ids,
           \A id \in dead : state[id] = "cancelled",
           \A p \in Priority : NoRepeats(ready'[p])
                /\ Elems(ready'[p]) \subseteq Elems(ready[p])
                /\ Elems(ready[p]) \subseteq Elems(ready'[p]) \cup dead,
           NoRepeats(delayed') /\ Elems(delayed') \subseteq Elems(delayed)
                /\ Elems(delayed) \subseteq Elems(delayed') \cup dead,
           NoRepeats(batch') /\ Elems(batch') \subseteq Elems(batch)
                /\ Elems(batch) \subseteq Elems(batch') \cup dead
    PROVE  OneHome'
<1>1. ReadyHome'
  BY DEF OneHome, ReadyHome
<1>2. DelayedHome' /\ BatchHome'
  BY DEF OneHome, DelayedHome, BatchHome
<1>3. Housed'
  <2> SUFFICES ASSUME NEW x \in Ids
               PROVE  /\ state[x] = "queued_ready" =>
                            x \in Elems(ready'[entry[x].priority])
                      /\ state[x] = "queued_delayed" => x \in Elems(delayed')
                      /\ state[x] = "ready_snapshot" => x \in Elems(batch')
                      /\ state[x] = "executing" => x = cur
    BY DEF Housed
  <2>1. entry[x].priority \in Priority
    BY DEF TypeOK, Entry
  <2> QED  BY <2>1 DEF OneHome, Housed
<1> QED  BY <1>1, <1>2, <1>3 DEF OneHome
\* The heap without its dead top.
LEMMA SuffixElems ==
    ASSUME NEW S, NEW s \in Seq(S), NEW k \in 1..(Len(s) + 1)
    PROVE  LET t == SubSeq(s, k, Len(s))
           IN  /\ Elems(t) \subseteq Elems(s)
               /\ Elems(s) \subseteq Elems(t) \cup {s[i] : i \in 1..(k - 1)}
               /\ NoRepeats(s) => NoRepeats(t)
<1> DEFINE t == SubSeq(s, k, Len(s))
           n == Len(s)
<1>1. n \in Nat /\ DOMAIN s = 1..n /\ k \in Nat \ {0} /\ k <= n + 1
      /\ \A i \in 1..n : s[i] \in S
  BY LenProperties, ElementOfSeq
<1> HIDE DEF n
<1>2. /\ t \in Seq(S) /\ Len(t) = n - k + 1
      /\ \A i \in 1..(n - k + 1) : t[i] = s[k + i - 1]
  <2>1. k \in Int /\ n \in Int /\ \A i \in k..n : s[i] \in S
    BY <1>1
  <2>2. SubSeq(s, k, n) \in Seq(S)
    BY <2>1, SubSeqProperties
  <2>3. Len(SubSeq(s, k, n)) = IF k <= n THEN n - k + 1 ELSE 0
    BY <2>1, SubSeqProperties
  <2>4. \A i \in 1..(n - k + 1) : SubSeq(s, k, n)[i] = s[k + i - 1]
    BY <2>1, SubSeqProperties
  <2>5. n - k + 1 = IF k <= n THEN n - k + 1 ELSE 0
    BY <1>1
  <2> QED  BY <2>2, <2>3, <2>4, <2>5 DEF n
<1>3. DOMAIN t = 1..(n - k + 1)
  BY <1>2, LenProperties
<1> HIDE DEF t
<1>4. \A i \in 1..(n - k + 1) : k + i - 1 \in 1..n /\ t[i] = s[k + i - 1]
  BY <1>1, <1>2
<1>5. \A i \in 1..n : i \in 1..(k - 1)
                  \/ (i - k + 1 \in 1..(n - k + 1) /\ t[i - k + 1] = s[i])
  <2> TAKE i \in 1..n
  <2>1. CASE i < k
    BY <1>1, <2>1
  <2>2. CASE i >= k
    <3>1. i - k + 1 \in 1..(n - k + 1) /\ k + (i - k + 1) - 1 = i
      BY <1>1, <2>2
    <3> QED  BY <1>4, <3>1
  <2> QED  BY <1>1, <2>1, <2>2
<1>6. Elems(t) \subseteq Elems(s)
  BY <1>1, <1>3, <1>4 DEF Elems
<1>7. Elems(s) \subseteq Elems(t) \cup {s[i] : i \in 1..(k - 1)}
  BY <1>1, <1>3, <1>5 DEF Elems
<1>8. NoRepeats(s) => NoRepeats(t)
  <2> SUFFICES ASSUME NoRepeats(s), NEW i \in 1..(n - k + 1),
                      NEW j \in 1..(n - k + 1), t[i] = t[j]
               PROVE  i = j
    BY <1>3 DEF NoRepeats
  <2>1. k + i - 1 = k + j - 1
    BY <1>1, <1>4 DEF NoRepeats
  <2> QED  BY <1>1, <2>1
<1> QED  BY <1>6, <1>7, <1>8 DEF t, n
\* The entries of a new task and of a repeated one.
LEMMA NewEntries ==
    /\ \A p \in Urgencies, due \in Dues :
         [NoEntry EXCEPT !.priority = p, !.due = due] \in Entry
    /\ \A p \in Urgencies, due \in Dues, i \in Intervals, s \in Schedules :
         [priority |-> p, due |-> due, interval |-> i, schedule |-> s] \in Entry
BY BoundsAssumption, ArgumentsAssumption DEF NoEntry, Entry, Priority

\* Every submission queues k ready tasks or places one new task.
LEMMA SubmitCases ==
    ASSUME Submit
    PROVE  \/ \E p \in Priority, k \in Nat \ {0} : EnqueueReady(p, k)
           \/ \E e \in Entry : EnqueueNew(e)
<1> USE BoundsAssumption, ArgumentsAssumption
<1>1. ASSUME NEW p \in Urgencies, Post(p)
      PROVE  \E q \in Priority, k \in Nat \ {0} : EnqueueReady(q, k)
  BY <1>1 DEF Post
<1>2. ASSUME NEW p \in Urgencies, NEW k \in BatchSizes, PostBatch(p, k)
      PROVE  \E q \in Priority, j \in Nat \ {0} : EnqueueReady(q, j)
  BY <1>2 DEF PostBatch
<1>3. ASSUME NEW p \in Urgencies, NEW due \in Dues, PostAt(p, due)
      PROVE  \/ \E q \in Priority, j \in Nat \ {0} : EnqueueReady(q, j)
             \/ \E e \in Entry : EnqueueNew(e)
  <2>1. CASE EnqueueReady(p, 1)
    BY <2>1
  <2>2. CASE EnqueueNew([NoEntry EXCEPT !.priority = p, !.due = due])
    BY <2>2, NewEntries
  <2> QED  BY <1>3, <2>1, <2>2 DEF PostAt
<1>4. ASSUME NEW p \in Urgencies, NEW due \in Dues, NEW i \in Intervals,
             NEW sch \in Schedules, PostEvery(p, due, i, sch)
      PROVE  \E e \in Entry : EnqueueNew(e)
  BY <1>4, NewEntries DEF PostEvery
<1> QED  BY <1>1, <1>2, <1>3, <1>4 DEF Submit

\* A repeated task keeps its entry but for the deadline.
LEMMA RepeatEntry ==
    ASSUME TypeOK, InCallback
    PROVE  /\ cur \in Ids
           /\ \A due \in Nat : [entry[cur] EXCEPT !.due = due] \in Entry
           /\ resched[cur] # NoDue => resched[cur] \in Nat
           /\ NextPeriodicDue(entry[cur]) \in Nat
<1>1. cur \in Ids
  BY DEF TypeOK, InCallback
<1>2. entry[cur] \in Entry
  BY <1>1 DEF TypeOK
<1>3. \A due \in Nat : [entry[cur] EXCEPT !.due = due] \in Entry
  BY <1>2 DEF Entry
<1>4. resched[cur] # NoDue => resched[cur] \in Nat
  BY <1>1 DEF TypeOK
<1>5. NextPeriodicDue(entry[cur]) \in Nat
  BY <1>2 DEF NextPeriodicDue, Entry, TypeOK
<1> QED  BY <1>1, <1>3, <1>4, <1>5

\* A repeat places the running task again.
LEMMA RepeatCases ==
    ASSUME TypeOK, FinishRescheduled \/ FinishPeriodic
    PROVE  /\ cur \in Ids /\ state[cur] = "executing" /\ cur' = 0
           /\ UNCHANGED <<index, batch, passNow, nextId, cancelling, seen>>
           /\ now' \in Nat /\ now <= now'
           /\ \E e \in Entry : Place(cur, e)
<1>1. InCallback
  BY DEF FinishRescheduled, FinishPeriodic
<1>2. \E due \in Nat : EnqueueExisting(due)
  BY <1>1, RepeatEntry DEF FinishRescheduled, FinishPeriodic
<1>3. state[cur] = "executing" /\ \E e \in Entry : Place(cur, e)
  BY <1>1, <1>2, RepeatEntry DEF EnqueueExisting
<1>4. now' \in Nat /\ now <= now'
  <2>1. CASE FinishRescheduled
    BY <2>1 DEF FinishRescheduled, envVars, TypeOK
  <2>2. CASE FinishPeriodic
    BY <2>2, BoundsAssumption DEF FinishPeriodic, TypeOK
  <2> QED  BY <2>1, <2>2
<1> QED
  BY <1>1, <1>3, <1>4, RepeatEntry
     DEF FinishRescheduled, FinishPeriodic, envVars, cancelVars

\* A callback that is over and not repeated: its task is completed, or it was
\* cancelled while it ran.
LEMMA EndCases ==
    ASSUME TypeOK,
           FinishCancelled \/ FinishClosed \/ FinishOneShot \/ CallbackThrows
    PROVE  /\ cur \in Ids /\ cur' = 0 /\ index' = index \ {cur}
           /\ UNCHANGED <<entry, ready, delayed, batch, now, passNow, nextId,
                          cancelling, seen>>
           /\ \/ /\ state[cur] = "executing"
                 /\ state' = [state EXCEPT ![cur] = "completed"]
              \/ state[cur] = "cancelled" /\ state' = state
<1>1. cur \in Ids
  BY DEF FinishCancelled, FinishClosed, FinishOneShot, CallbackThrows,
         InCallback, TypeOK
<1>2. Forget("scanning") \/ Forget("failing")
  BY DEF FinishCancelled, FinishClosed, FinishOneShot, CallbackThrows
<1>3. Complete \/ (state[cur] = "cancelled" /\ state' = state)
  BY DEF FinishCancelled, FinishClosed, FinishOneShot, CallbackThrows
<1> QED
  BY <1>1, <1>2, <1>3 DEF Forget, Complete, envVars, cancelVars

\* The steps that only move the consumer, the clock or the flags.
Idle ==
    \/ \E id \in Ids : CancelLoad(id)
    \/ CancelLost
    \/ Notify \/ Tick \/ Close
    \/ \E h \in Handlers : SetExceptionHandler(h)
    \/ \E q \in Quotas : ProcessBegin(q)
    \/ PromoteDone \/ TakeDone \/ CountStarted \/ ProcessReturn
    \/ ExceptionHandled \/ ExceptionEscapes \/ Rethrow
    \/ \E due \in Dues : ContextReschedule(due)
    \/ UNCHANGED vars

\* The steps that only throw cancelled entries away.
Discard ==
    \/ NextDeadline \/ PruneTop
    \/ \E p \in Priority : TakeSkip(p)
    \/ SkipTask \/ RestoreSkip

\* Next, sorted by what the steps do to the tasks.
LEMMA NextCases ==
    ASSUME [Next]_vars
    PROVE  \/ Idle \/ Discard \/ Submit
           \/ CancelCommit \/ ContextCancel \/ ClearPending
           \/ PromoteTop \/ (\E p \in Priority : TakeOne(p)) \/ RestoreOne
           \/ StartTask
           \/ FinishCancelled \/ FinishClosed \/ FinishOneShot \/ CallbackThrows
           \/ FinishRescheduled \/ FinishPeriodic
BY DEF Next, Idle, Discard, Cancel, Environment, Advance, Finish, Callback

\* Idle steps touch no task and no place.
LEMMA IdleFrame ==
    ASSUME Idle
    PROVE  UNCHANGED <<state, entry, index, ready, delayed, batch, cur>>
BY DEF Idle, CancelLoad, CancelLost, Notify, Tick, Close, SetExceptionHandler,
       ProcessBegin, PromoteDone, TakeDone, CountStarted, ProcessReturn,
       ExceptionHandled, ExceptionEscapes, Rethrow, ContextReschedule, vars,
       taskVars, queueVars, consumerVars

\* Discarding touches no task and nothing but one container.
LEMMA DiscardFrame ==
    ASSUME Discard
    PROVE  UNCHANGED <<state, entry, index, cur, now, passNow, nextId, cancelling,
                       seen>>
BY DEF Discard, NextDeadline, PruneTop, TakeSkip, SkipTask, RestoreSkip,
       taskVars, consumerVars, cancelVars, envVars
\* Every step leaves every task at home.
LEMMA HomeStep ==
    ASSUME Inv, [Next]_vars
    PROVE  OneHome'
<1> USE DEF Inv
<1>t. /\ state \in [Ids -> State] /\ entry \in [Ids -> Entry]
      /\ ready \in [Priority -> Seq(Ids)] /\ delayed \in Seq(Ids)
      /\ batch \in Seq(Ids) /\ 0 \notin Ids
      /\ \A q \in Priority : Elems(ready[q]) \subseteq Ids
      /\ Elems(delayed) \subseteq Ids /\ Elems(batch) \subseteq Ids
  BY ElemsAreIds DEF TypeOK, Ids
<1>h. /\ \A p \in Priority : NoRepeats(ready[p])
      /\ NoRepeats(delayed) /\ NoRepeats(batch)
  BY DEF OneHome, ReadyHome, DelayedHome, BatchHome
<1>1. CASE Idle
  BY <1>1, IdleFrame, FrameHome
<1>2. CASE Discard
  <2>0. UNCHANGED <<state, entry, cur>>
    BY <1>2, DiscardFrame
  <2>1. CASE NextDeadline
    <3>1. PICK k \in 2..(Len(delayed) + 1) :
             /\ \A i \in 1..(k - 1) : Dead(delayed[i])
             /\ delayed' = SubSeq(delayed, k, Len(delayed))
      BY <2>1 DEF NextDeadline
    <3> DEFINE dead == {delayed[i] : i \in 1..(k - 1)}
    <3>2. Len(delayed) \in Nat /\ k \in 1..(Len(delayed) + 1)
      BY <1>t, LenProperties
    <3>3. /\ Elems(delayed') \subseteq Elems(delayed)
          /\ Elems(delayed) \subseteq Elems(delayed') \cup dead
          /\ NoRepeats(delayed')
      BY <1>t, <1>h, <3>1, <3>2, SuffixElems
    <3>4. dead \subseteq Elems(delayed)
      BY <1>t, <3>2, LenProperties DEF Elems
    <3>5. \A id \in dead : state[id] = "cancelled"
      BY <3>1, <3>4 DEF Dead, OneHome, DelayedHome
    <3>6. UNCHANGED <<ready, batch>>
      BY <2>1 DEF NextDeadline, consumerVars
    <3> HIDE DEF dead
    <3>7. dead \in SUBSET Ids
      BY <1>t, <3>4
    <3> QED  BY <1>h, <2>0, <3>3, <3>5, <3>6, <3>7, DiscardHome
  <2>2. CASE PruneTop
    <3>1. /\ Elems(delayed) = Elems(delayed') \cup {Head(delayed)}
          /\ NoRepeats(delayed') /\ Dead(Head(delayed))
      BY <1>t, <1>h, <2>2, TailElems DEF PruneTop
    <3>2. state[Head(delayed)] = "cancelled"
      BY <3>1 DEF Dead, OneHome, DelayedHome
    <3>3. {Head(delayed)} \in SUBSET Ids
      BY <1>t, <3>1
    <3>4. UNCHANGED <<ready, batch>>
      BY <2>2 DEF PruneTop, consumerVars
    <3> QED  BY <1>h, <2>0, <3>1, <3>2, <3>3, <3>4, DiscardHome
  <2>3. ASSUME NEW p \in Priority, TakeSkip(p) PROVE OneHome'
    <3> DEFINE top == Head(ready[p])
    <3>1. /\ Elems(ready[p]) = Elems(Tail(ready[p])) \cup {top}
          /\ NoRepeats(Tail(ready[p]))
      BY <1>t, <1>h, <2>3, TailElems DEF TakeSkip, TakesFrom
    <3>2. state[top] = "cancelled"
      BY <2>3, <3>1 DEF TakeSkip, OneHome, ReadyHome
    <3>3. {top} \in SUBSET Ids
      BY <1>t, <3>1
    <3>4. /\ ready'[p] = Tail(ready[p])
          /\ \A q \in Priority : q # p => ready'[q] = ready[q]
      BY <1>t, <2>3 DEF TakeSkip
    <3>5. UNCHANGED <<delayed, batch>>
      BY <2>3 DEF TakeSkip, consumerVars
    <3> HIDE DEF top
    <3>6. \A q \in Priority : /\ NoRepeats(ready'[q])
                             /\ Elems(ready'[q]) \subseteq Elems(ready[q])
                             /\ Elems(ready[q]) \subseteq Elems(ready'[q]) \cup {top}
      BY <1>h, <3>1, <3>4
    <3> QED  BY <1>h, <2>0, <3>2, <3>3, <3>5, <3>6, DiscardHome
  <2>4. CASE SkipTask
    <3>1. /\ Elems(batch) = Elems(batch') \cup {Head(batch)}
          /\ NoRepeats(batch') /\ state[Head(batch)] # "ready_snapshot"
      BY <1>t, <1>h, <2>4, TailElems DEF SkipTask
    <3>2. state[Head(batch)] = "cancelled"
      BY <3>1 DEF OneHome, BatchHome
    <3>3. {Head(batch)} \in SUBSET Ids
      BY <1>t, <3>1
    <3>4. UNCHANGED <<ready, delayed>>
      BY <2>4 DEF SkipTask, queueVars
    <3> QED  BY <1>h, <2>0, <3>1, <3>2, <3>3, <3>4, DiscardHome
  <2>5. CASE RestoreSkip
    <3> DEFINE last == batch[Len(batch)]
    <3>1. /\ Elems(batch) = Elems(batch') \cup {last}
          /\ NoRepeats(batch') /\ state[last] # "ready_snapshot"
      BY <1>t, <1>h, <2>5, FrontElems DEF RestoreSkip
    <3>2. state[last] = "cancelled"
      BY <3>1 DEF OneHome, BatchHome
    <3>3. {last} \in SUBSET Ids
      BY <1>t, <3>1
    <3>4. UNCHANGED <<ready, delayed>>
      BY <2>5 DEF RestoreSkip, queueVars
    <3> HIDE DEF last
    <3> QED  BY <1>h, <2>0, <3>1, <3>2, <3>3, <3>4, DiscardHome
  <2> QED  BY <1>2, <2>1, <2>2, <2>3, <2>4, <2>5 DEF Discard
<1>3. CASE Submit
  <2>1. ASSUME NEW p \in Priority, NEW k \in Nat \ {0}, EnqueueReady(p, k)
        PROVE  OneHome'
    BY <2>1, EnqueueReadyHome
  <2>2. ASSUME NEW e \in Entry, EnqueueNew(e) PROVE OneHome'
    <3>1. nextId \in Ids
      BY <2>2 DEF EnqueueNew, Accepts, TypeOK, Ids
    <3>2. state[nextId] = "none"
      BY <3>1 DEF Links, Ids
    <3>3. Place(nextId, e) /\ batch' = batch /\ cur' = cur
      BY <2>2 DEF EnqueueNew, consumerVars
    <3> QED  BY <3>1, <3>2, <3>3, PlaceHome DEF Queued
  <2> QED  BY <1>3, <2>1, <2>2, SubmitCases
<1>4. CASE CancelCommit
  <2>1. cancelling \in Ids
    BY <1>4 DEF CancelCommit, TypeOK
  <2>2. /\ state' = [state EXCEPT ![cancelling] = "cancelled"]
        /\ UNCHANGED <<entry, ready, delayed, batch, cur>>
    BY <1>4 DEF CancelCommit, consumerVars
  <2>3. state' = [id \in Ids |->
                    IF id \in {cancelling} THEN "cancelled" ELSE state[id]]
    BY <1>t, <2>1, <2>2
  <2> QED  BY <2>1, <2>2, <2>3, RetireHome
<1>5. CASE ContextCancel
  <2>1. cur \in Ids
    BY <1>5 DEF ContextCancel, InCallback, TypeOK
  <2>2. /\ state' = [state EXCEPT ![cur] = "cancelled"]
        /\ UNCHANGED <<entry, ready, delayed, batch, cur>>
    BY <1>5 DEF ContextCancel, consumerVars
  <2>3. state' = [id \in Ids |->
                    IF id \in {cur} THEN "cancelled" ELSE state[id]]
    BY <1>t, <2>1, <2>2
  <2> QED  BY <2>1, <2>2, <2>3, RetireHome
<1>6. CASE ClearPending
  <2> DEFINE inReady   == UNION {Elems(ready[p]) : p \in Priority}
             dropReady == {id \in inReady : state[id] = "queued_ready"}
             dropLater == {id \in Elems(delayed) : state[id] = "queued_delayed"}
             dropped   == dropReady \cup dropLater
  <2>1. /\ state' = [id \in Ids |->
                        IF id \in dropped THEN "cancelled" ELSE state[id]]
        /\ ready' = [p \in Priority |-> <<>>] /\ delayed' = <<>>
        /\ UNCHANGED <<entry, batch, cur>>
    BY <1>6 DEF ClearPending, consumerVars
  <2>2. \A id \in Ids : state[id] \in {"queued_ready", "queued_delayed"}
                           => id \in dropped
    <3>1. \A id \in Ids : entry[id].priority \in Priority
      BY <1>t DEF Entry
    <3> QED  BY <3>1 DEF OneHome, Housed
  <2>3. Elems(<<>>) = {} /\ NoRepeats(<<>>)
    BY DEF Elems, NoRepeats
  <2> HIDE DEF dropped
  <2>4. ReadyHome' /\ DelayedHome'
    BY <2>1, <2>3 DEF ReadyHome, DelayedHome
  <2>5. BatchHome'
    BY <1>t, <2>1 DEF OneHome, BatchHome
  <2>6. Housed'
    BY <2>1, <2>2 DEF OneHome, Housed
  <2> QED  BY <2>4, <2>5, <2>6 DEF OneHome
<1>7. CASE PromoteTop
  BY <1>7, PromoteTopHome
<1>8. CASE \E p \in Priority : TakeOne(p)
  BY <1>8, TakeOneHome
<1>9. CASE RestoreOne
  BY <1>9, RestoreOneHome
<1>10. CASE StartTask
  BY <1>10, StartTaskHome
<1>11. CASE FinishCancelled \/ FinishClosed \/ FinishOneShot \/ CallbackThrows
  <2>1. /\ cur \in Ids /\ cur' = 0
        /\ UNCHANGED <<entry, ready, delayed, batch>>
        /\ state[cur] \in {"executing", "cancelled"}
        /\ \A x \in Ids : x # cur => state'[x] = state[x]
        /\ state'[cur] \in {"completed", "cancelled"}
        /\ state[cur] = "cancelled" => state'[cur] = "cancelled"
    BY <1>11, <1>t, EndCases
  <2>2. ReadyHome'
    BY <1>t, <2>1 DEF OneHome, ReadyHome
  <2>3. DelayedHome' /\ BatchHome'
    BY <1>t, <2>1 DEF OneHome, DelayedHome, BatchHome
  <2>4. Housed'
    BY <2>1 DEF OneHome, Housed
  <2> QED  BY <2>2, <2>3, <2>4 DEF OneHome
<1>12. CASE FinishRescheduled \/ FinishPeriodic
  <2>1. PICK e \in Entry : Place(cur, e)
    BY <1>12, RepeatCases
  <2>2. cur \in Ids /\ state[cur] = "executing" /\ batch' = batch
    BY <1>12, RepeatCases
  <2> QED  BY <2>1, <2>2, PlaceHome DEF Queued
<1> QED
  BY <1>1, <1>2, <1>3, <1>4, <1>5, <1>6, <1>7, <1>8, <1>9, <1>10, <1>11,
     <1>12, NextCases
\* What Place does to one task and to no other.
LEMMA PlaceFacts ==
    ASSUME TypeOK, NEW id \in Ids, NEW e \in Entry, Place(id, e)
    PROVE  /\ \A x \in Ids : x # id => state'[x] = state[x] /\ entry'[x] = entry[x]
           /\ entry'[id] = e
           /\ \/ state'[id] = "queued_ready" /\ e.due <= now'
              \/ state'[id] = "queued_delayed"
BY DEF TypeOK, Place, IsDue

\* Every step keeps m_index exact.
LEMMA IndexStep ==
    ASSUME Inv, [Next]_vars
    PROVE  IndexExact'
<1> USE DEF Inv
<1> DEFINE live(x) == state[x] \in Queued \cup {"executing"}
<1>t. /\ state \in [Ids -> State] /\ index \subseteq Ids /\ 0 \notin Ids
      /\ cur \in Ids \cup {0}
  BY DEF TypeOK, Ids
<1>i. \A x \in Ids : x \in index <=> (live(x) \/ x = cur)
  BY DEF IndexExact
<1>c. cur # 0 => state[cur] \in {"executing", "cancelled"}
  BY DEF Links
<1> SUFFICES /\ index' \subseteq Ids
             /\ \A x \in Ids : x \in index'
                   <=> (state'[x] \in Queued \cup {"executing"} \/ x = cur')
  BY DEF IndexExact
<1> USE DEF Queued
<1>1. CASE Idle \/ Discard
  BY <1>1, <1>t, <1>i, IdleFrame, DiscardFrame
<1>2. CASE Submit
  <2>1. ASSUME NEW p \in Priority, NEW k \in Nat \ {0}, EnqueueReady(p, k)
        PROVE  /\ index' \subseteq Ids
               /\ \A x \in Ids : x \in index'
                     <=> (state'[x] \in Queued \cup {"executing"} \/ x = cur')
    <3> DEFINE new == nextId..(nextId + k - 1)
    <3>1. new \subseteq Ids
      <4>1. nextId \in 1..(MaxId + 1) /\ MaxId \in Nat
        BY BoundsAssumption DEF TypeOK
      <4>2. nextId + k - 1 <= MaxId
        BY <2>1 DEF EnqueueReady, Accepts
      <4> QED  BY <4>1, <4>2 DEF Ids
    <3>2. /\ state' = [id \in Ids |->
                        IF id \in new THEN "queued_ready" ELSE state[id]]
          /\ index' = index \cup new /\ cur' = cur
      BY <2>1 DEF EnqueueReady, consumerVars
    <3> HIDE DEF new
    <3> QED  BY <1>t, <1>i, <3>1, <3>2
  <2>2. ASSUME NEW e \in Entry, EnqueueNew(e)
        PROVE  /\ index' \subseteq Ids
               /\ \A x \in Ids : x \in index'
                     <=> (state'[x] \in Queued \cup {"executing"} \/ x = cur')
    <3>1. nextId \in Ids
      BY <2>2 DEF EnqueueNew, Accepts, TypeOK, Ids
    <3>2. Place(nextId, e) /\ index' = index \cup {nextId} /\ cur' = cur
      BY <2>2 DEF EnqueueNew, consumerVars
    <3> QED  BY <1>t, <1>i, <3>1, <3>2, PlaceFacts
  <2> QED  BY <1>2, <2>1, <2>2, SubmitCases
<1>3. CASE CancelCommit
  <2>1. /\ cancelling \in Ids /\ state[cancelling] = seen
        /\ state' = [state EXCEPT ![cancelling] = "cancelled"]
        /\ index' = IF seen = "executing" THEN index ELSE index \ {cancelling}
        /\ cur' = cur
    BY <1>3 DEF CancelCommit, StaysIndexed, TypeOK, consumerVars
  <2>2. seen \in Queued \cup {"executing"}
    BY <1>3 DEF CancelCommit, Links
  <2>3. seen = "executing" => cancelling = cur
    BY <2>1 DEF OneHome, Housed
  <2> QED  BY <1>t, <1>i, <1>c, <2>1, <2>2, <2>3
<1>4. CASE ContextCancel
  BY <1>4, <1>t, <1>i DEF ContextCancel, consumerVars
<1>5. CASE ClearPending
  <2> DEFINE inReady   == UNION {Elems(ready[p]) : p \in Priority}
             dropReady == {id \in inReady : state[id] = "queued_ready"}
             dropLater == {id \in Elems(delayed) : state[id] = "queued_delayed"}
             dropped   == dropReady \cup dropLater
  <2>1. /\ state' = [id \in Ids |->
                        IF id \in dropped THEN "cancelled" ELSE state[id]]
        /\ index' = index \ dropped /\ cur' = cur
    BY <1>5 DEF ClearPending, consumerVars
  <2>2. \A id \in dropped : state[id] \in Queued
    OBVIOUS
  <2> HIDE DEF dropped
  <2> QED  BY <1>t, <1>i, <1>c, <2>1, <2>2
<1>6. CASE PromoteTop
  <2>1. Head(delayed) \in Ids
    BY <1>6, HeadTailProperties DEF PromoteTop, TypeOK
  <2> QED  BY <1>6, <1>t, <1>i, <2>1 DEF PromoteTop, consumerVars
<1>7. CASE \E p \in Priority : TakeOne(p)
  <2>1. PICK p \in Priority : TakeOne(p)
    BY <1>7
  <2>2. Head(ready[p]) \in Ids
    BY <2>1, HeadTailProperties DEF TakeOne, TakesFrom, TypeOK
  <2> QED  BY <1>t, <1>i, <2>1, <2>2 DEF TakeOne
<1>8. CASE RestoreOne
  <2>1. batch[Len(batch)] \in Ids
    BY <1>8, FrontElems DEF RestoreOne, TypeOK
  <2> QED  BY <1>8, <1>t, <1>i, <2>1 DEF RestoreOne
<1>9. CASE StartTask
  <2>1. Head(batch) \in Ids
    BY <1>9, HeadTailProperties DEF StartTask, TypeOK
  <2>2. cur = 0
    BY <1>9 DEF StartTask, TypeOK
  <2> QED  BY <1>9, <1>t, <1>i, <2>1, <2>2 DEF StartTask
<1>10. CASE FinishCancelled \/ FinishClosed \/ FinishOneShot \/ CallbackThrows
  <2>1. /\ cur \in Ids /\ cur' = 0 /\ index' = index \ {cur}
        /\ \A x \in Ids : x # cur => state'[x] = state[x]
        /\ state'[cur] \in {"completed", "cancelled"}
    BY <1>10, <1>t, EndCases
  <2> QED  BY <1>t, <1>i, <2>1
<1>11. CASE FinishRescheduled \/ FinishPeriodic
  <2>1. PICK e \in Entry : Place(cur, e)
    BY <1>11, RepeatCases
  <2>2. cur \in Ids /\ cur' = 0 /\ index' = index
    BY <1>11, RepeatCases
  <2> QED  BY <1>t, <1>i, <2>1, <2>2, PlaceFacts
<1> QED
  BY <1>1, <1>2, <1>3, <1>4, <1>5, <1>6, <1>7, <1>8, <1>9, <1>10, <1>11,
     NextCases

\* The steps that only move the consumer, the clock or the flags keep Links.
LEMMA IdleLinks ==
    ASSUME Inv, Idle
    PROVE  Links' /\ NeverEarly'
<1> USE DEF Inv
<1>f. UNCHANGED <<state, entry, index, cur>>
  BY IdleFrame
<1>n. now \in Nat /\ passNow \in Nat /\ passNow <= now
  BY DEF TypeOK, Links
<1>1. (now' = now \/ now' = now + 1) /\ nextId' = nextId
  BY DEF Idle, CancelLoad, CancelLost, Notify, Tick, Close,
         SetExceptionHandler, ProcessBegin, PromoteDone, TakeDone, CountStarted,
         ProcessReturn, ExceptionHandled, ExceptionEscapes, Rethrow,
         ContextReschedule, vars, envVars
<1>2. (\E q \in Quotas : ProcessBegin(q)) \/ TakeDone \/ passNow' = passNow
  BY DEF Idle, CancelLoad, CancelLost, Notify, Tick, Close,
         SetExceptionHandler, PromoteDone, CountStarted, ProcessReturn,
         ExceptionHandled, ExceptionEscapes, Rethrow, ContextReschedule, vars,
         consumerVars
<1>3. passNow' <= now'
  <2>1. ASSUME NEW q \in Quotas, ProcessBegin(q) PROVE passNow' <= now'
    BY <1>n, <2>1 DEF ProcessBegin, envVars
  <2>2. CASE TakeDone
    BY <1>n, <1>1, <2>2 DEF TakeDone
  <2>3. CASE passNow' = passNow
    BY <1>n, <1>1, <2>3
  <2> QED  BY <1>2, <2>1, <2>2, <2>3
<1>4. cancelling' # 0 => seen' \in Queued \cup {"executing"}
  <2>1. ASSUME NEW id \in Ids, CancelLoad(id)
        PROVE  seen' \in Queued \cup {"executing"}
    BY <2>1 DEF CancelLoad, Queued
  <2>2. CASE CancelLost
    BY <2>2 DEF CancelLost
  <2>3. CASE UNCHANGED <<cancelling, seen>>
    BY <2>3 DEF Links
  <2>4. (\E id \in Ids : CancelLoad(id)) \/ CancelLost
          \/ UNCHANGED <<cancelling, seen>>
    BY DEF Idle, Notify, Tick, Close, SetExceptionHandler, ProcessBegin,
           PromoteDone, TakeDone, CountStarted, ProcessReturn,
           ExceptionHandled, ExceptionEscapes, Rethrow, ContextReschedule,
           vars, cancelVars
  <2> QED  BY <2>1, <2>2, <2>3, <2>4
<1>5. NeverEarly'
  <2> SUFFICES ASSUME NEW x \in Ids,
                      state[x] \in {"queued_ready", "ready_snapshot", "executing"}
               PROVE  entry[x].due <= now'
    BY <1>f DEF NeverEarly
  <2>1. entry[x].due \in Nat /\ entry[x].due <= now
    BY DEF TypeOK, Entry, NeverEarly
  <2> QED  BY <1>n, <1>1, <2>1
<1>6. Links'
  BY <1>f, <1>1, <1>3, <1>4 DEF Links
<1> QED  BY <1>5, <1>6
\* A step that changes neither the clock nor the cancel in progress keeps the
\* links when it keeps those of the tasks.
LEMMA KeepLinks ==
    ASSUME Inv, UNCHANGED <<now, passNow, cancelling, seen>>,
           \A id \in Ids : id >= nextId' => state'[id] = "none",
           cur' # 0 => state'[cur'] \in {"executing", "cancelled"}
    PROVE  Links'
BY DEF Inv, Links

\* Every step keeps the links and starts nothing early.
LEMMA LinksStep ==
    ASSUME Inv, [Next]_vars
    PROVE  Links' /\ NeverEarly'
<1> USE DEF Inv
<1> DEFINE up == {"queued_ready", "ready_snapshot", "executing"}
<1>t. /\ state \in [Ids -> State] /\ entry \in [Ids -> Entry] /\ 0 \notin Ids
      /\ cur \in Ids \cup {0} /\ now \in Nat /\ passNow \in Nat
      /\ passNow <= now /\ nextId \in Nat
  BY DEF TypeOK, Ids, Links
<1>n. \A x \in Ids : x >= nextId => state[x] = "none"
  BY DEF Links
<1>c. cur # 0 => state[cur] \in {"executing", "cancelled"}
  BY DEF Links
<1>e. \A x \in Ids : state[x] \in up => entry[x].due <= now
  BY DEF NeverEarly
<1>1. CASE Idle
  BY <1>1, IdleLinks
<1>2. CASE Discard
  <2>1. UNCHANGED <<state, entry, cur, now, passNow, nextId, cancelling, seen>>
    BY <1>2, DiscardFrame
  <2>2. Links'
    BY <2>1, <1>n, <1>c, KeepLinks
  <2>3. NeverEarly'
    BY <2>1 DEF NeverEarly
  <2> QED  BY <2>2, <2>3
<1>3. CASE Submit
  <2>1. ASSUME NEW p \in Priority, NEW k \in Nat \ {0}, EnqueueReady(p, k)
        PROVE  Links' /\ NeverEarly'
    <3> DEFINE new == nextId..(nextId + k - 1)
    <3>1. /\ state' = [id \in Ids |->
                        IF id \in new THEN "queued_ready" ELSE state[id]]
          /\ entry' = [id \in Ids |->
                        IF id \in new THEN [NoEntry EXCEPT !.priority = p]
                                      ELSE entry[id]]
          /\ nextId' = nextId + k
          /\ UNCHANGED <<now, passNow, cancelling, seen, cur>>
      BY <2>1 DEF EnqueueReady, consumerVars, cancelVars, envVars
    <3>2. \A id \in Ids : id >= nextId' => state'[id] = "none"
      BY <1>t, <1>n, <3>1 DEF Ids
    <3>3. \A id \in new : id >= nextId
      BY <1>t
    <3>4. cur # 0 => cur \notin new /\ state'[cur] = state[cur]
      BY <1>t, <1>n, <1>c, <3>1, <3>3
    <3>5. Links'
      BY <1>c, <3>1, <3>2, <3>4, KeepLinks
    <3>6. [NoEntry EXCEPT !.priority = p].due = 0
      BY DEF NoEntry
    <3> HIDE DEF new
    <3>7. NeverEarly'
      BY <1>t, <1>e, <3>1, <3>6 DEF NeverEarly
    <3> QED  BY <3>5, <3>7
  <2>2. ASSUME NEW e \in Entry, EnqueueNew(e) PROVE Links' /\ NeverEarly'
    <3>1. nextId \in Ids
      BY <2>2 DEF EnqueueNew, Accepts, TypeOK, Ids
    <3>2. /\ Place(nextId, e) /\ nextId' = nextId + 1
          /\ UNCHANGED <<now, passNow, cancelling, seen, cur>>
      BY <2>2 DEF EnqueueNew, consumerVars, cancelVars, envVars
    <3>3. \A id \in Ids : id >= nextId' => state'[id] = "none"
      BY <1>t, <1>n, <3>1, <3>2, PlaceFacts DEF Ids
    <3>4. cur # 0 => state'[cur] = state[cur]
      BY <1>t, <1>n, <1>c, <3>1, <3>2, PlaceFacts
    <3>5. Links'
      BY <1>c, <3>2, <3>3, <3>4, KeepLinks
    <3>6. NeverEarly'
      BY <1>e, <3>1, <3>2, PlaceFacts DEF NeverEarly
    <3> QED  BY <3>5, <3>6
  <2> QED  BY <1>3, <2>1, <2>2, SubmitCases
<1>4. CASE CancelCommit
  <2>1. /\ cancelling \in Ids /\ state[cancelling] = seen
        /\ state' = [state EXCEPT ![cancelling] = "cancelled"]
        /\ cancelling' = 0
        /\ UNCHANGED <<entry, now, passNow, nextId, cur>>
    BY <1>4 DEF CancelCommit, TypeOK, consumerVars, envVars
  <2>2. seen \in Queued \cup {"executing"}
    BY <1>4 DEF CancelCommit, Links
  <2>3. \A id \in Ids : id >= nextId' => state'[id] = "none"
    BY <1>t, <1>n, <2>1, <2>2 DEF Queued
  <2>4. cur' # 0 => state'[cur'] \in {"executing", "cancelled"}
    BY <1>t, <1>c, <2>1
  <2>5. Links'
    BY <1>t, <2>1, <2>3, <2>4 DEF Links
  <2>6. NeverEarly'
    BY <1>t, <1>e, <2>1 DEF NeverEarly
  <2> QED  BY <2>5, <2>6
<1>5. CASE ContextCancel
  <2>1. /\ cur \in Ids /\ state[cur] = "executing"
        /\ state' = [state EXCEPT ![cur] = "cancelled"]
        /\ UNCHANGED <<entry, now, passNow, nextId, cur, cancelling, seen>>
    BY <1>5 DEF ContextCancel, InCallback, TypeOK, consumerVars, envVars,
                cancelVars
  <2>2. Links'
    BY <1>t, <1>n, <2>1, KeepLinks
  <2>3. NeverEarly'
    BY <1>t, <1>e, <2>1 DEF NeverEarly
  <2> QED  BY <2>2, <2>3
<1>6. CASE ClearPending
  <2> DEFINE inReady   == UNION {Elems(ready[p]) : p \in Priority}
             dropReady == {id \in inReady : state[id] = "queued_ready"}
             dropLater == {id \in Elems(delayed) : state[id] = "queued_delayed"}
             dropped   == dropReady \cup dropLater
  <2>1. /\ state' = [id \in Ids |->
                        IF id \in dropped THEN "cancelled" ELSE state[id]]
        /\ UNCHANGED <<entry, now, passNow, nextId, cur, cancelling, seen>>
    BY <1>6 DEF ClearPending, consumerVars, cancelVars, envVars
  <2>2. \A id \in dropped : state[id] \in {"queued_ready", "queued_delayed"}
    OBVIOUS
  <2> HIDE DEF dropped
  <2>3. Links'
    BY <1>t, <1>n, <1>c, <2>1, <2>2, KeepLinks
  <2>4. NeverEarly'
    BY <1>t, <1>e, <2>1 DEF NeverEarly
  <2> QED  BY <2>3, <2>4
<1>7. ASSUME NEW id \in Ids, NEW old \in State, NEW new \in up,
             state[id] = old, old \in Queued,
             state' = [state EXCEPT ![id] = new],
             cur' = cur \/ (cur' = id /\ new = "executing"),
             entry[id].due <= now,
             UNCHANGED <<entry, now, passNow, nextId, cancelling, seen>>
      PROVE  Links' /\ NeverEarly'
  <2>1. \A x \in Ids : x >= nextId' => state'[x] = "none"
    BY <1>t, <1>n, <1>7 DEF Queued
  <2>2. cur' # 0 => state'[cur'] \in {"executing", "cancelled"}
    BY <1>t, <1>c, <1>7 DEF Queued
  <2>3. Links'
    BY <1>7, <2>1, <2>2, KeepLinks
  <2>4. NeverEarly'
    BY <1>t, <1>e, <1>7 DEF NeverEarly
  <2> QED  BY <2>3, <2>4
<1>8. CASE PromoteTop
  <2> DEFINE id == Head(delayed)
  <2>1. id \in Ids
    BY <1>8, HeadTailProperties DEF PromoteTop, TypeOK
  <2>2. entry[id].due <= passNow
    BY <1>8 DEF PromoteTop, IsDue
  <2>3. entry[id].due \in Nat
    BY <1>t, <2>1 DEF Entry
  <2>4. entry[id].due <= now
    BY <1>t, <2>2, <2>3
  <2>5. /\ state[id] = "queued_delayed"
        /\ state' = [state EXCEPT ![id] = "queued_ready"]
        /\ UNCHANGED <<entry, now, passNow, nextId, cancelling, seen, cur>>
    BY <1>8 DEF PromoteTop, consumerVars, envVars, cancelVars
  <2> HIDE DEF id
  <2> QED  BY <1>7, <2>1, <2>4, <2>5 DEF Queued, State
<1>9. CASE \E p \in Priority : TakeOne(p)
  <2>1. PICK p \in Priority : TakeOne(p)
    BY <1>9
  <2> DEFINE id == Head(ready[p])
  <2>2. id \in Ids
    BY <2>1, HeadTailProperties DEF TakeOne, TakesFrom, TypeOK
  <2>3. /\ state[id] = "queued_ready"
        /\ state' = [state EXCEPT ![id] = "ready_snapshot"]
        /\ UNCHANGED <<entry, now, passNow, nextId, cancelling, seen, cur>>
    BY <2>1 DEF TakeOne, envVars, cancelVars
  <2> HIDE DEF id
  <2> QED  BY <1>7, <1>e, <2>2, <2>3 DEF Queued, State
<1>10. CASE RestoreOne
  <2> DEFINE id == batch[Len(batch)]
  <2>1. id \in Ids
    BY <1>10, FrontElems DEF RestoreOne, TypeOK
  <2>2. /\ state[id] = "ready_snapshot"
        /\ state' = [state EXCEPT ![id] = "queued_ready"]
        /\ UNCHANGED <<entry, now, passNow, nextId, cancelling, seen, cur>>
    BY <1>10 DEF RestoreOne, envVars, cancelVars
  <2> HIDE DEF id
  <2> QED  BY <1>7, <1>e, <2>1, <2>2 DEF Queued, State
<1>11. CASE StartTask
  <2> DEFINE id == Head(batch)
  <2>1. id \in Ids
    BY <1>11, HeadTailProperties DEF StartTask, TypeOK
  <2>2. /\ state[id] = "ready_snapshot" /\ cur' = id
        /\ state' = [state EXCEPT ![id] = "executing"]
        /\ UNCHANGED <<entry, now, passNow, nextId, cancelling, seen>>
    BY <1>11 DEF StartTask, envVars, cancelVars
  <2> HIDE DEF id
  <2> QED  BY <1>7, <1>e, <2>1, <2>2 DEF Queued, State
<1>12. CASE FinishCancelled \/ FinishClosed \/ FinishOneShot \/ CallbackThrows
  <2>1. /\ cur \in Ids /\ cur' = 0
        /\ UNCHANGED <<entry, now, passNow, nextId, cancelling, seen>>
        /\ \A x \in Ids : x # cur => state'[x] = state[x]
        /\ state'[cur] \in {"completed", "cancelled"}
    BY <1>12, <1>t, EndCases
  <2>2. Links'
    BY <1>t, <1>n, <1>c, <2>1, KeepLinks
  <2>3. NeverEarly'
    BY <1>e, <2>1 DEF NeverEarly
  <2> QED  BY <2>2, <2>3
<1>13. CASE FinishRescheduled \/ FinishPeriodic
  <2>1. PICK e \in Entry : Place(cur, e)
    BY <1>13, RepeatCases
  <2>2. /\ cur \in Ids /\ state[cur] = "executing" /\ cur' = 0
        /\ UNCHANGED <<passNow, nextId, cancelling, seen>>
        /\ now' \in Nat /\ now <= now'
    BY <1>13, RepeatCases
  <2>3. \A x \in Ids : x >= nextId' => state'[x] = "none"
    BY <1>t, <1>n, <2>1, <2>2, PlaceFacts
  <2>4. passNow <= now'
    BY <1>t, <2>2 DEF Links
  <2>5. Links'
    BY <2>2, <2>3, <2>4 DEF Links
  <2>6. NeverEarly'
    <3>1. \A x \in Ids : x # cur => state'[x] = state[x] /\ entry'[x] = entry[x]
      BY <2>1, <2>2, PlaceFacts
    <3>2. state'[cur] \in up => entry'[cur].due <= now'
      BY <2>1, <2>2, PlaceFacts
    <3>3. \A x \in Ids : entry[x].due \in Nat
      BY <1>t DEF Entry
    <3>4. \A x \in Ids : state[x] \in up => entry[x].due <= now'
      BY <1>t, <1>e, <2>2, <3>3
    <3> QED  BY <3>1, <3>2, <3>4 DEF NeverEarly
  <2> QED  BY <2>5, <2>6
<1> QED
  BY <1>1, <1>2, <1>3, <1>4, <1>5, <1>6, <1>8, <1>9, <1>10, <1>11, <1>12,
     <1>13, NextCases

\* Inv is an invariant: its parts need each other and Links.
LEMMA InvStarts == Init => Inv
<1> SUFFICES ASSUME Init PROVE Inv
  OBVIOUS
<1>1. TypeOK
  BY InitTyped
<1>2. Elems(<<>>) = {} /\ NoRepeats(<<>>)
  BY DEF Elems, NoRepeats
<1>3. OneHome
  BY <1>2 DEF Init, OneHome, ReadyHome, DelayedHome, BatchHome, Housed
<1>4. IndexExact /\ NeverEarly
  BY DEF Init, IndexExact, NeverEarly, Queued, Ids
<1>5. Links
  BY DEF Init, Links
<1> QED
  BY <1>1, <1>3, <1>4, <1>5 DEF Inv

\* Inv holds in every reachable state.
LEMMA Invariance == Spec => []Inv
<1>1. Inv /\ [Next]_vars => Inv'
  BY TypeStep, HomeStep, IndexStep, LinksStep DEF Inv
<1> QED
  BY <1>1, InvStarts, PTL DEF Spec

\* No task is ever lost, duplicated or out of place: whatever posts, cancels,
\* closes and callbacks interleave with a process() pass, a waiting task is
\* exactly once in the container its state names.
THEOREM NoTaskLost == Spec => []OneHome
<1>1. Inv => OneHome
  BY DEF Inv
<1> QED  BY <1>1, Invariance, PTL

\* m_index, which cancel() and pending_count() trust, holds exactly the
\* unfinished tasks.
THEOREM IndexIsExact == Spec => []IndexExact
<1>1. Inv => IndexExact
  BY DEF Inv
<1> QED  BY <1>1, Invariance, PTL

\* Nothing is ready, snapshotted or running before its deadline.
THEOREM NothingEarly == Spec => []NeverEarly
<1>1. Inv => NeverEarly
  BY DEF Inv
<1> QED  BY <1>1, Invariance, PTL

--------------------------------------------------------------------------------
(* The heap of delayed tasks. *)

\* A set of positions that is closed downwards is an initial piece, as long as
\* it has elements.
LEMMA DownwardClosed ==
    ASSUME NEW n \in Nat, NEW S \in SUBSET (1..n),
           \A i \in S : \A j \in 1..i : j \in S
    PROVE  S = 1..Cardinality(S) /\ Cardinality(S) \in 0..n
<1> DEFINE T == {i \in 1..(n + 1) : i \notin S}
<1>1. T \in SUBSET Nat /\ n + 1 \in T
  OBVIOUS
<1>2. PICK m \in T : \A y \in T : m <= y
  BY <1>1, LeastNatural
<1>3. S = 1..(m - 1)
  <2>1. m \in 1..(n + 1) /\ m \notin S
    BY <1>2
  <2>2. \A i \in 1..(m - 1) : i \in S
    BY <1>2, <2>1
  <2>3. \A i \in S : i \in 1..(m - 1)
    BY <2>1
  <2> QED  BY <2>2, <2>3
<1>4. m - 1 \in Nat /\ m - 1 \in 0..n
  BY <1>2
<1>5. Cardinality(1..(m - 1)) = m - 1
  BY <1>4, FS_Interval
<1> QED
  BY <1>3, <1>4, <1>5

\* m_delayed_heap pops in the order of the deadlines.
HeapSorted ==
    \A i, j \in DOMAIN delayed :
        i <= j => entry[delayed[i]].due <= entry[delayed[j]].due

\* push_heap() of a task that is not in the heap keeps it sorted.
LEMMA InsertSorted ==
    ASSUME TypeOK, HeapSorted, NEW id \in Ids, NEW e \in Entry,
           id \notin Elems(delayed),
           delayed' = InsertDelayed(delayed, id, e.due),
           entry' = [entry EXCEPT ![id] = e]
    PROVE  HeapSorted'
<1> DEFINE n == Len(delayed)
           S == {i \in DOMAIN delayed : entry[delayed[i]].due <= e.due}
           k == Cardinality(S)
<1>1. n \in Nat /\ DOMAIN delayed = 1..n /\ \A i \in 1..n : delayed[i] \in Ids
  BY LenProperties, ElementOfSeq DEF TypeOK
<1>2. \A x \in Ids : entry[x].due \in Nat
  BY DEF TypeOK, Entry
<1>3. e.due \in Nat
  BY DEF Entry
<1>4. \A i \in S : \A j \in 1..i : j \in S
  BY <1>1, <1>2, <1>3 DEF HeapSorted
<1>5. S = 1..k /\ k \in 0..n
  BY <1>1, <1>4, DownwardClosed
<1>6. delayed' = [i \in 1..(n + 1) |->
                    IF i <= k THEN delayed[i]
                    ELSE IF i = k + 1 THEN id ELSE delayed[i - 1]]
  BY DEF InsertDelayed
<1>7. \A i \in 1..n : /\ delayed[i] # id
                      /\ entry'[delayed[i]] = entry[delayed[i]]
  BY <1>1 DEF TypeOK, Elems
<1>8. entry'[id] = e
  BY DEF TypeOK
<1>9. \A i \in 1..n : entry[delayed[i]].due <= e.due <=> i <= k
  BY <1>1, <1>5
<1> HIDE DEF S, k, n
<1>10. \A i, j \in 1..n : i <= j => entry[delayed[i]].due <= entry[delayed[j]].due
  BY <1>1 DEF HeapSorted
<1> SUFFICES ASSUME NEW i \in 1..(n + 1), NEW j \in 1..(n + 1), i <= j
             PROVE  entry'[delayed'[i]].due <= entry'[delayed'[j]].due
  BY <1>6 DEF HeapSorted
<1>12. CASE j <= k
  <2>1. delayed'[i] = delayed[i] /\ delayed'[j] = delayed[j] /\ i \in 1..n /\ j \in 1..n
    BY <1>1, <1>5, <1>6, <1>12
  <2> QED  BY <2>1, <1>7, <1>10
<1>13. CASE j = k + 1
  <2>1. delayed'[j] = id
    BY <1>5, <1>6, <1>13
  <2>2. CASE i <= k
    <3>1. delayed'[i] = delayed[i] /\ i \in 1..n
      BY <1>1, <1>5, <1>6, <2>2
    <3> QED  BY <2>1, <2>2, <3>1, <1>7, <1>8, <1>9
  <2>3. CASE i = k + 1
    BY <2>1, <2>3, <1>13, <1>8, <1>3
  <2> QED  BY <2>2, <2>3, <1>5, <1>13
<1>14. CASE j > k + 1
  <2>1. delayed'[j] = delayed[j - 1] /\ j - 1 \in 1..n /\ ~(j - 1 <= k)
    BY <1>1, <1>5, <1>6, <1>14
  <2>2. delayed[j - 1] \in Ids /\ entry[delayed[j - 1]].due > e.due
    BY <1>1, <1>2, <1>3, <1>9, <2>1
  <2>3. CASE i <= k
    <3>1. delayed'[i] = delayed[i] /\ i \in 1..n
      BY <1>1, <1>5, <1>6, <2>3
    <3> QED  BY <2>1, <2>3, <3>1, <1>7, <1>10, <1>14, <1>5
  <2>4. CASE i = k + 1
    <3>1. delayed'[i] = id
      BY <1>5, <1>6, <2>4
    <3> QED  BY <2>1, <2>2, <3>1, <1>7, <1>8, <1>2, <1>3
  <2>5. CASE i > k + 1
    <3>1. delayed'[i] = delayed[i - 1] /\ i - 1 \in 1..n
      BY <1>1, <1>5, <1>6, <2>5
    <3> QED  BY <2>1, <3>1, <1>7, <1>10
  <2> QED  BY <2>3, <2>4, <2>5, <1>5
<1> QED
  BY <1>5, <1>12, <1>13, <1>14

\* Popping from the heap, and entries that keep their deadline, leave it sorted.
LEMMA SuffixSorted ==
    ASSUME HeapSorted, delayed \in Seq(Ids), NEW m \in 0..Len(delayed),
           \A i \in DOMAIN delayed : entry'[delayed[i]] = entry[delayed[i]],
           DOMAIN delayed' = 1..(Len(delayed) - m),
           \A i \in 1..(Len(delayed) - m) : delayed'[i] = delayed[i + m]
    PROVE  HeapSorted'
<1>1. Len(delayed) \in Nat /\ DOMAIN delayed = 1..Len(delayed)
  BY LenProperties
<1> SUFFICES ASSUME NEW i \in 1..(Len(delayed) - m),
                    NEW j \in 1..(Len(delayed) - m), i <= j
             PROVE  entry'[delayed'[i]].due <= entry'[delayed'[j]].due
  BY DEF HeapSorted
<1>3. i + m \in DOMAIN delayed /\ j + m \in DOMAIN delayed /\ i + m <= j + m
  BY <1>1
<1> QED
  BY <1>3 DEF HeapSorted

\* So do steps that leave the heap alone ...
LEMMA SameSorted ==
    ASSUME HeapSorted, delayed' = delayed,
           \A i \in DOMAIN delayed : entry'[delayed[i]] = entry[delayed[i]]
    PROVE  HeapSorted'
BY DEF HeapSorted

\* ... and popping its top.
LEMMA TailSorted ==
    ASSUME HeapSorted, delayed \in Seq(Ids), delayed # <<>>, delayed' = Tail(delayed),
           entry' = entry
    PROVE  HeapSorted'
<1>1. Len(delayed) \in Nat \ {0} /\ DOMAIN delayed = 1..Len(delayed)
  BY LenProperties, EmptySeq
<1>2. /\ Tail(delayed) \in Seq(Ids) /\ Len(Tail(delayed)) = Len(delayed) - 1
      /\ \A i \in 1..(Len(delayed) - 1) : Tail(delayed)[i] = delayed[i + 1]
  BY HeadTailProperties
<1>3. DOMAIN delayed' = 1..(Len(delayed) - 1)
  BY <1>2, LenProperties
<1> QED
  BY <1>1, <1>2, <1>3, SuffixSorted

\* Queueing a task that is not in the heap leaves it sorted.
LEMMA PlaceSorted ==
    ASSUME Inv, HeapSorted, NEW id \in Ids, NEW e \in Entry, Place(id, e),
           state[id] \in {"none", "executing"}
    PROVE  HeapSorted'
<1>1. id \notin Elems(delayed)
  BY DEF Inv, OneHome, DelayedHome
<1>2. entry' = [entry EXCEPT ![id] = e] /\ entry \in [Ids -> Entry]
  BY DEF Place, Inv, TypeOK
<1>3. CASE IsDue(e.due, now')
  <2>1. delayed' = delayed
    BY <1>3 DEF Place
  <2>2. \A i \in DOMAIN delayed : delayed[i] \in Ids /\ delayed[i] # id
    BY <1>1, LenProperties, ElementOfSeq DEF Elems, Inv, TypeOK
  <2> QED  BY <1>2, <2>1, <2>2, SameSorted
<1>4. CASE ~IsDue(e.due, now')
  BY <1>1, <1>2, <1>4, InsertSorted DEF Place, Inv
<1> QED
  BY <1>3, <1>4

\* Every step leaves the heap sorted.
LEMMA HeapStep ==
    ASSUME Inv, HeapSorted, [Next]_vars
    PROVE  HeapSorted'
<1> USE DEF Inv
<1>t. /\ delayed \in Seq(Ids) /\ state \in [Ids -> State] /\ nextId \in Nat
      /\ entry \in [Ids -> Entry]
  BY DEF TypeOK
<1>d. /\ Len(delayed) \in Nat /\ DOMAIN delayed = 1..Len(delayed)
      /\ \A i \in DOMAIN delayed : /\ delayed[i] \in Ids
                                   /\ state[delayed[i]] \in {"queued_delayed", "cancelled"}
  <2>1. \A i \in DOMAIN delayed : delayed[i] \in Elems(delayed)
    BY DEF Elems
  <2> QED  BY <1>t, <2>1, LenProperties, ElementOfSeq DEF OneHome, DelayedHome
<1>n. \A x \in Ids : x >= nextId => state[x] = "none"
  BY DEF Links
<1>1. CASE UNCHANGED <<entry, delayed>>
  BY <1>1, SameSorted
<1>2. CASE Idle
  BY <1>1, <1>2, IdleFrame
<1>3. CASE Discard
  <2>1. CASE NextDeadline
    <3>1. PICK k \in 2..(Len(delayed) + 1) : delayed' = SubSeq(delayed, k, Len(delayed))
      BY <2>1 DEF NextDeadline
    <3> DEFINE m == k - 1
    <3>2. /\ m \in 0..Len(delayed) /\ DOMAIN delayed' = 1..(Len(delayed) - m)
          /\ \A i \in 1..(Len(delayed) - m) : delayed'[i] = delayed[i + m]
      BY <3>1, <1>t, <1>d
    <3>3. entry' = entry
      BY <2>1 DEF NextDeadline, taskVars
    <3> HIDE DEF m
    <3> QED  BY <3>2, <3>3, <1>t, SuffixSorted
  <2>2. CASE PruneTop
    BY <2>2, <1>t, TailSorted DEF PruneTop, taskVars
  <2>3. CASE (\E p \in Priority : TakeSkip(p)) \/ SkipTask \/ RestoreSkip
    BY <2>3, <1>1 DEF TakeSkip, SkipTask, RestoreSkip, taskVars, queueVars
  <2> QED  BY <1>3, <2>1, <2>2, <2>3 DEF Discard
<1>4. CASE Submit
  <2>1. ASSUME NEW p \in Priority, NEW k \in Nat \ {0}, EnqueueReady(p, k)
        PROVE  HeapSorted'
    <3> DEFINE new == nextId..(nextId + k - 1)
    <3>1. /\ delayed' = delayed
          /\ entry' = [id \in Ids |->
                        IF id \in new THEN [NoEntry EXCEPT !.priority = p]
                                      ELSE entry[id]]
      BY <2>1 DEF EnqueueReady
    <3>2. \A id \in Ids : id \in new => state[id] = "none"
      BY <1>t, <1>n DEF Ids
    <3> HIDE DEF new
    <3>3. \A i \in DOMAIN delayed : entry'[delayed[i]] = entry[delayed[i]]
      BY <1>d, <3>1, <3>2
    <3> QED  BY <3>1, <3>3, SameSorted
  <2>2. ASSUME NEW e \in Entry, EnqueueNew(e) PROVE HeapSorted'
    <3>1. nextId \in Ids /\ state[nextId] = "none"
      BY <2>2, <1>n DEF EnqueueNew, Accepts, TypeOK, Ids
    <3>2. Place(nextId, e)
      BY <2>2 DEF EnqueueNew
    <3> QED  BY <3>1, <3>2, PlaceSorted
  <2> QED  BY <1>4, <2>1, <2>2, SubmitCases
<1>5. CASE CancelCommit \/ ContextCancel
  BY <1>5, <1>1 DEF CancelCommit, ContextCancel
<1>6. CASE ClearPending
  BY <1>6 DEF ClearPending, HeapSorted
<1>7. CASE PromoteTop
  BY <1>7, <1>t, TailSorted DEF PromoteTop
<1>8. CASE (\E p \in Priority : TakeOne(p)) \/ RestoreOne \/ StartTask
  BY <1>8, <1>1 DEF TakeOne, RestoreOne, StartTask, queueVars
<1>9. CASE FinishCancelled \/ FinishClosed \/ FinishOneShot \/ CallbackThrows
  BY <1>9, <1>1, EndCases
<1>10. CASE FinishRescheduled \/ FinishPeriodic
  <2>1. PICK e \in Entry : Place(cur, e)
    BY <1>10, RepeatCases
  <2>2. cur \in Ids /\ state[cur] = "executing"
    BY <1>10, RepeatCases
  <2> QED  BY <2>1, <2>2, PlaceSorted
<1> QED
  BY <1>2, <1>3, <1>4, <1>5, <1>6, <1>7, <1>8, <1>9, <1>10, NextCases

\* A step that ends in the middle of taking the snapshot either ends the
\* promotion or brings nothing into the heap.
LEMMA TakingStep ==
    ASSUME Inv, [Next]_vars, pc' = "taking"
    PROVE  \/ PromoteDone
           \/ /\ pc = "taking" /\ passNow' = passNow
              /\ \A id \in Ids : state'[id] = "queued_delayed" =>
                    state[id] = "queued_delayed" /\ entry'[id] = entry[id]
<1> USE DEF Inv
<1>t. /\ state \in [Ids -> State] /\ pc \in Steps /\ cancelling \in Ids \cup {0}
      /\ cur \in Ids \cup {0}
  BY DEF TypeOK
<1>1. CASE Idle
  <2>1. UNCHANGED <<state, entry>>
    BY <1>1, IdleFrame
  <2>2. PromoteDone \/ (pc = "taking" /\ passNow' = passNow)
    BY <1>1 DEF Idle, CancelLoad, CancelLost, Notify, Tick, Close,
           SetExceptionHandler, ProcessBegin, TakeDone, CountStarted,
           ProcessReturn, ExceptionHandled, ExceptionEscapes, Rethrow,
           ContextReschedule, vars, consumerVars
  <2> QED  BY <2>1, <2>2
<1>2. CASE Discard
  <2>1. UNCHANGED <<state, entry, pc, passNow>>
    BY <1>2 DEF Discard, NextDeadline, PruneTop, TakeSkip, SkipTask, RestoreSkip,
           taskVars, consumerVars
  <2> QED  BY <2>1
<1>3. CASE Submit
  <2>1. pc # "taking" /\ pc' = pc
    BY <1>3, SubmitCases DEF EnqueueReady, EnqueueNew, Accepts, MutexFree, consumerVars
  <2> QED  BY <2>1
<1>4. CASE CancelCommit
  BY <1>4, <1>t DEF CancelCommit, consumerVars
<1>5. CASE \/ ContextCancel \/ ClearPending \/ PromoteTop \/ RestoreOne \/ StartTask
           \/ FinishCancelled \/ FinishClosed \/ FinishOneShot \/ CallbackThrows
           \/ FinishRescheduled \/ FinishPeriodic
  BY <1>5 DEF ContextCancel, InCallback, ClearPending, MutexFree, PromoteTop, RestoreOne,
         StartTask, FinishCancelled, FinishClosed, FinishOneShot, CallbackThrows,
         FinishRescheduled, FinishPeriodic, Forget, consumerVars
<1>6. CASE \E p \in Priority : TakeOne(p)
  <2>1. PICK p \in Priority : TakeOne(p)
    BY <1>6
  <2>2. /\ state' = [state EXCEPT ![Head(ready[p])] = "ready_snapshot"]
        /\ UNCHANGED <<entry, pc, passNow>>
    BY <2>1 DEF TakeOne
  <2> QED  BY <1>t, <2>2
<1> QED
  BY <1>1, <1>2, <1>3, <1>4, <1>5, <1>6, NextCases

\* When the heap's top is not due, nothing in the heap is.
LEMMA PromoteDoneStep ==
    ASSUME Inv, HeapSorted, PromoteDone
    PROVE  AllDuePromoted'
<1> USE DEF Inv
<1>1. /\ delayed \in Seq(Ids) /\ passNow \in Nat /\ \A id \in Ids : entry[id].due \in Nat
  BY DEF TypeOK, Entry
<1>2. /\ Len(delayed) \in Nat /\ DOMAIN delayed = 1..Len(delayed)
      /\ \A i \in DOMAIN delayed : delayed[i] \in Ids
  BY <1>1, LenProperties, ElementOfSeq
<1>3. UNCHANGED <<state, entry, passNow>>
  BY DEF PromoteDone, taskVars
<1> SUFFICES ASSUME NEW id \in Ids, state[id] = "queued_delayed"
             PROVE  entry[id].due > passNow
  BY <1>3 DEF AllDuePromoted
<1>4. PICK i \in DOMAIN delayed : delayed[i] = id
  BY DEF OneHome, Housed, Elems
<1>5. delayed # <<>> /\ 1 \in DOMAIN delayed /\ Head(delayed) = delayed[1] /\ 1 <= i
  BY <1>1, <1>2, <1>4
<1>6. ~(entry[delayed[1]].due <= passNow)
  BY <1>5 DEF PromoteDone, IsDue
<1>7. entry[delayed[1]].due <= entry[delayed[i]].due
  BY <1>4, <1>5 DEF HeapSorted
<1> QED
  BY <1>1, <1>2, <1>4, <1>5, <1>6, <1>7

\* Every task that was due when process() began is promoted before the snapshot
\* is taken.
THEOREM DueIsPromoted == Spec => []AllDuePromoted
<1> DEFINE HInv == HeapSorted /\ AllDuePromoted
<1>1. Init => HInv
  BY DEF Init, HeapSorted, AllDuePromoted
<1>2. Inv /\ HInv /\ [Next]_vars => HInv'
  <2> SUFFICES ASSUME Inv, HInv, [Next]_vars PROVE HInv'
    OBVIOUS
  <2>1. HeapSorted'
    BY HeapStep
  <2>2. ASSUME pc' = "taking" PROVE AllDuePromoted'
    BY <2>2, TakingStep, PromoteDoneStep DEF AllDuePromoted
  <2>3. AllDuePromoted'
    BY <2>2 DEF AllDuePromoted
  <2> QED  BY <2>1, <2>3
<1> QED
  BY <1>1, <1>2, Invariance, PTL DEF Spec

--------------------------------------------------------------------------------
(* Urgency.                                                                *)

\* Between two passes nothing is in a snapshot.
NoBatch == pc \in {"idle", "promoting"} => batch = <<>>

\* While the snapshot grows, the queues more urgent than what it holds are empty.
UrgentTaken ==
    pc = "taking" =>
        \A i \in DOMAIN batch : \A q \in Priority :
            q < entry[batch[i]].priority => ready[q] = <<>>

\* A snapshot is over before the next pass.
LEMMA NoBatchStep ==
    ASSUME TypeOK, NoBatch, [Next]_vars
    PROVE  NoBatch'
<1>1. CASE UNCHANGED <<pc, batch>>
  BY <1>1 DEF NoBatch
<1>2. CASE pc' \notin {"idle", "promoting"}
  BY <1>2 DEF NoBatch
<1>3. CASE UNCHANGED vars
  BY <1>1, <1>3 DEF vars, consumerVars
<1>4. CASE Submit
  BY <1>1, <1>4, SubmitCases DEF EnqueueReady, EnqueueNew, consumerVars
<1>5. CASE Cancel \/ Environment
  BY <1>1, <1>5 DEF Cancel, CancelLoad, CancelCommit, CancelLost, Environment, Notify,
         NextDeadline, SetExceptionHandler, Tick, Close, ClearPending, consumerVars
<1>6. CASE \E q \in Quotas : ProcessBegin(q)
  BY <1>6 DEF ProcessBegin, NoBatch
<1>7. CASE PruneTop \/ PromoteTop
  BY <1>1, <1>7 DEF PruneTop, PromoteTop, consumerVars
<1>8. CASE \E p \in Priority : TakeOne(p) \/ TakeSkip(p)
  BY <1>2, <1>8 DEF TakeOne, TakeSkip, TakesFrom, consumerVars
<1>9. CASE PromoteDone \/ TakeDone \/ StartTask \/ SkipTask \/ CountStarted
           \/ ExceptionHandled \/ ExceptionEscapes \/ RestoreOne \/ RestoreSkip
  BY <1>2, <1>9 DEF PromoteDone, TakeDone, StartTask, SkipTask, CountStarted,
         ExceptionHandled, ExceptionEscapes, RestoreOne, RestoreSkip
<1>10. CASE ProcessReturn \/ Rethrow
  BY <1>10 DEF ProcessReturn, Rethrow, NoBatch
<1>11. CASE Finish \/ Callback
  BY <1>2, <1>11 DEF Finish, FinishCancelled, FinishClosed, FinishOneShot,
         FinishRescheduled, FinishPeriodic, Callback, ContextCancel, ContextReschedule,
         CallbackThrows, InCallback, Forget, consumerVars
<1> QED
  BY <1>3, <1>4, <1>5, <1>6, <1>7, <1>8, <1>9, <1>10, <1>11 DEF Next, Advance

\* While the snapshot is taken, only taking touches the queues and the snapshot.
LEMMA OnlyTaking ==
    ASSUME TypeOK, [Next]_vars, pc = "taking", pc' = "taking"
    PROVE  \/ UNCHANGED <<entry, ready, batch>>
           \/ \E p \in Priority : TakeOne(p) \/ TakeSkip(p)
<1>1. ~MutexFree
  BY DEF MutexFree
<1>2. ~Submit
  BY <1>1, SubmitCases DEF EnqueueReady, EnqueueNew, Accepts
<1>3. ~Finish /\ ~Callback
  BY <1>1 DEF Finish, FinishCancelled, FinishClosed, FinishOneShot, FinishRescheduled,
         FinishPeriodic, Callback, ContextCancel, ContextReschedule, CallbackThrows,
         InCallback
<1>4. Cancel \/ Environment \/ UNCHANGED vars => UNCHANGED <<entry, ready, batch>>
  BY <1>1 DEF Cancel, CancelLoad, CancelCommit, CancelLost, Environment, Notify,
         NextDeadline, SetExceptionHandler, Tick, Close, ClearPending, consumerVars,
         taskVars, queueVars, vars
<1>5. Advance => \E p \in Priority : TakeOne(p) \/ TakeSkip(p)
  BY DEF Advance, PruneTop, PromoteTop, PromoteDone, TakeDone, StartTask, SkipTask,
         CountStarted, ProcessReturn, ExceptionHandled, ExceptionEscapes, RestoreOne,
         RestoreSkip, Rethrow
<1>6. ~ \E q \in Quotas : ProcessBegin(q)
  BY DEF ProcessBegin
<1> QED
  BY <1>2, <1>3, <1>4, <1>5, <1>6 DEF Next

\* Taking goes from the most urgent queue that is left.
LEMMA UrgentStep ==
    ASSUME Inv, NoBatch, UrgentTaken, [Next]_vars
    PROVE  UrgentTaken'
<1> USE DEF Inv
<1>t. /\ ready \in [Priority -> Seq(Ids)] /\ batch \in Seq(Ids) /\ pc \in Steps
      /\ \A id \in Ids : entry[id].priority \in Priority
  BY DEF TypeOK, Entry
<1> SUFFICES ASSUME pc' = "taking" PROVE UrgentTaken'
  BY DEF UrgentTaken
<1>1. CASE PromoteDone
  <2>1. batch' = <<>>
    BY <1>1 DEF PromoteDone, NoBatch
  <2> QED  BY <2>1 DEF UrgentTaken
<1>2. CASE pc = "taking" /\ UNCHANGED <<entry, ready, batch>>
  BY <1>2 DEF UrgentTaken
<1>3. ASSUME pc = "taking", NEW p \in Priority, TakeOne(p) \/ TakeSkip(p)
      PROVE  UrgentTaken'
  <2>1. /\ ready[p] # <<>> /\ entry' = entry
        /\ \A q \in Priority : q < p => ready[q] = <<>>
        /\ \A q \in Priority : q # p => ready'[q] = ready[q]
    BY <1>3, <1>t DEF TakeOne, TakeSkip, TakesFrom, taskVars
  <2>2. Head(ready[p]) \in Ids /\ entry[Head(ready[p])].priority = p
    <3>1. 1 \in DOMAIN ready[p] /\ Head(ready[p]) = ready[p][1] /\ ready[p][1] \in Ids
      BY <1>t, <2>1, EmptySeq, LenProperties, ElementOfSeq
    <3> QED  BY <3>1 DEF OneHome, ReadyHome, Elems
  <2>3. batch' = batch \/ batch' = Append(batch, Head(ready[p]))
    BY <1>3 DEF TakeOne, TakeSkip, consumerVars
  <2>4. \A i \in DOMAIN batch' :
            batch'[i] = Head(ready[p]) \/ (i \in DOMAIN batch /\ batch'[i] = batch[i])
    <3>1. Len(batch) \in Nat /\ DOMAIN batch = 1 .. Len(batch)
      BY <1>t, LenProperties
    <3> QED  BY <1>t, <2>2, <2>3, <3>1
  <2> SUFFICES ASSUME NEW i \in DOMAIN batch', NEW q \in Priority,
                      q < entry[batch'[i]].priority
               PROVE  ready'[q] = <<>>
    BY <2>1 DEF UrgentTaken
  <2>5. CASE batch'[i] = Head(ready[p])
    BY <2>1, <2>2, <2>5 DEF Priority
  <2>6. CASE i \in DOMAIN batch /\ batch'[i] = batch[i]
    <3>1. ready[q] = <<>>
      BY <1>3, <2>6 DEF UrgentTaken
    <3> QED  BY <2>1, <3>1
  <2> QED  BY <2>4, <2>5, <2>6
<1> QED
  BY <1>1, <1>2, <1>3, OnlyTaking, TakingStep

\* When a snapshot is complete, no ready task left behind is more urgent than one
\* it took, and one is left only for lack of room.
THEOREM UrgentFirst == Spec => SnapshotMostUrgent
<1> DEFINE UInv == NoBatch /\ UrgentTaken
<1>1. Init => UInv
  BY DEF Init, NoBatch, UrgentTaken
<1>2. Inv /\ UInv /\ [Next]_vars => UInv'
  BY NoBatchStep, UrgentStep DEF Inv
<1>3. ASSUME Inv, UInv, [Next]_vars
      PROVE  [pc = "taking" /\ pc' = "scanning" =>
                 \A id \in Ids : state[id] = "queued_ready" =>
                     /\ room = 0
                     /\ \A i \in DOMAIN batch :
                          entry[batch[i]].priority <= entry[id].priority]_vars
  <2> SUFFICES ASSUME pc = "taking", pc' = "scanning", NEW id \in Ids,
                      state[id] = "queued_ready"
               PROVE  /\ room = 0
                      /\ \A i \in DOMAIN batch :
                           entry[batch[i]].priority <= entry[id].priority
    OBVIOUS
  <2>t. /\ batch \in Seq(Ids) /\ \A x \in Ids : entry[x].priority \in Priority
        /\ pc \in Steps
    BY <1>3 DEF Inv, TypeOK, Entry
  <2>1. ready[entry[id].priority] # <<>>
    BY <1>3 DEF Inv, OneHome, Housed, Elems
  <2>2. room = 0
    <3>1. TakeDone
      <4>1. ~MutexFree
        BY DEF MutexFree
      <4>2. ~Submit /\ ~Finish /\ ~Callback
        BY <4>1, SubmitCases DEF EnqueueReady, EnqueueNew, Accepts, Finish,
               FinishCancelled, FinishClosed, FinishOneShot, FinishRescheduled,
               FinishPeriodic, Callback, ContextCancel, ContextReschedule,
               CallbackThrows, InCallback
      <4>3. ~Cancel /\ ~Environment /\ ~UNCHANGED vars
        BY DEF Cancel, CancelLoad, CancelCommit, CancelLost, Environment, Notify,
               NextDeadline, SetExceptionHandler, Tick, Close, ClearPending,
               consumerVars, vars
      <4>4. ~ \E q \in Quotas : ProcessBegin(q)
        BY DEF ProcessBegin
      <4>5. Advance => TakeDone
        BY DEF Advance, PruneTop, PromoteTop, PromoteDone, TakeOne, TakeSkip, StartTask,
               SkipTask, CountStarted, ProcessReturn, ExceptionHandled,
               ExceptionEscapes, RestoreOne, RestoreSkip, Rethrow, consumerVars
      <4> QED  BY <1>3, <4>2, <4>3, <4>4, <4>5 DEF Next
    <3> QED  BY <2>1, <2>t, <3>1 DEF TakeDone
  <2>3. ASSUME NEW i \in DOMAIN batch
        PROVE  entry[batch[i]].priority <= entry[id].priority
    <3>1. batch[i] \in Ids
      BY <2>t, ElementOfSeq, LenProperties
    <3>2. ~(entry[id].priority < entry[batch[i]].priority)
      BY <1>3, <2>1, <2>t DEF UrgentTaken
    <3> QED  BY <2>t, <3>1, <3>2 DEF Priority
  <2> QED  BY <2>2, <2>3
<1> QED
  BY <1>1, <1>2, <1>3, Invariance, PTL DEF Spec, SnapshotMostUrgent

--------------------------------------------------------------------------------
(* The counters. *)

\* What the counters count.
ReadyIds == {id \in Ids : state[id] = "queued_ready"}
PendingIds == {id \in Ids : Pending(id)}
Uncounted == IF pc = "counting" THEN 1 ELSE 0

\* cancel() has loaded "executing" only from a series.
CancelsSeries == cancelling # 0 /\ seen = "executing" => Periodic(cancelling)

\* The inductive invariant of the counters, relative to Inv.
CountInv == CountsExact /\ CancelsSeries

\* CountsExact in these terms.
LEMMA CountsAre ==
    CountsExact <=> /\ readyCount = Cardinality(ReadyIds)
                    /\ pendingCount = Cardinality(PendingIds) + Uncounted
BY DEF CountsExact, ReadyIds, PendingIds, Uncounted

\* Adding a task to a set of tasks.
LEMMA CountAdded ==
    ASSUME NEW S \in SUBSET Ids, NEW x \in Ids, x \notin S
    PROVE  Cardinality(S \cup {x}) = Cardinality(S) + 1
BY IdsFinite, FS_AddElement

\* Taking a task out of a set of tasks.
LEMMA CountRemoved ==
    ASSUME NEW S \in SUBSET Ids, NEW x \in S
    PROVE  Cardinality(S \ {x}) = Cardinality(S) - 1
BY IdsFinite, FS_RemoveElement

\* Two sets that share nothing.
LEMMA CountJoined ==
    ASSUME NEW S \in SUBSET Ids, NEW T \in SUBSET Ids, S \cap T = {}
    PROVE  Cardinality(S \cup T) = Cardinality(S) + Cardinality(T)
<1>1. /\ IsFiniteSet(S) /\ IsFiniteSet(T)
      /\ Cardinality(S) \in Nat /\ Cardinality(T) \in Nat
  BY IdsFinite
<1>2. Cardinality(S \cup T) = Cardinality(S) + Cardinality(T) - Cardinality(S \cap T)
  BY <1>1, FS_Union
<1> QED
  BY <1>1, <1>2, FS_EmptySet

\* Dropping a part of a set.
LEMMA CountDropped ==
    ASSUME NEW S \in SUBSET Ids, NEW T \in SUBSET S
    PROVE  Cardinality(S \ T) = Cardinality(S) - Cardinality(T)
<1>1. IsFiniteSet(S) /\ S \cap T = T
  BY IdsFinite
<1> QED
  BY <1>1, FS_Difference

\* Queueing a task that is not queued: it becomes ready or delayed, and pending.
LEMMA PlaceCounts ==
    ASSUME TypeOK, readyCount = Cardinality(ReadyIds), NEW id \in Ids, NEW e \in Entry,
           Place(id, e), state[id] \notin Queued
    PROVE  /\ readyCount' = Cardinality(ReadyIds')
           /\ PendingIds' = PendingIds \cup {id}
<1>1. state \in [Ids -> State] /\ entry \in [Ids -> Entry]
  BY DEF TypeOK
<1>2. \A x \in Ids : x # id => state'[x] = state[x] /\ entry'[x] = entry[x]
  BY PlaceFacts
<1>3. state'[id] \in {"queued_ready", "queued_delayed"}
  BY PlaceFacts
<1>4. PendingIds' = PendingIds \cup {id}
  <2>1. Pending(id)'
    BY <1>3 DEF Pending, Queued
  <2>2. \A x \in Ids : x # id => (Pending(x)' <=> Pending(x))
    BY <1>2 DEF Pending, Periodic
  <2>3. PendingIds' = {x \in Ids : Pending(x)'}
    BY DEF PendingIds
  <2> QED  BY <2>1, <2>2, <2>3 DEF PendingIds
<1>5. CASE IsDue(e.due, now')
  <2>1. /\ state' = [state EXCEPT ![id] = "queued_ready"]
        /\ readyCount' = readyCount + 1
    BY <1>5 DEF Place
  <2>2. ReadyIds' = ReadyIds \cup {id} /\ id \notin ReadyIds /\ ReadyIds \in SUBSET Ids
    BY <1>1, <2>1 DEF ReadyIds, Queued
  <2> QED  BY <1>4, <2>1, <2>2, CountAdded
<1>6. CASE ~IsDue(e.due, now')
  <2>1. /\ state' = [state EXCEPT ![id] = "queued_delayed"]
        /\ readyCount' = readyCount
    BY <1>6 DEF Place
  <2>2. ReadyIds' = ReadyIds
    BY <1>1, <2>1 DEF ReadyIds, Queued
  <2> QED  BY <1>4, <2>1, <2>2
<1> QED
  BY <1>5, <1>6

\* One task changes its state: what becomes of the two sets.
LEMMA MoveSets ==
    ASSUME TypeOK, NEW id \in Ids, NEW s \in State,
           state' = [state EXCEPT ![id] = s], entry' = entry
    PROVE  /\ ReadyIds' = (IF s = "queued_ready" THEN ReadyIds \cup {id}
                                                 ELSE ReadyIds \ {id})
           /\ PendingIds' = (IF s \in Queued \/ (s = "executing" /\ Periodic(id))
                             THEN PendingIds \cup {id} ELSE PendingIds \ {id})
<1>1. state \in [Ids -> State]
  BY DEF TypeOK
<1>2. \A x \in Ids : state'[x] = IF x = id THEN s ELSE state[x]
  BY <1>1
<1>3. \A x \in Ids :
         Pending(x)' <=> IF x = id THEN s \in Queued \/ (s = "executing" /\ Periodic(id))
                                               ELSE Pending(x)
  BY <1>2 DEF Pending, Periodic
<1>4. PendingIds' = {x \in Ids : Pending(x)'}
  BY DEF PendingIds
<1>5. ReadyIds' = {x \in Ids : state'[x] = "queued_ready"}
  BY DEF ReadyIds
<1>6. ReadyIds' = (IF s = "queued_ready" THEN ReadyIds \cup {id} ELSE ReadyIds \ {id})
  BY <1>2, <1>5 DEF ReadyIds
<1>7. PendingIds' = (IF s \in Queued \/ (s = "executing" /\ Periodic(id))
                     THEN PendingIds \cup {id} ELSE PendingIds \ {id})
  BY <1>3, <1>4 DEF PendingIds
<1> QED
  BY <1>6, <1>7

\* The tasks and the counters stay as they are.
LEMMA SameCounts ==
    ASSUME CountsExact,
           UNCHANGED <<state, entry, readyCount, pendingCount>>,
           pc' = "counting" <=> pc = "counting"
    PROVE  CountsExact'
BY DEF CountsExact, Pending, Periodic

\* cancel() keeps the counters exact, whichever state it found the task in.
LEMMA CancelCommitCounts ==
    ASSUME Inv, CountInv, CancelCommit
    PROVE  CountsExact'
<1> USE DEF Inv, CountInv
<1>1. /\ cancelling \in Ids /\ state[cancelling] = seen
      /\ state' = [state EXCEPT ![cancelling] = "cancelled"]
      /\ pendingCount' = pendingCount - 1
      /\ readyCount' = readyCount - (IF seen = "queued_ready" THEN 1 ELSE 0)
      /\ UNCHANGED <<entry, pc>>
  BY DEF CancelCommit, ReadyShare, TypeOK, consumerVars
<1>2. seen \in Queued \cup {"executing"} /\ (seen = "executing" => Periodic(cancelling))
  BY DEF CancelCommit, Links, CancelsSeries
<1>3. /\ ReadyIds' = ReadyIds \ {cancelling}
      /\ PendingIds' = PendingIds \ {cancelling}
  <2>1. /\ "cancelled" \in State /\ "cancelled" # "queued_ready"
        /\ "cancelled" # "executing" /\ "cancelled" \notin Queued
    BY DEF State, Queued
  <2> QED  BY <1>1, <2>1, MoveSets
<1>4. cancelling \in PendingIds /\ (cancelling \in ReadyIds <=> seen = "queued_ready")
  BY <1>1, <1>2 DEF PendingIds, ReadyIds, Pending
<1>5. ReadyIds \in SUBSET Ids /\ PendingIds \in SUBSET Ids
  BY DEF ReadyIds, PendingIds
<1>6. /\ Cardinality(PendingIds') = Cardinality(PendingIds) - 1
      /\ seen = "queued_ready" => Cardinality(ReadyIds') = Cardinality(ReadyIds) - 1
      /\ seen # "queued_ready" => ReadyIds' = ReadyIds
  BY <1>3, <1>4, <1>5, CountRemoved
<1>7. /\ readyCount = Cardinality(ReadyIds) /\ Cardinality(ReadyIds) \in Nat
      /\ pendingCount = Cardinality(PendingIds) + Uncounted
      /\ Cardinality(PendingIds) \in Nat /\ Uncounted \in Nat /\ Uncounted' = Uncounted
  BY <1>1, <1>5, IdsFinite, CountsAre DEF Uncounted
<1>8. /\ readyCount' = Cardinality(ReadyIds')
      /\ pendingCount' = Cardinality(PendingIds') + Uncounted'
  BY <1>1, <1>6, <1>7
<1> QED
  BY <1>8 DEF CountsExact, ReadyIds, PendingIds, Uncounted

\* What a task in state s contributes to m_pending_count.
PendingShare(id, s) ==
    IF s \in Queued \/ (s = "executing" /\ Periodic(id)) THEN 1 ELSE 0

\* The shares of a task that is not a series, and of one that is.
LEMMA Shares ==
    /\ ReadyShare("queued_ready") = 1
    /\ \A s \in State \ {"queued_ready"} : ReadyShare(s) = 0
    /\ \A id, s : s \in Queued => PendingShare(id, s) = 1
    /\ \A id : PendingShare(id, "executing") = IF Periodic(id) THEN 1 ELSE 0
    /\ \A id, s : s \in {"none", "cancelled", "completed"} => PendingShare(id, s) = 0
BY DEF ReadyShare, PendingShare, Queued, State

\* A step that moves one task keeps the counters exact when it moves the shares.
LEMMA MoveCounts ==
    ASSUME Inv, CountsExact, NEW id \in Ids, NEW s \in State,
           state' = [state EXCEPT ![id] = s], entry' = entry,
           readyCount' = readyCount + ReadyShare(s) - ReadyShare(state[id]),
           pendingCount' = pendingCount + PendingShare(id, s)
                               - PendingShare(id, state[id]) + Uncounted' - Uncounted
    PROVE  CountsExact'
<1> USE DEF Inv
<1>1. ReadyIds \in SUBSET Ids /\ PendingIds \in SUBSET Ids
  BY DEF ReadyIds, PendingIds
<1>2. /\ readyCount = Cardinality(ReadyIds) /\ Cardinality(ReadyIds) \in Nat
      /\ pendingCount = Cardinality(PendingIds) + Uncounted
      /\ Cardinality(PendingIds) \in Nat /\ Uncounted \in Nat /\ Uncounted' \in Nat
  BY <1>1, IdsFinite, CountsAre DEF Uncounted
<1>3. readyCount' = Cardinality(ReadyIds')
  <2>1. /\ ReadyShare(s) = (IF s = "queued_ready" THEN 1 ELSE 0)
        /\ ReadyShare(state[id]) = (IF id \in ReadyIds THEN 1 ELSE 0)
    BY DEF ReadyShare, ReadyIds
  <2>2. ReadyIds' = (IF s = "queued_ready" THEN ReadyIds \cup {id} ELSE ReadyIds \ {id})
    BY MoveSets
  <2>3. CASE s = "queued_ready" <=> id \in ReadyIds
    <3>1. ReadyIds' = ReadyIds
      BY <2>2, <2>3
    <3> QED  BY <3>1, <2>1, <2>3, <1>2
  <2>4. CASE s = "queued_ready" /\ id \notin ReadyIds
    BY <2>1, <2>2, <2>4, <1>1, <1>2, CountAdded
  <2>5. CASE s # "queued_ready" /\ id \in ReadyIds
    BY <2>1, <2>2, <2>5, <1>1, <1>2, CountRemoved
  <2> QED  BY <2>3, <2>4, <2>5
<1>4. pendingCount' = Cardinality(PendingIds') + Uncounted'
  <2> DEFINE up == s \in Queued \/ (s = "executing" /\ Periodic(id))
  <2>1. /\ PendingShare(id, s) = (IF up THEN 1 ELSE 0)
        /\ PendingShare(id, state[id]) = (IF id \in PendingIds THEN 1 ELSE 0)
    BY DEF PendingShare, PendingIds, Pending
  <2>2. PendingIds' = (IF up THEN PendingIds \cup {id} ELSE PendingIds \ {id})
    BY MoveSets
  <2> HIDE DEF up
  <2>3. CASE up <=> id \in PendingIds
    <3>1. PendingIds' = PendingIds
      BY <2>2, <2>3
    <3> QED  BY <3>1, <2>1, <2>3, <1>2
  <2>4. CASE up /\ id \notin PendingIds
    BY <2>1, <2>2, <2>4, <1>1, <1>2, CountAdded
  <2>5. CASE ~up /\ id \in PendingIds
    BY <2>1, <2>2, <2>5, <1>1, <1>2, CountRemoved
  <2> QED  BY <2>3, <2>4, <2>5
<1> QED
  BY <1>3, <1>4 DEF CountsExact, ReadyIds, PendingIds, Uncounted

\* clear_pending() subtracts exactly what it drops.
LEMMA ClearCounts ==
    ASSUME Inv, CountsExact, ClearPending
    PROVE  CountsExact'
<1> USE DEF Inv
<1> DEFINE inReady   == UNION {Elems(ready[p]) : p \in Priority}
           dropReady == {id \in inReady : state[id] = "queued_ready"}
           dropLater == {id \in Elems(delayed) : state[id] = "queued_delayed"}
           dropped   == dropReady \cup dropLater
<1>1. /\ state' = [id \in Ids |-> IF id \in dropped THEN "cancelled" ELSE state[id]]
      /\ readyCount' = readyCount - Cardinality(dropReady)
      /\ pendingCount' = pendingCount - Cardinality(dropped)
      /\ UNCHANGED <<entry, pc>>
  BY DEF ClearPending, consumerVars
<1>2. entry \in [Ids -> Entry] /\ state \in [Ids -> State]
  BY DEF TypeOK
<1>3. \A p \in Priority : Elems(ready[p]) \subseteq Ids
  BY ElemsAreIds DEF TypeOK
<1>4. Elems(delayed) \subseteq Ids
  BY ElemsAreIds DEF TypeOK
<1>5. dropReady = ReadyIds
  <2>1. \A id \in ReadyIds : /\ id \in Elems(ready[entry[id].priority])
                            /\ entry[id].priority \in Priority
    BY <1>2 DEF ReadyIds, OneHome, Housed, Entry
  <2> QED  BY <2>1, <1>3 DEF ReadyIds
<1>6. dropped \in SUBSET PendingIds
  BY <1>5, <1>4 DEF PendingIds, ReadyIds, Pending, Queued
<1>7. \A id \in Ids : state[id] = "queued_ready" => id \in dropped
  BY <1>5 DEF ReadyIds
<1> HIDE DEF dropped, dropReady
<1>8. ReadyIds' = {}
  BY <1>1, <1>7 DEF ReadyIds
<1>9. PendingIds' = PendingIds \ dropped
  <2>1. \A id \in Ids : Pending(id)' <=> id \notin dropped /\ Pending(id)
    BY <1>1 DEF Pending, Periodic, Queued
  <2>2. PendingIds' = {id \in Ids : Pending(id)'}
    BY DEF PendingIds
  <2> QED  BY <2>1, <2>2 DEF PendingIds
<1>10. ReadyIds \in SUBSET Ids /\ PendingIds \in SUBSET Ids
  BY DEF ReadyIds, PendingIds
<1>11. /\ readyCount = Cardinality(ReadyIds) /\ Cardinality(ReadyIds) \in Nat
       /\ pendingCount = Cardinality(PendingIds) + Uncounted
       /\ Cardinality(PendingIds) \in Nat /\ Uncounted \in Nat /\ Uncounted' = Uncounted
       /\ Cardinality(dropped) \in Nat
  BY <1>1, <1>6, <1>10, IdsFinite, CountsAre DEF Uncounted
<1>12. readyCount' = Cardinality(ReadyIds')
  BY <1>1, <1>5, <1>8, <1>11, FS_EmptySet
<1>13. pendingCount' = Cardinality(PendingIds') + Uncounted'
  <2>1. Cardinality(PendingIds') = Cardinality(PendingIds) - Cardinality(dropped)
    BY <1>6, <1>9, <1>10, CountDropped
  <2> QED  BY <2>1, <1>1, <1>11
<1> QED
  BY <1>12, <1>13 DEF CountsExact, ReadyIds, PendingIds, Uncounted

\* A submission of k ready tasks.
LEMMA EnqueueReadyCounts ==
    ASSUME Inv, CountsExact, NEW p \in Priority, NEW k \in Nat \ {0}, EnqueueReady(p, k)
    PROVE  CountsExact'
<1> USE DEF Inv
<1> DEFINE new == nextId..(nextId + k - 1)
<1>1. /\ state' = [id \in Ids |-> IF id \in new THEN "queued_ready" ELSE state[id]]
      /\ entry' = [id \in Ids |->
                     IF id \in new THEN [NoEntry EXCEPT !.priority = p] ELSE entry[id]]
      /\ readyCount' = readyCount + k /\ pendingCount' = pendingCount + k
      /\ UNCHANGED pc
  BY DEF EnqueueReady, consumerVars
<1>2. nextId \in Nat \ {0} /\ nextId + k - 1 <= MaxId /\ MaxId \in Nat
  <2>1. nextId + k - 1 <= MaxId
    BY DEF EnqueueReady, Accepts
  <2> QED  BY <2>1, BoundsAssumption DEF TypeOK
<1>3. new \in SUBSET Ids /\ \A id \in new : state[id] = "none"
  BY <1>2 DEF Ids, Links
<1>4. Cardinality(new) = k
  BY <1>2, FS_Interval
<1> HIDE DEF new
<1>5. ReadyIds' = ReadyIds \cup new /\ ReadyIds \cap new = {}
  BY <1>1, <1>3 DEF ReadyIds
<1>6. PendingIds' = PendingIds \cup new /\ PendingIds \cap new = {}
  <2>1. \A id \in Ids : Pending(id)' <=> id \in new \/ Pending(id)
    BY <1>1, <1>3 DEF Pending, Periodic, Queued
  <2>2. \A id \in new : ~Pending(id)
    BY <1>3 DEF Pending, Queued
  <2>3. PendingIds' = {id \in Ids : Pending(id)'}
    BY DEF PendingIds
  <2> QED  BY <1>3, <2>1, <2>2, <2>3 DEF PendingIds
<1>7. ReadyIds \in SUBSET Ids /\ PendingIds \in SUBSET Ids
  BY DEF ReadyIds, PendingIds
<1>8. /\ readyCount = Cardinality(ReadyIds) /\ Cardinality(ReadyIds) \in Nat
      /\ pendingCount = Cardinality(PendingIds) + Uncounted
      /\ Cardinality(PendingIds) \in Nat /\ Uncounted \in Nat /\ Uncounted' = Uncounted
  BY <1>1, <1>7, IdsFinite, CountsAre DEF Uncounted
<1>9. /\ Cardinality(ReadyIds') = Cardinality(ReadyIds) + k
      /\ Cardinality(PendingIds') = Cardinality(PendingIds) + k
  BY <1>3, <1>4, <1>5, <1>6, <1>7, CountJoined
<1>10. /\ readyCount' = Cardinality(ReadyIds')
       /\ pendingCount' = Cardinality(PendingIds') + Uncounted'
  BY <1>1, <1>8, <1>9
<1> QED
  BY <1>10 DEF CountsExact, ReadyIds, PendingIds, Uncounted

\* Every step keeps the counters exact.
LEMMA CountStep ==
    ASSUME Inv, CountInv, [Next]_vars
    PROVE  CountsExact'
<1> USE DEF Inv, CountInv
<1>t. /\ state \in [Ids -> State] /\ entry \in [Ids -> Entry] /\ 0 \notin Ids
      /\ pc \in Steps /\ readyCount \in Int /\ pendingCount \in Int
      /\ cur \in Ids \cup {0} /\ (cur # 0 <=> pc \in {"counting", "running"})
  BY DEF TypeOK, Ids
<1>s. /\ {"queued_ready", "queued_delayed", "ready_snapshot"} \subseteq Queued \cap State
      /\ {"executing", "cancelled", "completed"} \subseteq State
      /\ Uncounted \in Nat /\ (pc' = pc => Uncounted' = Uncounted)
  BY DEF State, Queued, Uncounted
<1>1. CASE Idle
  <2>1. UNCHANGED <<state, entry>>
    BY <1>1, IdleFrame
  <2>2. CASE CountStarted
    <3>1. pendingCount' = pendingCount - 1 /\ pc = "counting" /\ pc' = "running"
          /\ readyCount' = readyCount
      BY <2>2 DEF CountStarted
    <3>2. /\ ReadyIds' = ReadyIds /\ PendingIds' = PendingIds
          /\ PendingIds \in SUBSET Ids
      BY <2>1 DEF ReadyIds, PendingIds, Pending, Periodic
    <3>3. Cardinality(PendingIds) \in Nat
      BY <3>2, IdsFinite
    <3>4. Uncounted = 1 /\ Uncounted' = 0
      BY <3>1 DEF Uncounted
    <3>5. /\ readyCount' = Cardinality(ReadyIds')
          /\ pendingCount' = Cardinality(PendingIds') + Uncounted'
      BY <3>1, <3>2, <3>3, <3>4, CountsAre
    <3> QED  BY <3>5 DEF CountsExact, ReadyIds, PendingIds, Uncounted
  <2>3. CASE ~CountStarted
    <3>1. UNCHANGED <<readyCount, pendingCount>> /\ (pc' = "counting" <=> pc = "counting")
      BY <1>1, <2>3 DEF Idle, CancelLoad, CancelLost, Notify, Tick, Close,
             SetExceptionHandler, ProcessBegin, PromoteDone, TakeDone, ProcessReturn,
             ExceptionHandled, ExceptionEscapes, Rethrow, ContextReschedule, vars,
             queueVars, consumerVars
    <3> QED  BY <2>1, <3>1, SameCounts
  <2> QED  BY <2>2, <2>3
<1>2. CASE Discard
  <2>1. UNCHANGED <<state, entry, readyCount, pendingCount, pc>>
    BY <1>2 DEF Discard, NextDeadline, PruneTop, TakeSkip, SkipTask, RestoreSkip,
           taskVars, queueVars, consumerVars
  <2> QED  BY <2>1, SameCounts
<1>3. CASE Submit
  <2>1. ASSUME NEW e \in Entry, EnqueueNew(e) PROVE CountsExact'
    <3>1. nextId \in Ids /\ state[nextId] = "none"
      BY <2>1 DEF EnqueueNew, Accepts, TypeOK, Ids, Links
    <3>2. Place(nextId, e) /\ pendingCount' = pendingCount + 1 /\ pc' = pc
      BY <2>1 DEF EnqueueNew, consumerVars
    <3>3. nextId \notin PendingIds /\ PendingIds \in SUBSET Ids
      BY <3>1 DEF PendingIds, Pending, Queued
    <3>4. /\ readyCount' = Cardinality(ReadyIds')
          /\ PendingIds' = PendingIds \cup {nextId}
      BY <3>1, <3>2, PlaceCounts, CountsAre DEF Queued
    <3>5. Cardinality(PendingIds') = Cardinality(PendingIds) + 1
      BY <3>1, <3>3, <3>4, CountAdded
    <3>6. pendingCount = Cardinality(PendingIds) + Uncounted /\ Uncounted' = Uncounted
      BY <3>2, CountsAre DEF Uncounted
    <3>7. Cardinality(PendingIds) \in Nat /\ Uncounted \in Nat
      BY <3>3, IdsFinite DEF Uncounted
    <3>8. pendingCount' = Cardinality(PendingIds') + Uncounted'
      BY <3>2, <3>5, <3>6, <3>7
    <3> QED  BY <3>4, <3>8 DEF CountsExact, ReadyIds, PendingIds, Uncounted
  <2> QED  BY <1>3, <2>1, SubmitCases, EnqueueReadyCounts
<1>4. CASE CancelCommit
  BY <1>4, CancelCommitCounts
<1>5. CASE ContextCancel
  <2>1. /\ cur \in Ids /\ state[cur] = "executing"
        /\ state' = [state EXCEPT ![cur] = "cancelled"]
        /\ pendingCount' = IF Periodic(cur) THEN pendingCount - 1 ELSE pendingCount
        /\ UNCHANGED <<entry, readyCount, pc>>
    BY <1>5 DEF ContextCancel, InCallback, TypeOK, consumerVars
  <2>2. readyCount' = readyCount + ReadyShare("cancelled") - ReadyShare(state[cur])
    BY <1>s, <1>t, <2>1, Shares
  <2>3. pendingCount' = pendingCount + PendingShare(cur, "cancelled")
                            - PendingShare(cur, state[cur]) + Uncounted' - Uncounted
    BY <1>s, <1>t, <2>1, Shares
  <2> QED  BY <1>s, <2>1, <2>2, <2>3, MoveCounts
<1>6. CASE ClearPending
  BY <1>6, ClearCounts
<1>7. CASE PromoteTop
  <2> DEFINE id == Head(delayed)
  <2>1. /\ id \in Ids /\ state[id] = "queued_delayed"
        /\ state' = [state EXCEPT ![id] = "queued_ready"]
        /\ readyCount' = readyCount + 1
        /\ UNCHANGED <<entry, pendingCount, pc>>
    BY <1>7, HeadTailProperties DEF PromoteTop, TypeOK, consumerVars
  <2> HIDE DEF id
  <2>3. readyCount' = readyCount + ReadyShare("queued_ready") - ReadyShare(state[id])
    BY <1>s, <1>t, <2>1, Shares
  <2>4. pendingCount' = pendingCount + PendingShare(id, "queued_ready")
                            - PendingShare(id, state[id]) + Uncounted' - Uncounted
    BY <1>s, <1>t, <2>1, Shares
  <2> QED  BY <1>s, <2>1, <2>3, <2>4, MoveCounts
<1>8. CASE \E p \in Priority : TakeOne(p)
  <2>0. PICK p \in Priority : TakeOne(p)
    BY <1>8
  <2> DEFINE id == Head(ready[p])
  <2>1. id \in Ids
    BY <2>0, HeadTailProperties DEF TakeOne, TakesFrom, TypeOK
  <2>2. /\ state[id] = "queued_ready"
        /\ state' = [state EXCEPT ![id] = "ready_snapshot"]
        /\ readyCount' = readyCount - 1
        /\ UNCHANGED <<entry, pendingCount, pc>>
    BY <2>0 DEF TakeOne
  <2> HIDE DEF id
  <2>3. readyCount' = readyCount + ReadyShare("ready_snapshot") - ReadyShare(state[id])
    BY <1>s, <1>t, <2>1, <2>2, Shares
  <2>4. pendingCount' = pendingCount + PendingShare(id, "ready_snapshot")
                            - PendingShare(id, state[id]) + Uncounted' - Uncounted
    BY <1>s, <1>t, <2>1, <2>2, Shares
  <2> QED  BY <1>s, <2>1, <2>2, <2>3, <2>4, MoveCounts
<1>9. CASE RestoreOne
  <2> DEFINE id == batch[Len(batch)]
  <2>1. id \in Ids
    BY <1>9, FrontElems DEF RestoreOne, TypeOK
  <2>2. /\ state[id] = "ready_snapshot"
        /\ state' = [state EXCEPT ![id] = "queued_ready"]
        /\ readyCount' = readyCount + 1
        /\ UNCHANGED <<entry, pendingCount, pc>>
    BY <1>9 DEF RestoreOne
  <2> HIDE DEF id
  <2>3. readyCount' = readyCount + ReadyShare("queued_ready") - ReadyShare(state[id])
    BY <1>s, <1>t, <2>1, <2>2, Shares
  <2>4. pendingCount' = pendingCount + PendingShare(id, "queued_ready")
                            - PendingShare(id, state[id]) + Uncounted' - Uncounted
    BY <1>s, <1>t, <2>1, <2>2, Shares
  <2> QED  BY <1>s, <2>1, <2>2, <2>3, <2>4, MoveCounts
<1>10. CASE StartTask
  <2> DEFINE id == Head(batch)
  <2>1. id \in Ids
    BY <1>10, HeadTailProperties DEF StartTask, TypeOK
  <2>2. /\ state[id] = "ready_snapshot" /\ pc = "scanning"
        /\ state' = [state EXCEPT ![id] = "executing"]
        /\ pc' = (IF Periodic(id) THEN "running" ELSE "counting")
        /\ UNCHANGED <<entry, readyCount, pendingCount>>
    BY <1>10 DEF StartTask, queueVars
  <2> HIDE DEF id
  <2>3. Uncounted = 0 /\ Uncounted' = (IF Periodic(id) THEN 0 ELSE 1)
    BY <2>2 DEF Uncounted
  <2>4. readyCount' = readyCount + ReadyShare("executing") - ReadyShare(state[id])
    BY <1>s, <1>t, <2>1, <2>2, Shares
  <2>5. pendingCount' = pendingCount + PendingShare(id, "executing")
                            - PendingShare(id, state[id]) + Uncounted' - Uncounted
    BY <1>s, <1>t, <2>1, <2>2, <2>3, Shares
  <2> QED  BY <1>s, <2>1, <2>2, <2>4, <2>5, MoveCounts
<1>11. CASE FinishCancelled \/ FinishClosed \/ FinishOneShot \/ CallbackThrows
  <2>1. /\ cur \in Ids /\ pc = "running" /\ pc' # "counting"
        /\ UNCHANGED <<entry, readyCount>>
    BY <1>11, <1>t DEF FinishCancelled, FinishClosed, FinishOneShot, CallbackThrows,
           InCallback, Forget
  <2>2. CASE UNCHANGED <<state, pendingCount>>
    BY <2>1, <2>2, SameCounts
  <2>3. CASE Complete
    <3>1. /\ state[cur] = "executing"
          /\ state' = [state EXCEPT ![cur] = "completed"]
          /\ pendingCount' = IF Periodic(cur) THEN pendingCount - 1 ELSE pendingCount
      BY <2>3 DEF Complete
    <3>2. Uncounted = 0 /\ Uncounted' = 0
      BY <2>1 DEF Uncounted
    <3>3. readyCount' = readyCount + ReadyShare("completed") - ReadyShare(state[cur])
      BY <1>s, <1>t, <2>1, <3>1, Shares
    <3>4. pendingCount' = pendingCount + PendingShare(cur, "completed")
                              - PendingShare(cur, state[cur]) + Uncounted' - Uncounted
      BY <1>s, <1>t, <2>1, <3>1, <3>2, Shares
    <3> QED  BY <1>s, <2>1, <3>1, <3>3, <3>4, MoveCounts
  <2> QED
    BY <1>11, <2>2, <2>3 DEF FinishCancelled, FinishClosed, FinishOneShot, CallbackThrows
<1>12. CASE FinishRescheduled \/ FinishPeriodic
  <2>1. /\ InCallback /\ pc' = "scanning"
        /\ \E due \in Nat : EnqueueExisting(due)
    <3>1. InCallback
      BY <1>12 DEF FinishRescheduled, FinishPeriodic
    <3> QED  BY <1>12, <3>1, RepeatEntry DEF FinishRescheduled, FinishPeriodic
  <2>2. PICK due \in Nat : EnqueueExisting(due)
    BY <2>1
  <2> DEFINE e == [entry[cur] EXCEPT !.due = due]
  <2>3. /\ cur \in Ids /\ e \in Entry /\ state[cur] = "executing" /\ Place(cur, e)
        /\ pendingCount' = IF Periodic(cur) THEN pendingCount ELSE pendingCount + 1
    BY <2>1, <2>2, RepeatEntry DEF EnqueueExisting
  <2> HIDE DEF e
  <2>4. /\ readyCount' = Cardinality(ReadyIds')
        /\ PendingIds' = PendingIds \cup {cur}
    BY <2>3, PlaceCounts, CountsAre DEF Queued
  <2>5. (cur \in PendingIds <=> Periodic(cur)) /\ PendingIds \in SUBSET Ids
    BY <2>3 DEF PendingIds, Pending, Queued
  <2>6. /\ pendingCount = Cardinality(PendingIds) + Uncounted
        /\ Uncounted = 0 /\ Uncounted' = 0 /\ Cardinality(PendingIds) \in Nat
    BY <2>1, <2>5, IdsFinite, CountsAre DEF Uncounted, InCallback
  <2>7. CASE Periodic(cur)
    <3>1. PendingIds' = PendingIds
      BY <2>4, <2>5, <2>7
    <3> QED  BY <2>3, <2>4, <2>6, <2>7, <3>1 DEF CountsExact, ReadyIds, PendingIds, Uncounted
  <2>8. CASE ~Periodic(cur)
    <3>1. Cardinality(PendingIds') = Cardinality(PendingIds) + 1
      BY <2>3, <2>4, <2>5, <2>8, CountAdded
    <3>2. pendingCount' = Cardinality(PendingIds') + Uncounted'
      BY <2>3, <2>6, <2>8, <3>1
    <3> QED  BY <2>4, <3>2 DEF CountsExact, ReadyIds, PendingIds, Uncounted
  <2> QED  BY <2>7, <2>8
<1> QED
  BY <1>1, <1>2, <1>3, <1>4, <1>5, <1>6, <1>7, <1>8, <1>9, <1>10, <1>11, <1>12,
     NextCases

\* While cancel() holds the mutex no task is queued, so what it loaded about the
\* series stays true.
LEMMA SeriesStep ==
    ASSUME Inv, CancelsSeries, [Next]_vars
    PROVE  CancelsSeries'
<1> USE DEF Inv
<1>1. CASE UNCHANGED <<entry, cancelling, seen>>
  BY <1>1 DEF CancelsSeries, Periodic
<1>2. CASE cancelling' = 0
  BY <1>2 DEF CancelsSeries
<1>3. CASE Idle
  <2>1. CASE \E id \in Ids : CancelLoad(id)
    BY <2>1 DEF CancelLoad, CancelsSeries, Periodic, taskVars, Queued
  <2>2. CASE CancelLost
    BY <2>2, <1>2 DEF CancelLost
  <2>3. CASE ~(\E id \in Ids : CancelLoad(id)) /\ ~CancelLost
    BY <1>1, <1>3, <2>3 DEF Idle, Notify, Tick, Close, SetExceptionHandler, ProcessBegin,
           PromoteDone, TakeDone, CountStarted, ProcessReturn, ExceptionHandled,
           ExceptionEscapes, Rethrow, ContextReschedule, vars, taskVars, cancelVars
  <2> QED  BY <2>1, <2>2, <2>3
<1>4. CASE Discard
  BY <1>1, <1>4, DiscardFrame
<1>5. CASE Submit
  BY <1>2, <1>5, SubmitCases DEF EnqueueReady, EnqueueNew, Accepts, MutexFree, cancelVars
<1>6. CASE CancelCommit
  BY <1>2, <1>6 DEF CancelCommit
<1>7. CASE ContextCancel \/ ClearPending \/ PromoteTop \/ (\E p \in Priority : TakeOne(p))
             \/ RestoreOne \/ StartTask
  BY <1>1, <1>7 DEF ContextCancel, ClearPending, PromoteTop, TakeOne, RestoreOne,
         StartTask, cancelVars
<1>8. CASE FinishCancelled \/ FinishClosed \/ FinishOneShot \/ CallbackThrows
             \/ FinishRescheduled \/ FinishPeriodic
  BY <1>2, <1>8 DEF FinishCancelled, FinishClosed, FinishOneShot, CallbackThrows,
         FinishRescheduled, FinishPeriodic, InCallback, MutexFree, Forget, cancelVars
<1> QED
  BY <1>3, <1>4, <1>5, <1>6, <1>7, <1>8, NextCases

\* The counters start right.
LEMMA CountStarts == Init => CountInv
<1> SUFFICES ASSUME Init PROVE CountInv
  OBVIOUS
<1>1. ReadyIds = {} /\ PendingIds = {}
  BY DEF Init, ReadyIds, PendingIds, Pending, Queued
<1>2. CountsExact
  BY <1>1, FS_EmptySet, CountsAre DEF Init, Uncounted
<1> QED
  BY <1>2 DEF CountInv, CancelsSeries, Init

\* ready_count() is exact, and pending_count() is exact but for the one-shot task
\* that process() has just started and not yet subtracted, through every race of
\* cancel() with the snapshot and the running callback.
THEOREM CountersExact == Spec => []CountsExact
<1>1. Inv /\ CountInv /\ [Next]_vars => CountInv'
  BY CountStep, SeriesStep DEF CountInv
<1>2. CountInv => CountsExact
  BY DEF CountInv
<1> QED
  BY <1>1, <1>2, CountStarts, Invariance, PTL DEF Spec

--------------------------------------------------------------------------------
(* The refinement of TaskContract.  First, the order of the elements of a  *)
(* sequence.                                                               *)

\* What is in order is in the sequence.
LEMMA PrecedesElems ==
    ASSUME NEW S, NEW s \in Seq(S), NEW a, NEW b, Precedes(s, a, b)
    PROVE  a \in Elems(s) /\ b \in Elems(s)
<1>1. Len(s) \in Nat /\ DOMAIN s = 1..Len(s)
  BY LenProperties
<1>2. PICK j \in DOMAIN s : \E i \in 1..(j - 1) : s[i] = a /\ s[j] = b
  BY DEF Precedes
<1>3. PICK i \in 1..(j - 1) : s[i] = a /\ s[j] = b
  BY <1>2
<1>4. i \in DOMAIN s
  BY <1>1, <1>3
<1> QED
  BY <1>3, <1>4 DEF Elems

\* Whatever is in the sequence precedes what is put behind it.
LEMMA PrecedesAppend ==
    ASSUME NEW S, NEW s \in Seq(S), NEW e \in S, NEW a, NEW b
    PROVE  Precedes(Append(s, e), a, b) <=>
               Precedes(s, a, b) \/ (a \in Elems(s) /\ b = e)
<1> DEFINE t == Append(s, e)
<1>1. Len(s) \in Nat /\ DOMAIN s = 1..Len(s)
  BY LenProperties
<1>2. /\ DOMAIN t = 1..(Len(s) + 1) /\ t[Len(s) + 1] = e
      /\ \A i \in 1..Len(s) : t[i] = s[i]
  BY <1>1
<1> HIDE DEF t
<1>3. ASSUME Precedes(t, a, b) PROVE Precedes(s, a, b) \/ (a \in Elems(s) /\ b = e)
  <2>1. PICK j \in 1..(Len(s) + 1) : \E i \in 1..(j - 1) : t[i] = a /\ t[j] = b
    BY <1>2, <1>3 DEF Precedes
  <2>2. PICK i \in 1..(j - 1) : t[i] = a /\ t[j] = b
    BY <2>1
  <2>3. i \in 1..Len(s) /\ s[i] = a
    BY <1>1, <1>2, <2>2
  <2>4. CASE j = Len(s) + 1
    BY <1>1, <1>2, <2>2, <2>3, <2>4 DEF Elems
  <2>5. CASE j \in 1..Len(s)
    BY <1>1, <1>2, <2>2, <2>3, <2>5 DEF Precedes
  <2> QED  BY <1>1, <2>4, <2>5
<1>4. ASSUME Precedes(s, a, b) PROVE Precedes(t, a, b)
  <2>1. PICK j \in 1..Len(s) : \E i \in 1..(j - 1) : s[i] = a /\ s[j] = b
    BY <1>1, <1>4 DEF Precedes
  <2>2. PICK i \in 1..(j - 1) : s[i] = a /\ s[j] = b
    BY <2>1
  <2>3. j \in DOMAIN t /\ t[i] = a /\ t[j] = b
    BY <1>1, <1>2, <2>2
  <2> QED  BY <2>2, <2>3 DEF Precedes
<1>5. ASSUME a \in Elems(s), b = e PROVE Precedes(t, a, b)
  <2>1. PICK i \in 1..Len(s) : s[i] = a
    BY <1>1, <1>5 DEF Elems
  <2>2. /\ Len(s) + 1 \in DOMAIN t /\ i \in 1..(Len(s) + 1 - 1)
        /\ t[i] = a /\ t[Len(s) + 1] = b
    BY <1>1, <1>2, <1>5, <2>1
  <2> QED  BY <2>2 DEF Precedes
<1> QED
  BY <1>3, <1>4, <1>5 DEF t

\* The head precedes the rest.
LEMMA PrecedesTail ==
    ASSUME NEW S, NEW s \in Seq(S), s # <<>>, NEW a, NEW b
    PROVE  Precedes(s, a, b) <=>
               Precedes(Tail(s), a, b) \/ (a = Head(s) /\ b \in Elems(Tail(s)))
<1> DEFINE t == Tail(s)
<1>1. Len(s) \in Nat \ {0} /\ DOMAIN s = 1..Len(s) /\ Head(s) = s[1]
  BY LenProperties, EmptySeq
<1>2. /\ DOMAIN t = 1..(Len(s) - 1)
      /\ \A i \in 1..(Len(s) - 1) : t[i] = s[i + 1]
  BY <1>1
<1> HIDE DEF t
<1>3. ASSUME Precedes(s, a, b) PROVE Precedes(t, a, b) \/ (a = Head(s) /\ b \in Elems(t))
  <2>1. PICK j \in 1..Len(s) : \E i \in 1..(j - 1) : s[i] = a /\ s[j] = b
    BY <1>1, <1>3 DEF Precedes
  <2>2. PICK i \in 1..(j - 1) : s[i] = a /\ s[j] = b
    BY <2>1
  <2>3. j - 1 \in DOMAIN t /\ t[j - 1] = b
    BY <1>1, <1>2, <2>2
  <2>4. CASE i = 1
    BY <1>1, <2>2, <2>3, <2>4 DEF Elems
  <2>5. CASE i # 1
    <3>1. i - 1 \in 1..((j - 1) - 1) /\ t[i - 1] = a
      BY <1>1, <1>2, <2>2, <2>5
    <3> QED  BY <2>3, <3>1 DEF Precedes
  <2> QED  BY <2>4, <2>5
<1>4. ASSUME Precedes(t, a, b) PROVE Precedes(s, a, b)
  <2>1. PICK j \in 1..(Len(s) - 1) : \E i \in 1..(j - 1) : t[i] = a /\ t[j] = b
    BY <1>2, <1>4 DEF Precedes
  <2>2. PICK i \in 1..(j - 1) : t[i] = a /\ t[j] = b
    BY <2>1
  <2>3. j + 1 \in DOMAIN s /\ i + 1 \in 1..((j + 1) - 1) /\ s[i + 1] = a /\ s[j + 1] = b
    BY <1>1, <1>2, <2>2
  <2> QED  BY <2>3 DEF Precedes
<1>5. ASSUME a = Head(s), b \in Elems(t) PROVE Precedes(s, a, b)
  <2>1. PICK j \in 1..(Len(s) - 1) : t[j] = b
    BY <1>2, <1>5 DEF Elems
  <2>2. j + 1 \in DOMAIN s /\ 1 \in 1..((j + 1) - 1) /\ s[1] = a /\ s[j + 1] = b
    BY <1>1, <1>2, <1>5, <2>1
  <2> QED  BY <2>2 DEF Precedes
<1> QED
  BY <1>3, <1>4, <1>5 DEF t

\* The rest precedes the last.
LEMMA PrecedesFront ==
    ASSUME NEW S, NEW s \in Seq(S), s # <<>>, NEW a, NEW b
    PROVE  LET t == SubSeq(s, 1, Len(s) - 1)
           IN  Precedes(s, a, b) <=>
                   Precedes(t, a, b) \/ (a \in Elems(t) /\ b = s[Len(s)])
<1> DEFINE t == SubSeq(s, 1, Len(s) - 1)
<1>1. Len(s) \in Nat \ {0} /\ DOMAIN s = 1..Len(s) /\ s[Len(s)] \in S
  BY LenProperties, EmptySeq, ElementOfSeq
<1>2. t \in Seq(S) /\ Len(t) = Len(s) - 1 /\ \A i \in 1..(Len(s) - 1) : t[i] = s[i]
  BY <1>1
<1> HIDE DEF t
<1>3. s = Append(t, s[Len(s)])
  <2> DEFINE u == Append(t, s[Len(s)])
  <2>1. u \in Seq(S) /\ Len(u) = Len(t) + 1
    BY <1>1, <1>2, AppendProperties
  <2>2. \A i \in 1..Len(t) : u[i] = t[i]
    BY <1>1, <1>2, AppendProperties
  <2>3. u[Len(t) + 1] = s[Len(s)]
    BY <1>1, <1>2, AppendProperties
  <2> HIDE DEF u
  <2>4. Len(u) = Len(s) /\ \A i \in 1..Len(s) : u[i] = s[i]
    BY <1>1, <1>2, <2>1, <2>2, <2>3
  <2> QED  BY <2>1, <2>4, SeqEqual DEF u
<1>4. Precedes(Append(t, s[Len(s)]), a, b) <=>
          Precedes(t, a, b) \/ (a \in Elems(t) /\ b = s[Len(s)])
  BY <1>1, <1>2, PrecedesAppend
<1> QED
  BY <1>3, <1>4 DEF t

\* What is put in front precedes the sequence.
LEMMA PrecedesPut ==
    ASSUME NEW S, NEW s \in Seq(S), NEW e \in S, NEW a, NEW b
    PROVE  Precedes(<<e>> \o s, a, b) <=> Precedes(s, a, b) \/ (a = e /\ b \in Elems(s))
<1> DEFINE t == <<e>> \o s
<1>1. <<e>> \in Seq(S) /\ Len(<<e>>) = 1 /\ Len(s) \in Nat /\ DOMAIN s = 1..Len(s)
  BY LenProperties
<1>2. t \in Seq(S) /\ Len(t) = Len(s) + 1
  BY <1>1
<1>3. t # <<>> /\ t[1] = e /\ \A i \in 1..Len(s) : t[i + 1] = s[i]
  BY <1>1, <1>2
<1>4. Head(t) = e
  BY <1>2, <1>3
<1>5. Tail(t) = s
  <2>1. Tail(t) \in Seq(S) /\ Len(Tail(t)) = Len(s)
    BY <1>1, <1>2, <1>3
  <2>2. \A i \in 1..Len(s) : Tail(t)[i] = s[i]
    BY <1>1, <1>2, <1>3
  <2> QED  BY <2>1, <2>2, SeqEqual
<1> HIDE DEF t
<1>6. Precedes(t, a, b) <=> Precedes(Tail(t), a, b) \/ (a = Head(t) /\ b \in Elems(Tail(t)))
  BY <1>2, <1>3, PrecedesTail
<1> QED
  BY <1>4, <1>5, <1>6 DEF t

\* Ids in their order, behind what was there.
LEMMA PrecedesConcat ==
    ASSUME NEW s \in Seq(Ids), NEW n \in Nat, NEW k \in Nat, n..(n + k - 1) \subseteq Ids,
           NEW a, NEW b
    PROVE  Precedes(s \o [i \in 1..k |-> n + i - 1], a, b) <=>
               \/ Precedes(s, a, b)
               \/ a \in Elems(s) /\ b \in n..(n + k - 1)
               \/ b \in n..(n + k - 1) /\ a \in n..(b - 1)
<1> DEFINE new == [i \in 1..k |-> n + i - 1]
           t == s \o new
           m == Len(s)
<1>1. m \in Nat /\ DOMAIN s = 1..m
  BY LenProperties
<1>2. new \in Seq(Ids) /\ Len(new) = k
  <2>1. \A i \in 1..k : n + i - 1 \in Ids
    OBVIOUS
  <2>2. new \in Seq(Ids)
    BY <2>1, IsASeq
  <2>3. DOMAIN new = 1..k
    OBVIOUS
  <2> QED  BY <2>2, <2>3, LenProperties
<1>3. t \in Seq(Ids) /\ Len(t) = m + k
  BY <1>2, ConcatProperties
<1>4. \A i \in 1..(m + k) : t[i] = IF i <= m THEN s[i] ELSE new[i - m]
  BY <1>1, <1>2, ConcatProperties
<1>5. DOMAIN t = 1..(m + k)
  BY <1>3, LenProperties
<1>6. \A i \in 1..k : new[i] = n + i - 1
  OBVIOUS
<1> HIDE DEF t, m, new
<1>7. \A i \in 1..m : i \in 1..(m + k) /\ t[i] = s[i]
  BY <1>1, <1>4
<1>8. \A i \in 1..k : m + i \in 1..(m + k) /\ t[m + i] = n + i - 1
  BY <1>1, <1>4, <1>6
<1>9. \A i \in 1..(m + k) :
         i \in 1..m \/ (i > m /\ t[i] \in n..(n + k - 1) /\ t[i] = n + i - m - 1)
  BY <1>1, <1>4, <1>6
<1>10. ASSUME Precedes(t, a, b)
       PROVE  \/ Precedes(s, a, b)
              \/ a \in Elems(s) /\ b \in n..(n + k - 1)
              \/ b \in n..(n + k - 1) /\ a \in n..(b - 1)
  <2>1. PICK j \in 1..(m + k) : \E i \in 1..(j - 1) : t[i] = a /\ t[j] = b
    BY <1>5, <1>10 DEF Precedes
  <2>2. PICK i \in 1..(j - 1) : t[i] = a /\ t[j] = b
    BY <2>1
  <2>3. i \in 1..(m + k) /\ i < j
    BY <1>1, <2>2
  <2>4. CASE j \in 1..m
    <3>1. i \in 1..m
      BY <1>1, <2>3, <2>4
    <3>2. s[i] = a /\ s[j] = b
      BY <1>7, <2>2, <2>4, <3>1
    <3> QED  BY <1>1, <2>2, <2>4, <3>2 DEF Precedes
  <2>5. CASE j \notin 1..m
    <3>1. b \in n..(n + k - 1) /\ b = n + j - m - 1
      BY <1>9, <2>2, <2>5
    <3>2. CASE i \in 1..m
      <4>1. a = s[i]
        BY <1>7, <2>2, <3>2
      <4> QED  BY <1>1, <3>1, <3>2, <4>1 DEF Elems
    <3>3. CASE i \notin 1..m
      <4>1. a \in n..(n + k - 1) /\ a = n + i - m - 1
        BY <1>9, <2>2, <2>3, <3>3
      <4> QED  BY <1>1, <2>3, <3>1, <4>1
    <3> QED  BY <3>2, <3>3
  <2> QED  BY <2>4, <2>5
<1>11. ASSUME Precedes(s, a, b) PROVE Precedes(t, a, b)
  <2>1. PICK j \in 1..m : \E i \in 1..(j - 1) : s[i] = a /\ s[j] = b
    BY <1>1, <1>11 DEF Precedes
  <2>2. PICK i \in 1..(j - 1) : s[i] = a /\ s[j] = b
    BY <2>1
  <2>3. j \in 1..(m + k) /\ t[i] = a /\ t[j] = b
    BY <1>1, <1>7, <2>2
  <2> QED  BY <1>5, <2>2, <2>3 DEF Precedes
<1>12. ASSUME a \in Elems(s), b \in n..(n + k - 1) PROVE Precedes(t, a, b)
  <2>1. PICK i \in 1..m : s[i] = a
    BY <1>1, <1>12 DEF Elems
  <2>2. PICK j \in 1..k : n + j - 1 = b
    <3>1. b - n + 1 \in 1..k /\ n + (b - n + 1) - 1 = b
      BY <1>12
    <3> QED  BY <3>1
  <2>3. m + j \in DOMAIN t /\ t[m + j] = b
    BY <1>5, <1>8, <2>2
  <2>4. i \in 1..(m + j - 1) /\ t[i] = a
    BY <1>1, <1>7, <2>1
  <2> SUFFICES \E y \in DOMAIN t : \E x \in 1..(y - 1) : t[x] = a /\ t[y] = b
    BY DEF Precedes
  <2> USE <1>1, <2>3, <2>4
  <2> WITNESS m + j \in DOMAIN t
  <2> WITNESS i \in 1..(m + j - 1)
  <2> QED  BY <2>3, <2>4
<1>13. ASSUME b \in n..(n + k - 1), a \in n..(b - 1) PROVE Precedes(t, a, b)
  <2>1. PICK j \in 1..k : n + j - 1 = b
    <3>1. b - n + 1 \in 1..k /\ n + (b - n + 1) - 1 = b
      BY <1>13
    <3> QED  BY <3>1
  <2>2. PICK i \in 1..k : n + i - 1 = a
    <3>1. a - n + 1 \in 1..k /\ n + (a - n + 1) - 1 = a
      BY <1>13
    <3> QED  BY <3>1
  <2>3. m + j \in DOMAIN t /\ t[m + j] = b /\ t[m + i] = a
    BY <1>5, <1>8, <2>1, <2>2
  <2>4. i < j
    BY <1>13, <2>1, <2>2
  <2>5. m + i \in 1..(m + j - 1)
    BY <1>1, <2>4
  <2> SUFFICES \E y \in DOMAIN t : \E x \in 1..(y - 1) : t[x] = a /\ t[y] = b
    BY DEF Precedes
  <2> USE <1>1, <2>3, <2>5
  <2> WITNESS m + j \in DOMAIN t
  <2> WITNESS m + i \in 1..(m + j - 1)
  <2> QED  BY <2>3
<1> QED
  BY <1>10, <1>11, <1>12, <1>13 DEF t, new

\* Where nothing repeats, nothing precedes the head, and the last precedes nothing.
LEMMA PrecedesEnds ==
    ASSUME NEW S, NEW s \in Seq(S), NoRepeats(s), s # <<>>, NEW a
    PROVE  ~Precedes(s, a, Head(s)) /\ ~Precedes(s, s[Len(s)], a)
<1>1. Len(s) \in Nat \ {0} /\ DOMAIN s = 1..Len(s) /\ Head(s) = s[1]
  BY LenProperties, EmptySeq
<1>2. ~Precedes(s, a, Head(s))
  <2>1. ASSUME NEW j \in DOMAIN s, NEW i \in 1..(j - 1), s[j] = s[1] PROVE FALSE
    BY <1>1, <2>1 DEF NoRepeats
  <2> QED  BY <1>1, <2>1 DEF Precedes
<1>3. ~Precedes(s, s[Len(s)], a)
  <2>1. ASSUME NEW j \in DOMAIN s, NEW i \in 1..(j - 1), s[i] = s[Len(s)] PROVE FALSE
    BY <1>1, <2>1 DEF NoRepeats
  <2> QED  BY <1>1, <2>1 DEF Precedes
<1> QED
  BY <1>2, <1>3

--------------------------------------------------------------------------------
(* TaskManager's lines as TaskContract sees them.                          *)

StatusMap == [id \in Ids |-> StatusOf(id)]
LineMap == [p \in Priority |-> LineOf(p)]
AheadMap == {pair \in Ids \X Ids : ComesFirst(pair[1], pair[2])}

Waiting == {"queued_ready", "ready_snapshot"}

\* The states as the contract sees them.
LEMMA StatusIs ==
    ASSUME NEW x \in Ids
    PROVE  /\ StatusMap[x] = StatusOf(x)
           /\ state[x] = "none" => StatusOf(x) = "new"
           /\ state[x] = "queued_delayed" => StatusOf(x) = "sleeping"
           /\ state[x] \in Waiting => StatusOf(x) = "waiting"
           /\ state[x] = "executing" => StatusOf(x) = "running"
           /\ state[x] = "cancelled" /\ x = cur => StatusOf(x) = "stopping"
           /\ state[x] = "cancelled" /\ x # cur => StatusOf(x) = "done"
           /\ state[x] = "completed" => StatusOf(x) = "done"
BY DEF StatusMap, StatusOf, Waiting

\* One task's status moves, and no other callback begins or ends.
LEMMA StatusMoves ==
    ASSUME NEW id \in Ids,
           \A x \in Ids \ {id} : state'[x] = state[x] /\ (x = cur' <=> x = cur)
    PROVE  StatusMap' = [StatusMap EXCEPT ![id] = StatusOf(id)']
<1>1. ASSUME NEW x \in Ids \ {id} PROVE StatusOf(x)' = StatusOf(x)
  <2>1. state'[x] = state[x] /\ (x = cur' <=> x = cur)
    OBVIOUS
  <2> QED  BY <2>1 DEF StatusOf
<1> QED
  BY <1>1 DEF StatusMap

\* Whoever waits stays where he was, but those who have gone.
LEMMA LeaveIs ==
    ASSUME NEW gone \in SUBSET Ids,
           \A x \in gone : state'[x] \notin Waiting,
           \A x \in Ids \ gone : state[x] \in Waiting \/ state'[x] \in Waiting =>
               state'[x] = state[x] /\ entry'[x].priority = entry[x].priority,
           \A x, y \in Ids \ gone :
               state[x] = "ready_snapshot" /\ state[y] = "ready_snapshot" =>
                   (Precedes(batch', x, y) <=> Precedes(batch, x, y)),
           \A x, y \in Ids \ gone :
               state[x] = "queued_ready" /\ state[y] = "queued_ready" =>
                   (Precedes(ready'[entry[x].priority], x, y)
                        <=> Precedes(ready[entry[x].priority], x, y))
    PROVE  /\ Contract!Leave(gone)
           /\ gone = {} => LineMap' = LineMap /\ AheadMap' = AheadMap
<1>1. ASSUME NEW q \in Priority PROVE LineOf(q)' = LineOf(q) \ gone
  <2>1. \A x \in Ids : x \in LineOf(q)' <=> x \in LineOf(q) /\ x \notin gone
    BY DEF LineOf, Waiting
  <2> QED  BY <2>1 DEF LineOf
<1>2. ASSUME NEW x \in Ids, NEW y \in Ids
      PROVE  ComesFirst(x, y)' <=> ComesFirst(x, y) /\ x \notin gone /\ y \notin gone
  <2>1. CASE x \in gone \/ y \in gone
    BY <2>1 DEF ComesFirst, Waiting
  <2>2. CASE x \notin gone /\ y \notin gone
    <3>1. CASE state[x] \in Waiting /\ state[y] \in Waiting
      <4>1. /\ state'[x] = state[x] /\ state'[y] = state[y]
            /\ entry'[x].priority = entry[x].priority
            /\ entry'[y].priority = entry[y].priority
        BY <2>2, <3>1
      <4>2. state[x] = "ready_snapshot" /\ state[y] = "ready_snapshot" =>
                (Precedes(batch', x, y) <=> Precedes(batch, x, y))
        BY <2>2
      <4>3. state[x] = "queued_ready" /\ state[y] = "queued_ready" =>
                (Precedes(ready'[entry[x].priority], x, y)
                     <=> Precedes(ready[entry[x].priority], x, y))
        BY <2>2
      <4> QED  BY <2>2, <4>1, <4>2, <4>3 DEF ComesFirst
    <3>2. CASE state[x] \notin Waiting \/ state[y] \notin Waiting
      <4>1. state'[x] \notin Waiting \/ state'[y] \notin Waiting
        BY <2>2, <3>2
      <4> QED  BY <3>2, <4>1 DEF ComesFirst, Waiting
    <3> QED  BY <3>1, <3>2
  <2> QED  BY <2>1, <2>2
<1>3. LineMap' = [p \in Priority |-> LineMap[p] \ gone]
  BY <1>1 DEF LineMap
<1>4. AheadMap' = {pair \in AheadMap : pair[1] \notin gone /\ pair[2] \notin gone}
  BY <1>2 DEF AheadMap
<1>5. Contract!Leave(gone)
  BY <1>3, <1>4 DEF Contract!Leave, LineMap, AheadMap
<1>6. ASSUME gone = {} PROVE LineMap' = LineMap /\ AheadMap' = AheadMap
  <2>1. LineMap' = LineMap
    BY <1>3, <1>6 DEF LineMap
  <2> QED  BY <1>4, <1>6, <2>1
<1> QED
  BY <1>5, <1>6

\* A task joins a line: it comes behind whoever waits there.
LEMMA JoinIs ==
    ASSUME NEW p \in Priority, NEW id \in Ids,
           \A q \in Priority : LineOf(q)' = IF q = p THEN LineOf(q) \cup {id} ELSE LineOf(q),
           \A x, y \in Ids :
               ComesFirst(x, y)' <=> ComesFirst(x, y) \/ (y = id /\ x \in LineOf(p))
    PROVE  Contract!Join(p, id)
<1>1. LineMap' = [LineMap EXCEPT ![p] = LineMap[p] \cup {id}]
  BY DEF LineMap
<1>2. AheadMap' = AheadMap \cup {<<other, id>> : other \in LineMap[p]}
  <2>1. LineMap[p] = LineOf(p) /\ LineOf(p) \subseteq Ids
    BY DEF LineMap, LineOf
  <2> QED  BY <2>1 DEF AheadMap
<1> QED
  BY <1>1, <1>2 DEF Contract!Join, LineMap, AheadMap

\* What Inv says of the places of the tasks that wait.
LEMMA WaitingHomes ==
    ASSUME Inv
    PROVE  /\ ready \in [Priority -> Seq(Ids)] /\ batch \in Seq(Ids)
           /\ state \in [Ids -> State] /\ entry \in [Ids -> Entry]
           /\ NoRepeats(batch) /\ \A q \in Priority : NoRepeats(ready[q])
           /\ \A x \in Ids :
                 /\ entry[x].priority \in Priority
                 /\ x \in Elems(batch) => state[x] \in {"ready_snapshot", "cancelled"}
                 /\ state[x] = "ready_snapshot" => x \in Elems(batch)
                 /\ state[x] = "queued_ready" => x \in Elems(ready[entry[x].priority])
                 /\ \A q \in Priority : x \in Elems(ready[q]) =>
                       state[x] \in {"queued_ready", "cancelled"} /\ entry[x].priority = q
BY DEF Inv, TypeOK, OneHome, ReadyHome, BatchHome, Housed, Entry

\* A task that has not waited goes to the end of a ready queue.
LEMMA QueueBehind ==
    ASSUME Inv, NEW id \in Ids, NEW p \in Priority,
           state[id] \notin Waiting \cup {"cancelled"},
           state' = [state EXCEPT ![id] = "queued_ready"],
           ready' = [ready EXCEPT ![p] = Append(@, id)],
           batch' = batch, entry'[id].priority = p,
           \A x \in Ids \ {id} : entry'[x] = entry[x]
    PROVE  Contract!Join(p, id)
<1>h. /\ ready \in [Priority -> Seq(Ids)] /\ state \in [Ids -> State]
      /\ \A x \in Ids : entry[x].priority \in Priority
      /\ \A x \in Ids : state[x] = "queued_ready" => x \in Elems(ready[entry[x].priority])
      /\ \A q \in Priority : id \notin Elems(ready[q])
  BY WaitingHomes DEF Waiting
<1>s. /\ state'[id] = "queued_ready" /\ state[id] \notin Waiting
      /\ \A x \in Ids \ {id} : state'[x] = state[x] /\ entry'[x] = entry[x]
  BY <1>h
<1>1. ASSUME NEW q \in Priority
      PROVE  LineOf(q)' = IF q = p THEN LineOf(q) \cup {id} ELSE LineOf(q)
  <2>1. \A x \in Ids : x \in LineOf(q)' <=> x \in LineOf(q) \/ (q = p /\ x = id)
    BY <1>s DEF LineOf, Waiting
  <2>2. LineOf(q) \subseteq Ids /\ LineOf(q)' \subseteq Ids
    BY DEF LineOf
  <2> QED  BY <2>1, <2>2
<1>2. ASSUME NEW x \in Ids, NEW y \in Ids
      PROVE  ComesFirst(x, y)' <=> ComesFirst(x, y) \/ (y = id /\ x \in LineOf(p))
  <2>1. Precedes(Append(ready[p], id), x, y) <=>
            Precedes(ready[p], x, y) \/ (x \in Elems(ready[p]) /\ y = id)
    BY <1>h, PrecedesAppend
  <2>2. \A q \in Priority : ready'[q] = IF q = p THEN Append(ready[p], id) ELSE ready[q]
    BY <1>h
  <2>3. CASE x # id /\ y # id
    <3>1. Precedes(ready'[entry[x].priority], x, y)
              <=> Precedes(ready[entry[x].priority], x, y)
      BY <1>h, <2>1, <2>2, <2>3
    <3> QED  BY <1>s, <2>3, <3>1 DEF ComesFirst
  <2>4. CASE x = id
    <3>1. ~ComesFirst(x, y) /\ x \notin LineOf(p)
      BY <1>s, <2>4 DEF ComesFirst, LineOf, Waiting
    <3>2. ~Precedes(ready'[p], x, y)
      <4>1. ~Precedes(ready[p], x, y)
        BY <1>h, <2>4, PrecedesElems
      <4> QED  BY <1>h, <2>1, <2>2, <2>4, <4>1
    <3>3. ~ComesFirst(x, y)'
      BY <1>s, <2>4, <3>2 DEF ComesFirst
    <3> QED  BY <3>1, <3>3
  <2>5. CASE x # id /\ y = id
    <3>1. ~ComesFirst(x, y)
      BY <1>s, <2>5 DEF ComesFirst, Waiting
    <3>2. x \in Elems(ready[p]) => Precedes(ready'[p], x, y)
      BY <2>1, <2>2, <2>5
    <3>3. state[x] = "queued_ready" /\ entry[x].priority = p => Precedes(ready'[p], x, y)
      BY <1>h, <3>2
    <3>4. ComesFirst(x, y)' <=> x \in LineOf(p)
      BY <1>s, <2>5, <3>3 DEF ComesFirst, LineOf
    <3> QED  BY <2>5, <3>1, <3>4
  <2> QED  BY <2>3, <2>4, <2>5
<1> QED
  BY <1>1, <1>2, JoinIs

\* A task that stays out of the lines changes nothing in them.
LEMMA NobodyMoves ==
    ASSUME UNCHANGED <<batch, ready>>,
           \A x \in Ids : state[x] \in Waiting \/ state'[x] \in Waiting =>
               state'[x] = state[x] /\ entry'[x].priority = entry[x].priority
    PROVE  LineMap' = LineMap /\ AheadMap' = AheadMap
<1>1. {} \in SUBSET Ids /\ Ids \ {} = Ids
  OBVIOUS
<1>2. \A x, y \in Ids : (Precedes(batch', x, y) <=> Precedes(batch, x, y))
  OBVIOUS
<1>3. \A x, y \in Ids : (Precedes(ready'[entry[x].priority], x, y)
                             <=> Precedes(ready[entry[x].priority], x, y))
  OBVIOUS
<1> QED
  BY <1>1, <1>2, <1>3, LeaveIs

\* Place, as the contract sees it.
LEMMA PlaceAdmits ==
    ASSUME Inv, NEW id \in Ids, NEW e \in Entry, Place(id, e), batch' = batch,
           state[id] \notin Waiting \cup {"cancelled"}, ~closed, closed' = closed,
           \A x \in Ids \ {id} : x = cur' <=> x = cur
    PROVE  Contract!Admit(id)
<1>t. /\ state \in [Ids -> State] /\ entry \in [Ids -> Entry] /\ e.priority \in Priority
  BY WaitingHomes DEF Entry
<1>e. entry'[id] = e /\ \A x \in Ids \ {id} : entry'[x] = entry[x]
  BY <1>t DEF Place
<1>1. CASE IsDue(e.due, now')
  <2>1. /\ state' = [state EXCEPT ![id] = "queued_ready"]
        /\ ready' = [ready EXCEPT ![e.priority] = Append(@, id)]
    BY <1>1 DEF Place
  <2>2. Contract!Join(e.priority, id)
    BY <1>t, <1>e, <2>1, QueueBehind
  <2>3. /\ state'[id] = "queued_ready" /\ \A x \in Ids \ {id} : state'[x] = state[x]
    BY <1>t, <2>1
  <2>4. StatusOf(id)' = "waiting"
    BY <2>3 DEF StatusOf
  <2>5. StatusMap' = [StatusMap EXCEPT ![id] = "waiting"]
    BY <2>3, <2>4, StatusMoves
  <2> QED  BY <1>t, <2>2, <2>5 DEF Contract!Admit, StatusMap
<1>2. CASE ~IsDue(e.due, now')
  <2>1. state' = [state EXCEPT ![id] = "queued_delayed"] /\ UNCHANGED ready
    BY <1>2 DEF Place
  <2>2. /\ state'[id] = "queued_delayed" /\ \A x \in Ids \ {id} : state'[x] = state[x]
    BY <1>t, <2>1
  <2>3. LineMap' = LineMap /\ AheadMap' = AheadMap
    <3>1. \A x \in Ids : state[x] \in Waiting \/ state'[x] \in Waiting =>
               state'[x] = state[x] /\ entry'[x].priority = entry[x].priority
      BY <1>e, <2>2 DEF Waiting
    <3> QED  BY <2>1, <3>1, NobodyMoves
  <2>4. StatusOf(id)' = "sleeping"
    BY <2>2 DEF StatusOf
  <2>5. StatusMap' = [StatusMap EXCEPT ![id] = "sleeping"]
    BY <2>2, <2>4, StatusMoves
  <2> QED  BY <2>3, <2>5 DEF Contract!Admit, StatusMap, LineMap, AheadMap
<1> QED
  BY <1>1, <1>2

\* Everyone else in s comes after id, or before it.
FrontOf(s, id) ==
    \A x \in Ids : (x \in Elems(s) \ {id} => Precedes(s, id, x)) /\ ~Precedes(s, x, id)
BackOf(s, id) ==
    \A x \in Ids : (x \in Elems(s) \ {id} => Precedes(s, x, id)) /\ ~Precedes(s, id, x)

\* The others keep their states and their order.
OthersStay(id) ==
    /\ \A x \in Ids \ {id} : state'[x] = state[x]
    /\ \A x, y \in Ids \ {id} : Precedes(batch', x, y) <=> Precedes(batch, x, y)
    /\ \A q \in Priority : \A x, y \in Ids \ {id} :
            Precedes(ready'[q], x, y) <=> Precedes(ready[q], x, y)

\* A task moves between the end of the snapshot and the front of its queue: nobody
\* overtakes anybody.
LEMMA MoveLines ==
    ASSUME Inv, OneHome', NEW id \in Ids, entry' = entry, OthersStay(id),
           \/ /\ state[id] = "queued_ready" /\ state'[id] = "ready_snapshot"
              /\ FrontOf(ready[entry[id].priority], id) /\ BackOf(batch', id)
           \/ /\ state[id] = "ready_snapshot" /\ state'[id] = "queued_ready"
              /\ BackOf(batch, id) /\ FrontOf(ready'[entry[id].priority], id)
    PROVE  LineMap' = LineMap /\ AheadMap' = AheadMap
<1>h. \A x \in Ids :
         /\ entry[x].priority \in Priority
         /\ state[x] = "ready_snapshot" => x \in Elems(batch)
         /\ state[x] = "queued_ready" => x \in Elems(ready[entry[x].priority])
  BY WaitingHomes
<1>n. \A x \in Ids :
         /\ state'[x] = "ready_snapshot" => x \in Elems(batch')
         /\ state'[x] = "queued_ready" => x \in Elems(ready'[entry[x].priority])
  BY DEF OneHome, Housed
<1>w. state[id] \in Waiting /\ state'[id] \in Waiting /\ state'[id] # state[id]
  BY DEF Waiting
<1>1. LineMap' = LineMap
  <2>1. ASSUME NEW q \in Priority PROVE LineOf(q)' = LineOf(q)
    <3>1. \A x \in Ids : x \in LineOf(q)' <=> x \in LineOf(q)
      BY <1>w DEF LineOf, Waiting, OthersStay
    <3> QED  BY <3>1 DEF LineOf
  <2> QED  BY <2>1 DEF LineMap
<1>2. ASSUME NEW x \in Ids, NEW y \in Ids PROVE ComesFirst(x, y)' <=> ComesFirst(x, y)
  <2>1. CASE x # id /\ y # id
    BY <1>h, <2>1 DEF ComesFirst, OthersStay
  <2>2. CASE x = id /\ y = id
    BY <1>h, <1>n, <1>w, <2>2 DEF ComesFirst, FrontOf, BackOf
  <2>3. CASE ~(x # id /\ y # id) /\ ~(x = id /\ y = id) /\ state[id] = "queued_ready"
    <3>1. /\ state'[id] = "ready_snapshot"
          /\ FrontOf(ready[entry[id].priority], id) /\ BackOf(batch', id)
      BY <2>3
    <3>2. CASE x = id /\ y # id
      <4>1. state'[y] = state[y]
        BY <3>2 DEF OthersStay
      <4>2. y \in Elems(ready[entry[id].priority]) => Precedes(ready[entry[id].priority], x, y)
        BY <3>1, <3>2 DEF FrontOf
      <4>3. ~Precedes(batch', x, y)
        BY <3>1, <3>2 DEF BackOf
      <4> QED  BY <1>h, <2>3, <3>1, <3>2, <4>1, <4>2, <4>3 DEF ComesFirst
    <3>3. CASE x # id /\ y = id
      <4>1. state'[x] = state[x]
        BY <3>3 DEF OthersStay
      <4>2. ~Precedes(ready[entry[id].priority], x, y)
        BY <3>1, <3>3 DEF FrontOf
      <4>3. x \in Elems(batch') => Precedes(batch', x, y)
        BY <3>1, <3>3 DEF BackOf
      <4> QED  BY <1>n, <2>3, <3>1, <3>3, <4>1, <4>2, <4>3 DEF ComesFirst
    <3> QED  BY <2>3, <3>2, <3>3
  <2>4. CASE ~(x # id /\ y # id) /\ ~(x = id /\ y = id) /\ state[id] = "ready_snapshot"
    <3>1. /\ state'[id] = "queued_ready"
          /\ BackOf(batch, id) /\ FrontOf(ready'[entry[id].priority], id)
      BY <2>4
    <3>2. CASE x = id /\ y # id
      <4>1. state'[y] = state[y]
        BY <3>2 DEF OthersStay
      <4>2. y \in Elems(ready'[entry[id].priority])
                => Precedes(ready'[entry[id].priority], x, y)
        BY <3>1, <3>2 DEF FrontOf
      <4>3. ~Precedes(batch, x, y)
        BY <3>1, <3>2 DEF BackOf
      <4> QED  BY <1>n, <2>4, <3>1, <3>2, <4>1, <4>2, <4>3 DEF ComesFirst
    <3>3. CASE x # id /\ y = id
      <4>1. state'[x] = state[x]
        BY <3>3 DEF OthersStay
      <4>2. ~Precedes(ready'[entry[id].priority], x, y)
        BY <3>1, <3>3 DEF FrontOf
      <4>3. x \in Elems(batch) => Precedes(batch, x, y)
        BY <3>1, <3>3 DEF BackOf
      <4> QED  BY <1>h, <2>4, <3>1, <3>3, <4>1, <4>2, <4>3 DEF ComesFirst
    <3> QED  BY <2>4, <3>2, <3>3
  <2> QED  BY <1>w, <2>1, <2>2, <2>3, <2>4 DEF Waiting
<1> QED
  BY <1>1, <1>2 DEF AheadMap

\* The first of a queue becomes the last of the snapshot.
LEMMA TakeOneLines ==
    ASSUME Inv, OneHome', NEW p \in Priority, TakeOne(p)
    PROVE  LineMap' = LineMap /\ AheadMap' = AheadMap
<1> DEFINE id == Head(ready[p])
<1>h. /\ ready \in [Priority -> Seq(Ids)] /\ batch \in Seq(Ids) /\ state \in [Ids -> State]
      /\ NoRepeats(batch) /\ NoRepeats(ready[p])
      /\ \A x \in Ids : /\ x \in Elems(batch) => state[x] \in {"ready_snapshot", "cancelled"}
                        /\ \A q \in Priority : x \in Elems(ready[q]) => entry[x].priority = q
  BY WaitingHomes
<1>1. /\ ready[p] \in Seq(Ids) /\ ready[p] # <<>>
      /\ state[id] = "queued_ready" /\ state' = [state EXCEPT ![id] = "ready_snapshot"]
      /\ ready' = [ready EXCEPT ![p] = Tail(@)]
      /\ batch' = Append(batch, id) /\ entry' = entry
  BY <1>h DEF TakeOne, TakesFrom
<1>2. /\ id \in Ids /\ Tail(ready[p]) \in Seq(Ids)
      /\ Elems(ready[p]) = Elems(Tail(ready[p])) \cup {id}
      /\ id \notin Elems(Tail(ready[p]))
  BY <1>h, <1>1, TailElems
<1>3. \A x, y \in Ids : /\ Precedes(batch', x, y) <=>
                              Precedes(batch, x, y) \/ (x \in Elems(batch) /\ y = id)
                        /\ Precedes(ready[p], x, y) <=>
                              \/ Precedes(Tail(ready[p]), x, y)
                              \/ x = id /\ y \in Elems(Tail(ready[p]))
  BY <1>h, <1>1, <1>2, PrecedesAppend, PrecedesTail
<1>4. \A x \in Ids : /\ ~Precedes(ready[p], x, id)
                     /\ Precedes(batch, x, id) \/ Precedes(batch, id, x) => id \in Elems(batch)
                     /\ Precedes(Tail(ready[p]), id, x) => id \in Elems(Tail(ready[p]))
  BY <1>h, <1>1, <1>2, PrecedesEnds, PrecedesElems
<1> HIDE DEF id
<1>5. id \notin Elems(batch) /\ entry[id].priority = p
  BY <1>h, <1>1, <1>2
<1>6. \A q \in Priority : ready'[q] = IF q = p THEN Tail(ready[p]) ELSE ready[q]
  BY <1>h, <1>1
<1>7. state'[id] = "ready_snapshot" /\ \A x \in Ids \ {id} : state'[x] = state[x]
  BY <1>h, <1>1, <1>2
<1>8. OthersStay(id)
  BY <1>3, <1>6, <1>7 DEF OthersStay
<1>9. FrontOf(ready[p], id)
  BY <1>2, <1>3, <1>4 DEF FrontOf
<1>10. BackOf(batch', id)
  <2>1. Elems(batch') = Elems(batch) \cup {id}
    BY <1>h, <1>1, <1>2, AppendElems
  <2> QED  BY <1>2, <1>3, <1>4, <1>5, <2>1 DEF BackOf
<1> QED
  BY <1>1, <1>2, <1>5, <1>7, <1>8, <1>9, <1>10, MoveLines

\* The last of the snapshot goes back to the front of its queue.
LEMMA RestoreOneLines ==
    ASSUME Inv, OneHome', RestoreOne
    PROVE  LineMap' = LineMap /\ AheadMap' = AheadMap
<1> DEFINE id == batch[Len(batch)]
           p == entry[id].priority
           front == SubSeq(batch, 1, Len(batch) - 1)
<1>h. /\ ready \in [Priority -> Seq(Ids)] /\ batch \in Seq(Ids) /\ state \in [Ids -> State]
      /\ NoRepeats(batch)
      /\ \A x \in Ids : /\ entry[x].priority \in Priority
                        /\ \A q \in Priority : x \in Elems(ready[q]) =>
                              state[x] \in {"queued_ready", "cancelled"}
  BY WaitingHomes
<1>1. /\ batch # <<>>
      /\ state[id] = "ready_snapshot" /\ state' = [state EXCEPT ![id] = "queued_ready"]
      /\ ready' = [ready EXCEPT ![p] = <<id>> \o @]
      /\ batch' = front /\ entry' = entry
  BY DEF RestoreOne, PutBack
<1>2. /\ id \in Ids /\ front \in Seq(Ids)
      /\ Elems(batch) = Elems(front) \cup {id}
      /\ id \notin Elems(front)
  BY <1>h, <1>1, FrontElems
<1>p. p \in Priority /\ ready[p] \in Seq(Ids)
  BY <1>h, <1>2
<1>3. ASSUME NEW x \in Ids, NEW y \in Ids
      PROVE  /\ Precedes(batch, x, y) <=>
                    Precedes(front, x, y) \/ (x \in Elems(front) /\ y = id)
             /\ Precedes(<<id>> \o ready[p], x, y) <=>
                    Precedes(ready[p], x, y) \/ (x = id /\ y \in Elems(ready[p]))
  BY <1>h, <1>p, <1>1, <1>2, PrecedesPut, PrecedesFront
<1>4. \A x \in Ids :
         /\ ~Precedes(batch, id, x)
         /\ Precedes(front, x, id) => id \in Elems(front)
         /\ Precedes(ready[p], x, id) \/ Precedes(ready[p], id, x) => id \in Elems(ready[p])
  <2>1. \A x \in Ids : ~Precedes(batch, id, x)
    BY <1>h, <1>1, PrecedesEnds
  <2>2. \A x \in Ids : Precedes(front, x, id) => id \in Elems(front)
    BY <1>2, PrecedesElems
  <2>3. \A x \in Ids :
           Precedes(ready[p], x, id) \/ Precedes(ready[p], id, x) => id \in Elems(ready[p])
    <3> HIDE DEF id, p
    <3> QED  BY <1>p, PrecedesElems
  <2> HIDE DEF id, p, front
  <2> QED  BY <2>1, <2>2, <2>3
<1>q. entry[id].priority = p
  OBVIOUS
<1> HIDE DEF id, p, front
<1>5. id \notin Elems(ready[p])
  BY <1>h, <1>p, <1>1, <1>2
<1>6. \A q \in Priority : ready'[q] = IF q = p THEN <<id>> \o ready[p] ELSE ready[q]
  BY <1>h, <1>1
<1>7. state'[id] = "queued_ready" /\ \A x \in Ids \ {id} : state'[x] = state[x]
  BY <1>h, <1>1, <1>2
<1>8. OthersStay(id)
  BY <1>1, <1>3, <1>6, <1>7 DEF OthersStay
<1>9. BackOf(batch, id)
  BY <1>2, <1>3, <1>4 DEF BackOf
<1>10. FrontOf(ready'[p], id)
  <2>1. <<id>> \in Seq(Ids) /\ Elems(<<id>>) = {id}
    BY <1>2 DEF Elems
  <2>2. Elems(<<id>> \o ready[p]) = {id} \cup Elems(ready[p])
    <3> DEFINE one == <<id>>
    <3>1. one \in Seq(Ids) /\ Elems(one) = {id}
      BY <2>1
    <3> HIDE DEF one
    <3>2. Elems(one \o ready[p]) = Elems(one) \cup Elems(ready[p])
      BY <1>p, <3>1, ConcatElems
    <3> QED  BY <3>1, <3>2 DEF one
  <2> QED  BY <1>2, <1>3, <1>4, <1>5, <1>6, <1>p, <2>2 DEF FrontOf
<1> QED
  BY <1>1, <1>2, <1>q, <1>7, <1>8, <1>9, <1>10, MoveLines

\* The ids that a submission hands out are fresh.
LEMMA FreshIds ==
    ASSUME Inv, NEW k \in Nat \ {0}, nextId + k - 1 <= MaxId
    PROVE  /\ nextId \in Nat /\ nextId \in Ids /\ nextId + k - 1 \in Ids
           /\ nextId..(nextId + k - 1) \subseteq Ids
           /\ \A x \in nextId..(nextId + k - 1) : state[x] = "none"
<1>1. nextId \in 1..(MaxId + 1) /\ MaxId \in Nat
  BY BoundsAssumption DEF Inv, TypeOK
<1>2. nextId..(nextId + k - 1) \subseteq Ids
  BY <1>1 DEF Ids
<1>3. nextId \in Ids /\ nextId + k - 1 \in Ids
  BY <1>1 DEF Ids
<1>4. \A x \in nextId..(nextId + k - 1) : x \in Ids /\ x >= nextId
  BY <1>1, <1>2
<1> QED
  BY <1>1, <1>2, <1>3, <1>4 DEF Inv, Links

\* A batch joins its line in its order.
LEMMA BatchJoins ==
    ASSUME Inv, NEW p \in Priority, NEW k \in Nat \ {0}, EnqueueReady(p, k)
    PROVE  Contract!SubmitMany(p, nextId, nextId + k - 1)
<1> DEFINE last == nextId + k - 1
           new == nextId..last
           added == [i \in 1..k |-> nextId + i - 1]
<1>0. nextId + k - 1 <= MaxId /\ ~closed /\ closed' = closed
  BY DEF EnqueueReady, Accepts, envVars
<1>1. /\ nextId \in Nat /\ last \in Int /\ new \subseteq Ids
      /\ \A x \in new : state[x] = "none" /\ x \in Ids
  BY <1>0, FreshIds
<1>h. /\ ready \in [Priority -> Seq(Ids)]
      /\ \A x \in Ids : /\ entry[x].priority \in Priority
                        /\ state[x] = "queued_ready" => x \in Elems(ready[entry[x].priority])
                        /\ \A q \in Priority : x \in Elems(ready[q]) =>
                              state[x] \in {"queued_ready", "cancelled"}
  BY WaitingHomes
<1>2. \A x \in Ids : state'[x] = IF x \in new THEN "queued_ready" ELSE state[x]
  BY DEF EnqueueReady
<1>3. \A x \in Ids : entry'[x].priority = IF x \in new THEN p ELSE entry[x].priority
  BY DEF EnqueueReady, NoEntry
<1>4. \A q \in Priority : ready'[q] = IF q = p THEN ready[p] \o added ELSE ready[q]
  BY <1>h DEF EnqueueReady
<1>5. batch' = batch /\ cur' = cur
  BY DEF EnqueueReady, consumerVars
<1>6. \A x, y \in Ids :
         Precedes(ready[p] \o added, x, y) <=>
             \/ Precedes(ready[p], x, y)
             \/ x \in Elems(ready[p]) /\ y \in new
             \/ y \in new /\ x \in nextId..(y - 1)
  BY <1>1, <1>h, PrecedesConcat
<1>7. \A x \in new : ~(\E q \in Priority : x \in Elems(ready[q]))
  BY <1>1, <1>h
<1>8. \A x \in Ids, y \in new : x \in nextId..(y - 1) => x \in new
  BY <1>1
<1> HIDE DEF new, added
<1>9. ASSUME NEW x \in Ids
      PROVE  StatusOf(x)' = IF x \in new THEN "waiting" ELSE StatusOf(x)
  <2>1. x = cur' <=> x = cur
    BY <1>5
  <2> QED  BY <1>2, <2>1 DEF StatusOf
<1>10. ASSUME NEW q \in Priority
       PROVE  LineOf(q)' = IF q = p THEN LineOf(q) \cup new ELSE LineOf(q)
  <2>1. \A x \in Ids : x \in LineOf(q)' <=> x \in LineOf(q) \/ (q = p /\ x \in new)
    BY <1>1, <1>2, <1>3 DEF LineOf
  <2>2. LineOf(q) \subseteq Ids /\ LineOf(q)' \subseteq Ids
    BY DEF LineOf
  <2> QED  BY <1>1, <2>1, <2>2
<1>11. ASSUME NEW x \in Ids, NEW y \in Ids
       PROVE  ComesFirst(x, y)' <=>
                  \/ ComesFirst(x, y)
                  \/ y \in new /\ (x \in LineOf(p) \/ x \in nextId..(y - 1))
  <2>p. /\ Precedes(ready[p], x, y) => x \in Elems(ready[p]) /\ y \in Elems(ready[p])
        /\ ready'[p] = ready[p] \o added
    BY <1>h, <1>4, PrecedesElems
  <2>1. CASE x \notin new /\ y \notin new
    <3>1. Precedes(ready'[entry[x].priority], x, y)
              <=> Precedes(ready[entry[x].priority], x, y)
      BY <1>h, <1>4, <1>6, <2>1
    <3> QED  BY <1>2, <1>3, <1>5, <2>1, <3>1 DEF ComesFirst
  <2>2. CASE x \in new /\ y \notin new
    <3>1. ~Precedes(ready'[p], x, y) /\ ~ComesFirst(x, y)
      BY <1>1, <1>6, <1>7, <2>2, <2>p DEF ComesFirst
    <3> QED  BY <1>2, <1>3, <2>2, <3>1 DEF ComesFirst
  <2>3. CASE y \in new /\ x \notin new
    <3>1. ~ComesFirst(x, y) /\ ~(x \in nextId..(y - 1))
      BY <1>1, <1>8, <2>3 DEF ComesFirst
    <3>2. Precedes(ready'[p], x, y) <=> x \in Elems(ready[p])
      BY <1>6, <1>7, <2>3, <2>p, <3>1
    <3>3. ComesFirst(x, y)' <=>
              /\ entry[x].priority = p
              /\ \/ state[x] = "ready_snapshot"
                 \/ state[x] = "queued_ready" /\ Precedes(ready'[p], x, y)
      BY <1>2, <1>3, <2>3 DEF ComesFirst
    <3>4. state[x] = "queued_ready" /\ entry[x].priority = p => x \in Elems(ready[p])
      BY <1>h
    <3> QED  BY <2>3, <3>1, <3>2, <3>3, <3>4 DEF LineOf
  <2>4. CASE y \in new /\ x \in new
    <3>1. ~ComesFirst(x, y) /\ x \notin LineOf(p)
      BY <1>1, <2>4 DEF ComesFirst, LineOf
    <3>2. Precedes(ready'[p], x, y) <=> x \in nextId..(y - 1)
      BY <1>6, <1>7, <2>4, <2>p
    <3>3. ComesFirst(x, y)' <=> Precedes(ready'[p], x, y)
      BY <1>2, <1>3, <2>4 DEF ComesFirst
    <3> QED  BY <2>4, <3>1, <3>2, <3>3
  <2> QED  BY <2>1, <2>2, <2>3, <2>4
<1>12. StatusMap' = [x \in Ids |-> IF x \in new THEN "waiting" ELSE StatusMap[x]]
  BY <1>9 DEF StatusMap
<1>13. LineMap' = [LineMap EXCEPT ![p] = @ \cup new]
  BY <1>10 DEF LineMap
<1>14. AheadMap' = AheadMap \cup {pair \in Ids \X new :
                       pair[1] \in LineMap[p] \/ pair[1] \in nextId..(pair[2] - 1)}
  <2>1. LineMap[p] = LineOf(p)
    BY DEF LineMap
  <2> QED  BY <1>1, <1>11, <2>1 DEF AheadMap
<1>15. \A x \in new : StatusMap[x] = "new"
  BY <1>1 DEF StatusMap, StatusOf
<1>16. ~closed /\ (~closed)' = ~closed
  BY <1>0
<1> QED
  BY <1>12, <1>13, <1>14, <1>15, <1>16
     DEF Contract!SubmitMany, StatusMap, LineMap, AheadMap, new

\* A task submitted alone sleeps or joins its line.
LEMMA NewJoins ==
    ASSUME Inv, NEW e \in Entry, EnqueueNew(e)
    PROVE  nextId \in Ids /\ Contract!SubmitTask(nextId)
<1>1. /\ nextId + 1 - 1 <= MaxId /\ ~closed /\ closed' = closed
      /\ Place(nextId, e) /\ batch' = batch /\ cur' = cur
  BY DEF EnqueueNew, Accepts, envVars, consumerVars
<1>2. nextId \in Ids /\ state[nextId] = "none"
  BY <1>1, FreshIds
<1>3. Contract!Admit(nextId)
  BY <1>1, <1>2, PlaceAdmits DEF Waiting
<1>4. StatusMap[nextId] = "new"
  BY <1>2, StatusIs
<1> QED
  BY <1>2, <1>3, <1>4 DEF Contract!SubmitTask, StatusMap

\* A deadline that has passed wakes the task up.
LEMMA PromotionWakes ==
    ASSUME Inv, PromoteTop
    PROVE  \E p \in Priority, id \in Ids : Contract!WakeUp(p, id)
<1>h. state \in [Ids -> State] /\ \A x \in Ids : entry[x].priority \in Priority
  BY WaitingHomes
<1>0. PICK id \in Ids : id = Head(delayed)
  <2>1. delayed \in Seq(Ids) /\ delayed # <<>>
    BY DEF PromoteTop, Inv, TypeOK
  <2> QED  BY <2>1
<1>p. PICK p \in Priority : p = entry[id].priority
  BY <1>h
<1>1. /\ state[id] = "queued_delayed" /\ state' = [state EXCEPT ![id] = "queued_ready"]
      /\ ready' = [ready EXCEPT ![p] = Append(@, id)]
      /\ batch' = batch /\ entry' = entry /\ cur' = cur /\ closed' = closed
  BY <1>0, <1>p DEF PromoteTop, consumerVars, envVars
<1>2. Contract!Join(p, id)
  <2>1. state[id] \notin Waiting \cup {"cancelled"}
    BY <1>1 DEF Waiting
  <2>2. entry'[id].priority = p
    BY <1>1, <1>p
  <2> QED  BY <1>1, <2>1, <2>2, QueueBehind
<1>3. state'[id] = "queued_ready" /\ \A x \in Ids \ {id} : state'[x] = state[x]
  BY <1>h, <1>1
<1>4. StatusMap' = [StatusMap EXCEPT ![id] = "waiting"]
  <2>1. StatusOf(id)' = "waiting"
    BY <1>3 DEF StatusOf
  <2> QED  BY <1>1, <1>3, <2>1, StatusMoves
<1>5. StatusMap[id] = "sleeping"
  BY <1>1, StatusIs
<1>6. Contract!WakeUp(p, id)
  BY <1>1, <1>2, <1>4, <1>5 DEF Contract!WakeUp, StatusMap
<1> QED
  BY <1>1, <1>6

\* The callback that starts is the first of its line, and the only one.
LEMMA FirstStarts ==
    ASSUME Inv, StartTask
    PROVE  \E p \in Priority, id \in Ids : Contract!Start(p, id)
<1>h. /\ state \in [Ids -> State] /\ batch \in Seq(Ids) /\ NoRepeats(batch)
      /\ \A x \in Ids : entry[x].priority \in Priority
  BY WaitingHomes
<1>e. batch # <<>>
  BY DEF StartTask
<1>0. PICK id \in Ids : id = Head(batch)
  BY <1>h, <1>e
<1>p. PICK p \in Priority : p = entry[id].priority
  BY <1>h
<1>1. /\ state[id] = "ready_snapshot" /\ state' = [state EXCEPT ![id] = "executing"]
      /\ ready' = ready /\ batch' = Tail(batch) /\ entry' = entry
      /\ cur' = id /\ closed' = closed /\ cur = 0
  BY <1>0 DEF StartTask, queueVars, envVars, Inv, TypeOK
<1>2. /\ \A x \in Ids : ~Precedes(batch, x, id)
      /\ \A x, y \in Ids \ {id} : Precedes(batch', x, y) <=> Precedes(batch, x, y)
  BY <1>h, <1>e, <1>0, <1>1, PrecedesEnds, PrecedesTail
<1>3. state'[id] = "executing" /\ \A x \in Ids \ {id} : state'[x] = state[x]
  BY <1>h, <1>0, <1>1
<1>4. Contract!Leave({id})
  <2>1. \A x \in {id} : state'[x] \notin Waiting
    BY <1>3 DEF Waiting
  <2>2. \A x \in Ids \ {id} : state[x] \in Waiting \/ state'[x] \in Waiting =>
             state'[x] = state[x] /\ entry'[x].priority = entry[x].priority
    BY <1>1, <1>3
  <2>3. \A x, y \in Ids \ {id} :
             Precedes(ready'[entry[x].priority], x, y)
                 <=> Precedes(ready[entry[x].priority], x, y)
    BY <1>1
  <2>4. {id} \in SUBSET Ids
    BY <1>0
  <2> QED  BY <1>2, <2>1, <2>2, <2>3, <2>4, LeaveIs
<1>5. \A x \in Ids : StatusMap[x] \notin {"running", "stopping"}
  <2>1. \A x \in Ids : x # cur /\ state[x] # "executing"
    BY <1>1 DEF Inv, OneHome, Housed, Ids
  <2> QED  BY <2>1 DEF StatusMap, StatusOf
<1>6. id \in LineMap[p] /\ \A x \in LineMap[p] : <<x, id>> \notin AheadMap
  BY <1>p, <1>1, <1>2 DEF LineMap, LineOf, AheadMap, ComesFirst
<1>7. StatusMap' = [StatusMap EXCEPT ![id] = "running"]
  <2>1. StatusOf(id)' = "running"
    BY <1>3 DEF StatusOf
  <2>2. \A x \in Ids \ {id} : x = cur' <=> x = cur
    BY <1>1 DEF Ids
  <2> QED  BY <1>0, <1>3, <2>1, <2>2, StatusMoves
<1>8. Contract!Start(p, id)
  BY <1>1, <1>4, <1>5, <1>6, <1>7
     DEF Contract!Start, StatusMap, LineMap, AheadMap
<1> QED
  BY <1>0, <1>1, <1>8

\* The running task is cancelled.
LEMMA RunningStops ==
    ASSUME Inv, cur \in Ids, state[cur] = "executing",
           state' = [state EXCEPT ![cur] = "cancelled"],
           UNCHANGED <<entry, ready, batch, cur, closed>>
    PROVE  Contract!Stop(cur)
<1>1. /\ state'[cur] = "cancelled"
      /\ \A x \in Ids \ {cur} : state'[x] = state[x]
  BY WaitingHomes
<1>2. LineMap' = LineMap /\ AheadMap' = AheadMap
  <2>1. \A x \in Ids : state[x] \in Waiting \/ state'[x] \in Waiting =>
             state'[x] = state[x] /\ entry'[x].priority = entry[x].priority
    BY <1>1 DEF Waiting
  <2> QED  BY <2>1, NobodyMoves
<1>3. StatusMap' = [StatusMap EXCEPT ![cur] = "stopping"]
  <2>1. StatusOf(cur)' = "stopping"
    BY <1>1 DEF StatusOf
  <2> QED  BY <1>1, <2>1, StatusMoves
<1>4. StatusMap[cur] = "running"
  BY StatusIs
<1> QED
  BY <1>2, <1>3, <1>4 DEF Contract!Stop, StatusMap, LineMap, AheadMap

\* Tasks that have not started are cancelled; those left in the queues stay in order.
LEMMA WaitersDrop ==
    ASSUME Inv, NEW dropped \in SUBSET Ids,
           \A x \in dropped : state[x] \in Queued,
           state' = [x \in Ids |-> IF x \in dropped THEN "cancelled" ELSE state[x]],
           UNCHANGED <<entry, batch, cur, closed>>,
           ready' = ready \/ \A x \in Ids : state[x] = "queued_ready" => x \in dropped
    PROVE  [Contract!ContractNext]_(Contract!contractVars)
<1>1. \A x \in Ids : state'[x] = IF x \in dropped THEN "cancelled" ELSE state[x]
  OBVIOUS
<1>2. \A x \in dropped : x # cur
  BY DEF Inv, Links, Queued, Ids
<1>3. /\ Contract!Leave(dropped)
      /\ dropped = {} => LineMap' = LineMap /\ AheadMap' = AheadMap
  <2>1. \A x \in dropped : state'[x] \notin Waiting
    BY <1>1 DEF Waiting
  <2>2. \A x \in Ids \ dropped : state[x] \in Waiting \/ state'[x] \in Waiting =>
             state'[x] = state[x] /\ entry'[x].priority = entry[x].priority
    BY <1>1
  <2>3. \A x, y \in Ids \ dropped :
             state[x] = "queued_ready" /\ state[y] = "queued_ready" =>
                 (Precedes(ready'[entry[x].priority], x, y)
                      <=> Precedes(ready[entry[x].priority], x, y))
    OBVIOUS
  <2>4. \A x, y \in Ids \ dropped :
             state[x] = "ready_snapshot" /\ state[y] = "ready_snapshot" =>
                 (Precedes(batch', x, y) <=> Precedes(batch, x, y))
    OBVIOUS
  <2> QED  BY <2>1, <2>2, <2>3, <2>4, LeaveIs
<1>4. StatusMap' = [x \in Ids |-> IF x \in dropped THEN "done" ELSE StatusMap[x]]
  <2>1. ASSUME NEW x \in Ids
        PROVE  StatusOf(x)' = IF x \in dropped THEN "done" ELSE StatusOf(x)
    <3>1. CASE x \in dropped
      <4>1. state'[x] = "cancelled" /\ x # cur'
        BY <1>1, <1>2, <3>1
      <4> QED  BY <3>1, <4>1 DEF StatusOf
    <3>2. CASE x \notin dropped
      <4>1. state'[x] = state[x] /\ (x = cur' <=> x = cur)
        BY <1>1, <3>2
      <4> QED  BY <3>2, <4>1 DEF StatusOf
    <3> QED  BY <3>1, <3>2
  <2> QED  BY <2>1 DEF StatusMap
<1>5. \A x \in dropped : StatusMap[x] \in {"sleeping", "waiting"}
  BY DEF StatusMap, StatusOf, Queued
<1>6. CASE dropped # {}
  <2>1. Contract!Drop(dropped)
    BY <1>3, <1>4, <1>5, <1>6 DEF Contract!Drop, StatusMap
  <2> QED  BY <2>1 DEF Contract!ContractNext
<1>7. CASE dropped = {}
  <2>1. StatusMap' = StatusMap
    BY <1>4, <1>7 DEF StatusMap
  <2> QED  BY <1>3, <1>7, <2>1 DEF Contract!contractVars, StatusMap, LineMap, AheadMap
<1> QED
  BY <1>6, <1>7

\* A callback that is over and not repeated.
LEMMA CallbackEnds ==
    ASSUME Inv, FinishCancelled \/ FinishClosed \/ FinishOneShot \/ CallbackThrows
    PROVE  \E id \in Ids : Contract!Finish(id)
<1>0. /\ cur \in Ids /\ cur' = 0
      /\ UNCHANGED <<entry, ready, batch>>
      /\ \/ state[cur] = "executing" /\ state' = [state EXCEPT ![cur] = "completed"]
         \/ state[cur] = "cancelled" /\ state' = state
  BY EndCases DEF Inv
<1>c. closed' = closed
  BY DEF FinishCancelled, FinishClosed, FinishOneShot, CallbackThrows, Forget, envVars
<1>1. PICK id \in Ids : id = cur
  BY <1>0
<1>2. /\ state'[id] \in {"completed", "cancelled"}
      /\ \A x \in Ids \ {id} : state'[x] = state[x] /\ (x = cur' <=> x = cur)
  <2>1. state \in [Ids -> State] /\ 0 \notin Ids
    BY WaitingHomes DEF Ids
  <2>2. CASE state[cur] = "executing" /\ state' = [state EXCEPT ![cur] = "completed"]
    BY <1>0, <1>1, <2>1, <2>2
  <2>3. CASE state[cur] = "cancelled" /\ state' = state
    BY <1>0, <1>1, <2>1, <2>3
  <2> QED  BY <1>0, <2>2, <2>3
<1>3. LineMap' = LineMap /\ AheadMap' = AheadMap
  <2>1. \A x \in Ids : state[x] \in Waiting \/ state'[x] \in Waiting =>
             state'[x] = state[x] /\ entry'[x].priority = entry[x].priority
    BY <1>0, <1>1, <1>2 DEF Waiting
  <2> QED  BY <1>0, <2>1, NobodyMoves
<1>4. StatusMap' = [StatusMap EXCEPT ![id] = "done"]
  <2>1. id # cur'
    BY <1>0, <1>1 DEF Ids
  <2>2. StatusOf(id)' = "done"
    BY <1>2, <2>1 DEF StatusOf
  <2> QED  BY <1>2, <2>2, StatusMoves
<1>5. StatusMap[id] \in {"running", "stopping"}
  BY <1>0, <1>1, StatusIs
<1>6. Contract!Finish(id)
  BY <1>c, <1>3, <1>4, <1>5 DEF Contract!Finish, StatusMap, LineMap, AheadMap
<1> QED
  BY <1>6

\* A callback that is over and repeated.
LEMMA CallbackRepeats ==
    ASSUME Inv, FinishRescheduled \/ FinishPeriodic
    PROVE  \E id \in Ids : Contract!Repeat(id)
<1>0. /\ cur \in Ids /\ state[cur] = "executing" /\ cur' = 0 /\ batch' = batch
      /\ \E e \in Entry : Place(cur, e)
  BY RepeatCases DEF Inv
<1>c. ~closed /\ closed' = closed
  BY DEF FinishRescheduled, FinishPeriodic, envVars
<1>1. PICK id \in Ids : id = cur
  BY <1>0
<1>2. PICK e \in Entry : Place(id, e)
  BY <1>0, <1>1
<1>3. \A x \in Ids \ {id} : x = cur' <=> x = cur
  BY <1>0, <1>1 DEF Ids
<1>4. state[id] = "executing" /\ state[id] \notin Waiting \cup {"cancelled"}
  BY <1>0, <1>1 DEF Waiting
<1>5. Contract!Admit(id)
  BY <1>0, <1>c, <1>2, <1>3, <1>4, PlaceAdmits
<1>6. StatusMap[id] = "running"
  BY <1>4, StatusIs
<1>7. Contract!Repeat(id)
  BY <1>5, <1>6 DEF Contract!Repeat, StatusMap
<1> QED
  BY <1>7

\* cancel() drops a task that waits, or stops the one that runs.
LEMMA CancelDrops ==
    ASSUME Inv, CancelCommit
    PROVE  [Contract!ContractNext]_(Contract!contractVars)
<1>1. PICK id \in Ids : id = cancelling
  BY DEF CancelCommit, Inv, TypeOK
<1>2. /\ state' = [state EXCEPT ![id] = "cancelled"]
      /\ UNCHANGED <<entry, ready, batch, cur, closed>>
  BY <1>1 DEF CancelCommit, consumerVars, envVars
<1>3. state[id] \in Queued \cup {"executing"}
  BY <1>1 DEF CancelCommit, Inv, Links
<1>4. state \in [Ids -> State]
  BY WaitingHomes
<1>5. CASE state[id] = "executing"
  <2>1. id = cur
    BY <1>5 DEF Inv, OneHome, Housed
  <2>2. Contract!Stop(cur)
    BY <1>2, <1>5, <2>1, RunningStops
  <2> QED  BY <2>1, <2>2 DEF Contract!ContractNext
<1>6. CASE state[id] \in Queued
  <2>1. state' = [x \in Ids |-> IF x \in {id} THEN "cancelled" ELSE state[x]]
    BY <1>2, <1>4
  <2>2. {id} \in SUBSET Ids /\ \A x \in {id} : state[x] \in Queued
    BY <1>6
  <2> QED  BY <1>2, <2>1, <2>2, WaitersDrop
<1> QED
  BY <1>3, <1>5, <1>6

\* clear_pending() drops everything that waits outside the snapshot.
LEMMA ClearDrops ==
    ASSUME Inv, ClearPending
    PROVE  [Contract!ContractNext]_(Contract!contractVars)
<1> DEFINE inReady == UNION {Elems(ready[p]) : p \in Priority}
           dropped == {x \in inReady : state[x] = "queued_ready"}
                          \cup {x \in Elems(delayed) : state[x] = "queued_delayed"}
<1>1. /\ \A q \in Priority : Elems(ready[q]) \subseteq Ids
      /\ Elems(delayed) \subseteq Ids
  BY ElemsAreIds DEF Inv, TypeOK
<1>2. dropped \in SUBSET Ids /\ \A x \in dropped : state[x] \in Queued
  BY <1>1 DEF Queued
<1>3. \A x \in Ids : state[x] = "queued_ready" => x \in dropped
  BY WaitingHomes
<1>4. /\ state' = [x \in Ids |-> IF x \in dropped THEN "cancelled" ELSE state[x]]
      /\ UNCHANGED <<entry, batch, cur, closed>>
  BY DEF ClearPending, consumerVars, envVars
<1> HIDE DEF dropped
<1> QED
  BY <1>2, <1>3, <1>4, WaitersDrop

\* The contract sees only the states, the priorities, the queues, the snapshot, the
\* running task and whether the manager is closed.
LEMMA LinesStay ==
    ASSUME UNCHANGED <<state, cur, closed>>, LineMap' = LineMap, AheadMap' = AheadMap
    PROVE  UNCHANGED Contract!contractVars
<1>1. StatusMap' = StatusMap
  <2>1. ASSUME NEW x \in Ids PROVE StatusOf(x)' = StatusOf(x)
    BY DEF StatusOf
  <2> QED  BY <2>1 DEF StatusMap
<1> QED
  BY <1>1 DEF Contract!contractVars, StatusMap, LineMap, AheadMap

\* A consumer that only moves on, the clock, and close().
LEMMA IdleKeeps ==
    ASSUME Inv, Idle
    PROVE  [Contract!ContractNext]_(Contract!contractVars)
<1>1. UNCHANGED <<state, entry, ready, batch, cur>>
  BY IdleFrame
<1>2. LineMap' = LineMap /\ AheadMap' = AheadMap
  BY <1>1, NobodyMoves
<1>3. closed' = closed \/ (~closed /\ closed')
  BY DEF Idle, CancelLoad, CancelLost, Notify, Tick, Close, SetExceptionHandler,
         ProcessBegin, PromoteDone, TakeDone, CountStarted, ProcessReturn,
         ExceptionHandled, ExceptionEscapes, Rethrow, ContextReschedule, vars, envVars
<1>4. CASE closed' = closed
  BY <1>1, <1>2, <1>4, LinesStay
<1>5. CASE ~closed /\ closed'
  <2>1. StatusMap' = StatusMap
    <3>1. ASSUME NEW x \in Ids PROVE StatusOf(x)' = StatusOf(x)
      BY <1>1 DEF StatusOf
    <3> QED  BY <3>1 DEF StatusMap
  <2>2. ~closed /\ (~closed)' = FALSE
    BY <1>5
  <2>3. Contract!Shut
    BY <1>2, <2>1, <2>2 DEF Contract!Shut, StatusMap, LineMap, AheadMap
  <2> QED  BY <2>3 DEF Contract!ContractNext
<1> QED
  BY <1>3, <1>4, <1>5

\* Whoever is thrown away was cancelled before, and waits no more.
LEMMA DiscardKeeps ==
    ASSUME Inv, Discard
    PROVE  UNCHANGED Contract!contractVars
<1>f. UNCHANGED <<state, entry, cur, closed>>
  <2>1. closed' = closed
    BY DEF Discard, NextDeadline, PruneTop, TakeSkip, SkipTask, RestoreSkip, envVars
  <2> QED  BY <2>1, DiscardFrame
<1>h. /\ ready \in [Priority -> Seq(Ids)] /\ batch \in Seq(Ids)
  BY WaitingHomes
<1>1. SUFFICES ASSUME
          \A x, y \in Ids : state[x] \in Waiting /\ state[y] \in Waiting =>
              /\ Precedes(batch', x, y) <=> Precedes(batch, x, y)
              /\ \A q \in Priority : Precedes(ready'[q], x, y) <=> Precedes(ready[q], x, y)
               PROVE  UNCHANGED Contract!contractVars
  <2>1. CASE NextDeadline \/ PruneTop
    <3>1. UNCHANGED <<ready, batch>>
      BY <2>1 DEF NextDeadline, PruneTop, consumerVars
    <3> QED  BY <3>1, <1>1
  <2>2. CASE \E p \in Priority : TakeSkip(p)
    <3>1. PICK p \in Priority : TakeSkip(p)
      BY <2>2
    <3>2. /\ ready[p] \in Seq(Ids) /\ ready[p] # <<>> /\ batch' = batch
          /\ state[Head(ready[p])] # "queued_ready"
          /\ ready' = [ready EXCEPT ![p] = Tail(@)]
      BY <1>h, <3>1 DEF TakeSkip, TakesFrom, consumerVars
    <3>3. Head(ready[p]) \in Elems(ready[p]) /\ Head(ready[p]) \in Ids
      BY <3>2, TailElems
    <3>4. state[Head(ready[p])] \notin Waiting
      BY <3>2, <3>3, WaitingHomes DEF Waiting
    <3>5. \A x, y \in Ids : Precedes(ready[p], x, y) <=>
              \/ Precedes(Tail(ready[p]), x, y)
              \/ x = Head(ready[p]) /\ y \in Elems(Tail(ready[p]))
      BY <3>2, PrecedesTail
    <3>6. \A q \in Priority : ready'[q] = IF q = p THEN Tail(ready[p]) ELSE ready[q]
      BY <1>h, <3>2
    <3> QED  BY <3>2, <3>4, <3>5, <3>6, <1>1
  <2>3. CASE SkipTask
    <3>1. /\ batch # <<>> /\ ready' = ready /\ batch' = Tail(batch)
          /\ state[Head(batch)] # "ready_snapshot"
      BY <2>3 DEF SkipTask, queueVars
    <3>2. Head(batch) \in Elems(batch) /\ Head(batch) \in Ids
      BY <1>h, <3>1, TailElems
    <3>3. state[Head(batch)] \notin Waiting
      BY <3>1, <3>2, WaitingHomes DEF Waiting
    <3>4. \A x, y \in Ids : Precedes(batch, x, y) <=>
              Precedes(Tail(batch), x, y) \/ (x = Head(batch) /\ y \in Elems(Tail(batch)))
      BY <1>h, <3>1, PrecedesTail
    <3> QED  BY <3>1, <3>3, <3>4, <1>1
  <2>4. CASE RestoreSkip
    <3> DEFINE front == SubSeq(batch, 1, Len(batch) - 1)
    <3>1. /\ batch # <<>> /\ ready' = ready /\ batch' = front
          /\ state[batch[Len(batch)]] # "ready_snapshot"
      BY <2>4 DEF RestoreSkip, queueVars
    <3>2. /\ batch[Len(batch)] \in Ids /\ Elems(batch) = Elems(front) \cup {batch[Len(batch)]}
      BY <1>h, <3>1, FrontElems
    <3>3. state[batch[Len(batch)]] \notin Waiting
      BY <3>1, <3>2, WaitingHomes DEF Waiting
    <3>4. \A x, y \in Ids : Precedes(batch, x, y) <=>
              Precedes(front, x, y) \/ (x \in Elems(front) /\ y = batch[Len(batch)])
      BY <1>h, <3>1, PrecedesFront
    <3> HIDE DEF front
    <3> QED  BY <3>1, <3>3, <3>4, <1>1
  <2> QED  BY <2>1, <2>2, <2>3, <2>4 DEF Discard
<1>2. LineMap' = LineMap /\ AheadMap' = AheadMap
  <2>1. /\ {} \in SUBSET Ids /\ Ids \ {} = Ids
        /\ \A x \in Ids : entry[x].priority \in Priority
    BY WaitingHomes
  <2>2. \A x, y \in Ids : state[x] = "ready_snapshot" /\ state[y] = "ready_snapshot" =>
             (Precedes(batch', x, y) <=> Precedes(batch, x, y))
    BY <1>1 DEF Waiting
  <2>3. \A x, y \in Ids : state[x] = "queued_ready" /\ state[y] = "queued_ready" =>
             (Precedes(ready'[entry[x].priority], x, y)
                  <=> Precedes(ready[entry[x].priority], x, y))
    BY <1>1, <2>1 DEF Waiting
  <2> QED  BY <1>f, <2>1, <2>2, <2>3, LeaveIs
<1> QED
  BY <1>f, <1>2, LinesStay

\* Every step of the manager is a step of the contract, or none.
LEMMA ContractStep ==
    ASSUME Inv, Inv', [Next]_vars
    PROVE  [Contract!ContractNext]_(Contract!contractVars)
<1>1. CASE Submit
  <2>1. ASSUME NEW p \in Priority, NEW k \in Nat \ {0}, EnqueueReady(p, k)
        PROVE  Contract!ContractNext
    <3>1. nextId \in Ids /\ nextId + k - 1 \in Ids
      BY <2>1, FreshIds DEF EnqueueReady, Accepts
    <3>2. Contract!SubmitMany(p, nextId, nextId + k - 1)
      BY <2>1, BatchJoins
    <3> QED  BY <3>1, <3>2 DEF Contract!ContractNext
  <2>2. ASSUME NEW e \in Entry, EnqueueNew(e) PROVE Contract!ContractNext
    BY <2>2, NewJoins DEF Contract!ContractNext
  <2> QED  BY <1>1, <2>1, <2>2, SubmitCases
<1>2. CASE ContextCancel
  <2>1. /\ cur \in Ids /\ state[cur] = "executing"
        /\ state' = [state EXCEPT ![cur] = "cancelled"]
        /\ UNCHANGED <<entry, ready, batch, cur, closed>>
    BY <1>2 DEF ContextCancel, InCallback, Inv, TypeOK, consumerVars, envVars
  <2>2. Contract!Stop(cur)
    BY <2>1, RunningStops
  <2> QED  BY <2>1, <2>2 DEF Contract!ContractNext
<1>3. CASE (\E p \in Priority : TakeOne(p)) \/ RestoreOne
  <2>1. UNCHANGED <<cur, closed>>
    BY <1>3 DEF TakeOne, RestoreOne, envVars
  <2>2. LineMap' = LineMap /\ AheadMap' = AheadMap
    BY <1>3, TakeOneLines, RestoreOneLines DEF Inv
  <2>3. ASSUME NEW x \in Ids PROVE StatusOf(x)' = StatusOf(x)
    <3>1. PICK id \in Ids : /\ state[id] \in Waiting /\ state'[id] \in Waiting
                            /\ \A y \in Ids \ {id} : state'[y] = state[y]
      <4>1. /\ ready \in [Priority -> Seq(Ids)] /\ batch \in Seq(Ids)
            /\ state \in [Ids -> State]
        BY WaitingHomes
      <4>2. CASE \E p \in Priority : TakeOne(p)
        <5>1. PICK p \in Priority : TakeOne(p)
          BY <4>2
        <5>2. Head(ready[p]) \in Ids
          BY <4>1, <5>1 DEF TakeOne, TakesFrom
        <5> QED  BY <4>1, <5>1, <5>2 DEF TakeOne, Waiting
      <4>3. CASE RestoreOne
        <5>1. batch[Len(batch)] \in Ids
          BY <4>1, <4>3, FrontElems DEF RestoreOne
        <5> QED  BY <4>1, <4>3, <5>1 DEF RestoreOne, Waiting
      <4> QED  BY <1>3, <4>2, <4>3
    <3>2. x = cur' <=> x = cur
      BY <2>1
    <3> QED  BY <3>1, <3>2 DEF StatusOf, Waiting
  <2>4. StatusMap' = StatusMap
    BY <2>3 DEF StatusMap
  <2> QED  BY <2>1, <2>2, <2>4 DEF Contract!contractVars, StatusMap, LineMap, AheadMap
<1>4. CASE PromoteTop
  BY <1>4, PromotionWakes DEF Contract!ContractNext
<1>5. CASE StartTask
  BY <1>5, FirstStarts DEF Contract!ContractNext
<1>6. CASE FinishCancelled \/ FinishClosed \/ FinishOneShot \/ CallbackThrows
  BY <1>6, CallbackEnds DEF Contract!ContractNext
<1>7. CASE FinishRescheduled \/ FinishPeriodic
  BY <1>7, CallbackRepeats DEF Contract!ContractNext
<1> QED
  BY <1>1, <1>2, <1>3, <1>4, <1>5, <1>6, <1>7, NextCases, IdleKeeps, DiscardKeeps,
     CancelDrops, ClearDrops

\* It starts as the contract does.
LEMMA ContractStarts ==
    ASSUME Init
    PROVE  Contract!ContractInit
<1>1. StatusMap = [x \in Ids |-> "new"]
  BY DEF Init, StatusMap, StatusOf
<1>2. LineMap = [p \in Priority |-> {}]
  BY DEF Init, LineMap, LineOf
<1>3. AheadMap = {}
  BY DEF Init, AheadMap, ComesFirst
<1>4. ~closed = TRUE
  BY DEF Init
<1> QED
  BY <1>1, <1>2, <1>3, <1>4 DEF Contract!ContractInit, StatusMap, LineMap, AheadMap

\* TaskManager implements TaskContract: for any number of tasks and producers, it
\* keeps FIFO order inside each priority through snapshots, promotions, restored
\* snapshots and lazy cancellation, starts one task at a time, and runs nothing it
\* has dropped, finished or refused.
THEOREM ContractKept == Spec => KeepsContract
<1>1. Init => Contract!ContractInit
  BY ContractStarts
<1>2. Inv /\ Inv' /\ [Next]_vars => [Contract!ContractNext]_(Contract!contractVars)
  BY ContractStep
<1> QED
  BY <1>1, <1>2, Invariance, PTL DEF Spec, KeepsContract, Contract!ContractSpec
================================================================================
