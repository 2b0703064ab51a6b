---------------------------- MODULE Limits_proofs ----------------------------
(* Proofs about the two limits on outside work, for every value of their      *)
(* constants: ExportLimiter and then LlmCircuitBreaker.  They share no state. *)
EXTENDS ExportLimiter, LlmCircuitBreaker, FiniteSetTheorems, SequenceTheorems, TLAPS

(* The calls in a state are finitely many. *)
LEMMA Countable ==
  ASSUME NEW s
  PROVE  IsFiniteSet(InState(s)) /\ Cardinality(InState(s)) \in Nat
  BY ExportsAssumption, FS_Subset, FS_CardinalityType DEF InState

(* One call enters a state. *)
LEMMA Entering ==
  ASSUME TypeOK, NEW s, NEW c \in Exports, state[c] # s,
         InState(s)' = InState(s) \union {c}
  PROVE  Cardinality(InState(s)') = Cardinality(InState(s)) + 1
<1>1. c \notin InState(s)
  BY DEF InState
<1> QED BY <1>1, Countable, FS_AddElement

(* One call leaves a state. *)
LEMMA Leaving ==
  ASSUME TypeOK, NEW s, NEW c \in Exports, state[c] = s,
         InState(s)' = InState(s) \ {c}
  PROVE  /\ Cardinality(InState(s)') = Cardinality(InState(s)) - 1
         /\ Cardinality(InState(s)) >= 1
<1>1. c \in InState(s)
  BY DEF InState
<1>2. Cardinality(InState(s)') = Cardinality(InState(s)) - 1
  BY <1>1, Countable, FS_RemoveElement
<1>3. Cardinality(InState(s)) # 0
  BY <1>1, Countable, FS_EmptySet
<1> QED BY <1>2, <1>3, Countable

(* A sequence belongs to every set its elements do. *)
LEMMA SeqOfElements ==
  ASSUME NEW S, NEW T, NEW s \in Seq(S), \A i \in 1 .. Len(s) : s[i] \in T
  PROVE  s \in Seq(T)
<1>1. Len(s) \in Nat /\ s \in [1 .. Len(s) -> S]
  BY LenProperties
<1>2. s \in [1 .. Len(s) -> T]
  BY <1>1
<1> QED BY <1>1, <1>2, SeqDef

(* The head of the queue is a waiting call, and only the tail waits after it. *)
LEMMA HeadWaits ==
  ASSUME TypeOK, waiting # <<>>
  PROVE  /\ Head(waiting) \in Exports /\ state[Head(waiting)] = "waiting"
         /\ Tail(waiting) \in Seq(InState("waiting") \ {Head(waiting)})
         /\ Len(Tail(waiting)) = Len(waiting) - 1
         /\ \A i \in DOMAIN Tail(waiting) :
              i + 1 \in DOMAIN waiting /\ Tail(waiting)[i] = waiting[i + 1]
<1>1. /\ Head(waiting) = waiting[1]
      /\ Tail(waiting) \in Seq(InState("waiting"))
      /\ Len(Tail(waiting)) = Len(waiting) - 1
      /\ \A i \in 1 .. Len(Tail(waiting)) : Tail(waiting)[i] = waiting[i + 1]
  BY HeadTailProperties DEF TypeOK
<1>2. Len(waiting) \in Nat \ {0} /\ DOMAIN waiting = 1 .. Len(waiting)
  BY LenProperties, EmptySeq DEF TypeOK
<1>3. Head(waiting) \in InState("waiting")
  BY <1>1, <1>2, ElementOfSeq DEF TypeOK
<1>4. \A i \in 1 .. Len(Tail(waiting)) : Tail(waiting)[i] # waiting[1]
  BY <1>1, <1>2 DEF TypeOK
<1>5. \A i \in 1 .. Len(Tail(waiting)) :
         Tail(waiting)[i] \in InState("waiting") \ {Head(waiting)}
  BY <1>1, <1>4, ElementOfSeq
<1>6. Tail(waiting) \in Seq(InState("waiting") \ {Head(waiting)})
  BY <1>1, <1>5, SeqOfElements
<1>7. DOMAIN Tail(waiting) = 1 .. Len(Tail(waiting))
  BY <1>1, LenProperties
<1> QED BY <1>1, <1>2, <1>3, <1>6, <1>7 DEF InState

(* The queue once the wake at position i is spliced out. *)
LEMMA Spliced ==
  ASSUME TypeOK, NEW i \in DOMAIN waiting, NEW q,
         q = SubSeq(waiting, 1, i - 1) \o SubSeq(waiting, i + 1, Len(waiting))
  PROVE  /\ q \in Seq(InState("waiting") \ {waiting[i]})
         /\ Len(q) = Len(waiting) - 1
         /\ DOMAIN q = 1 .. Len(q)
         /\ \A j \in 1 .. Len(q) :
              q[j] = IF j < i THEN waiting[j] ELSE waiting[j + 1]
<1> DEFINE n == Len(waiting)
           a == SubSeq(waiting, 1, i - 1)
           b == SubSeq(waiting, i + 1, n)
<1>1. n \in Nat /\ DOMAIN waiting = 1 .. n /\ i \in 1 .. n
  BY LenProperties DEF TypeOK
<1>2. \A j \in 1 .. n : waiting[j] \in InState("waiting")
  BY <1>1, ElementOfSeq DEF TypeOK
<1>3. /\ a \in Seq(InState("waiting")) /\ Len(a) = i - 1
      /\ \A j \in 1 .. i - 1 : a[j] = waiting[j]
  BY <1>1, <1>2, SubSeqProperties DEF TypeOK
<1>4. /\ b \in Seq(InState("waiting")) /\ Len(b) = n - i
      /\ \A j \in 1 .. n - i : b[j] = waiting[i + j]
  <2>1. /\ i + 1 \in Int /\ n \in Int
        /\ \A k \in i + 1 .. n : waiting[k] \in InState("waiting")
    BY <1>1, <1>2
  <2>2. /\ b \in Seq(InState("waiting"))
        /\ Len(b) = IF i + 1 <= n THEN n - (i + 1) + 1 ELSE 0
        /\ \A j \in 1 .. n - (i + 1) + 1 : b[j] = waiting[(i + 1) + j - 1]
    BY <2>1, SubSeqProperties
  <2>3. Len(b) = n - i /\ n - (i + 1) + 1 = n - i
    BY <1>1, <2>2
  <2>4. \A j \in 1 .. n - i : (i + 1) + j - 1 = i + j
    BY <1>1
  <2> QED BY <2>2, <2>3, <2>4
<1>5. /\ q \in Seq(InState("waiting")) /\ Len(q) = n - 1
      /\ \A j \in 1 .. n - 1 : q[j] = IF j < i THEN waiting[j] ELSE waiting[j + 1]
  <2>1. q = a \o b
    OBVIOUS
  <2> HIDE DEF a, b, n
  <2>2. /\ a \o b \in Seq(InState("waiting"))
        /\ Len(a \o b) = Len(a) + Len(b)
        /\ \A j \in 1 .. Len(a) + Len(b) :
             (a \o b)[j] = IF j <= Len(a) THEN a[j] ELSE b[j - Len(a)]
    BY <1>3, <1>4, ConcatProperties
  <2>3. Len(a) + Len(b) = n - 1 /\ Len(a) = i - 1
    BY <1>1, <1>3, <1>4
  <2>4. ASSUME NEW j \in 1 .. n - 1
        PROVE  q[j] = IF j < i THEN waiting[j] ELSE waiting[j + 1]
    <3>1. q[j] = IF j <= i - 1 THEN a[j] ELSE b[j - (i - 1)]
      BY <2>1, <2>2, <2>3
    <3>2. CASE j < i
      <4>1. j <= i - 1 /\ j \in 1 .. i - 1
        BY <3>2, <1>1
      <4> QED BY <3>1, <3>2, <4>1, <1>3
    <3>3. CASE ~(j < i)
      <4>1. ~(j <= i - 1) /\ j - (i - 1) \in 1 .. n - i /\ i + (j - (i - 1)) = j + 1
        BY <3>3, <1>1
      <4> QED BY <3>1, <3>3, <4>1, <1>4
    <3> QED BY <3>2, <3>3
  <2> QED BY <2>1, <2>2, <2>3, <2>4
<1>6. ASSUME NEW j \in 1 .. n - 1
      PROVE  q[j] \in InState("waiting") \ {waiting[i]}
  <2>1. PICK k \in 1 .. n : k # i /\ q[j] = waiting[k]
    <3>1. CASE j < i
      <4>1. j \in 1 .. n /\ j # i
        BY <3>1, <1>1
      <4>2. q[j] = waiting[j]
        BY <3>1, <1>5
      <4> QED BY <4>1, <4>2
    <3>2. CASE ~(j < i)
      <4>1. j + 1 \in 1 .. n /\ j + 1 # i
        BY <3>2, <1>1
      <4> QED BY <3>2, <4>1, <1>5
    <3> QED BY <3>1, <3>2
  <2>2. waiting[k] # waiting[i]
    BY <2>1, <1>1 DEF TypeOK
  <2> QED BY <2>1, <2>2, <1>2
<1>7. Len(q) = n - 1 /\ q \in Seq(InState("waiting") \ {waiting[i]})
  <2>1. Len(q) = n - 1
    BY <1>5
  <2>2. \A j \in 1 .. Len(q) : q[j] \in InState("waiting") \ {waiting[i]}
    BY <2>1, <1>6
  <2>3. q \in Seq(InState("waiting"))
    BY <1>5
  <2> DEFINE T == InState("waiting") \ {waiting[i]}
  <2>4. \A j \in 1 .. Len(q) : q[j] \in T
    BY <2>2
  <2> HIDE DEF n, T
  <2>5. q \in Seq(T)
    BY <2>3, <2>4, SeqOfElements
  <2> QED BY <2>1, <2>5 DEF T
<1>8. DOMAIN q = 1 .. Len(q)
  BY <1>7, LenProperties
<1> QED BY <1>5, <1>7, <1>8

(* What each step does to the sets of calls in each state. *)
LEMMA AskMoves ==
  ASSUME TypeOK, NEW c \in Exports, Ask(c)
  PROVE  /\ InState("running")' = InState("running") \union {c}
         /\ InState("waiting")' = InState("waiting") /\ Woken' = Woken
  BY DEF TypeOK, Ask, InState, Woken

LEMMA QueueMoves ==
  ASSUME TypeOK, NEW c \in Exports, Queue(c)
  PROVE  /\ InState("waiting")' = InState("waiting") \union {c}
         /\ InState("running")' = InState("running") /\ Woken' = Woken
  BY DEF TypeOK, Queue, InState, Woken

LEMMA FinishMoves ==
  ASSUME TypeOK, NEW c \in Exports, Finish(c)
  PROVE  /\ InState("running")' = InState("running") \ {c}
         /\ waiting = <<>> =>
              InState("waiting")' = InState("waiting") /\ Woken' = Woken
         /\ waiting # <<>> =>
              /\ InState("waiting")' = InState("waiting") \ {Head(waiting)}
              /\ Woken' = Woken \union {Head(waiting)}
<1>1. CASE waiting = <<>>
  BY <1>1 DEF TypeOK, Finish, InState, Woken
<1>2. CASE waiting # <<>>
  BY <1>2, HeadWaits DEF TypeOK, Finish, InState, Woken
<1> QED BY <1>1, <1>2

LEMMA ResumeMoves ==
  ASSUME TypeOK, NEW c \in Exports, Resume(c)
  PROVE  /\ InState("running")' = InState("running") \union {c}
         /\ InState("waiting")' = InState("waiting") /\ Woken' = Woken \ {c}
  BY DEF TypeOK, Resume, InState, Woken

LEMMA TimeOutMoves ==
  ASSUME TypeOK, NEW c \in Exports, TimeOut(c)
  PROVE  /\ InState("waiting")' = InState("waiting") \ {c}
         /\ InState("running")' = InState("running") /\ Woken' = Woken
  BY DEF TypeOK, TimeOut, InState, Woken

(* The queue and the counter agree with the states of the calls after every   *)
(* step.                                                                    *)
LEMMA TypeStep == TypeOK /\ [Next]_vars => TypeOK'
<1> SUFFICES ASSUME TypeOK, [Next]_vars PROVE TypeOK'
  OBVIOUS
<1>0. /\ Len(waiting) \in Nat /\ DOMAIN waiting = 1 .. Len(waiting)
      /\ running \in Nat
      /\ \A i, j \in 1 .. Len(waiting) : waiting[i] = waiting[j] => i = j
      /\ \A c \in InState("waiting") : \E i \in 1 .. Len(waiting) : waiting[i] = c
  BY LenProperties, Countable DEF TypeOK
<1>1. CASE UNCHANGED vars
  BY <1>1 DEF vars, TypeOK, InState
<1>2. ASSUME NEW c \in Exports, Ask(c) \/ Resume(c)
      PROVE  TypeOK'
  <2>1. /\ InState("running")' = InState("running") \union {c}
        /\ InState("waiting")' = InState("waiting")
        /\ state[c] # "running"
        /\ running' = running + 1 /\ waiting' = waiting
        /\ state' \in [Exports -> {"out", "waiting", "woken", "running"}]
    BY <1>2, AskMoves, ResumeMoves DEF TypeOK, Ask, Resume
  <2>2. Cardinality(InState("running")') = running + 1
    BY <2>1, Entering DEF TypeOK
  <2> QED BY <2>1, <2>2 DEF TypeOK
<1>3. ASSUME NEW c \in Exports, Queue(c)
      PROVE  TypeOK'
  <2>1. /\ InState("waiting")' = InState("waiting") \union {c}
        /\ InState("running")' = InState("running")
        /\ running' = running
        /\ state' \in [Exports -> {"out", "waiting", "woken", "running"}]
    BY <1>3, QueueMoves DEF TypeOK, Queue
  <2>2. waiting \in Seq(InState("waiting")')
    BY <2>1, SeqMonotonic DEF TypeOK
  <2>3. /\ waiting' \in Seq(InState("waiting")')
        /\ Len(waiting') = Len(waiting) + 1
        /\ waiting'[Len(waiting) + 1] = c
        /\ \A i \in 1 .. Len(waiting) : waiting'[i] = waiting[i]
        /\ DOMAIN waiting' = 1 .. Len(waiting) + 1
    BY <1>3, <2>1, <2>2, AppendProperties, LenProperties, <1>0 DEF Queue
  <2>4. \A i \in 1 .. Len(waiting) : waiting[i] # c
    BY <1>3, <1>0, ElementOfSeq DEF TypeOK, Queue, InState
  <2>5. Len(waiting') <= MAX_QUEUED
    BY <1>3, <1>0, <2>3, LimitAssumption DEF Queue
  <2>6. ASSUME NEW d \in InState("waiting")'
        PROVE  \E i \in DOMAIN waiting' : waiting'[i] = d
    <3>1. CASE d = c
      <4>1. Len(waiting) + 1 \in DOMAIN waiting'
        BY <1>0, <2>3
      <4> QED BY <3>1, <4>1, <2>3
    <3>2. CASE d # c
      <4>1. PICK i \in 1 .. Len(waiting) : waiting[i] = d
        BY <3>2, <1>0, <2>1
      <4>2. i \in DOMAIN waiting'
        BY <1>0, <2>3
      <4> QED BY <4>1, <4>2, <2>3
    <3> QED BY <3>1, <3>2
  <2>7. \A i, j \in DOMAIN waiting' : waiting'[i] = waiting'[j] => i = j
    BY <1>0, <2>3, <2>4 DEF TypeOK
  <2> QED BY <2>1, <2>3, <2>5, <2>6, <2>7 DEF TypeOK
<1>4. ASSUME NEW c \in Exports, Finish(c)
      PROVE  TypeOK'
  <2>1. /\ InState("running")' = InState("running") \ {c}
        /\ state[c] = "running" /\ running' = running - 1
    BY <1>4, FinishMoves DEF Finish
  <2>2. running' = Cardinality(InState("running")')
    BY <2>1, Leaving DEF TypeOK
  <2>3. CASE waiting = <<>>
    <3>1. /\ waiting' = waiting /\ InState("waiting")' = InState("waiting")
          /\ state' \in [Exports -> {"out", "waiting", "woken", "running"}]
      BY <1>4, <2>3, FinishMoves DEF TypeOK, Finish
    <3> QED BY <2>2, <3>1 DEF TypeOK
  <2>4. CASE waiting # <<>>
    <3>1. /\ waiting' = Tail(waiting)
          /\ InState("waiting")' = InState("waiting") \ {Head(waiting)}
          /\ state' \in [Exports -> {"out", "waiting", "woken", "running"}]
      BY <1>4, <2>4, FinishMoves, HeadWaits DEF TypeOK, Finish
    <3>2. /\ waiting' \in Seq(InState("waiting")')
          /\ Len(waiting') = Len(waiting) - 1
          /\ DOMAIN waiting' = 1 .. Len(waiting) - 1
          /\ \A i \in 1 .. Len(waiting) - 1 : waiting'[i] = waiting[i + 1]
      BY <2>4, <3>1, HeadWaits, LenProperties
    <3>3. Head(waiting) = waiting[1]
      BY <2>4, HeadTailProperties DEF TypeOK
    <3>4. ASSUME NEW d \in InState("waiting")'
          PROVE  \E i \in DOMAIN waiting' : waiting'[i] = d
      <4>1. PICK i \in 1 .. Len(waiting) : waiting[i] = d
        BY <1>0, <3>1 DEF TypeOK
      <4>2. i # 1
        BY <4>1, <3>1, <3>3
      <4>3. i - 1 \in 1 .. Len(waiting) - 1 /\ waiting'[i - 1] = d
        BY <1>0, <4>1, <4>2, <3>2
      <4> QED BY <4>3, <3>2
    <3>5. ASSUME NEW i \in DOMAIN waiting', NEW j \in DOMAIN waiting',
                 waiting'[i] = waiting'[j]
          PROVE  i = j
      <4>1. i + 1 \in 1 .. Len(waiting) /\ j + 1 \in 1 .. Len(waiting)
            /\ waiting[i + 1] = waiting[j + 1]
        BY <1>0, <3>2, <3>5
      <4>2. i + 1 = j + 1
        BY <1>0, <4>1
      <4> QED BY <1>0, <3>2, <4>2
    <3>6. Len(waiting') <= MAX_QUEUED
      BY <1>0, <3>2, LimitAssumption DEF TypeOK
    <3> QED BY <2>2, <3>1, <3>2, <3>4, <3>5, <3>6 DEF TypeOK
  <2> QED BY <2>3, <2>4
<1>5. ASSUME NEW c \in Exports, TimeOut(c)
      PROVE  TypeOK'
  <2>1. /\ InState("waiting")' = InState("waiting") \ {c}
        /\ InState("running")' = InState("running")
        /\ running' = running
        /\ state' \in [Exports -> {"out", "waiting", "woken", "running"}]
    BY <1>5, TimeOutMoves DEF TypeOK, TimeOut
  <2>2. PICK k \in DOMAIN waiting :
          /\ waiting[k] = c
          /\ waiting' = SubSeq(waiting, 1, k - 1) \o SubSeq(waiting, k + 1, Len(waiting))
    BY <1>5 DEF TimeOut
  <2>3. /\ waiting' \in Seq(InState("waiting")')
        /\ Len(waiting') = Len(waiting) - 1
        /\ DOMAIN waiting' = 1 .. Len(waiting) - 1
        /\ \A j \in 1 .. Len(waiting) - 1 :
             waiting'[j] = IF j < k THEN waiting[j] ELSE waiting[j + 1]
    BY <2>1, <2>2, Spliced
  <2>4. ASSUME NEW d \in InState("waiting")'
        PROVE  \E i \in DOMAIN waiting' : waiting'[i] = d
    <3>1. PICK i \in 1 .. Len(waiting) : waiting[i] = d
      BY <1>0, <2>1 DEF TypeOK
    <3>2. i # k
      BY <3>1, <2>1, <2>2
    <3>3. CASE i < k
      <4>1. i \in 1 .. Len(waiting) - 1 /\ waiting'[i] = d
        BY <1>0, <3>1, <3>3, <2>3
      <4> QED BY <4>1, <2>3
    <3>4. CASE i > k
      <4>1. i - 1 \in 1 .. Len(waiting) - 1 /\ waiting'[i - 1] = d
        BY <1>0, <3>1, <3>4, <2>3
      <4> QED BY <4>1, <2>3
    <3> QED BY <1>0, <3>2, <3>3, <3>4
  <2>5. ASSUME NEW i \in DOMAIN waiting', NEW j \in DOMAIN waiting',
               waiting'[i] = waiting'[j]
        PROVE  i = j
    <3> DEFINE at(l) == IF l < k THEN l ELSE l + 1
    <3>1. at(i) \in 1 .. Len(waiting) /\ at(j) \in 1 .. Len(waiting)
      BY <1>0, <2>3
    <3>2. waiting[at(i)] = waiting[at(j)]
      BY <2>3, <2>5
    <3>3. at(i) = at(j)
      <4> HIDE DEF at
      <4> QED BY <1>0, <3>1, <3>2
    <3> QED BY <1>0, <2>3, <3>3
  <2>6. Len(waiting') <= MAX_QUEUED
    BY <1>0, <2>3, LimitAssumption DEF TypeOK
  <2> QED BY <2>1, <2>3, <2>4, <2>5, <2>6 DEF TypeOK
<1> QED
  BY <1>1, <1>2, <1>3, <1>4, <1>5 DEF Next, Refuse

(* The queue holds exactly the waiting calls, in bounds, and the counter is    *)
(* the number of running calls, whoever barges in or times out.              *)
THEOREM LimiterTypeCorrect == Spec => []TypeOK
<1>1. Init => TypeOK
  <2> SUFFICES ASSUME Init PROVE TypeOK
    OBVIOUS
  <2>1. InState("waiting") = {} /\ InState("running") = {}
    BY DEF Init, InState
  <2>2. waiting = <<>> /\ Len(waiting) = 0 /\ DOMAIN waiting = {}
    BY DEF Init
  <2>3. waiting \in Seq(InState("waiting"))
    BY <2>2, EmptySeq
  <2> QED BY <2>1, <2>2, <2>3, FS_EmptySet, LimitAssumption DEF Init, TypeOK
<1> QED BY <1>1, TypeStep, PTL DEF Spec

(* Slots taken or promised. *)
Claimed == running + Cardinality(Woken)

LEMMA ClaimedSteps ==
  ASSUME TypeOK, NEW c \in Exports
  PROVE  /\ Ask(c) => Claimed' = Claimed + 1
         /\ Finish(c) => Claimed' = IF waiting = <<>> THEN Claimed - 1 ELSE Claimed
         /\ Queue(c) \/ Resume(c) \/ TimeOut(c) => Claimed' = Claimed
         /\ Claimed \in Nat /\ running \in Nat /\ running <= Claimed
<1>0. running \in Nat /\ Cardinality(Woken) \in Nat
  BY Countable DEF TypeOK, Woken
<1>1. ASSUME Ask(c) PROVE Claimed' = Claimed + 1
  <2>1. Woken' = Woken /\ running' = running + 1
    BY <1>1, AskMoves DEF Ask
  <2> QED BY <1>0, <2>1 DEF Claimed
<1>2. ASSUME Finish(c)
      PROVE  Claimed' = IF waiting = <<>> THEN Claimed - 1 ELSE Claimed
  <2>1. CASE waiting = <<>>
    BY <1>0, <1>2, <2>1, FinishMoves DEF Finish, Claimed
  <2>2. CASE waiting # <<>>
    <3>1. Cardinality(Woken') = Cardinality(Woken) + 1
      BY <1>2, <2>2, FinishMoves, HeadWaits, Entering DEF Woken
    <3> QED BY <1>0, <1>2, <2>2, <3>1 DEF Finish, Claimed
  <2> QED BY <2>1, <2>2
<1>3. ASSUME Queue(c) \/ TimeOut(c) PROVE Claimed' = Claimed
  BY <1>3, QueueMoves, TimeOutMoves DEF Queue, TimeOut, Claimed
<1>4. ASSUME Resume(c) PROVE Claimed' = Claimed
  <2>1. /\ Cardinality(Woken') = Cardinality(Woken) - 1
        /\ Cardinality(Woken) >= 1
    BY <1>4, ResumeMoves, Leaving DEF Resume, Woken
  <2> QED BY <1>0, <1>4, <2>1 DEF Resume, Claimed
<1> QED BY <1>0, <1>1, <1>2, <1>3, <1>4 DEF Claimed

(* No wakeup is lost. *)
THEOREM NoLostWakeup == Spec => []NoIdleSlot
<1>1. Init => NoIdleSlot
  BY DEF Init, NoIdleSlot
<1>2. TypeOK /\ NoIdleSlot /\ [Next]_vars => NoIdleSlot'
  <2> SUFFICES ASSUME TypeOK, NoIdleSlot, [Next]_vars, waiting' # <<>>
               PROVE  Claimed' >= MAX_CONCURRENT
    BY DEF NoIdleSlot, Claimed
  <2>0. waiting # <<>> => Claimed >= MAX_CONCURRENT
    BY DEF NoIdleSlot, Claimed
  <2>1. CASE UNCHANGED vars
    BY <2>0, <2>1 DEF vars, Claimed, Woken, InState
  <2>2. ASSUME NEW c \in Exports, Ask(c) PROVE Claimed' >= MAX_CONCURRENT
    <3>1. waiting # <<>>
      BY <2>2 DEF Ask
    <3>2. Claimed' = Claimed + 1 /\ Claimed \in Nat
      BY <2>2, ClaimedSteps
    <3> QED BY <2>0, <3>1, <3>2, LimitAssumption
  <2>3. ASSUME NEW c \in Exports, Finish(c) PROVE Claimed' >= MAX_CONCURRENT
    <3>1. waiting # <<>>
      BY <2>3 DEF Finish
    <3> QED BY <2>0, <2>3, <3>1, ClaimedSteps
  <2>4. ASSUME NEW c \in Exports, Queue(c) PROVE Claimed' >= MAX_CONCURRENT
    <3>1. running >= MAX_CONCURRENT
      BY <2>4 DEF Queue
    <3>2. Claimed' = Claimed /\ Claimed \in Nat /\ running \in Nat /\ running <= Claimed
      BY <2>4, ClaimedSteps
    <3> QED BY <3>1, <3>2, LimitAssumption
  <2>5. ASSUME NEW c \in Exports, Resume(c) \/ TimeOut(c)
        PROVE  Claimed' >= MAX_CONCURRENT
    <3>1. waiting # <<>>
      <4>1. CASE Resume(c)
        BY <4>1 DEF Resume
      <4>2. CASE TimeOut(c)
        <5>1. PICK i \in DOMAIN waiting : TRUE
          BY <4>2 DEF TimeOut
        <5> QED BY <5>1
      <4> QED BY <2>5, <4>1, <4>2
    <3> QED BY <2>0, <2>5, <3>1, ClaimedSteps
  <2> QED BY <2>1, <2>2, <2>3, <2>4, <2>5 DEF Next, Refuse
<1> QED BY <1>1, <1>2, LimiterTypeCorrect, PTL DEF Spec

(* The limiter implements the pool: a finished task hands its slot over to     *)
(* the call it wakes, which arrives at it when its continuation runs.          *)
Holders == InState("running") \union Woken

(* The cardinality that the pool speaks of is the one spoken of here.          *)
LEMMA SameCardinality == \A S : Pool!Cardinality(S) = Cardinality(S)
  BY DEF Pool!Cardinality, Cardinality, Pool!IsFiniteSet, IsFiniteSet

(* Those that hold a slot and have arrived are the ones running counts.        *)
LEMMA ArrivedRun ==
  ASSUME TypeOK
  PROVE  Holders \ Woken = InState("running") /\ Cardinality(Holders \ Woken) = running
  BY DEF TypeOK, Holders, InState, Woken

LEMMA OutsidePool ==
  ASSUME TypeOK, NEW c \in Exports, state[c] = "out"
  PROVE  c \in Pool!Outside
<1>1. c \notin Holders
  BY DEF Holders, InState, Woken
<1>2. \A i \in DOMAIN waiting : waiting[i] # c
  <2>1. \A i \in DOMAIN waiting : waiting[i] \in InState("waiting")
    BY LenProperties, ElementOfSeq DEF TypeOK
  <2> QED BY <2>1 DEF InState
<1> QED BY <1>1, <1>2 DEF Pool!Outside, Holders

LEMMA PoolStep ==
  ASSUME TypeOK, [Next]_vars
  PROVE  [Pool!Next]_(Pool!poolVars)
<1>1. CASE UNCHANGED vars
  BY <1>1 DEF vars, Pool!poolVars, InState, Woken
<1>2. ASSUME NEW c \in Exports, Ask(c) PROVE Pool!Acquire(c) \/ Pool!Overbook(c)
  <2>1. state[c] = "out" /\ running < MAX_CONCURRENT /\ waiting' = waiting
    BY <1>2 DEF Ask
  <2>2. Holders' = Holders \union {c} /\ Woken' = Woken
    BY <1>2, AskMoves DEF Holders
  <2>3. c \in Pool!Outside
    BY <2>1, OutsidePool
  <2>4. Pool!Cardinality(Holders \ Woken) < MAX_CONCURRENT
    BY <2>1, ArrivedRun, SameCardinality
  <2>5. Pool!Cardinality(Holders) < MAX_CONCURRENT \/ Pool!Cardinality(Holders) >= MAX_CONCURRENT
    <3>1. IsFiniteSet(Holders)
      BY Countable, FS_Union DEF Holders, Woken
    <3>2. Cardinality(Holders) \in Nat
      BY <3>1, FS_CardinalityType
    <3> QED BY <3>2, SameCardinality, LimitAssumption
  <2>6. CASE Pool!Cardinality(Holders) < MAX_CONCURRENT
    BY <2>1, <2>2, <2>3, <2>6 DEF Pool!Acquire, Holders
  <2>7. CASE Pool!Cardinality(Holders) >= MAX_CONCURRENT
    BY <2>1, <2>2, <2>3, <2>4, <2>7 DEF Pool!Overbook, Holders
  <2> QED BY <2>5, <2>6, <2>7
<1>3. ASSUME NEW c \in Exports, Queue(c) PROVE Pool!StandInLine(c)
  <2>1. /\ state[c] = "out" /\ running >= MAX_CONCURRENT
        /\ Len(waiting) < MAX_QUEUED /\ waiting' = Append(waiting, c)
    BY <1>3 DEF Queue
  <2>2. Pool!Cardinality(Holders \ Woken) >= MAX_CONCURRENT
    BY <2>1, ArrivedRun, SameCardinality
  <2>3. Holders' = Holders /\ Woken' = Woken
    BY <1>3, QueueMoves DEF Holders
  <2>4. c \in Pool!Outside
    BY <2>1, OutsidePool
  <2> QED BY <2>1, <2>2, <2>3, <2>4 DEF Pool!StandInLine, Holders
<1>4. ASSUME NEW c \in Exports, Finish(c) PROVE Pool!GiveBack(c) \/ Pool!HandOver(c)
  <2>1. state[c] = "running" /\ c \in Holders \ Woken
    BY <1>4 DEF Finish, Holders, Woken, InState
  <2>2. CASE waiting = <<>>
    <3>1. Holders' = Holders \ {c} /\ Woken' = Woken /\ waiting' = waiting
      BY <1>4, <2>1, <2>2, FinishMoves DEF Holders, Finish
    <3> QED BY <2>1, <2>2, <3>1 DEF Pool!GiveBack, Holders
  <2>3. CASE waiting # <<>>
    <3>1. /\ InState("running")' = InState("running") \ {c}
          /\ Woken' = Woken \union {Head(waiting)} /\ waiting' = Tail(waiting)
      BY <1>4, <2>3, FinishMoves DEF Finish
    <3>2. Holders' = (Holders \ {c}) \union {Head(waiting)}
      BY <2>1, <3>1 DEF Holders
    <3> QED BY <2>1, <2>3, <3>1, <3>2 DEF Pool!HandOver, Holders
  <2> QED BY <2>2, <2>3
<1>5. ASSUME NEW c \in Exports, Resume(c) PROVE Pool!Arrive(c)
  <2>1. waiting' = waiting /\ c \in Woken
    BY <1>5 DEF Resume, Woken, InState
  <2>2. Holders' = Holders /\ Woken' = Woken \ {c}
    BY <1>5, <2>1, ResumeMoves DEF Holders
  <2> QED BY <2>1, <2>2 DEF Pool!Arrive, Holders
<1>6. ASSUME NEW c \in Exports, TimeOut(c) PROVE \E i \in DOMAIN waiting : Pool!GiveUp(i)
  <2>1. PICK i \in DOMAIN waiting :
          waiting' = SubSeq(waiting, 1, i - 1) \o SubSeq(waiting, i + 1, Len(waiting))
    BY <1>6 DEF TimeOut
  <2>2. Holders' = Holders /\ Woken' = Woken
    BY <1>6, TimeOutMoves DEF Holders
  <2>3. Pool!GiveUp(i)
    BY <2>1, <2>2 DEF Pool!GiveUp, Pool!Without, Holders
  <2> QED BY <2>3
<1>7. ASSUME NEW c \in Exports, Refuse(c) PROVE UNCHANGED Pool!poolVars
  BY <1>7 DEF Refuse, vars, Pool!poolVars, InState, Woken
<1> QED BY <1>1, <1>2, <1>3, <1>4, <1>5, <1>6, <1>7 DEF Next, Pool!Next

(* The refinement, for any number of calls, slots and places in the queue,     *)
(* whatever comes between a call being woken and its continuation.            *)
THEOREM LimiterIsSlotPool == Spec => IsSlotPool
<1>1. Init => Pool!Init
  BY DEF Init, Pool!Init, InState, Woken
<1>2. TypeOK /\ [Next]_vars => [Pool!Next]_(Pool!poolVars)
  BY PoolStep
<1> QED
  BY <1>1, <1>2, LimiterTypeCorrect, PTL DEF Spec, IsSlotPool, Pool!Spec

-----------------------------------------------------------------------------
(* The circuit breaker. *)

(* A clock that runs down stays in its range. *)
LEMMA SoonerInRange ==
  ASSUME NEW n \in 0 .. OPEN_DURATION
  PROVE  Sooner(n) \in 0 .. OPEN_DURATION
  BY TimeAssumption DEF Sooner

(* Counters and clocks keep their types, and openUntil tells whether the      *)
(* threshold has been reached.                                               *)
THEOREM BreakerTypeCorrect == BreakerSpec => []BreakerTypeOK
<1>1. BreakerInit => BreakerTypeOK
  <2> SUFFICES ASSUME BreakerInit PROVE BreakerTypeOK
    OBVIOUS
  <2>1. consecutiveFailures \in Nat /\ ~(consecutiveFailures >= FAILURE_THRESHOLD)
    BY ThresholdAssumption DEF BreakerInit
  <2>2. stop \in 0 .. OPEN_DURATION
    BY TimeAssumption DEF BreakerInit
  <2> QED BY <2>1, <2>2 DEF BreakerInit, BreakerTypeOK
<1>2. BreakerTypeOK /\ [BreakerNext]_breakerVars => BreakerTypeOK'
  <2> SUFFICES ASSUME BreakerTypeOK, [BreakerNext]_breakerVars PROVE BreakerTypeOK'
    OBVIOUS
  <2>1. CASE UNCHANGED breakerVars
    BY <2>1 DEF breakerVars, BreakerTypeOK
  <2>2. ASSUME NEW c \in Calls, Send(c) PROVE BreakerTypeOK'
    BY <2>2, ThresholdAssumption, TimeAssumption DEF Send, BreakerTypeOK
  <2>3. ASSUME NEW c \in Calls, Succeed(c) PROVE BreakerTypeOK'
    BY <2>3, ThresholdAssumption DEF Succeed, BreakerTypeOK
  <2>4. ASSUME NEW c \in Calls, Fail(c) PROVE BreakerTypeOK'
    <3>1. OPEN_DURATION \in 0 .. OPEN_DURATION /\ OPEN_DURATION # None
      BY TimeAssumption, NoneAssumption
    <3>2. age' \in [Calls -> 0 .. TIMEOUT \union {None}]
      BY <2>4 DEF Fail, BreakerTypeOK
    <3>3. consecutiveFailures' = consecutiveFailures + 1
          /\ consecutiveFailures' \in Nat
      BY <2>4 DEF Fail, BreakerTypeOK
    <3>4. stop' \in 0 .. OPEN_DURATION /\ answered' \in BOOLEAN
      BY <2>4, <3>1 DEF Fail, BreakerTypeOK
    <3>5. CASE consecutiveFailures' >= FAILURE_THRESHOLD
      <4>1. openFor' = OPEN_DURATION
        BY <2>4, <3>5 DEF Fail
      <4> QED BY <3>1, <3>2, <3>3, <3>4, <3>5, <4>1 DEF BreakerTypeOK
    <3>6. CASE ~(consecutiveFailures' >= FAILURE_THRESHOLD)
      <4>1. openFor' = openFor
        BY <2>4, <3>6 DEF Fail
      <4>2. ~(consecutiveFailures >= FAILURE_THRESHOLD)
        BY <3>3, <3>6, ThresholdAssumption DEF BreakerTypeOK
      <4> QED BY <3>2, <3>3, <3>4, <3>6, <4>1, <4>2 DEF BreakerTypeOK
    <3> QED BY <3>5, <3>6
  <2>5. ASSUME NEW c \in Calls, GiveUp(c) PROVE BreakerTypeOK'
    BY <2>5 DEF GiveUp, BreakerTypeOK
  <2>6. CASE Tick
    <3>1. age' \in [Calls -> 0 .. TIMEOUT \union {None}]
      <4>1. ASSUME NEW c \in Calls, age[c] # None
            PROVE  age[c] + 1 \in 0 .. TIMEOUT
        <5>1. age[c] \in 0 .. TIMEOUT /\ age[c] < TIMEOUT
          BY <2>6, <4>1 DEF Tick, BreakerTypeOK, InFlight
        <5> QED BY <5>1, TimeAssumption
      <4> QED BY <2>6, <4>1 DEF Tick
    <3>2. openFor # None => Sooner(openFor) \in 0 .. OPEN_DURATION
      BY SoonerInRange DEF BreakerTypeOK
    <3>3. stop' \in 0 .. OPEN_DURATION
      BY <2>6, SoonerInRange DEF Tick, BreakerTypeOK
    <3>4. /\ openFor' \in 0 .. OPEN_DURATION \union {None}
          /\ openFor' # None <=> openFor # None
      <4>1. CASE openFor = None
        BY <2>6, <4>1 DEF Tick
      <4>2. CASE openFor # None
        <5>1. openFor' = Sooner(openFor)
          BY <2>6, <4>2 DEF Tick
        <5>2. openFor' \in 0 .. OPEN_DURATION /\ openFor' \in Nat
          BY <3>2, <4>2, <5>1
        <5> QED BY <4>2, <5>2, NoneAssumption
      <4> QED BY <4>1, <4>2
    <3> QED BY <2>6, <3>1, <3>3, <3>4 DEF Tick, BreakerTypeOK
  <2> QED BY <2>1, <2>2, <2>3, <2>4, <2>5, <2>6 DEF BreakerNext, Reject, End
<1> QED BY <1>1, <1>2, PTL DEF BreakerSpec

(* The calls in flight are finitely many, at most all. *)
LEMMA FlightCounted ==
  /\ IsFiniteSet(InFlight)
  /\ Cardinality(InFlight) \in Nat /\ Cardinality(Calls) \in Nat
  /\ Cardinality(InFlight) <= Cardinality(Calls)
<1>1. InFlight \subseteq Calls
  BY DEF InFlight
<1> QED BY <1>1, CallsAssumption, FS_Subset, FS_CardinalityType

(* However late the failures arrive, they are counted at most up to the       *)
(* threshold and the calls that were in flight: an open breaker admits none.  *)
THEOREM FailuresStayBounded == BreakerSpec => []FailuresBounded
<1>1. BreakerInit => FailuresBounded
  <2> SUFFICES ASSUME BreakerInit PROVE FailuresBounded
    OBVIOUS
  <2>1. InFlight = {}
    BY DEF BreakerInit, InFlight
  <2> QED BY <2>1, FS_EmptySet, FlightCounted, ThresholdAssumption
          DEF BreakerInit, FailuresBounded
<1>2. BreakerTypeOK /\ FailuresBounded /\ [BreakerNext]_breakerVars => FailuresBounded'
  <2> SUFFICES ASSUME BreakerTypeOK, FailuresBounded, [BreakerNext]_breakerVars
               PROVE  FailuresBounded'
    OBVIOUS
  <2>0. /\ Cardinality(InFlight') \in Nat
        /\ Cardinality(InFlight') <= Cardinality(Calls)
    <3>1. InFlight' \subseteq Calls
      BY DEF InFlight
    <3> QED BY <3>1, CallsAssumption, FS_Subset, FS_CardinalityType
  <2>1. CASE UNCHANGED breakerVars
    BY <2>1 DEF breakerVars, FailuresBounded, InFlight
  <2>2. ASSUME NEW c \in Calls, Send(c) PROVE FailuresBounded'
    <3>1. consecutiveFailures' \in Nat /\ consecutiveFailures' <= FAILURE_THRESHOLD - 1
      BY <2>2, ThresholdAssumption DEF Send, BreakerTypeOK
    <3> QED BY <2>0, <3>1, FlightCounted, ThresholdAssumption DEF FailuresBounded
  <2>3. ASSUME NEW c \in Calls, Succeed(c) PROVE FailuresBounded'
    <3>1. consecutiveFailures' = 0
      BY <2>3 DEF Succeed
    <3> QED BY <2>0, <3>1, FlightCounted, ThresholdAssumption DEF FailuresBounded
  <2>4. ASSUME NEW c \in Calls, Fail(c) \/ GiveUp(c) PROVE FailuresBounded'
    <3>1. InFlight' = InFlight \ {c} /\ c \in InFlight
      BY <2>4 DEF Fail, GiveUp, InFlight, BreakerTypeOK
    <3>2. Cardinality(InFlight') = Cardinality(InFlight) - 1
      BY <3>1, FlightCounted, FS_RemoveElement
    <3>3. /\ consecutiveFailures' <= consecutiveFailures + 1
          /\ consecutiveFailures \in Nat /\ consecutiveFailures' \in Nat
      BY <2>4 DEF Fail, GiveUp, BreakerTypeOK
    <3> QED BY <2>0, <3>2, <3>3, FlightCounted, ThresholdAssumption DEF FailuresBounded
  <2>5. CASE Tick
    <3>1. \A c \in Calls : age[c] # None => age[c] + 1 \in Nat
      BY TimeAssumption DEF BreakerTypeOK
    <3>2. InFlight' = InFlight
      BY <2>5, <3>1, NoneAssumption DEF Tick, InFlight
    <3> QED BY <2>5, <3>2 DEF Tick, FailuresBounded
  <2> QED BY <2>1, <2>2, <2>3, <2>4, <2>5 DEF BreakerNext, Reject, End
<1> QED BY <1>1, <1>2, BreakerTypeCorrect, PTL DEF BreakerSpec

(* The breaker is open at least as long as the stop it promised, unless it    *)
(* was closed by an answer.                                                  *)
WindowCoversStop == stop = 0 \/ answered \/ (openFor # None /\ openFor >= stop)

(* During the promised stop the provider is only called again once a call in  *)
(* flight has been answered.                                                 *)
THEOREM StopHolds == BreakerSpec => StoppedUnlessAnswered
<1>1. BreakerInit => WindowCoversStop
  BY DEF BreakerInit, WindowCoversStop
<1>2. BreakerTypeOK /\ WindowCoversStop /\ [BreakerNext]_breakerVars => WindowCoversStop'
  <2> SUFFICES ASSUME BreakerTypeOK, WindowCoversStop, [BreakerNext]_breakerVars
               PROVE  WindowCoversStop'
    OBVIOUS
  <2>1. CASE UNCHANGED breakerVars
    BY <2>1 DEF breakerVars, WindowCoversStop
  <2>2. ASSUME NEW c \in Calls, Send(c) PROVE WindowCoversStop'
    BY <2>2, TimeAssumption DEF Send, IsOpen, WindowCoversStop, BreakerTypeOK
  <2>3. ASSUME NEW c \in Calls, Succeed(c) PROVE WindowCoversStop'
    BY <2>3 DEF Succeed, WindowCoversStop
  <2>4. ASSUME NEW c \in Calls, Fail(c) PROVE WindowCoversStop'
    <3>1. OPEN_DURATION # None
      BY TimeAssumption, NoneAssumption
    <3>2. CASE consecutiveFailures' >= FAILURE_THRESHOLD
      <4>1. openFor' = OPEN_DURATION
        BY <2>4, <3>2 DEF Fail
      <4>2. stop' <= OPEN_DURATION
        BY <2>4, TimeAssumption DEF Fail, BreakerTypeOK
      <4> QED BY <3>1, <4>1, <4>2, TimeAssumption DEF WindowCoversStop
    <3>3. CASE ~(consecutiveFailures' >= FAILURE_THRESHOLD)
      <4>1. UNCHANGED <<openFor, stop, answered>>
        BY <2>4, <3>3, ThresholdAssumption DEF Fail, BreakerTypeOK
      <4> QED BY <4>1 DEF WindowCoversStop
    <3> QED BY <3>2, <3>3
  <2>5. ASSUME NEW c \in Calls, GiveUp(c) PROVE WindowCoversStop'
    BY <2>5 DEF GiveUp, WindowCoversStop
  <2>6. CASE Tick
    <3>1. stop' = Sooner(stop) /\ answered' = answered
      BY <2>6 DEF Tick
    <3>2. CASE stop = 0 \/ answered
      BY <3>1, <3>2 DEF Sooner, WindowCoversStop
    <3>3. CASE openFor # None /\ openFor >= stop
      <4>1. openFor' = Sooner(openFor) /\ openFor \in Nat /\ stop \in Nat
        BY <2>6, <3>3, TimeAssumption DEF Tick, BreakerTypeOK
      <4>2. openFor' \in Nat /\ openFor' >= stop'
        BY <3>1, <3>3, <4>1 DEF Sooner
      <4> QED BY <4>2, NoneAssumption DEF WindowCoversStop
    <3> QED BY <3>2, <3>3 DEF WindowCoversStop
  <2> QED BY <2>1, <2>2, <2>3, <2>4, <2>5, <2>6 DEF BreakerNext, Reject, End
<1>3. BreakerTypeOK /\ WindowCoversStop /\ [BreakerNext]_breakerVars =>
        [\A c \in Calls : age[c] = None /\ age'[c] # None => stop = 0 \/ answered]_breakerVars
  <2> SUFFICES ASSUME BreakerTypeOK, WindowCoversStop, BreakerNext, NEW c \in Calls,
                      age[c] = None, age'[c] # None
               PROVE  stop = 0 \/ answered
    OBVIOUS
  <2>1. \E d \in Calls : Send(d)
    <3>1. ASSUME NEW d \in Calls, Succeed(d) \/ Fail(d) \/ GiveUp(d)
          PROVE  age'[c] = None
      BY <3>1 DEF Succeed, Fail, GiveUp, BreakerTypeOK
    <3>2. CASE Tick
      BY <3>2 DEF Tick
    <3>3. ASSUME NEW d \in Calls, Reject(d)
          PROVE  age'[c] = None
      BY <3>3 DEF Reject, breakerVars
    <3> QED BY <3>1, <3>2, <3>3 DEF BreakerNext, End
  <2>2. openFor = None \/ openFor = 0
    BY <2>1, TimeAssumption DEF Send, IsOpen, BreakerTypeOK
  <2> QED BY <2>2, TimeAssumption DEF WindowCoversStop, BreakerTypeOK
<1> QED BY <1>1, <1>2, <1>3, BreakerTypeCorrect, PTL DEF BreakerSpec, StoppedUnlessAnswered

=============================================================================
