------------------------- MODULE ExecutionGate_proofs -------------------------
(***************************************************************************)
(* Theorems about ExecutionGate, for every set of requests, length of a    *)
(* minute and set of caps: the queue's invariant, that a waiter is never   *)
(* left without a timer, and that both caps and the order are kept.        *)
(***************************************************************************)
EXTENDS ExecutionGate, SumTheorems, SequenceTheorems

-----------------------------------------------------------------------------
(* The numbers a dispatch computes. *)

\* A set of numbers in an interval has a least one.
LEMMA LeastExists ==
  ASSUME NEW a \in Int, NEW b \in Int, NEW T, T \subseteq a..b, T # {}
  PROVE  Min(T) \in T /\ \A y \in T : Min(T) <= y
BY LeastNumber DEF Min

LEMMA LeastOfThree ==
  ASSUME NEW a \in Int, NEW b \in Int, NEW c \in Int
  PROVE  /\ Min({a, b, c}) \in {a, b, c}
         /\ Min({a, b, c}) <= a /\ Min({a, b, c}) <= b /\ Min({a, b, c}) <= c
<1>1. \E x \in {a, b, c} : \A y \in {a, b, c} : x <= y
  OBVIOUS
<1> QED
  BY <1>1 DEF Min

LEMMA AtLeastNone ==
  ASSUME NEW a \in Int
  PROVE  Max({0, a}) = IF a > 0 THEN a ELSE 0
<1>1. \E x \in {0, a} : \A y \in {0, a} : x >= y
  OBVIOUS
<1> QED
  BY <1>1 DEF Max

\* Any set of requests is finite, and so are those started in a dispatch.
LEMMA RequestsCount ==
  ASSUME NEW S, S \subseteq Requests
  PROVE  IsFiniteSet(S) /\ Cardinality(S) \in Nat
BY GateAssumption, FS_Subset, FS_CardinalityType

LEMMA StartsCount ==
  ASSUME NEW q \in Seq(Requests), NEW n \in 0..Len(q)
  PROVE  Starts(q, n) \subseteq Requests /\ Cardinality(Starts(q, n)) <= n
<1> DEFINE f == [i \in 1..n |-> q[i]]
<1>1. Len(q) \in Nat /\ \A i \in 1..n : q[i] \in Requests
  BY ElementOfSeq, LenProperties
<1>2. f \in Surjection(1..n, Starts(q, n))
  BY DEF Surjection, Starts
<1>3. IsFiniteSet(1..n) /\ Cardinality(1..n) = n
  BY <1>1, FS_Interval
<1> HIDE DEF f
<1>4. Cardinality(Starts(q, n)) <= n
  BY <1>2, <1>3, FS_Surjection
<1> QED
  BY <1>1, <1>4 DEF Starts

\* How many a dispatch starts: no more than either budget has left, and either
\* all that wait or one budget is used up.
LEMMA StartableBounds ==
  ASSUME NEW q \in Seq(Requests), NEW R, R \subseteq Requests, NEW p \in Policies,
         age \in [Requests -> -1..Minute + 1]
  PROVE  LET n == Startable(q, R, p)
             w == Cardinality(Window(age))
         IN  /\ n \in 0..Len(q)
             /\ w \in Nat /\ Free(R, p) \in Int /\ p.rate \in Nat
             /\ n > 0 => n <= Free(R, p) /\ n + w <= p.rate
             /\ n = Len(q) \/ n >= Free(R, p) \/ n + w >= p.rate
<1>1. Cardinality(Window(age)) \in Nat /\ Cardinality(R) \in Nat
  BY RequestsCount DEF Window, Started
<1>2. p.cap \in Nat /\ p.rate \in Nat /\ Len(q) \in Nat
  BY GateAssumption, LenProperties
<1> DEFINE a == Len(q)
           b == Free(R, p)
           c == p.rate - Cardinality(Window(age))
           m == Min({a, b, c})
<1>3. a \in Int /\ b \in Int /\ c \in Int
  BY <1>1, <1>2 DEF Free
<1>4. Startable(q, R, p) = Max({0, m})
  BY DEF Startable
<1>5. m \in {a, b, c} /\ m <= a /\ m <= b /\ m <= c
  <2> HIDE DEF a, b, c
  <2> QED
    BY <1>3, LeastOfThree
<1>6. Startable(q, R, p) = IF m > 0 THEN m ELSE 0
  <2>1. m \in Int
    BY <1>3, <1>5
  <2> HIDE DEF m
  <2> QED
    BY <1>4, <2>1, AtLeastNone
<1> HIDE DEF m
<1> QED
  BY <1>1, <1>2, <1>3, <1>5, <1>6

-----------------------------------------------------------------------------
(* A dispatch, whatever it is called for. *)

\* What a dispatch may be called with.
Dispatchable(q, R, p) ==
  /\ q \in Seq(Requests) /\ IsInjective(q)
  /\ R \subseteq Started(age) /\ ToSet(q) \cap Started(age) = {}
  /\ age \in [Requests -> -1..Minute + 1]
  /\ p \in Policies

LEMMA DispatchFacts ==
  ASSUME NEW q, NEW R, NEW p, Dispatchable(q, R, p), Dispatch(q, R, p)
  PROVE  LET n == Startable(q, R, p)
             S == Starts(q, n)
         IN  /\ waiters' \in Seq(Requests) /\ Len(waiters') = Len(q) - n
             /\ \A i \in 1..Len(q) - n : waiters'[i] = q[n + i]
             /\ running' = R \cup S
             /\ age' \in [Requests -> -1..Minute + 1]
             /\ Started(age') = Started(age) \cup S
             /\ Window(age') = Window(age) \cup S
             /\ S \subseteq Requests /\ Cardinality(S) <= n /\ Cardinality(S) \in Nat
<1> DEFINE n == Startable(q, R, p)
           S == Starts(q, n)
<1>1. R \subseteq Requests
  BY DEF Dispatchable, Started
<1>2. n \in 0..Len(q) /\ Len(q) \in Nat
  BY <1>1, StartableBounds, LenProperties DEF Dispatchable
<1>3. S \subseteq Requests /\ Cardinality(S) <= n
  BY <1>2, StartsCount DEF Dispatchable
<1>4. Cardinality(S) \in Nat
  BY <1>3, RequestsCount
<1>5. /\ waiters' = SubSeq(q, n + 1, Len(q))
      /\ running' = R \cup S
      /\ age' = [r \in Requests |-> IF r \in S THEN 0 ELSE age[r]]
  BY DEF Dispatch
<1> HIDE DEF n
<1>6. /\ waiters' \in Seq(Requests) /\ Len(waiters') = Len(q) - n
      /\ \A i \in 1..Len(q) - n : waiters'[i] = q[n + i]
  <2>1. \A i \in n + 1..Len(q) : q[i] \in Requests
    BY <1>2, ElementOfSeq DEF Dispatchable
  <2>2. /\ waiters' \in Seq(Requests)
        /\ Len(waiters') = IF n + 1 <= Len(q) THEN Len(q) - (n + 1) + 1 ELSE 0
        /\ \A i \in 1..Len(q) - (n + 1) + 1 : waiters'[i] = q[n + 1 + i - 1]
    BY <1>2, <1>5, <2>1, SubSeqProperties
  <2> QED
    BY <1>2, <2>2
<1> HIDE DEF S
<1>7. Minute \in Nat
  BY GateAssumption
<1>8. /\ age' \in [Requests -> -1..Minute + 1]
      /\ Started(age') = Started(age) \cup S
      /\ Window(age') = Window(age) \cup S
  BY <1>3, <1>5, <1>7 DEF Dispatchable, Started, Window
<1> QED
  BY <1>3, <1>4, <1>5, <1>6, <1>8 DEF n, S

LEMMA DispatchWaiting ==
  ASSUME NEW q, NEW R, NEW p, Dispatchable(q, R, p), Dispatch(q, R, p)
  PROVE  /\ IsInjective(waiters') /\ ToSet(waiters') \subseteq ToSet(q)
         /\ ToSet(waiters') \cap Started(age') = {}
<1> DEFINE n == Startable(q, R, p)
<1>1. n \in 0..Len(q) /\ Len(q) \in Nat
  BY StartableBounds, LenProperties DEF Dispatchable, Started
<1>2. /\ waiters' \in Seq(Requests) /\ Len(waiters') = Len(q) - n
      /\ \A i \in 1..Len(q) - n : waiters'[i] = q[n + i]
      /\ Started(age') = Started(age) \cup Starts(q, n)
  BY DispatchFacts
<1>3. DOMAIN waiters' = 1..Len(q) - n /\ DOMAIN q = 1..Len(q)
  BY <1>2, LenProperties DEF Dispatchable
<1>4. \A i, j \in 1..Len(q) : q[i] = q[j] => i = j
  BY <1>3 DEF Dispatchable, IsInjective
<1> HIDE DEF n
<1>5. IsInjective(waiters')
  BY <1>1, <1>2, <1>3, <1>4 DEF IsInjective
<1>6. \A i \in 1..Len(q) - n : n + i \in 1..Len(q) /\ n + i > n
  BY <1>1
<1>7. ToSet(waiters') \subseteq ToSet(q)
  BY <1>2, <1>3, <1>6 DEF ToSet
<1>8. ToSet(waiters') \cap Starts(q, n) = {}
  <2> SUFFICES ASSUME NEW i \in 1..Len(q) - n, NEW k \in 1..n, waiters'[i] = q[k]
               PROVE  FALSE
    BY <1>3 DEF ToSet, Starts
  <2> QED
    BY <1>1, <1>2, <1>4, <1>6
<1> QED
  BY <1>2, <1>5, <1>7, <1>8 DEF Dispatchable

\* The timer set at the end: due when the oldest start leaves the window.
LEMMA DispatchTimer ==
  ASSUME NEW q, NEW R, NEW p, Dispatchable(q, R, p), Dispatch(q, R, p), policy' = p
  PROVE  timer' \in {NoTimer} \cup 0..Minute + 1 /\ TimerInv'
<1> DEFINE n == Startable(q, R, p)
           S == Starts(q, n)
           W == Window(age')
<1>0. Minute \in Nat /\ p.rate \in Nat \ {0} /\ p.cap \in Nat
  BY GateAssumption DEF Dispatchable
<1>1. /\ n \in 0..Len(q) /\ Len(q) \in Nat
      /\ Cardinality(Window(age)) \in Nat /\ Free(R, p) \in Int
      /\ n = Len(q) \/ n >= Free(R, p) \/ n + Cardinality(Window(age)) >= p.rate
  BY StartableBounds, LenProperties DEF Dispatchable, Started
<1>2. /\ waiters' \in Seq(Requests) /\ Len(waiters') = Len(q) - n
      /\ running' = R \cup S
      /\ age' \in [Requests -> -1..Minute + 1]
      /\ W = Window(age) \cup S
      /\ S \subseteq Requests
  BY DispatchFacts
<1>3. timer' = Rearmed(waiters', running', p, age')
  BY DEF Dispatch
<1>4. S \cap Started(age) = {} /\ Cardinality(S) = n
  <2> DEFINE f == [i \in 1..n |-> q[i]]
  <2>1. DOMAIN q = 1..Len(q) /\ \A i \in 1..Len(q) : q[i] \in ToSet(q)
    BY LenProperties DEF Dispatchable, ToSet
  <2>2. S \subseteq ToSet(q)
    BY <1>1, <2>1 DEF Starts
  <2>3. f \in Bijection(1..n, S)
    <3>1. \A i, j \in 1..n : q[i] = q[j] => i = j
      BY <1>1, <2>1 DEF Dispatchable, IsInjective
    <3> HIDE DEF n
    <3> QED
      BY <3>1 DEF Bijection, Injection, Surjection, Starts, IsInjective
  <2>4. IsFiniteSet(1..n) /\ Cardinality(1..n) = n
    BY <1>1, FS_Interval
  <2>5. ExistsBijection(1..n, S)
    BY <2>3 DEF ExistsBijection
  <2> HIDE DEF n, S
  <2>6. Cardinality(S) = n
    BY <2>4, <2>5, FS_Bijection
  <2> QED
    BY <2>2, <2>6 DEF Dispatchable
<1>5. Window(age) \subseteq Started(age) /\ R \subseteq Started(age) /\ Started(age) \subseteq Requests
  BY DEF Window, Started, Dispatchable
<1> HIDE DEF n, S, W
<1>6. /\ Cardinality(W) = Cardinality(Window(age)) + n
      /\ Cardinality(running') = Cardinality(R) + n
      /\ Cardinality(R) \in Nat
  <2>1. \A T \in SUBSET Requests : IsFiniteSet(T) /\ Cardinality(T) \in Nat
    BY RequestsCount
  <2>2. Window(age) \cap S = {} /\ R \cap S = {}
    BY <1>4, <1>5
  <2>3. Window(age) \in SUBSET Requests /\ R \in SUBSET Requests /\ S \in SUBSET Requests
    BY <1>2, <1>5
  <2>4. Cardinality(Window(age) \cup S) = Cardinality(Window(age)) + Cardinality(S) - Cardinality({})
    BY <2>1, <2>2, <2>3, FS_Union
  <2>5. Cardinality(R \cup S) = Cardinality(R) + Cardinality(S) - Cardinality({})
    BY <2>1, <2>2, <2>3, FS_Union
  <2>6. Cardinality({}) = 0
    BY FS_EmptySet
  <2> QED
    BY <1>1, <1>2, <1>4, <2>1, <2>3, <2>4, <2>5, <2>6
<1>7. CASE waiters' # <<>> /\ Free(running', p) > 0
  <2>1. Len(waiters') > 0
    BY <1>2, <1>7, EmptySeq
  <2>2. Cardinality(W) >= p.rate
    <3>1. Free(running', p) = Free(R, p) - n
      BY <1>0, <1>1, <1>6 DEF Free
    <3>2. n < Len(q) /\ n < Free(R, p)
      BY <1>1, <1>2, <1>7, <2>1, <3>1
    <3>3. n + Cardinality(Window(age)) >= p.rate
      BY <1>1, <3>2
    <3> QED
      BY <1>1, <1>6, <3>3
  <2>3. W # {}
    BY <1>0, <2>2, FS_EmptySet
  <2>4. \A r \in W : age'[r] \in 0..Minute
    BY <1>0, <1>2 DEF W, Window, Started
  <2> DEFINE left(r) == Minute + 1 - age'[r]
             T == {left(r) : r \in W}
  <2>5. \A r \in W : left(r) \in 1..Minute + 1
    BY <1>0, <2>4
  <2>6. timer' = Min(T)
    BY <1>3, <1>7 DEF Rearmed, WakeAt, W
  <2> HIDE DEF left
  <2>7. T \subseteq 1..Minute + 1 /\ T # {}
    BY <2>3, <2>5
  <2>8. timer' \in T /\ \A y \in T : timer' <= y
    <3>1. 1 \in Int /\ Minute + 1 \in Int
      BY <1>0
    <3> HIDE DEF T
    <3> QED
      BY <2>6, <2>7, <3>1, LeastExists
  <2>9. timer' \in 1..Minute + 1 /\ \A r \in W : timer' <= left(r)
    BY <2>7, <2>8
  <2> QED
    BY <1>0, <2>2, <2>9 DEF TimerInv, NoTimer, W, left
<1>8. CASE ~(waiters' # <<>> /\ Free(running', p) > 0)
  <2>1. timer' = NoTimer
    BY <1>3, <1>8 DEF Rearmed
  <2>2. ~(waiters' # <<>> /\ Cardinality(running') < p.cap)
    BY <1>0, <1>1, <1>6, <1>8 DEF Free
  <2> QED
    BY <2>1, <2>2 DEF TimerInv
<1> QED
  BY <1>7, <1>8

-----------------------------------------------------------------------------
(* Each operation calls it with a queue it may be called with. *)

\* The next state of an operation that ends with a dispatch of q and R.
LEMMA DispatchTypes ==
  ASSUME TypeOK, NEW q, NEW R, NEW p, Dispatchable(q, R, p), Dispatch(q, R, p),
         policy' = p, over' \subseteq Requests,
         ToSet(q) \cap over' = {}, (R \cup ToSet(q)) \cap over' = {}
  PROVE  TypeOK' /\ TimerInv'
<1> DEFINE n == Startable(q, R, p)
           S == Starts(q, n)
<1>1. /\ waiters' \in Seq(Requests)
      /\ running' = R \cup S
      /\ age' \in [Requests -> -1..Minute + 1]
      /\ Started(age') = Started(age) \cup S
  BY DispatchFacts
<1>2. /\ IsInjective(waiters') /\ ToSet(waiters') \subseteq ToSet(q)
      /\ ToSet(waiters') \cap Started(age') = {}
  BY DispatchWaiting
<1>3. timer' \in {NoTimer} \cup 0..Minute + 1 /\ TimerInv'
  BY DispatchTimer
<1>4. S \subseteq ToSet(q)
  <2>1. n \in 0..Len(q) /\ Len(q) \in Nat /\ DOMAIN q = 1..Len(q)
    BY StartableBounds, LenProperties DEF Dispatchable, Started
  <2> HIDE DEF n
  <2> QED
    BY <2>1 DEF Starts, ToSet
<1> HIDE DEF n, S
<1> QED
  BY <1>1, <1>2, <1>3, <1>4 DEF TypeOK, Dispatchable, Waiting

LEMMA WaitersAre ==
  ASSUME TypeOK
  PROVE  /\ Len(waiters) \in Nat /\ DOMAIN waiters = 1..Len(waiters)
         /\ \A i \in 1..Len(waiters) : waiters[i] \in Requests /\ waiters[i] \in Waiting
         /\ \A i, j \in 1..Len(waiters) : waiters[i] = waiters[j] => i = j
         /\ Waiting = {waiters[i] : i \in 1..Len(waiters)}
<1>1. Len(waiters) \in Nat /\ DOMAIN waiters = 1..Len(waiters)
  BY LenProperties DEF TypeOK
<1>2. \A i \in 1..Len(waiters) : waiters[i] \in Requests
  BY ElementOfSeq DEF TypeOK
<1> QED
  BY <1>1, <1>2 DEF TypeOK, IsInjective, Waiting, ToSet

\* The queue with one more request at its end.
LEMMA RunQueue ==
  ASSUME TypeOK, NEW r \in Requests, r \notin Waiting \cup Started(age) \cup over
  PROVE  LET q == Append(waiters, r)
         IN  /\ Dispatchable(q, running, policy)
             /\ ToSet(q) = Waiting \cup {r}
             /\ Len(q) = Len(waiters) + 1 /\ \A i \in 1..Len(waiters) : q[i] = waiters[i]
<1> DEFINE q == Append(waiters, r)
           n == Len(waiters)
<1>1. /\ q \in Seq(Requests) /\ Len(q) = n + 1
      /\ \A i \in 1..n : q[i] = waiters[i]
      /\ q[n + 1] = r
  BY AppendProperties DEF TypeOK
<1>2. n \in Nat /\ DOMAIN q = 1..n + 1
  BY <1>1, LenProperties DEF TypeOK
<1> HIDE DEF q, n
<1>3. \A i \in 1..n : waiters[i] \in Waiting /\ waiters[i] # r
  BY WaitersAre DEF n
<1>4. \A i, j \in 1..n : waiters[i] = waiters[j] => i = j
  BY WaitersAre DEF n
<1>5. 1..n + 1 = (1..n) \cup {n + 1} /\ n + 1 \notin 1..n
  BY <1>2
<1>6. IsInjective(q)
  BY <1>1, <1>2, <1>3, <1>4, <1>5 DEF IsInjective
<1>7. Waiting = {waiters[i] : i \in 1..n}
  BY WaitersAre DEF n
<1>8. ToSet(q) = Waiting \cup {r}
  BY <1>1, <1>2, <1>5, <1>7 DEF ToSet
<1>9. Dispatchable(q, running, policy)
  BY <1>1, <1>6, <1>8 DEF TypeOK, Dispatchable
<1> QED
  BY <1>1, <1>8, <1>9 DEF q, n

\* The queue without the request at i.
LEMMA CancelQueue ==
  ASSUME TypeOK, NEW i \in DOMAIN waiters
  PROVE  LET q == RemoveAt(waiters, i)
         IN  /\ Dispatchable(q, running, policy)
             /\ ToSet(q) = Waiting \ {waiters[i]}
             /\ Len(q) = Len(waiters) - 1
             /\ \A k \in 1..Len(waiters) - 1 : q[k] = IF k < i THEN waiters[k] ELSE waiters[k + 1]
<1> DEFINE q == RemoveAt(waiters, i)
           n == Len(waiters)
           a == SubSeq(waiters, 1, i - 1)
           b == SubSeq(waiters, i + 1, n)
<1>1. n \in Nat /\ i \in 1..n /\ \A k \in 1..n : waiters[k] \in Requests /\ waiters[k] \in Waiting
  BY WaitersAre
<1>2. /\ a \in Seq(Requests) /\ Len(a) = i - 1
      /\ \A k \in 1..i - 1 : a[k] = waiters[k]
  <2>1. \A k \in 1..i - 1 : waiters[k] \in Requests
    BY <1>1
  <2>2. /\ a \in Seq(Requests) /\ Len(a) = IF 1 <= i - 1 THEN i - 1 - 1 + 1 ELSE 0
        /\ \A k \in 1..i - 1 - 1 + 1 : a[k] = waiters[1 + k - 1]
    BY <1>1, <2>1, SubSeqProperties
  <2> QED
    BY <1>1, <2>2
<1>3. /\ b \in Seq(Requests) /\ Len(b) = n - i
      /\ \A k \in 1..n - i : b[k] = waiters[i + k]
  <2>1. \A k \in i + 1..n : waiters[k] \in Requests
    BY <1>1
  <2>2. /\ b \in Seq(Requests) /\ Len(b) = IF i + 1 <= n THEN n - (i + 1) + 1 ELSE 0
        /\ \A k \in 1..n - (i + 1) + 1 : b[k] = waiters[i + 1 + k - 1]
    BY <1>1, <2>1, SubSeqProperties
  <2> QED
    BY <1>1, <2>2
<1>4. q = a \o b
  BY DEF RemoveAt
<1> HIDE DEF a, b, q
<1>5. /\ q \in Seq(Requests) /\ Len(q) = n - 1
      /\ \A k \in 1..n - 1 : q[k] = IF k < i THEN waiters[k] ELSE waiters[k + 1]
  <2>1. /\ q \in Seq(Requests) /\ Len(q) = Len(a) + Len(b)
        /\ \A k \in 1..Len(a) + Len(b) : q[k] = IF k <= Len(a) THEN a[k] ELSE b[k - Len(a)]
    BY <1>2, <1>3, <1>4, ConcatProperties
  <2>2. Len(a) + Len(b) = n - 1
    BY <1>1, <1>2, <1>3
  <2> HIDE DEF n
  <2>3. ASSUME NEW k \in 1..n - 1
        PROVE  q[k] = IF k < i THEN waiters[k] ELSE waiters[k + 1]
    <3>1. CASE k < i
      BY <1>1, <1>2, <2>1, <2>2, <3>1
    <3>2. CASE k >= i
      <4>1. k - Len(a) \in 1..n - i /\ i + (k - Len(a)) = k + 1 /\ ~(k <= Len(a))
        BY <1>1, <1>2, <3>2
      <4>2. q[k] = b[k - Len(a)]
        BY <2>1, <2>2, <4>1
      <4>3. b[k - Len(a)] = waiters[k + 1]
        BY <1>3, <4>1
      <4> QED
        BY <1>1, <3>2, <4>2, <4>3
    <3> QED
      BY <1>1, <3>1, <3>2
  <2> QED
    BY <2>1, <2>2, <2>3
<1>6. DOMAIN q = 1..n - 1
  BY <1>5, LenProperties
<1>7. \A k, l \in 1..n : waiters[k] = waiters[l] => k = l
  BY WaitersAre
<1> HIDE DEF n
<1>8. \A k \in 1..n - 1 : \E l \in 1..n : q[k] = waiters[l] /\ l # i /\ l = IF k < i THEN k ELSE k + 1
  BY <1>1, <1>5
<1>9. IsInjective(q)
  <2>1. ASSUME NEW k \in 1..n - 1, NEW m \in 1..n - 1, q[k] = q[m]
        PROVE  k = m
    <3>1. PICK x \in 1..n : q[k] = waiters[x] /\ x # i /\ x = IF k < i THEN k ELSE k + 1
      BY <1>8
    <3>2. PICK y \in 1..n : q[m] = waiters[y] /\ y # i /\ y = IF m < i THEN m ELSE m + 1
      BY <1>8
    <3>3. x = y
      BY <1>7, <2>1, <3>1, <3>2
    <3> QED
      BY <1>1, <3>1, <3>2, <3>3
  <2> QED
    BY <1>6, <2>1 DEF IsInjective
<1>10. ToSet(q) = Waiting \ {waiters[i]}
  <2>1. ToSet(q) \subseteq Waiting \ {waiters[i]}
    BY <1>1, <1>6, <1>7, <1>8 DEF ToSet
  <2>2. ASSUME NEW l \in 1..n, l # i
        PROVE  waiters[l] \in ToSet(q)
    <3>1. CASE l < i
      BY <1>1, <1>5, <1>6, <3>1 DEF ToSet
    <3>2. CASE l > i
      <4>1. l - 1 \in 1..n - 1 /\ q[l - 1] = waiters[l]
        BY <1>1, <1>5, <3>2
      <4> QED
        BY <1>6, <4>1 DEF ToSet
    <3> QED
      BY <1>1, <2>2, <3>1, <3>2
  <2>3. Waiting = {waiters[l] : l \in 1..n}
    BY WaitersAre DEF n
  <2> QED
    BY <2>1, <2>2, <2>3
<1>11. Dispatchable(q, running, policy)
  BY <1>5, <1>9, <1>10 DEF TypeOK, Dispatchable
<1> QED
  BY <1>5, <1>10, <1>11 DEF q, n

\* The queue as it is, with all or some of the calls that are out.
LEMMA SameQueue ==
  ASSUME TypeOK, NEW R, R \subseteq running, NEW p \in Policies
  PROVE  Dispatchable(waiters, R, p)
BY DEF TypeOK, Dispatchable, Waiting

-----------------------------------------------------------------------------
(* The invariant. *)

LEMMA InvInit == Init => IInv
<1> SUFFICES ASSUME Init PROVE IInv
  OBVIOUS
<1>1. waiters \in Seq(Requests) /\ DOMAIN waiters = {}
  BY EmptySeq DEF Init
<1>2. Minute \in Nat
  BY GateAssumption
<1> QED
  BY <1>1, <1>2 DEF Init, IInv, TypeOK, TimerInv, Started, Waiting, ToSet, IsInjective, NoTimer

LEMMA TickStep ==
  ASSUME IInv, Tick
  PROVE  IInv'
<1>0. Minute \in Nat \ {0}
  BY GateAssumption
<1>1. age \in [Requests -> -1..Minute + 1] /\ timer \in {NoTimer} \cup 0..Minute + 1
  BY DEF IInv, TypeOK
<1>2. /\ age' = [r \in Requests |-> IF age[r] \in 0..Minute THEN age[r] + 1 ELSE age[r]]
      /\ timer' = IF timer > 0 THEN timer - 1 ELSE timer
      /\ UNCHANGED <<policy, waiters, running, over>>
  BY DEF Tick
<1>3. age' \in [Requests -> -1..Minute + 1] /\ timer' \in {NoTimer} \cup 0..Minute + 1
  BY <1>0, <1>1, <1>2 DEF NoTimer
<1>4. Started(age') = Started(age)
  BY <1>0, <1>1, <1>2 DEF Started
<1>5. TypeOK'
  BY <1>2, <1>3, <1>4 DEF IInv, TypeOK, Waiting
<1>6. TimerInv'
  <2> SUFFICES ASSUME waiters # <<>>, Cardinality(running) < policy.cap
               PROVE  /\ timer' # NoTimer
                      /\ timer' > 0 => /\ Cardinality(Window(age')) >= policy.rate
                                       /\ \A r \in Window(age') : timer' <= Minute + 1 - age'[r]
    BY <1>2 DEF TimerInv
  <2>1. timer # NoTimer
    BY DEF IInv, TimerInv
  <2>2. CASE timer \in {0, 1}
    BY <1>2, <2>1, <2>2 DEF NoTimer
  <2>3. CASE timer > 1
    <3>1. \A r \in Window(age) : timer <= Minute + 1 - age[r] /\ age[r] \in 0..Minute
      BY <1>0, <1>1, <2>3 DEF IInv, TimerInv, Window, Started
    <3>2. timer \in Nat
      BY <1>0, <1>1, <2>3 DEF NoTimer
    <3>3. \A r \in Window(age) : age'[r] = age[r] + 1 /\ age'[r] <= Minute /\ timer' <= Minute + 1 - age'[r]
      BY <1>0, <1>2, <2>3, <3>1, <3>2 DEF Window, Started
    <3>4. \A r \in Window(age') : r \in Window(age)
      BY <1>0, <1>1, <1>2 DEF Window, Started
    <3>5. Window(age') = Window(age)
      BY <1>4, <3>3, <3>4 DEF Window
    <3>6. Cardinality(Window(age)) >= policy.rate
      BY <2>3, <3>2 DEF IInv, TimerInv
    <3>7. timer' # NoTimer
      BY <1>2, <2>3, <3>2 DEF NoTimer
    <3>8. \A r \in Window(age') : timer' <= Minute + 1 - age'[r]
      BY <3>3, <3>4
    <3> QED
      BY <3>5, <3>6, <3>7, <3>8
  <2> QED
    BY <1>0, <1>1, <2>1, <2>2, <2>3 DEF NoTimer
<1> QED
  BY <1>5, <1>6 DEF IInv

LEMMA InvStep == IInv /\ [Next]_vars => IInv'
<1> SUFFICES ASSUME IInv, [Next]_vars PROVE IInv'
  OBVIOUS
<1> USE DEF IInv
<1>0. running \subseteq Requests /\ policy \in Policies
  BY DEF TypeOK, Started
<1>1. ASSUME NEW r \in Requests, Run(r)
      PROVE  IInv'
  <2>1. Dispatchable(Append(waiters, r), running, policy) /\ ToSet(Append(waiters, r)) = Waiting \cup {r}
    BY <1>1, RunQueue DEF Run
  <2> QED
    BY <1>1, <2>1, DispatchTypes DEF Run, TypeOK
<1>2. ASSUME NEW r \in Requests, Finish(r)
      PROVE  IInv'
  <2>1. Dispatchable(waiters, running \ {r}, policy)
    BY <1>0, SameQueue
  <2>2. ToSet(waiters) \cap running = {}
    BY DEF TypeOK, Waiting
  <2>3. /\ r \in running /\ over' = over \cup {r} /\ policy' = policy
        /\ Dispatch(waiters, running \ {r}, policy)
    BY <1>2 DEF Finish
  <2>4. /\ over' \subseteq Requests /\ ToSet(waiters) \cap over' = {}
        /\ ((running \ {r}) \cup ToSet(waiters)) \cap over' = {}
    BY <2>2, <2>3 DEF TypeOK, Waiting
  <2> QED
    BY <2>1, <2>3, <2>4, DispatchTypes
<1>3. ASSUME NEW i \in DOMAIN waiters, Cancel(i)
      PROVE  IInv'
  <2>1. /\ Dispatchable(RemoveAt(waiters, i), running, policy)
        /\ ToSet(RemoveAt(waiters, i)) = Waiting \ {waiters[i]}
    BY CancelQueue
  <2>2. waiters[i] \in Requests /\ waiters[i] \in Waiting
    BY WaitersAre
  <2>3. /\ over' = over \cup {waiters[i]} /\ policy' = policy
        /\ Dispatch(RemoveAt(waiters, i), running, policy)
    BY <1>3 DEF Cancel
  <2>4. /\ over' \subseteq Requests /\ ToSet(RemoveAt(waiters, i)) \cap over' = {}
        /\ (running \cup ToSet(RemoveAt(waiters, i))) \cap over' = {}
    BY <2>1, <2>2, <2>3 DEF TypeOK
  <2> QED
    BY <2>1, <2>3, <2>4, DispatchTypes
<1>4. ASSUME NEW p \in Policies, UpdatePolicy(p)
      PROVE  IInv'
  <2>1. Dispatchable(waiters, running, p)
    BY <1>0, SameQueue
  <2> QED
    BY <1>4, <2>1, DispatchTypes DEF UpdatePolicy, TypeOK, Waiting
<1>5. CASE TimerFires
  <2>1. Dispatchable(waiters, running, policy)
    BY <1>0, SameQueue
  <2> QED
    BY <1>5, <2>1, DispatchTypes DEF TimerFires, TypeOK, Waiting
<1>6. CASE Tick
  BY <1>6, TickStep
<1>7. CASE UNCHANGED vars
  BY <1>7 DEF vars, TypeOK, TimerInv, Waiting
<1> QED
  BY <1>1, <1>2, <1>3, <1>4, <1>5, <1>6, <1>7 DEF Next

\* The queue, the calls that are out and the timer keep the invariant.
THEOREM Invariant == Spec => []IInv
<1> QED
  BY InvInit, InvStep, PTL DEF Spec

\* A free slot never stands idle before a waiter without a timer that fires as
\* soon as the rate allows (dispatchQueued re-arms rateTimer).
THEOREM NeverAsleep == Spec => []NoLostWakeup
<1>1. IInv => NoLostWakeup
  <2> SUFFICES ASSUME IInv, waiters # <<>>, Cardinality(running) < policy.cap
               PROVE  /\ timer # NoTimer
                      /\ Cardinality(Window(age)) < policy.rate => timer = 0
    BY DEF NoLostWakeup
  <2>1. Minute \in Nat /\ policy.rate \in Nat
    BY GateAssumption DEF IInv, TypeOK
  <2>2. Cardinality(Window(age)) \in Nat
    BY RequestsCount DEF Window, Started
  <2> QED
    BY <2>1, <2>2 DEF IInv, TypeOK, TimerInv, NoTimer
<1> QED
  BY <1>1, Invariant, PTL

-----------------------------------------------------------------------------
(* Both caps and the order, whenever a call is started. *)

LEMMA DispatchBudgets ==
  ASSUME NEW q, NEW R, NEW p, Dispatchable(q, R, p), Dispatch(q, R, p),
         Started(age') # Started(age)
  PROVE  /\ Cardinality(running') <= p.cap
         /\ Cardinality({r \in Requests : age'[r] \in 0..Minute}) <= p.rate
<1> DEFINE n == Startable(q, R, p)
           S == Starts(q, n)
           W == Window(age)
<1>0. Minute \in Nat /\ p.rate \in Nat /\ p.cap \in Nat
  BY GateAssumption DEF Dispatchable
<1>1. R \subseteq Requests /\ W \subseteq Requests
  BY DEF Dispatchable, Started, Window
<1>2. /\ n \in Nat /\ Cardinality(W) \in Nat
      /\ n > 0 => n <= Free(R, p) /\ n + Cardinality(W) <= p.rate
  BY <1>1, StartableBounds, LenProperties DEF Dispatchable
<1>3. /\ running' = R \cup S
      /\ age' \in [Requests -> -1..Minute + 1]
      /\ Started(age') = Started(age) \cup S
      /\ Window(age') = W \cup S
      /\ S \subseteq Requests /\ Cardinality(S) <= n /\ Cardinality(S) \in Nat
  BY DispatchFacts
<1>4. n > 0
  <2>1. CASE n = 0
    BY <1>3, <2>1 DEF Starts
  <2> QED
    BY <1>2, <2>1
<1>5. {r \in Requests : age'[r] \in 0..Minute} = Window(age')
  BY <1>0, <1>3 DEF Window, Started
<1> HIDE DEF n, S, W
<1>6. \A T \in SUBSET Requests : /\ IsFiniteSet(T) /\ Cardinality(T) \in Nat
                                 /\ IsFiniteSet(T \cup S)
                                 /\ Cardinality(T \cup S) = Cardinality(T) + Cardinality(S) - Cardinality(T \cap S)
                                 /\ Cardinality(T \cap S) \in Nat
  <2> SUFFICES ASSUME NEW T \in SUBSET Requests
               PROVE  /\ IsFiniteSet(T) /\ Cardinality(T) \in Nat
                      /\ IsFiniteSet(T \cup S)
                      /\ Cardinality(T \cup S) = Cardinality(T) + Cardinality(S) - Cardinality(T \cap S)
                      /\ Cardinality(T \cap S) \in Nat
    OBVIOUS
  <2>1. IsFiniteSet(T) /\ Cardinality(T) \in Nat /\ IsFiniteSet(S) /\ Cardinality(T \cap S) \in Nat
    BY <1>3, RequestsCount
  <2> QED
    BY <2>1, FS_Union
<1>7. Cardinality(R \cup S) <= Cardinality(R) + n /\ Cardinality(R) \in Nat
  <2>1. R \in SUBSET Requests
    BY <1>1
  <2>2. /\ Cardinality(R \cup S) = Cardinality(R) + Cardinality(S) - Cardinality(R \cap S)
        /\ Cardinality(R) \in Nat /\ Cardinality(R \cap S) \in Nat
    BY <2>1, <1>6
  <2>3. Cardinality(S) <= n /\ Cardinality(S) \in Nat /\ n \in Nat
    BY <1>2, <1>3
  <2> QED
    BY <2>2, <2>3
<1>8. Cardinality(W \cup S) <= Cardinality(W) + n
  <2>1. W \in SUBSET Requests
    BY <1>1
  <2>2. /\ Cardinality(W \cup S) = Cardinality(W) + Cardinality(S) - Cardinality(W \cap S)
        /\ Cardinality(W) \in Nat /\ Cardinality(W \cap S) \in Nat
    BY <2>1, <1>6
  <2>3. Cardinality(S) <= n /\ Cardinality(S) \in Nat /\ n \in Nat
    BY <1>2, <1>3
  <2> QED
    BY <2>2, <2>3
<1>9. n <= p.cap - Cardinality(R)
  BY <1>2, <1>4 DEF Free
<1>10. Cardinality(R \cup S) \in Nat /\ Cardinality(W \cup S) \in Nat
  BY <1>1, <1>3, RequestsCount
<1> QED
  BY <1>0, <1>2, <1>3, <1>4, <1>5, <1>7, <1>8, <1>9, <1>10

\* Who is started was ahead of all that still wait.
LEMMA DispatchOrder ==
  ASSUME NEW q, NEW R, NEW p, Dispatchable(q, R, p), Dispatch(q, R, p),
         NEW i \in 1..Len(q), NEW j \in 1..Len(q), i < j, q[j] \in Started(age')
  PROVE  q[i] \notin ToSet(waiters')
<1> DEFINE n == Startable(q, R, p)
<1>1. n \in Nat /\ Len(q) \in Nat /\ DOMAIN q = 1..Len(q)
  BY StartableBounds, LenProperties DEF Dispatchable, Started
<1>2. Started(age') = Started(age) \cup Starts(q, n)
  BY DispatchFacts
<1>3. ToSet(waiters') \cap Started(age') = {}
  BY DispatchWaiting
<1>4. \A k, l \in 1..Len(q) : q[k] = q[l] => k = l
  BY <1>1 DEF Dispatchable, IsInjective
<1>5. q[j] \notin Started(age)
  BY <1>1 DEF Dispatchable, ToSet
<1> HIDE DEF n
<1>6. PICK k \in 1..n : q[j] = q[k]
  BY <1>2, <1>5 DEF Starts
<1>7. i \in 1..n
  <2>1. CASE k \in 1..Len(q)
    BY <1>1, <1>4, <1>6, <2>1
  <2>2. CASE k \notin 1..Len(q)
    BY <1>1, <1>6, <2>2
  <2> QED
    BY <2>1, <2>2
<1>8. q[i] \in Starts(q, n)
  BY <1>7 DEF Starts
<1> QED
  BY <1>2, <1>3, <1>8

LEMMA TurnStep ==
  IInv /\ [Next]_vars =>
    (Started(age') # Started(age) =>
       /\ Cardinality(running') <= policy'.cap
       /\ Cardinality({r \in Requests : age'[r] \in 0..Minute}) <= policy'.rate
       /\ \A i \in 1..Len(waiters), j \in 1..Len(waiters) :
            i < j /\ waiters[j] \in Started(age') => waiters[i] \notin ToSet(waiters'))
<1> DEFINE Turn ==
             /\ Cardinality(running') <= policy'.cap
             /\ Cardinality({r \in Requests : age'[r] \in 0..Minute}) <= policy'.rate
             /\ \A i \in 1..Len(waiters), j \in 1..Len(waiters) :
                  i < j /\ waiters[j] \in Started(age') => waiters[i] \notin ToSet(waiters')
<1> SUFFICES ASSUME IInv, [Next]_vars, Started(age') # Started(age) PROVE Turn
  OBVIOUS
<1> USE DEF IInv
<1>0. policy \in Policies /\ Len(waiters) \in Nat
  BY WaitersAre DEF TypeOK
<1>1. ASSUME NEW r \in Requests, Run(r)
      PROVE  Turn
  <2> DEFINE q == Append(waiters, r)
  <2>1. /\ Dispatchable(q, running, policy)
        /\ Len(q) = Len(waiters) + 1 /\ \A i \in 1..Len(waiters) : q[i] = waiters[i]
        /\ Dispatch(q, running, policy) /\ policy' = policy
    BY <1>1, RunQueue DEF Run
  <2> HIDE DEF q
  <2>2. ASSUME NEW i \in 1..Len(waiters), NEW j \in 1..Len(waiters), i < j, waiters[j] \in Started(age')
        PROVE  waiters[i] \notin ToSet(waiters')
    <3>1. i \in 1..Len(q) /\ j \in 1..Len(q)
      BY <1>0, <2>1
    <3>2. q[i] \notin ToSet(waiters')
      BY <2>1, <2>2, <3>1, DispatchOrder
    <3> QED
      BY <2>1, <3>2
  <2> QED
    BY <2>1, <2>2, DispatchBudgets
<1>2. ASSUME NEW R, R \subseteq running, NEW p \in Policies, Dispatch(waiters, R, p), policy' = p
      PROVE  Turn
  <2>1. Dispatchable(waiters, R, p)
    BY <1>2, SameQueue
  <2> QED
    BY <1>2, <2>1, DispatchBudgets, DispatchOrder
<1>3. ASSUME NEW c \in DOMAIN waiters, Cancel(c)
      PROVE  Turn
  <2> DEFINE q == RemoveAt(waiters, c)
  <2>1. /\ Dispatchable(q, running, policy)
        /\ ToSet(q) = Waiting \ {waiters[c]}
        /\ Len(q) = Len(waiters) - 1
        /\ \A k \in 1..Len(waiters) - 1 : q[k] = IF k < c THEN waiters[k] ELSE waiters[k + 1]
        /\ Dispatch(q, running, policy) /\ policy' = policy
    BY <1>3, CancelQueue DEF Cancel
  <2>2. c \in 1..Len(waiters) /\ \A k \in 1..Len(waiters) : waiters[k] \in Waiting
    BY WaitersAre
  <2>3. ToSet(waiters') \subseteq ToSet(q)
    BY <2>1, DispatchWaiting
  <2>4. waiters[c] \notin Started(age') /\ waiters[c] \notin ToSet(waiters')
    <3>1. waiters[c] \notin Started(age)
      BY <2>2 DEF TypeOK
    <3>2. Starts(q, Startable(q, running, policy)) \subseteq ToSet(q)
      <4>1. Startable(q, running, policy) \in 0..Len(q) /\ Len(q) \in Nat /\ DOMAIN q = 1..Len(q)
        BY <2>1, StartableBounds, LenProperties DEF Dispatchable, Started
      <4> HIDE DEF q
      <4> QED
        BY <4>1 DEF Starts, ToSet
    <3>3. Started(age') = Started(age) \cup Starts(q, Startable(q, running, policy))
      BY <2>1, DispatchFacts
    <3> HIDE DEF q
    <3> QED
      BY <2>1, <2>3, <3>1, <3>2, <3>3
  <2> HIDE DEF q
  <2>5. ASSUME NEW i \in 1..Len(waiters), NEW j \in 1..Len(waiters), i < j, waiters[j] \in Started(age')
        PROVE  waiters[i] \notin ToSet(waiters')
    <3>1. CASE i = c
      BY <2>4, <3>1
    <3>2. CASE i # c
      <4> DEFINE k == IF i < c THEN i ELSE i - 1
                 l == IF j < c THEN j ELSE j - 1
      <4>1. j # c
        BY <2>4, <2>5
      <4>2. /\ k \in 1..Len(q) /\ l \in 1..Len(q) /\ k < l
            /\ k \in 1..Len(waiters) - 1 /\ l \in 1..Len(waiters) - 1
        BY <1>0, <2>1, <2>2, <2>5, <3>2, <4>1
      <4>3. q[k] = waiters[i] /\ q[l] = waiters[j]
        <5>1. q[k] = waiters[IF k < c THEN k ELSE k + 1] /\ q[l] = waiters[IF l < c THEN l ELSE l + 1]
          BY <2>1, <4>2
        <5>2. (IF k < c THEN k ELSE k + 1) = i /\ (IF l < c THEN l ELSE l + 1) = j
          BY <1>0, <2>2, <2>5, <3>2, <4>1
        <5> QED
          BY <5>1, <5>2
      <4> HIDE DEF k, l
      <4>4. q[k] \notin ToSet(waiters')
        BY <2>1, <2>5, <4>2, <4>3, DispatchOrder
      <4> QED
        BY <4>3, <4>4
    <3> QED
      BY <3>1, <3>2
  <2> QED
    BY <2>1, <2>5, DispatchBudgets
<1>4. CASE \E r \in Requests : Finish(r)
  <2>1. PICK r \in Requests : Finish(r)
    BY <1>4
  <2>2. Dispatch(waiters, running \ {r}, policy) /\ policy' = policy
    BY <2>1 DEF Finish
  <2> HIDE DEF Turn
  <2> QED
    BY <1>0, <1>2, <2>2
<1>5. CASE \E p \in Policies : UpdatePolicy(p)
  <2> HIDE DEF Turn
  <2> QED
    BY <1>2, <1>5 DEF UpdatePolicy
<1>6. CASE TimerFires
  <2> HIDE DEF Turn
  <2> QED
    BY <1>0, <1>2, <1>6 DEF TimerFires
<1>7. CASE Tick
  <2>1. Minute \in Nat
    BY GateAssumption
  <2>2. Started(age') = Started(age)
    BY <1>7, <2>1 DEF Tick, TypeOK, Started
  <2> QED
    BY <2>2
<1>8. CASE UNCHANGED vars
  BY <1>8 DEF vars
<1> HIDE DEF Turn
<1> QED
  BY <1>1, <1>3, <1>4, <1>5, <1>6, <1>7, <1>8 DEF Next

\* Whoever starts a call keeps both caps, in any closed minute, and nobody that
\* waits is overtaken (dispatchQueued, whatever it was called for).
THEOREM BudgetsAndOrder == Spec => StartsInTurn
<1>1. IInv /\ [Next]_vars => [Started(age') # Started(age) =>
       /\ Cardinality(running') <= policy'.cap
       /\ Cardinality({r \in Requests : age'[r] \in 0..Minute}) <= policy'.rate
       /\ \A i \in 1..Len(waiters), j \in 1..Len(waiters) :
            i < j /\ waiters[j] \in Started(age') => waiters[i] \notin ToSet(waiters')]_vars
  BY TurnStep
<1> QED
  BY <1>1, Invariant, PTL DEF Spec, StartsInTurn
===============================================================================
