-------------------------- MODULE SeoRefresh_proofs --------------------------
(***************************************************************************)
(* Theorems about SeoRefresh, for any refreshes, searches, prices, days,   *)
(* limits and processes, and any number of faults.                         *)
(*                                                                         *)
(* A transaction is an operator on the database, so most of the argument   *)
(* is about operators. Sound says of a database that each task is in one   *)
(* piece, that every budget balances and that the limits hold. The parts   *)
(* of a handler write one task and one budget entry each: they withdraw a  *)
(* task, queue it again, pay for it or move it between states that cost    *)
(* the same (SoundWithdraw, SoundQueue, SoundPay, SoundMove), and a        *)
(* transaction that loops over tasks does so in one step for all of them.  *)
(* AllFit, what a job and its run say of its tasks, is shown for whole     *)
(* transactions. Calm and Tame say what a transaction leaves alone, which  *)
(* keeps the history of posts true; the memory of the processes is last.   *)
(***************************************************************************)
EXTENDS SeoRefresh, SumTheorems

(***************************************************************************)
(* Finite sets, prices and sums.                                           *)
(***************************************************************************)
\* There are finitely many tasks and budget periods.
LEMMA AllFinite == /\ IsFiniteSet(Tasks) /\ IsFiniteSet(Periods)
                   /\ \A T \in SUBSET Tasks : IsFiniteSet(T)
<1>1. IsFiniteSet({1, 2})
  <2>1. IsFiniteSet({1})
    BY FS_Singleton
  <2>2. IsFiniteSet({1} \cup {2})
    BY <2>1, FS_AddElement
  <2>3. {1} \cup {2} = {1, 2}
    OBVIOUS
  <2> QED
    BY <2>2, <2>3
<1>2. IsFiniteSet(Tasks)
  BY <1>1, SeoAssumption, FS_Product DEF Tasks
<1>3. IsFiniteSet(1..Days)
  BY SeoAssumption, FS_Interval
<1>4. IsFiniteSet(Range(MonthOf))
  <2>1. MonthOf \in Surjection(1..Days, Range(MonthOf))
    BY SeoAssumption DEF Surjection, Range
  <2> QED
    BY <1>3, <2>1, FS_Surjection
<1> QED
  BY <1>2, <1>3, <1>4, FS_Union, FS_Subset DEF Periods

\* A task and its retry are of the same search, so of one job and one price.
LEMMA TaskParts ==
  ASSUME NEW t \in Tasks
  PROVE  /\ t = <<t[1], t[2]>> /\ t[1] \in Searches /\ t[2] \in {1, 2}
         /\ Job(t) \in Jobs /\ Price(t) \in Nat
         /\ Retry(t) \in Tasks /\ Retry(t)[1] = t[1] /\ Retry(t)[2] = 2
         /\ Job(Retry(t)) = Job(t) /\ Price(Retry(t)) = Price(t)
         /\ t[2] = 2 => Retry(t) = t
BY SeoAssumption DEF Tasks, Job, Price, Retry

\* A search has two tasks.
LEMMA SearchTasks ==
  ASSUME NEW s \in Searches
  PROVE  /\ <<s, 1>> \in Tasks /\ <<s, 2>> \in Tasks /\ Retry(<<s, 1>>) = <<s, 2>>
         /\ Job(<<s, 1>>) = JobOf[s] /\ Job(<<s, 2>>) = JobOf[s]
BY DEF Tasks, Job, Retry

\* What each of the tasks T holds in a period of a budget.
PriceAt(d, T, s, q) == [t \in Tasks |-> IF t \in T /\ In(d, t, s, q) THEN Price(t) ELSE 0]

LEMMA PriceAtNat ==
  ASSUME NEW d, NEW T, NEW s, NEW q, NEW t \in Tasks
  PROVE  PriceAt(d, T, s, q)[t] \in Nat
BY TaskParts DEF PriceAt

\* The price of tasks is a sum over all of them.
LEMMA PriceInIs ==
  ASSUME NEW d, NEW T \in SUBSET Tasks, NEW s, NEW q
  PROVE  PriceIn(d, T, s, q) = SumFunctionOnSet(PriceAt(d, T, s, q), Tasks)
<1> DEFINE U == {u \in T : In(d, u, s, q)}
           f == [t \in U |-> Price(t)]
           g == PriceAt(d, T, s, q)
<1>1. PriceIn(d, T, s, q) = SumFunctionOnSet(f, U)
  BY DEF PriceIn, SumFunction
<1>2. IsFiniteSet(Tasks) /\ U \subseteq Tasks
  BY AllFinite
<1>3. \A x \in Tasks : g[x] \in Int
  BY PriceAtNat
<1>4. \A x \in U : f[x] = g[x]
  BY DEF PriceAt
<1>5. \A x \in Tasks \ U : g[x] = 0
  BY DEF PriceAt
<1> HIDE DEF U, f, g
<1>6. SumFunctionOnSet(f, U) = SumFunctionOnSet(g, Tasks)
  BY <1>2, <1>3, <1>4, <1>5, SumFilter
<1> QED
  BY <1>1, <1>6 DEF g

LEMMA PriceInNat ==
  ASSUME NEW d, NEW T \in SUBSET Tasks, NEW s, NEW q
  PROVE  PriceIn(d, T, s, q) \in Nat
BY AllFinite, PriceInIs, PriceAtNat, SumNat

\* Prices of two sets of tasks add up.
LEMMA PriceInUnion ==
  ASSUME NEW d, NEW S \in SUBSET Tasks, NEW T \in SUBSET Tasks, S \cap T = {}, NEW s, NEW q
  PROVE  PriceIn(d, S \cup T, s, q) = PriceIn(d, S, s, q) + PriceIn(d, T, s, q)
<1> DEFINE f == PriceAt(d, S, s, q)
           e == PriceAt(d, T, s, q)
           g == PriceAt(d, S \cup T, s, q)
<1>1. \A x \in Tasks : f[x] \in Int /\ e[x] \in Int
  BY PriceAtNat
<1>2. \A x \in Tasks : g[x] = f[x] + e[x]
  BY TaskParts DEF PriceAt
<1>3. /\ PriceIn(d, S, s, q) = SumFunctionOnSet(f, Tasks)
      /\ PriceIn(d, T, s, q) = SumFunctionOnSet(e, Tasks)
      /\ PriceIn(d, S \cup T, s, q) = SumFunctionOnSet(g, Tasks)
  BY PriceInIs
<1> HIDE DEF f, e, g
<1> QED
  BY <1>1, <1>2, <1>3, SumPlus, AllFinite

\* Prices sit where the periods of their jobs say.
LEMMA PriceInSame ==
  ASSUME NEW d, NEW e, NEW T \in SUBSET Tasks, NEW s, NEW q,
         \A t \in T : e.job[Job(t)].period = d.job[Job(t)].period
  PROVE  PriceIn(e, T, s, q) = PriceIn(d, T, s, q)
<1>1. \A t \in T : In(e, t, s, q) <=> In(d, t, s, q)
  BY DEF In
<1>2. {u \in T : In(e, u, s, q)} = {u \in T : In(d, u, s, q)}
  BY <1>1
<1> QED
  BY <1>2 DEF PriceIn

(***************************************************************************)
(* Budgets.                                                                *)
(***************************************************************************)
\* The kind of a budget is part of its name: a task is in one period of it.
LEMMA OnePeriod ==
  ASSUME NEW d, NEW t \in Tasks, NEW k \in Kinds, NEW q
  PROVE  In(d, t, Scope(Job(t), k), q) <=> q = d.job[Job(t)].period[k]
BY DEF In, Scope

\* A task is in no budget that is not one of its scopes.
LEMMA NoOtherScope ==
  ASSUME NEW d, NEW t \in Tasks, NEW s, t \notin InScope(s), NEW q
  PROVE  ~In(d, t, s, q)
BY DEF In, InScope

\* The budgets of a job.
LEMMA ScopeParts ==
  ASSUME NEW j \in Jobs, NEW k \in Kinds
  PROVE  Scope(j, k) \in Scopes /\ Scope(j, k)[1] = k
BY DEF Scope, Scopes

\* A budget is of a kind with a limit.
LEMMA LimitNat ==
  ASSUME NEW s \in Scopes
  PROVE  Limit[s[1]] \in Nat
<1>1. PICK j \in Jobs, k \in Kinds : s = Scope(j, k)
  BY DEF Scopes
<1>2. s[1] = k
  BY <1>1, ScopeParts
<1> QED
  BY <1>2, SeoAssumption

\* From d to e, T begins to hold, no longer holds, or moves to other periods.
Adds(d, e, T) == \A s \in Scopes, q \in Periods : e.held[s][q] = d.held[s][q] + PriceIn(e, T, s, q)
Frees(d, e, T) == \A s \in Scopes, q \in Periods : e.held[s][q] = d.held[s][q] - PriceIn(d, T, s, q)
Moves(d, e, T) ==
  \A s \in Scopes, q \in Periods : e.held[s][q] = d.held[s][q] - PriceIn(d, T, s, q) + PriceIn(e, T, s, q)

\* Tasks begin to hold: their price is added where their job's periods say.
LEMMA HoldBalances ==
  ASSUME NEW d, NEW e, NEW T, HeldBalanced(d), Holding(e) = Holding(d) \cup T,
         Holding(d) \cap T = {}, T \subseteq Tasks,
         \A t \in Holding(d) : e.job[Job(t)].period = d.job[Job(t)].period,
         Adds(d, e, T)
  PROVE  HeldBalanced(e)
<1> SUFFICES ASSUME NEW s \in Scopes, NEW q \in Periods
             PROVE  e.held[s][q] = PriceIn(e, Holding(e), s, q)
  BY DEF HeldBalanced
<1>1. Holding(d) \in SUBSET Tasks
  BY DEF Holding
<1>2. PriceIn(e, Holding(d), s, q) = PriceIn(d, Holding(d), s, q)
  BY <1>1, PriceInSame
<1>3. PriceIn(e, Holding(d) \cup T, s, q) = PriceIn(e, Holding(d), s, q) + PriceIn(e, T, s, q)
  BY <1>1, PriceInUnion
<1> QED
  BY <1>2, <1>3 DEF HeldBalanced, Adds

\* Tasks no longer hold: their price is taken off where it was.
LEMMA ReleaseBalances ==
  ASSUME NEW d, NEW e, NEW T, HeldBalanced(d), Holding(e) = Holding(d) \ T,
         T \subseteq Holding(d),
         \A t \in Holding(e) : e.job[Job(t)].period = d.job[Job(t)].period,
         Frees(d, e, T)
  PROVE  HeldBalanced(e)
<1> SUFFICES ASSUME NEW s \in Scopes, NEW q \in Periods
             PROVE  e.held[s][q] = PriceIn(e, Holding(e), s, q)
  BY DEF HeldBalanced
<1>1. Holding(e) \in SUBSET Tasks /\ T \in SUBSET Tasks /\ Holding(d) \in SUBSET Tasks
      /\ Holding(e) \cap T = {} /\ Holding(e) \cup T = Holding(d)
  BY DEF Holding
<1>2. PriceIn(e, Holding(e), s, q) = PriceIn(d, Holding(e), s, q)
  BY <1>1, PriceInSame
<1>3. PriceIn(d, Holding(e) \cup T, s, q) = PriceIn(d, Holding(e), s, q) + PriceIn(d, T, s, q)
  BY <1>1, PriceInUnion
<1>4. PriceIn(d, Holding(e), s, q) \in Nat /\ PriceIn(d, T, s, q) \in Nat
  BY <1>1, PriceInNat
<1>5. /\ d.held[s][q] = PriceIn(d, Holding(e), s, q) + PriceIn(d, T, s, q)
      /\ e.held[s][q] = d.held[s][q] - PriceIn(d, T, s, q)
  BY <1>1, <1>3 DEF HeldBalanced, Frees
<1>6. d.held[s][q] \in Nat
  BY <1>4, <1>5
<1> QED
  BY <1>2, <1>4, <1>5, <1>6

\* Nobody begins or ceases to hold, and no period moves.
LEMMA SameHolding ==
  ASSUME NEW d, NEW e, HeldBalanced(d), Holding(e) = Holding(d), e.held = d.held,
         \A t \in Holding(d) : e.job[Job(t)].period = d.job[Job(t)].period
  PROVE  HeldBalanced(e)
<1>1. Holding(d) \in SUBSET Tasks
  BY DEF Holding
<1>2. \A s, q : PriceIn(e, Holding(d), s, q) = PriceIn(d, Holding(d), s, q)
  BY <1>1, PriceInSame
<1> QED
  BY <1>2 DEF HeldBalanced

\* What a job holds moves to other periods with it.
LEMMA MoveBalances ==
  ASSUME NEW d, NEW e, NEW j, HeldBalanced(d), Holding(e) = Holding(d),
         \A t \in Holding(d) : Job(t) # j => e.job[Job(t)].period = d.job[Job(t)].period,
         NEW T, T = {t \in Holding(d) : Job(t) = j},
         Moves(d, e, T)
  PROVE  HeldBalanced(e)
<1> DEFINE R == Holding(d) \ T
<1> SUFFICES ASSUME NEW s \in Scopes, NEW q \in Periods
             PROVE  e.held[s][q] = PriceIn(e, Holding(e), s, q)
  BY DEF HeldBalanced
<1>1. /\ R \in SUBSET Tasks /\ T \in SUBSET Tasks /\ R \cap T = {} /\ R \cup T = Holding(d)
      /\ \A t \in R : e.job[Job(t)].period = d.job[Job(t)].period
  BY DEF Holding
<1> HIDE DEF R
<1>2. PriceIn(e, R, s, q) = PriceIn(d, R, s, q)
  BY <1>1, PriceInSame
<1>3. /\ PriceIn(d, R \cup T, s, q) = PriceIn(d, R, s, q) + PriceIn(d, T, s, q)
      /\ PriceIn(e, R \cup T, s, q) = PriceIn(e, R, s, q) + PriceIn(e, T, s, q)
  BY <1>1, PriceInUnion
<1>4. PriceIn(d, R, s, q) \in Nat /\ PriceIn(d, T, s, q) \in Nat /\ PriceIn(e, T, s, q) \in Nat
  BY <1>1, PriceInNat
<1>5. /\ d.held[s][q] = PriceIn(d, R, s, q) + PriceIn(d, T, s, q)
      /\ e.held[s][q] = d.held[s][q] - PriceIn(d, T, s, q) + PriceIn(e, T, s, q)
      /\ PriceIn(e, Holding(e), s, q) = PriceIn(d, R, s, q) + PriceIn(e, T, s, q)
  BY <1>1, <1>2, <1>3 DEF HeldBalanced, Moves
<1>6. d.held[s][q] \in Nat /\ PriceIn(e, Holding(e), s, q) \in Nat
  BY <1>4, <1>5
<1> QED
  BY <1>4, <1>5, <1>6

\* The price of one task.
LEMMA PriceOfOne ==
  ASSUME NEW d, NEW t \in Tasks, NEW s, NEW q
  PROVE  PriceIn(d, {t}, s, q) = IF In(d, t, s, q) THEN Price(t) ELSE 0
<1>1. PICK g : g = PriceAt(d, {t}, s, q)
  OBVIOUS
<1>2. PICK z : z = [u \in Tasks |-> 0]
  OBVIOUS
<1>3. \A u \in Tasks : g[u] \in Int /\ z[u] \in Int
  BY <1>1, <1>2, PriceAtNat
<1>4. \A u \in Tasks \ {t} : g[u] = z[u]
  BY <1>1, <1>2 DEF PriceAt
<1>5. SumFunctionOnSet(g, Tasks) = SumFunctionOnSet(z, Tasks) - z[t] + g[t]
  BY <1>3, <1>4, AllFinite, SumChange
<1>6. SumFunctionOnSet(z, Tasks) = SumFunctionOnSet(z, Tasks) + SumFunctionOnSet(z, Tasks)
  BY <1>2, AllFinite, SumPlus
<1>7. SumFunctionOnSet(z, Tasks) \in Int
  BY <1>3, AllFinite, SumInt
<1>8. SumFunctionOnSet(g, Tasks) = g[t]
  <2>1. z[t] = 0 /\ g[t] \in Int
    BY <1>2, <1>3
  <2>2. SumFunctionOnSet(z, Tasks) = 0
    <3>1. \A x \in Int : x = x + x => x = 0
      OBVIOUS
    <3> QED
      BY <1>6, <1>7, <3>1, Zenon
  <2> QED
    BY <1>5, <2>1, <2>2
<1>9. PriceIn(d, {t}, s, q) = g[t]
  BY <1>1, <1>8, PriceInIs
<1> QED
  BY <1>1, <1>9 DEF PriceAt

-----------------------------------------------------------------------------
(* What was paid. *)

\* The well-formed databases but for the sign of what is held, and their parts.
Shape(d) ==
  /\ d = [task |-> d.task, job |-> d.job, held |-> d.held, spent |-> d.spent]
  /\ d.task \in [Tasks -> TaskRecords] /\ d.job \in [Jobs -> JobRecords]
  /\ d.held \in [Scopes -> [Periods -> Int]] /\ d.spent \in [Scopes -> [Periods -> Nat]]

\* A database is a shape with nothing below zero.
LEMMA ShapeIs ==
  ASSUME NEW d
  PROVE  d \in Databases <=> Shape(d) /\ \A s \in Scopes, q \in Periods : d.held[s][q] \in Nat
BY DEF Shape, Databases

LEMMA PaidNat ==
  ASSUME NEW d, Shape(d), NEW t \in Tasks
  PROVE  Paid(d, t) \in Nat /\ Over(d, t) \in Nat
BY TaskParts DEF Paid, Over, Shape, TaskRecords

\* A receipt or a judgement: c is paid for t, where the periods of its job say.
Pays(d, e, t, c) ==
  /\ \A u \in Tasks : Paid(e, u) = IF u = t THEN c ELSE Paid(d, u)
  /\ Paid(d, t) = 0
  /\ \A s \in Scopes, q \in Periods : e.spent[s][q] = d.spent[s][q] + IF In(d, t, s, q) THEN c ELSE 0

\* What is paid is booked once in each budget of the task.
LEMMA PayBalances ==
  ASSUME NEW d, Shape(d), NEW e, Shape(e), SpentBalanced(d),
         NEW t \in Tasks, NEW c \in Nat, Pays(d, e, t, c)
  PROVE  SpentBalanced(e)
<1> SUFFICES ASSUME NEW s \in Scopes
             PROVE  SumFunction(e.spent[s]) = SumFunction([u \in InScope(s) |-> Paid(e, u)])
  BY DEF SpentBalanced
<1>1. PICK T : T = InScope(s)
  OBVIOUS
<1>2. PICK f : f = [u \in T |-> Paid(d, u)]
  OBVIOUS
<1>3. PICK g : g = [u \in T |-> Paid(e, u)]
  OBVIOUS
<1>4. /\ SumFunction(g) = SumFunctionOnSet(g, T) /\ SumFunction(f) = SumFunctionOnSet(f, T)
      /\ SumFunction(d.spent[s]) = SumFunctionOnSet(d.spent[s], Periods)
      /\ SumFunction(e.spent[s]) = SumFunctionOnSet(e.spent[s], Periods)
  BY <1>2, <1>3 DEF SumFunction, Shape
<1>5. IsFiniteSet(T) /\ T \subseteq Tasks /\ IsFiniteSet(Periods)
  BY <1>1, AllFinite DEF InScope
<1>6. \A u \in T : f[u] \in Int /\ g[u] \in Int
  BY <1>2, <1>3, <1>5, PaidNat
<1>7. \A q \in Periods : d.spent[s][q] \in Nat /\ e.spent[s][q] \in Nat
  BY DEF Shape
<1>8. SumFunctionOnSet(f, T) = SumFunctionOnSet(d.spent[s], Periods)
  BY <1>1, <1>2, <1>4 DEF SpentBalanced
<1>9. SumFunctionOnSet(f, T) \in Int
  BY <1>5, <1>6, SumInt
<1>10. SumFunctionOnSet(g, T) = SumFunctionOnSet(e.spent[s], Periods)
  <2>1. CASE t \in T
    <3>1. PICK k \in Kinds : Scope(Job(t), k) = s
      BY <1>1, <2>1 DEF InScope
    <3>2. PICK p : p = d.job[Job(t)].period[k]
      OBVIOUS
    <3>3. p \in Periods
      BY <3>2, TaskParts DEF Shape, JobRecords
    <3>4. \A q \in Periods : In(d, t, s, q) <=> q = p
      BY <3>1, <3>2, OnePeriod
    <3>5. /\ \A q \in Periods \ {p} : e.spent[s][q] = d.spent[s][q]
          /\ e.spent[s][p] = d.spent[s][p] + c
      BY <1>7, <3>3, <3>4 DEF Pays
    <3>6. SumFunctionOnSet(e.spent[s], Periods) = SumFunctionOnSet(d.spent[s], Periods) - d.spent[s][p] + e.spent[s][p]
      BY <1>5, <1>7, <3>3, <3>5, SumChange
    <3>7. f[t] = 0 /\ g[t] = c /\ \A u \in T \ {t} : g[u] = f[u]
      BY <1>2, <1>3, <1>5, <2>1 DEF Pays
    <3>8. SumFunctionOnSet(g, T) = SumFunctionOnSet(f, T) - f[t] + g[t]
      BY <1>5, <1>6, <2>1, <3>7, SumChange
    <3>9. d.spent[s][p] \in Nat
      BY <1>7, <3>3
    <3> QED
      BY <1>8, <1>9, <3>5, <3>6, <3>7, <3>8, <3>9
  <2>2. CASE t \notin T
    <3>1. \A q \in Periods : e.spent[s][q] = d.spent[s][q]
      BY <1>1, <1>7, <2>2, NoOtherScope DEF Pays
    <3>2. \A u \in T : g[u] = f[u]
      BY <1>2, <1>3, <1>5, <2>2 DEF Pays
    <3>3. SumFunctionOnSet(g, T) = SumFunctionOnSet(f, T)
      BY <1>5, <3>2, SumAgrees
    <3>4. SumFunctionOnSet(e.spent[s], Periods) = SumFunctionOnSet(d.spent[s], Periods)
      BY <1>5, <3>1, SumAgrees
    <3> QED
      BY <1>8, <3>3, <3>4
  <2> QED
    BY <2>1, <2>2
<1> QED
  BY <1>1, <1>3, <1>4, <1>10

\* Nothing is paid: the books stay.
LEMMA SamePaid ==
  ASSUME NEW d, NEW e, SpentBalanced(d), e.spent = d.spent, \A u \in Tasks : Paid(e, u) = Paid(d, u)
  PROVE  SpentBalanced(e)
<1> SUFFICES ASSUME NEW s \in Scopes
             PROVE  [u \in InScope(s) |-> Paid(e, u)] = [u \in InScope(s) |-> Paid(d, u)]
  BY DEF SpentBalanced
<1> QED
  BY DEF InScope

-----------------------------------------------------------------------------
(* Overcharges and the cost of a run. *)
LEMMA OverchargeIs ==
  ASSUME NEW d, Shape(d), NEW T \in SUBSET Tasks
  PROVE  /\ Overcharge(d, T) = SumFunctionOnSet([t \in Tasks |-> Over(d, t)], T)
         /\ Overcharge(d, T) \in Nat
<1>1. PICK f : f = [t \in T |-> Over(d, t)]
  OBVIOUS
<1>2. PICK g : g = [t \in Tasks |-> Over(d, t)]
  OBVIOUS
<1>3. Overcharge(d, T) = SumFunctionOnSet(f, T)
  BY <1>1 DEF Overcharge, SumFunction
<1>4. IsFiniteSet(T) /\ \A t \in T : f[t] \in Nat /\ f[t] = g[t]
  BY <1>1, <1>2, AllFinite, PaidNat
<1> QED
  BY <1>2, <1>3, <1>4, SumAgrees, SumNat

\* An overcharge is never taken back.
LEMMA OverchargeGrows ==
  ASSUME NEW d, Shape(d), NEW e, Shape(e), NEW T \in SUBSET Tasks,
         \A t \in T : Over(d, t) <= Over(e, t)
  PROVE  Overcharge(d, T) <= Overcharge(e, T)
<1>1. PICK f : f = [t \in Tasks |-> Over(d, t)]
  OBVIOUS
<1>2. PICK g : g = [t \in Tasks |-> Over(e, t)]
  OBVIOUS
<1>3. IsFiniteSet(T) /\ \A t \in T : f[t] \in Int /\ g[t] \in Int /\ f[t] <= g[t]
  BY <1>1, <1>2, AllFinite, PaidNat
<1>4. SumFunctionOnSet(f, T) <= SumFunctionOnSet(g, T)
  BY <1>3, SumMonotonic
<1> QED
  BY <1>1, <1>2, <1>4, OverchargeIs

\* What is paid for one task above its price is an overcharge of all that it is one of.
LEMMA OverchargePays ==
  ASSUME NEW d, Shape(d), NEW e, Shape(e), NEW T \in SUBSET Tasks,
         NEW t \in T, NEW c \in Nat, Pays(d, e, t, c)
  PROVE  c - Price(t) <= Overcharge(e, T) - Overcharge(d, T)
<1>1. PICK f : f = [u \in Tasks |-> Over(d, u)]
  OBVIOUS
<1>2. PICK g : g = [u \in Tasks |-> Over(e, u)]
  OBVIOUS
<1>3. IsFiniteSet(T) /\ \A u \in T : f[u] \in Int /\ g[u] \in Int
  BY <1>1, <1>2, AllFinite, PaidNat
<1>4. \A u \in T \ {t} : g[u] = f[u]
  BY <1>1, <1>2 DEF Pays, Over
<1>5. SumFunctionOnSet(g, T) = SumFunctionOnSet(f, T) - f[t] + g[t]
  BY <1>3, <1>4, SumChange
<1>6. Paid(d, t) = 0 /\ Paid(e, t) = c /\ Price(t) \in Nat
  BY TaskParts DEF Pays
<1>7. f[t] = 0 /\ g[t] \in Int /\ g[t] >= c - Price(t)
  BY <1>1, <1>2, <1>6 DEF Over
<1>8. SumFunctionOnSet(f, T) \in Int
  BY <1>3, SumInt
<1>9. Overcharge(d, T) = SumFunctionOnSet(f, T) /\ Overcharge(e, T) = SumFunctionOnSet(g, T)
  BY <1>1, <1>2, OverchargeIs
<1> QED
  BY <1>5, <1>6, <1>7, <1>8, <1>9

\* The cost of each task, admitted or not.
CostAt(d) == [t \in Tasks |-> IF Status(d, t) = "none" THEN 0 ELSE Cost(d, t)]

LEMMA RunCostIs ==
  ASSUME NEW d, Shape(d), NEW j \in Jobs
  PROVE  /\ RunCost(d, j) = SumFunctionOnSet(CostAt(d), TasksOf(j))
         /\ \A t \in Tasks : CostAt(d)[t] \in Nat
         /\ RunCost(d, j) \in Nat
<1>1. PICK U : U = {u \in TasksOf(j) : Status(d, u) # "none"}
  OBVIOUS
<1>2. PICK f : f = [t \in U |-> Cost(d, t)]
  OBVIOUS
<1>3. PICK g : g = CostAt(d)
  OBVIOUS
<1>4. RunCost(d, j) = SumFunctionOnSet(f, U)
  BY <1>1, <1>2 DEF RunCost, SumFunction
<1>5. \A t \in Tasks : g[t] \in Nat
  BY <1>3, TaskParts DEF CostAt, Cost, Shape, TaskRecords
<1>6. IsFiniteSet(TasksOf(j)) /\ U \subseteq TasksOf(j) /\ TasksOf(j) \subseteq Tasks
  BY <1>1, AllFinite DEF TasksOf
<1>7. \A t \in U : f[t] = g[t]
  BY <1>1, <1>2, <1>3, <1>6 DEF CostAt
<1>8. \A t \in TasksOf(j) \ U : g[t] = 0
  BY <1>1, <1>3, <1>6 DEF CostAt
<1>9. \A t \in TasksOf(j) : g[t] \in Nat
  BY <1>5, <1>6
<1>10. SumFunctionOnSet(f, U) = SumFunctionOnSet(g, TasksOf(j))
  BY <1>6, <1>7, <1>8, <1>9, SumFilter
<1> QED
  BY <1>3, <1>4, <1>5, <1>6, <1>9, <1>10, SumNat

\* A run costs no more when none of its tasks does.
LEMMA RunCostFalls ==
  ASSUME NEW d, Shape(d), NEW e, Shape(e), NEW j \in Jobs,
         \A t \in TasksOf(j) : CostAt(e)[t] <= CostAt(d)[t]
  PROVE  RunCost(e, j) <= RunCost(d, j)
<1>1. IsFiniteSet(TasksOf(j)) /\ TasksOf(j) \subseteq Tasks
  BY AllFinite DEF TasksOf
<1>2. \A t \in TasksOf(j) : CostAt(d)[t] \in Int /\ CostAt(e)[t] \in Int
  BY <1>1, RunCostIs
<1>3. SumFunctionOnSet(CostAt(e), TasksOf(j)) <= SumFunctionOnSet(CostAt(d), TasksOf(j))
  BY <1>1, <1>2, SumMonotonic
<1> QED
  BY <1>3, RunCostIs

\* It costs as much more as the one task that changes.
LEMMA RunCostChanges ==
  ASSUME NEW d, Shape(d), NEW e, Shape(e), NEW t \in Tasks,
         \A u \in Tasks \ {t} : CostAt(e)[u] = CostAt(d)[u]
  PROVE  /\ RunCost(e, Job(t)) = RunCost(d, Job(t)) - CostAt(d)[t] + CostAt(e)[t]
         /\ \A j \in Jobs \ {Job(t)} : RunCost(e, j) = RunCost(d, j)
<1>1. \A j \in Jobs : IsFiniteSet(TasksOf(j)) /\ TasksOf(j) \subseteq Tasks
  BY AllFinite DEF TasksOf
<1>2. Job(t) \in Jobs /\ t \in TasksOf(Job(t))
  BY TaskParts DEF TasksOf
<1>3. \A u \in Tasks : CostAt(d)[u] \in Int /\ CostAt(e)[u] \in Int
  BY <1>2, RunCostIs
<1>4. RunCost(e, Job(t)) = RunCost(d, Job(t)) - CostAt(d)[t] + CostAt(e)[t]
  <2>1. PICK T : T = TasksOf(Job(t))
    OBVIOUS
  <2>2. IsFiniteSet(T) /\ T \subseteq Tasks /\ t \in T
    BY <2>1, <1>1, <1>2
  <2>3. SumFunctionOnSet(CostAt(e), T) = SumFunctionOnSet(CostAt(d), T) - CostAt(d)[t] + CostAt(e)[t]
    BY <1>3, <2>2, SumChange
  <2> QED
    BY <1>2, <2>1, <2>3, RunCostIs
<1>5. ASSUME NEW j \in Jobs \ {Job(t)}
      PROVE  RunCost(e, j) = RunCost(d, j)
  <2>1. \A u \in TasksOf(j) : CostAt(e)[u] = CostAt(d)[u]
    BY DEF TasksOf
  <2>2. SumFunctionOnSet(CostAt(e), TasksOf(j)) = SumFunctionOnSet(CostAt(d), TasksOf(j))
    BY <1>1, <2>1, SumAgrees
  <2> QED
    BY <2>2, RunCostIs
<1> QED
  BY <1>4, <1>5

-----------------------------------------------------------------------------
(* Limits. *)

\* Nothing more is held anywhere, nothing is paid, and no overcharge is forgotten.
LEMMA StillWithin ==
  ASSUME NEW d, Shape(d), NEW e, Shape(e), BudgetsHold(d),
         \A t \in Tasks : Over(e, t) = Over(d, t),
         \A s \in Scopes, q \in Periods : e.held[s][q] <= d.held[s][q] /\ e.spent[s][q] = d.spent[s][q]
  PROVE  BudgetsHold(e)
<1> SUFFICES ASSUME NEW s \in Scopes, NEW q \in Periods
             PROVE  e.spent[s][q] + e.held[s][q] <= Limit[s[1]] + Overcharge(e, InScope(s))
  BY DEF BudgetsHold
<1>1. InScope(s) \in SUBSET Tasks
  BY DEF InScope
<1>2. \A t \in InScope(s) : Over(e, t) \in Nat /\ Over(d, t) <= Over(e, t)
  BY <1>1, PaidNat
<1>3. Overcharge(d, InScope(s)) <= Overcharge(e, InScope(s))
  BY <1>1, <1>2, OverchargeGrows
<1>4. Overcharge(d, InScope(s)) \in Nat /\ Overcharge(e, InScope(s)) \in Nat
  BY <1>1, OverchargeIs
<1>5. Limit[s[1]] \in Nat /\ d.held[s][q] \in Int /\ e.held[s][q] \in Int /\ d.spent[s][q] \in Nat
  BY LimitNat DEF Shape
<1>6. d.spent[s][q] + d.held[s][q] <= Limit[s[1]] + Overcharge(d, InScope(s))
  BY DEF BudgetsHold
<1>7. e.held[s][q] <= d.held[s][q] /\ e.spent[s][q] = d.spent[s][q]
  OBVIOUS
<1> QED
  BY <1>3, <1>4, <1>5, <1>6, <1>7

\* What fits leaves room in every period of the budget, and in any two.
LEMMA FitsBounds ==
  ASSUME NEW d \in Databases, NEW j \in Jobs, NEW period \in [Kinds -> Periods], NEW extra \in Nat,
         Fits(d, j, period, extra), NEW k \in Kinds, NEW s, s = Scope(j, k), NEW q \in Periods
  PROVE  /\ d.spent[s][period[k]] + d.held[s][q] + extra <= Limit[k]
         /\ \A r \in Periods \ {q} : d.spent[s][period[k]] + (d.held[s][q] + d.held[s][r]) + extra <= Limit[k]
<1>1. s \in Scopes /\ Limit[k] \in Nat /\ Limits(k) <= Limit[k] /\ Limits(k) \in Nat
  BY ScopeParts, SeoAssumption DEF Limits
<1>2. PICK h : h = d.held[s]
  OBVIOUS
<1>3. h \in [Periods -> Nat] /\ d.spent[s][period[k]] \in Nat
  BY <1>1, <1>2 DEF Databases
<1>4. SumFunction(h) = SumFunctionOnSet(h, Periods)
  BY <1>3 DEF SumFunction
<1>5. \A x \in Periods : h[x] \in Nat
  BY <1>3
<1>6. SumFunction(h) \in Nat /\ h[q] <= SumFunction(h)
  BY <1>4, <1>5, AllFinite, SumNat, SumBoundsEach
<1>7. \A r \in Periods \ {q} : h[q] + h[r] <= SumFunction(h)
  BY <1>4, <1>5, AllFinite, SumBoundsTwo
<1>8. d.spent[s][period[k]] + SumFunction(h) + extra <= Limits(k)
  BY <1>2 DEF Fits
<1>9. d.spent[s][period[k]] + h[q] + extra <= Limit[k]
  BY <1>1, <1>3, <1>5, <1>6, <1>8
<1>10. ASSUME NEW r \in Periods \ {q}
       PROVE  d.spent[s][period[k]] + (h[q] + h[r]) + extra <= Limit[k]
  <2>1. h[q] + h[r] <= SumFunction(h) /\ h[q] \in Nat /\ h[r] \in Nat
    BY <1>5, <1>7
  <2> QED
    BY <1>1, <1>3, <1>6, <1>8, <2>1
<1> QED
  BY <1>2, <1>9, <1>10

\* The price of tasks.
Total(T) == SumFunction([t \in T |-> Price(t)])

LEMMA TotalNat ==
  ASSUME NEW T \in SUBSET Tasks
  PROVE  Total(T) \in Nat
<1>1. PICK f : f = [t \in T |-> Price(t)]
  OBVIOUS
<1>2. Total(T) = SumFunctionOnSet(f, T) /\ IsFiniteSet(T) /\ \A t \in T : f[t] \in Nat
  BY <1>1, AllFinite, TaskParts DEF Total, SumFunction
<1> QED
  BY <1>2, SumNat

\* The price of tasks of one job sits in one period of each of its budgets.
LEMMA PriceInJob ==
  ASSUME NEW d, NEW j \in Jobs, NEW T \in SUBSET TasksOf(j), NEW s, NEW q
  PROVE  PriceIn(d, T, s, q) =
           IF \E k \in Kinds : s = Scope(j, k) /\ q = d.job[j].period[k] THEN Total(T) ELSE 0
<1>1. T \in SUBSET Tasks /\ \A t \in T : Job(t) = j
  BY DEF TasksOf
<1>2. CASE \E k \in Kinds : s = Scope(j, k) /\ q = d.job[j].period[k]
  <2>1. {u \in T : In(d, u, s, q)} = T
    BY <1>1, <1>2 DEF In
  <2> QED
    BY <1>2, <2>1 DEF PriceIn, Total
<1>3. CASE ~\E k \in Kinds : s = Scope(j, k) /\ q = d.job[j].period[k]
  <2>1. \A u \in T : ~In(d, u, s, q)
    BY <1>1, <1>3 DEF In
  <2>2. {u \in T : In(d, u, s, q)} = {}
    BY <2>1
  <2>3. PICK f : f = [t \in {u \in T : In(d, u, s, q)} |-> Price(t)]
    OBVIOUS
  <2>4. DOMAIN f = {} /\ PriceIn(d, T, s, q) = SumFunction(f)
    BY <2>2, <2>3 DEF PriceIn
  <2> QED
    BY <1>3, <2>4, SumOfEmpty
<1> QED
  BY <1>2, <1>3

\* What fits may be reserved: admit and queueRetry.
LEMMA HoldsWithin ==
  ASSUME NEW d \in Databases, NEW e, Shape(e), BudgetsHold(d),
         \A t \in Tasks : Over(e, t) = Over(d, t), e.spent = d.spent,
         NEW j \in Jobs, NEW T \in SUBSET TasksOf(j), Adds(d, e, T),
         Fits(d, j, e.job[j].period, Total(T))
  PROVE  BudgetsHold(e)
<1> SUFFICES ASSUME NEW s \in Scopes, NEW q \in Periods
             PROVE  e.spent[s][q] + e.held[s][q] <= Limit[s[1]] + Overcharge(e, InScope(s))
  BY DEF BudgetsHold
<1>0. Shape(d) /\ d.held[s][q] \in Nat /\ d.spent[s][q] \in Nat /\ Limit[s[1]] \in Nat
  BY ShapeIs, LimitNat DEF Databases
<1>1. InScope(s) \in SUBSET Tasks /\ T \in SUBSET Tasks
  BY DEF InScope, TasksOf
<1>2. \A t \in InScope(s) : Over(d, t) <= Over(e, t)
  BY <1>0, <1>1, PaidNat
<1>3. Overcharge(d, InScope(s)) <= Overcharge(e, InScope(s))
  BY <1>0, <1>1, <1>2, OverchargeGrows
<1>4. Overcharge(d, InScope(s)) \in Nat /\ Overcharge(e, InScope(s)) \in Nat
  BY <1>0, <1>1, OverchargeIs
<1>5. d.spent[s][q] + d.held[s][q] <= Limit[s[1]] + Overcharge(d, InScope(s))
  BY DEF BudgetsHold
<1>6. e.held[s][q] = d.held[s][q] + PriceIn(e, T, s, q) /\ e.spent[s][q] = d.spent[s][q]
  BY DEF Adds
<1>7. CASE \E k \in Kinds : s = Scope(j, k) /\ q = e.job[j].period[k]
  <2>1. PICK k \in Kinds : s = Scope(j, k) /\ q = e.job[j].period[k]
    BY <1>7
  <2>2. PriceIn(e, T, s, q) = Total(T) /\ Total(T) \in Nat
    BY <1>1, <1>7, PriceInJob, TotalNat
  <2>3. e.job[j].period \in [Kinds -> Periods]
    BY DEF Shape, JobRecords
  <2>4. d.spent[s][q] + d.held[s][q] + Total(T) <= Limit[k]
    BY <2>1, <2>2, <2>3, FitsBounds
  <2>5. Limit[k] = Limit[s[1]]
    BY <2>1, ScopeParts
  <2> QED
    BY <1>0, <1>4, <1>6, <2>2, <2>4, <2>5
<1>8. CASE ~\E k \in Kinds : s = Scope(j, k) /\ q = e.job[j].period[k]
  <2>1. PriceIn(e, T, s, q) = 0
    BY <1>8, PriceInJob
  <2> QED
    BY <1>0, <1>3, <1>4, <1>5, <1>6, <2>1
<1> QED
  BY <1>7, <1>8

\* What fits today may move to today: claim.
LEMMA MovesWithin ==
  ASSUME NEW d \in Databases, NEW e, Shape(e), BudgetsHold(d), HeldBalanced(d),
         \A t \in Tasks : Over(e, t) = Over(d, t), e.spent = d.spent,
         NEW j \in Jobs, NEW T \in SUBSET TasksOf(j), T \subseteq Holding(d), Moves(d, e, T),
         Fits(d, j, e.job[j].period, 0)
  PROVE  BudgetsHold(e)
<1> SUFFICES ASSUME NEW s \in Scopes, NEW q \in Periods
             PROVE  e.spent[s][q] + e.held[s][q] <= Limit[s[1]] + Overcharge(e, InScope(s))
  BY DEF BudgetsHold
<1>0. Shape(d) /\ d.held[s][q] \in Nat /\ d.spent[s][q] \in Nat /\ Limit[s[1]] \in Nat
  BY ShapeIs, LimitNat DEF Databases
<1>1. InScope(s) \in SUBSET Tasks /\ T \in SUBSET Tasks
  BY DEF InScope, TasksOf
<1>2. \A t \in InScope(s) : Over(d, t) <= Over(e, t)
  BY <1>0, <1>1, PaidNat
<1>3. Overcharge(d, InScope(s)) <= Overcharge(e, InScope(s))
  BY <1>0, <1>1, <1>2, OverchargeGrows
<1>4. Overcharge(d, InScope(s)) \in Nat /\ Overcharge(e, InScope(s)) \in Nat
  BY <1>0, <1>1, OverchargeIs
<1>5. d.spent[s][q] + d.held[s][q] <= Limit[s[1]] + Overcharge(d, InScope(s))
  BY DEF BudgetsHold
<1>6. /\ e.held[s][q] = d.held[s][q] - PriceIn(d, T, s, q) + PriceIn(e, T, s, q)
      /\ e.spent[s][q] = d.spent[s][q]
  BY DEF Moves
<1>7. PriceIn(d, T, s, q) \in Nat /\ PriceIn(e, T, s, q) \in Nat
  BY <1>1, PriceInNat
<1>8. CASE PriceIn(e, T, s, q) <= PriceIn(d, T, s, q)
  BY <1>0, <1>3, <1>4, <1>5, <1>6, <1>7, <1>8
<1>9. CASE ~(PriceIn(e, T, s, q) <= PriceIn(d, T, s, q))
  <2>1. PICK k \in Kinds : s = Scope(j, k) /\ q = e.job[j].period[k]
    <3>1. PriceIn(e, T, s, q) # 0
      BY <1>7, <1>9
    <3>2. PriceIn(e, T, s, q) =
            IF \E k \in Kinds : s = Scope(j, k) /\ q = e.job[j].period[k] THEN Total(T) ELSE 0
      BY PriceInJob
    <3> QED
      BY <3>1, <3>2
  <2>2. PICK r : r = d.job[j].period[k]
    OBVIOUS
  <2>3. r \in Periods /\ e.job[j].period \in [Kinds -> Periods]
    BY <1>0, <2>2 DEF Shape, JobRecords
  <2>4. PriceIn(d, T, s, r) = Total(T) /\ PriceIn(e, T, s, q) = Total(T) /\ Total(T) \in Nat
    BY <1>1, <2>1, <2>2, PriceInJob, TotalNat
  <2>5. r # q
    BY <1>9, <2>4
  <2>6. Total(T) <= d.held[s][r] /\ d.held[s][r] \in Nat
    <3>1. PICK R : R = Holding(d) \ T
      OBVIOUS
    <3>2. R \in SUBSET Tasks /\ R \cap T = {} /\ R \cup T = Holding(d)
      BY <3>1 DEF Holding
    <3>3. PriceIn(d, R \cup T, s, r) = PriceIn(d, R, s, r) + PriceIn(d, T, s, r)
      BY <1>1, <3>2, PriceInUnion
    <3>4. PriceIn(d, R, s, r) \in Nat
      BY <3>2, PriceInNat
    <3>5. d.held[s][r] = PriceIn(d, R, s, r) + Total(T)
      BY <2>3, <2>4, <3>2, <3>3 DEF HeldBalanced
    <3> QED
      BY <2>4, <3>4, <3>5
  <2>7. d.spent[s][q] + (d.held[s][q] + d.held[s][r]) + 0 <= Limit[k]
    BY <2>1, <2>3, <2>5, FitsBounds
  <2>8. Limit[k] = Limit[s[1]]
    BY <2>1, ScopeParts
  <2>9. PriceIn(d, T, s, q) = 0
    <3>1. ~\E l \in Kinds : s = Scope(j, l) /\ q = d.job[j].period[l]
      BY <2>1, <2>2, <2>5, ScopeParts
    <3> QED
      BY <3>1, PriceInJob
  <2> QED
    BY <1>0, <1>4, <1>6, <2>4, <2>6, <2>7, <2>8, <2>9
<1> QED
  BY <1>8, <1>9

\* A receipt frees the price and pays the cost, in the same periods.
LEMMA PaysWithin ==
  ASSUME NEW d \in Databases, NEW e, Shape(e), BudgetsHold(d),
         NEW t \in Tasks, NEW c \in Nat, Pays(d, e, t, c), Frees(d, e, {t})
  PROVE  BudgetsHold(e)
<1> SUFFICES ASSUME NEW s \in Scopes, NEW q \in Periods
             PROVE  e.spent[s][q] + e.held[s][q] <= Limit[s[1]] + Overcharge(e, InScope(s))
  BY DEF BudgetsHold
<1>0. Shape(d) /\ d.held[s][q] \in Nat /\ d.spent[s][q] \in Nat /\ Limit[s[1]] \in Nat
  BY ShapeIs, LimitNat DEF Databases
<1>1. InScope(s) \in SUBSET Tasks /\ Price(t) \in Nat
  BY TaskParts DEF InScope
<1>2. \A u \in InScope(s) : Over(d, u) <= Over(e, u)
  <2> TAKE u \in InScope(s)
  <2>1. Over(d, u) \in Nat /\ Over(e, u) \in Nat
    BY <1>0, <1>1, PaidNat
  <2>2. CASE u = t
    BY <1>1, <2>1, <2>2 DEF Pays, Over
  <2>3. CASE u # t
    BY <1>1, <2>1, <2>3 DEF Pays, Over
  <2> QED
    BY <2>2, <2>3
<1>3. Overcharge(d, InScope(s)) <= Overcharge(e, InScope(s))
  BY <1>0, <1>1, <1>2, OverchargeGrows
<1>4. Overcharge(d, InScope(s)) \in Nat /\ Overcharge(e, InScope(s)) \in Nat
  BY <1>0, <1>1, OverchargeIs
<1>5. d.spent[s][q] + d.held[s][q] <= Limit[s[1]] + Overcharge(d, InScope(s))
  BY DEF BudgetsHold
<1>6. /\ e.held[s][q] = d.held[s][q] - PriceIn(d, {t}, s, q)
      /\ e.spent[s][q] = d.spent[s][q] + IF In(d, t, s, q) THEN c ELSE 0
  BY DEF Pays, Frees
<1>7. PriceIn(d, {t}, s, q) = IF In(d, t, s, q) THEN Price(t) ELSE 0
  BY PriceOfOne
<1>8. CASE In(d, t, s, q)
  <2>1. t \in InScope(s)
    BY <1>8 DEF In, InScope
  <2>2. c - Price(t) <= Overcharge(e, InScope(s)) - Overcharge(d, InScope(s))
    BY <1>0, <1>1, <2>1, OverchargePays
  <2> QED
    BY <1>0, <1>1, <1>4, <1>5, <1>6, <1>7, <1>8, <2>2
<1>9. CASE ~In(d, t, s, q)
  BY <1>0, <1>3, <1>4, <1>5, <1>6, <1>7, <1>9
<1> QED
  BY <1>8, <1>9

(***************************************************************************)
(* What the operators on the database write.                               *)
(***************************************************************************)
\* One part of a record changes, the others stay.
LEMMA WithHeld ==
  ASSUME NEW d, Shape(d), NEW h, NEW e, e = [d EXCEPT !.held = h]
  PROVE  e = [task |-> d.task, job |-> d.job, held |-> h, spent |-> d.spent]
<1>1. PICK a, b, c, f : d = [task |-> a, job |-> b, held |-> c, spent |-> f]
  BY DEF Shape
<1> QED
  BY <1>1

LEMMA WithSpent ==
  ASSUME NEW d, Shape(d), NEW h, NEW e, e = [d EXCEPT !.spent = h]
  PROVE  e = [task |-> d.task, job |-> d.job, held |-> d.held, spent |-> h]
<1>1. PICK a, b, c, f : d = [task |-> a, job |-> b, held |-> c, spent |-> f]
  BY DEF Shape
<1> QED
  BY <1>1

LEMMA WithTask ==
  ASSUME NEW d, Shape(d), NEW h, NEW e, e = [d EXCEPT !.task = h]
  PROVE  e = [task |-> h, job |-> d.job, held |-> d.held, spent |-> d.spent]
<1>1. PICK a, b, c, f : d = [task |-> a, job |-> b, held |-> c, spent |-> f]
  BY DEF Shape
<1> QED
  BY <1>1

LEMMA WithJob ==
  ASSUME NEW d, Shape(d), NEW h, NEW e, e = [d EXCEPT !.job = h]
  PROVE  e = [task |-> d.task, job |-> h, held |-> d.held, spent |-> d.spent]
<1>1. PICK a, b, c, f : d = [task |-> a, job |-> b, held |-> c, spent |-> f]
  BY DEF Shape
<1> QED
  BY <1>1

\* What hold, release and spend write.
LEMMA HoldIs ==
  ASSUME NEW d, Shape(d), NEW T \in SUBSET Tasks, NEW e, e = Hold(d, T)
  PROVE  /\ Shape(e) /\ e.task = d.task /\ e.job = d.job /\ e.spent = d.spent
         /\ Adds(d, e, T)
<1>1. PICK h : h = [s \in Scopes |-> [q \in Periods |-> d.held[s][q] + PriceIn(d, T, s, q)]]
  OBVIOUS
<1>2. h \in [Scopes -> [Periods -> Int]]
  BY <1>1, PriceInNat DEF Shape
<1>3. e = [d EXCEPT !.held = h]
  BY <1>1, Zenon DEF Hold
<1>4. e = [task |-> d.task, job |-> d.job, held |-> h, spent |-> d.spent]
  BY <1>3, WithHeld
<1>5. e.task = d.task /\ e.job = d.job /\ e.spent = d.spent /\ e.held = h
  BY <1>4
<1>6. Shape(e)
  BY <1>2, <1>4, <1>5 DEF Shape
<1>7. \A s, q : PriceIn(e, T, s, q) = PriceIn(d, T, s, q)
  BY <1>5, PriceInSame
<1>8. Adds(d, e, T)
  BY <1>1, <1>5, <1>7 DEF Adds
<1> QED
  BY <1>5, <1>6, <1>8

LEMMA ReleaseIs ==
  ASSUME NEW d, Shape(d), NEW T \in SUBSET Tasks, NEW e, e = Release(d, T)
  PROVE  /\ Shape(e) /\ e.task = d.task /\ e.job = d.job /\ e.spent = d.spent
         /\ Frees(d, e, T)
<1>1. PICK h : h = [s \in Scopes |-> [q \in Periods |-> d.held[s][q] - PriceIn(d, T, s, q)]]
  OBVIOUS
<1>2. h \in [Scopes -> [Periods -> Int]]
  BY <1>1, PriceInNat DEF Shape
<1>3. e = [d EXCEPT !.held = h]
  BY <1>1, Zenon DEF Release
<1>4. e = [task |-> d.task, job |-> d.job, held |-> h, spent |-> d.spent]
  BY <1>3, WithHeld
<1>5. e.task = d.task /\ e.job = d.job /\ e.spent = d.spent /\ e.held = h
  BY <1>4
<1>6. Shape(e)
  BY <1>2, <1>4, <1>5 DEF Shape
<1>7. Frees(d, e, T)
  BY <1>1, <1>5 DEF Frees
<1> QED
  BY <1>5, <1>6, <1>7

LEMMA SpendIs ==
  ASSUME NEW d, Shape(d), NEW t \in Tasks, NEW c \in Nat, NEW e, e = Spend(d, t, c)
  PROVE  /\ Shape(e) /\ e.task = d.task /\ e.job = d.job /\ e.held = d.held
         /\ \A s \in Scopes, q \in Periods : e.spent[s][q] = d.spent[s][q] + IF In(d, t, s, q) THEN c ELSE 0
<1>1. PICK h : h = [s \in Scopes |-> [q \in Periods |-> d.spent[s][q] + IF In(d, t, s, q) THEN c ELSE 0]]
  OBVIOUS
<1>2. h \in [Scopes -> [Periods -> Nat]]
  BY <1>1 DEF Shape
<1>3. e = [d EXCEPT !.spent = h]
  BY <1>1, Zenon DEF Spend
<1>4. e = [task |-> d.task, job |-> d.job, held |-> d.held, spent |-> h]
  BY <1>3, WithSpent
<1>5. e.task = d.task /\ e.job = d.job /\ e.held = d.held /\ e.spent = h
  BY <1>4
<1>6. Shape(e)
  BY <1>2, <1>4, <1>5 DEF Shape
<1> QED
  BY <1>1, <1>5, <1>6

\* What the tasks of a job say depends on their states and the job's cancellation only.
LEMMA SameStates ==
  ASSUME NEW d, NEW e, NEW j, e.job[j].cancel = d.job[j].cancel,
         \A t \in TasksOf(j) : Status(e, t) = Status(d, t)
  PROVE  /\ CurrentTasks(e, j) = CurrentTasks(d, j)
         /\ JobStatus(e, j) = JobStatus(d, j) /\ RunStatus(e, j) = RunStatus(d, j)
<1>1. \A t \in TasksOf(j) : Retry(t) \in TasksOf(j)
  BY TaskParts DEF TasksOf
<1>2. CurrentTasks(e, j) = CurrentTasks(d, j)
  BY <1>1 DEF CurrentTasks
<1>3. CurrentTasks(d, j) \subseteq TasksOf(j)
  BY DEF CurrentTasks
<1>4. CurrentStates(e, j) = CurrentStates(d, j)
  BY <1>2, <1>3 DEF CurrentStates
<1>5. JobStatus(e, j) = JobStatus(d, j)
  BY <1>4 DEF JobStatus
<1> QED
  BY <1>2, <1>4, <1>5 DEF RunStatus

\* and a job goes on fitting while neither changes.
LEMMA SameJob ==
  ASSUME NEW d, NEW e, NEW j, JobFits(d, j),
         e.job[j].status = d.job[j].status, e.job[j].run = d.job[j].run,
         e.job[j].linked => d.job[j].linked, e.job[j].cancel = d.job[j].cancel,
         \A t \in TasksOf(j) : Status(e, t) = Status(d, t)
  PROVE  JobFits(e, j)
<1>1. JobStatus(e, j) = JobStatus(d, j) /\ RunStatus(e, j) = RunStatus(d, j)
  BY SameStates
<1> QED
  BY <1>1 DEF JobFits

\* A finished job is never new.
LEMMA JobStatusType ==
  ASSUME NEW d, NEW j
  PROVE  /\ JobStatus(d, j) \in TaskStates \ {"none", "queued"}
         /\ RunStatus(d, j) \in TaskStates \ {"none", "queued"}
BY DEF JobStatus, RunStatus, TaskStates

\* The rest of a job's record stays.
LEMMA FinishedIs ==
  ASSUME NEW d, NEW j, d.job[j] \in JobRecords, NEW r, r = Finished(d, j)
  PROVE  /\ r \in JobRecords /\ r.status = JobStatus(d, j)
         /\ r.linked => r.run = RunStatus(d, j)
         /\ r.period = d.job[j].period /\ r.linked = d.job[j].linked /\ r.cancel = d.job[j].cancel
<1>1. PICK x : x = JobStatus(d, j)
  OBVIOUS
<1>2. PICK y : y = IF d.job[j].linked THEN RunStatus(d, j) ELSE d.job[j].run
  OBVIOUS
<1>3. r = [d.job[j] EXCEPT !.status = x, !.run = y]
  BY <1>1, <1>2, Zenon DEF Finished
<1>4. x \in TaskStates /\ y \in TaskStates
  BY <1>1, <1>2, JobStatusType DEF JobRecords
<1>5. PICK q \in JobRecords : q = d.job[j]
  OBVIOUS
<1>6. r = [status |-> x, run |-> y, cancel |-> q.cancel, linked |-> q.linked, period |-> q.period]
  <2>1. PICK a, b, c, l, p : q = [status |-> a, run |-> b, cancel |-> c, linked |-> l, period |-> p]
    BY DEF JobRecords
  <2>2. r = [[status |-> a, run |-> b, cancel |-> c, linked |-> l, period |-> p] EXCEPT !.status = x, !.run = y]
    BY <1>3, <1>5, <2>1, Zenon
  <2>3. r = [status |-> x, run |-> y, cancel |-> c, linked |-> l, period |-> p]
    BY <2>2
  <2> QED
    BY <2>1, <2>3
<1> QED
  BY <1>1, <1>2, <1>4, <1>5, <1>6 DEF JobRecords

\* What finish writes: the jobs it is asked for fit.
LEMMA FinishIs ==
  ASSUME NEW d, Shape(d), NEW J \in SUBSET Jobs, NEW e, e = Finish(d, J)
  PROVE  /\ Shape(e) /\ e.task = d.task /\ e.held = d.held /\ e.spent = d.spent
         /\ \A j \in Jobs : /\ e.job[j].period = d.job[j].period /\ e.job[j].linked = d.job[j].linked
                            /\ e.job[j].cancel = d.job[j].cancel
         /\ \A j \in Jobs \ J : e.job[j] = d.job[j]
         /\ \A j \in J : JobFits(e, j)
<1>1. PICK f : f = [j \in Jobs |-> IF j \in J THEN Finished(d, j) ELSE d.job[j]]
  OBVIOUS
<1>2. e = [d EXCEPT !.job = f]
  BY <1>1, Zenon DEF Finish
<1>3. e = [task |-> d.task, job |-> f, held |-> d.held, spent |-> d.spent]
  BY <1>2, WithJob
<1>4. e.task = d.task /\ e.held = d.held /\ e.spent = d.spent /\ e.job = f
  BY <1>3
<1>5. \A j \in Jobs : d.job[j] \in JobRecords
  BY DEF Shape
<1>6. ASSUME NEW j \in Jobs
      PROVE  /\ f[j] \in JobRecords
             /\ f[j].period = d.job[j].period /\ f[j].linked = d.job[j].linked /\ f[j].cancel = d.job[j].cancel
             /\ j \in J => f[j].status = JobStatus(d, j) /\ (f[j].linked => f[j].run = RunStatus(d, j))
             /\ j \notin J => f[j] = d.job[j]
  BY <1>1, <1>5, FinishedIs
<1>7. Shape(e)
  <2>1. f \in [Jobs -> JobRecords]
    BY <1>1, <1>6
  <2> QED
    BY <1>3, <1>4, <2>1 DEF Shape
<1>8. ASSUME NEW j \in J
      PROVE  JobFits(e, j)
  <2>1. /\ e.job[j].cancel = d.job[j].cancel
        /\ \A t : Status(e, t) = Status(d, t)
    BY <1>4, <1>6 DEF Status
  <2>2. JobStatus(e, j) = JobStatus(d, j) /\ RunStatus(e, j) = RunStatus(d, j)
    BY <2>1, SameStates
  <2>3. e.job[j].status = JobStatus(e, j) /\ (e.job[j].linked => e.job[j].run = RunStatus(e, j))
    BY <1>4, <1>6, <2>2
  <2> QED
    BY <2>3, JobStatusType DEF JobFits
<1> QED
  BY <1>4, <1>6, <1>7, <1>8

(***************************************************************************)
(* A sound database: what every transaction keeps.  The lemmas say what a  *)
(* transaction has to do to the tasks and the budgets for that.            *)
(***************************************************************************)
Sound(d) ==
  /\ d \in Databases /\ TasksFit(d)
  /\ HeldBalanced(d) /\ SpentBalanced(d) /\ BudgetsHold(d) /\ RunsHold(d)

\* Balanced budgets are not overdrawn.
LEMMA BalancedIsNat ==
  ASSUME NEW d, Shape(d), HeldBalanced(d)
  PROVE  d \in Databases
<1>1. Holding(d) \in SUBSET Tasks
  BY DEF Holding
<1>2. \A s \in Scopes, q \in Periods : d.held[s][q] \in Nat
  BY <1>1, PriceInNat DEF HeldBalanced
<1> QED
  BY <1>2, ShapeIs

\* Runs stay within their ceiling when no cost rises and no overcharge falls.
LEMMA RunsStill ==
  ASSUME NEW d, Shape(d), NEW e, Shape(e), RunsHold(d),
         \A t \in Tasks : CostAt(e)[t] <= CostAt(d)[t],
         \A t \in Tasks : Over(e, t) = Over(d, t)
  PROVE  RunsHold(e)
<1> SUFFICES ASSUME NEW j \in Jobs
             PROVE  RunCost(e, j) <= RunCeiling + Overcharge(e, TasksOf(j))
  BY DEF RunsHold
<1>1. TasksOf(j) \in SUBSET Tasks
  BY DEF TasksOf
<1>2. \A t \in TasksOf(j) : CostAt(e)[t] <= CostAt(d)[t]
  BY <1>1
<1>3. RunCost(e, j) <= RunCost(d, j) /\ RunCost(e, j) \in Nat /\ RunCost(d, j) \in Nat
  BY <1>2, RunCostFalls, RunCostIs
<1>4. \A t \in TasksOf(j) : Over(d, t) <= Over(e, t)
  BY <1>1, PaidNat
<1>5. Overcharge(d, TasksOf(j)) <= Overcharge(e, TasksOf(j))
  BY <1>1, <1>4, OverchargeGrows
<1>6. Overcharge(d, TasksOf(j)) \in Nat /\ Overcharge(e, TasksOf(j)) \in Nat /\ RunCeiling \in Nat
  BY <1>1, OverchargeIs, SeoAssumption
<1>7. RunCost(d, j) <= RunCeiling + Overcharge(d, TasksOf(j))
  BY DEF RunsHold
<1> QED
  BY <1>3, <1>5, <1>6, <1>7

\* No money changes.
LEMMA SoundSame ==
  ASSUME NEW d, Sound(d), NEW e, Shape(e), TasksFit(e), e.held = d.held, e.spent = d.spent,
         \A j \in Jobs : e.job[j].period = d.job[j].period,
         \A t \in Tasks : /\ e.task[t].actual = d.task[t].actual
                          /\ Holds(e, t) <=> Holds(d, t)
                          /\ Status(e, t) = "none" <=> Status(d, t) = "none"
  PROVE  Sound(e)
<1>1. Shape(d)
  BY ShapeIs DEF Sound
<1>2. Holding(e) = Holding(d) /\ \A t \in Holding(d) : e.job[Job(t)].period = d.job[Job(t)].period
  BY TaskParts DEF Holding
<1>3. HeldBalanced(e)
  BY <1>2, SameHolding DEF Sound
<1>4. \A t \in Tasks : Paid(e, t) = Paid(d, t) /\ Over(e, t) = Over(d, t)
  BY DEF Paid, Over
<1>5. SpentBalanced(e)
  BY <1>4, SamePaid DEF Sound
<1>6. \A s \in Scopes, q \in Periods : e.held[s][q] <= d.held[s][q] /\ e.spent[s][q] = d.spent[s][q]
  BY <1>1 DEF Shape
<1>7. BudgetsHold(e)
  BY <1>1, <1>4, <1>6, StillWithin DEF Sound
<1>8. \A t \in Tasks : CostAt(e)[t] = CostAt(d)[t]
  BY DEF CostAt, Cost
<1>9. \A t \in Tasks : CostAt(d)[t] \in Nat
  BY <1>1, RunCostIs, SeoAssumption
<1>10. RunsHold(e)
  BY <1>1, <1>4, <1>8, <1>9, RunsStill DEF Sound
<1> QED
  BY <1>3, <1>5, <1>7, <1>10, BalancedIsNat DEF Sound

\* Queued tasks are withdrawn: their price is free again.
LEMMA SoundWithdraw ==
  ASSUME NEW d, Sound(d), NEW e, Shape(e), TasksFit(e), e.spent = d.spent,
         \A j \in Jobs : e.job[j].period = d.job[j].period,
         NEW T \in SUBSET Tasks, Frees(d, e, T),
         \A t \in T : Status(d, t) = "queued" /\ Status(e, t) = "cancelled" /\ e.task[t].actual = 0,
         \A t \in Tasks \ T : e.task[t] = d.task[t]
  PROVE  Sound(e)
<1>1. Shape(d) /\ None # 0 /\ 0 \in Nat
  BY ShapeIs, SeoAssumption DEF Sound
<1>2. \A t \in T : d.task[t].actual = None
  BY DEF Sound, TasksFit
<1>3. Holding(e) = Holding(d) \ T /\ T \subseteq Holding(d)
  BY DEF Holding, Holds, Status
<1>4. \A t \in Holding(e) : e.job[Job(t)].period = d.job[Job(t)].period
  BY TaskParts DEF Holding
<1>5. HeldBalanced(e)
  BY <1>3, <1>4, ReleaseBalances DEF Sound
<1>6. \A t \in Tasks : Paid(e, t) = Paid(d, t)
  BY <1>1, <1>2 DEF Paid
<1>7. \A t \in Tasks : Over(e, t) = Over(d, t)
  BY <1>6 DEF Over
<1>8. SpentBalanced(e)
  BY <1>6, SamePaid DEF Sound
<1>9. ASSUME NEW s \in Scopes, NEW q \in Periods
      PROVE  e.held[s][q] <= d.held[s][q] /\ e.spent[s][q] = d.spent[s][q]
  <2>1. e.held[s][q] = d.held[s][q] - PriceIn(d, T, s, q)
    BY DEF Frees
  <2>2. PriceIn(d, T, s, q) \in Nat /\ d.held[s][q] \in Int
    BY <1>1, PriceInNat DEF Shape
  <2> QED
    BY <2>1, <2>2
<1>10. BudgetsHold(e)
  BY <1>1, <1>7, <1>9, StillWithin DEF Sound
<1>11. \A t \in Tasks : CostAt(d)[t] \in Nat
  BY <1>1, RunCostIs, SeoAssumption
<1>12. \A t \in Tasks : CostAt(e)[t] <= CostAt(d)[t]
  <2>1. \A t \in T : CostAt(e)[t] = 0
    BY <1>1 DEF CostAt, Cost
  <2>2. \A t \in Tasks \ T : CostAt(e)[t] = CostAt(d)[t]
    BY DEF CostAt, Cost, Status
  <2> QED
    BY <1>11, <2>1, <2>2
<1>13. RunsHold(e)
  BY <1>1, <1>7, <1>12, RunsStill DEF Sound
<1> QED
  BY <1>5, <1>8, <1>10, <1>13, BalancedIsNat DEF Sound

\* The cost of a run rises by the price of the tasks that are queued for it.
LEMMA RunCostQueues ==
  ASSUME NEW d, Shape(d), NEW e, Shape(e), NEW j \in Jobs, NEW T \in SUBSET TasksOf(j),
         \A t \in T : CostAt(d)[t] = 0 /\ CostAt(e)[t] = Price(t),
         \A t \in Tasks \ T : CostAt(e)[t] = CostAt(d)[t]
  PROVE  /\ RunCost(e, j) = RunCost(d, j) + Total(T)
         /\ \A i \in Jobs \ {j} : RunCost(e, i) = RunCost(d, i)
<1>1. \A i \in Jobs : IsFiniteSet(TasksOf(i)) /\ TasksOf(i) \subseteq Tasks
  BY AllFinite DEF TasksOf
<1>2. PICK f : f = [t \in T |-> Price(t)]
  OBVIOUS
<1>3. PICK g : g = [t \in TasksOf(j) |-> IF t \in T THEN Price(t) ELSE 0]
  OBVIOUS
<1>4. \A t \in TasksOf(j) : g[t] \in Int /\ CostAt(d)[t] \in Int /\ CostAt(e)[t] \in Int
  BY <1>1, <1>3, TaskParts, RunCostIs
<1>5. Total(T) = SumFunctionOnSet(g, TasksOf(j))
  <2>1. Total(T) = SumFunctionOnSet(f, T)
    BY <1>2 DEF Total, SumFunction
  <2>2. \A t \in TasksOf(j) : g[t] \in Int
    BY <1>4
  <2>3. /\ \A t \in T : f[t] = g[t]
        /\ \A t \in TasksOf(j) \ T : g[t] = 0
    BY <1>2, <1>3
  <2>4. SumFunctionOnSet(f, T) = SumFunctionOnSet(g, TasksOf(j))
    BY <1>1, <2>2, <2>3, SumFilter
  <2> QED
    BY <2>1, <2>4
<1>6. \A t \in TasksOf(j) : CostAt(e)[t] = CostAt(d)[t] + g[t]
  BY <1>1, <1>3, <1>4, TaskParts
<1>7. SumFunctionOnSet(CostAt(e), TasksOf(j)) = SumFunctionOnSet(CostAt(d), TasksOf(j)) + SumFunctionOnSet(g, TasksOf(j))
  BY <1>1, <1>4, <1>6, SumPlus
<1>8. ASSUME NEW i \in Jobs \ {j}
      PROVE  RunCost(e, i) = RunCost(d, i)
  <2>1. \A t \in TasksOf(i) : CostAt(e)[t] = CostAt(d)[t]
    BY DEF TasksOf
  <2>2. SumFunctionOnSet(CostAt(e), TasksOf(i)) = SumFunctionOnSet(CostAt(d), TasksOf(i))
    BY <1>1, <2>1, SumAgrees
  <2> QED
    BY <2>2, RunCostIs
<1> QED
  BY <1>5, <1>7, <1>8, RunCostIs

\* Tasks are queued for a job within the ceiling and the limits.
LEMMA SoundQueue ==
  ASSUME NEW d, Sound(d), NEW e, Shape(e), TasksFit(e), e.spent = d.spent,
         \A t \in Holding(d) : e.job[Job(t)].period = d.job[Job(t)].period,
         NEW j \in Jobs, NEW T \in SUBSET TasksOf(j), Adds(d, e, T),
         \A t \in T : Status(d, t) = "none" /\ Status(e, t) = "queued" /\ e.task[t].actual = None,
         \A t \in Tasks \ T : e.task[t] = d.task[t],
         Fits(d, j, e.job[j].period, Total(T)), RunCost(d, j) + Total(T) <= RunCeiling
  PROVE  Sound(e)
<1>1. Shape(d) /\ T \in SUBSET Tasks /\ d \in Databases
  BY ShapeIs DEF Sound, TasksOf
<1>2. \A t \in T : d.task[t].actual = None
  BY <1>1 DEF Sound, TasksFit
<1>3. Holding(e) = Holding(d) \cup T /\ Holding(d) \cap T = {}
  BY <1>1 DEF Holding, Holds, Status
<1>4. HeldBalanced(e)
  BY <1>1, <1>3, HoldBalances DEF Sound
<1>5. \A t \in Tasks : Paid(e, t) = Paid(d, t)
  BY <1>2 DEF Paid
<1>6. \A t \in Tasks : Over(e, t) = Over(d, t)
  BY <1>5 DEF Over
<1>7. SpentBalanced(e)
  BY <1>5, SamePaid DEF Sound
<1>8. BudgetsHold(e)
  BY <1>1, <1>6, HoldsWithin DEF Sound
<1>9. /\ \A t \in T : CostAt(d)[t] = 0 /\ CostAt(e)[t] = Price(t)
      /\ \A t \in Tasks \ T : CostAt(e)[t] = CostAt(d)[t]
  BY <1>1 DEF CostAt, Cost, Status
<1>10. /\ RunCost(e, j) = RunCost(d, j) + Total(T)
       /\ \A i \in Jobs \ {j} : RunCost(e, i) = RunCost(d, i)
  BY <1>1, <1>9, RunCostQueues
<1>11. RunsHold(e)
  <2> SUFFICES ASSUME NEW i \in Jobs
               PROVE  RunCost(e, i) <= RunCeiling + Overcharge(e, TasksOf(i))
    BY DEF RunsHold
  <2>1. TasksOf(i) \in SUBSET Tasks
    BY DEF TasksOf
  <2>2. \A t \in TasksOf(i) : Over(d, t) <= Over(e, t)
    BY <1>1, <1>6, <2>1, PaidNat
  <2>3. Overcharge(d, TasksOf(i)) <= Overcharge(e, TasksOf(i))
    BY <1>1, <2>1, <2>2, OverchargeGrows
  <2>4. /\ Overcharge(d, TasksOf(i)) \in Nat /\ Overcharge(e, TasksOf(i)) \in Nat
        /\ RunCeiling \in Nat /\ RunCost(d, i) \in Nat /\ RunCost(e, i) \in Nat
    BY <1>1, <2>1, OverchargeIs, RunCostIs, SeoAssumption
  <2>5. RunCost(d, i) <= RunCeiling + Overcharge(d, TasksOf(i))
    BY DEF Sound, RunsHold
  <2>6. CASE i = j
    BY <1>10, <2>4, <2>6
  <2>7. CASE i # j
    <3>1. RunCost(e, i) = RunCost(d, i)
      BY <1>10, <2>7
    <3> QED
      BY <2>3, <2>4, <2>5, <3>1
  <2> QED
    BY <2>6, <2>7
<1> QED
  BY <1>4, <1>7, <1>8, <1>11, BalancedIsNat DEF Sound

\* A receipt or a judgement is booked.
LEMMA SoundPay ==
  ASSUME NEW d, Sound(d), NEW e, Shape(e), TasksFit(e),
         \A j \in Jobs : e.job[j].period = d.job[j].period,
         NEW t \in Tasks, NEW c \in Nat, Pays(d, e, t, c), Frees(d, e, {t}),
         Holds(d, t), d.task[t].actual = None, e.task[t].actual = c, Status(e, t) \notin {"none", "queued", "running"},
         \A u \in Tasks \ {t} : e.task[u] = d.task[u]
  PROVE  Sound(e)
<1>1. Shape(d) /\ d \in Databases /\ c # None
  BY ShapeIs, SeoAssumption DEF Sound
<1>2. Holding(e) = Holding(d) \ {t} /\ {t} \subseteq Holding(d)
  BY <1>1 DEF Holding, Holds, Status
<1>3. \A u \in Holding(e) : e.job[Job(u)].period = d.job[Job(u)].period
  BY TaskParts DEF Holding
<1>4. HeldBalanced(e)
  BY <1>2, <1>3, ReleaseBalances DEF Sound
<1>5. SpentBalanced(e)
  BY <1>1, PayBalances DEF Sound
<1>6. BudgetsHold(e)
  BY <1>1, PaysWithin DEF Sound
<1>7. /\ CostAt(d)[t] = Price(t) /\ CostAt(e)[t] = c
      /\ \A u \in Tasks \ {t} : CostAt(e)[u] = CostAt(d)[u]
  BY <1>1 DEF CostAt, Cost, Holds, Status
<1>8. /\ RunCost(e, Job(t)) = RunCost(d, Job(t)) - Price(t) + c
      /\ \A j \in Jobs \ {Job(t)} : RunCost(e, j) = RunCost(d, j)
  BY <1>1, <1>7, RunCostChanges
<1>9. RunsHold(e)
  <2> SUFFICES ASSUME NEW i \in Jobs
               PROVE  RunCost(e, i) <= RunCeiling + Overcharge(e, TasksOf(i))
    BY DEF RunsHold
  <2>1. TasksOf(i) \in SUBSET Tasks
    BY DEF TasksOf
  <2>2. /\ Overcharge(d, TasksOf(i)) \in Nat /\ Overcharge(e, TasksOf(i)) \in Nat
        /\ RunCeiling \in Nat /\ RunCost(d, i) \in Nat /\ RunCost(e, i) \in Nat /\ Price(t) \in Nat
    BY <1>1, <2>1, OverchargeIs, RunCostIs, TaskParts, SeoAssumption
  <2>3. RunCost(d, i) <= RunCeiling + Overcharge(d, TasksOf(i))
    BY DEF Sound, RunsHold
  <2>4. CASE i = Job(t)
    <3>1. t \in TasksOf(i)
      BY <2>4 DEF TasksOf
    <3>2. c - Price(t) <= Overcharge(e, TasksOf(i)) - Overcharge(d, TasksOf(i))
      BY <1>1, <2>1, <3>1, OverchargePays
    <3>3. RunCost(e, i) = RunCost(d, i) - Price(t) + c
      BY <1>8, <2>4
    <3> QED
      BY <2>2, <2>3, <3>2, <3>3
  <2>5. CASE i # Job(t)
    <3>1. RunCost(e, i) = RunCost(d, i)
      BY <1>8, <2>5
    <3>2. t \notin TasksOf(i)
      BY <2>5 DEF TasksOf
    <3>3. \A u \in TasksOf(i) : Over(d, u) = Over(e, u) /\ Over(d, u) \in Nat
      BY <1>1, <2>1, <3>2, PaidNat DEF Over, Paid
    <3>4. Overcharge(d, TasksOf(i)) <= Overcharge(e, TasksOf(i))
      BY <1>1, <2>1, <3>3, OverchargeGrows
    <3> QED
      BY <2>2, <2>3, <3>1, <3>4
  <2> QED
    BY <2>4, <2>5
<1> QED
  BY <1>4, <1>5, <1>6, <1>9, BalancedIsNat DEF Sound

\* What a job still holds moves to another day that has room for it.
LEMMA SoundMove ==
  ASSUME NEW d, Sound(d), NEW e, Shape(e), TasksFit(e), e.spent = d.spent,
         NEW j \in Jobs, \A i \in Jobs \ {j} : e.job[i].period = d.job[i].period,
         NEW T, T = {t \in Holding(d) : Job(t) = j}, Moves(d, e, T), Fits(d, j, e.job[j].period, 0),
         \A t \in Tasks : /\ e.task[t].actual = d.task[t].actual
                          /\ Holds(e, t) <=> Holds(d, t)
                          /\ Status(e, t) = "none" <=> Status(d, t) = "none"
  PROVE  Sound(e)
<1>1. Shape(d) /\ d \in Databases
  BY ShapeIs DEF Sound
<1>2. /\ Holding(e) = Holding(d) /\ T \in SUBSET TasksOf(j) /\ T \subseteq Holding(d)
      /\ \A t \in Holding(d) : Job(t) # j => e.job[Job(t)].period = d.job[Job(t)].period
  BY TaskParts DEF Holding, TasksOf
<1>3. HeldBalanced(e)
  BY <1>2, MoveBalances DEF Sound
<1>4. \A t \in Tasks : Paid(e, t) = Paid(d, t) /\ Over(e, t) = Over(d, t)
  BY DEF Paid, Over
<1>5. SpentBalanced(e)
  BY <1>4, SamePaid DEF Sound
<1>6. BudgetsHold(e)
  BY <1>1, <1>2, <1>4, MovesWithin DEF Sound
<1>7. \A t \in Tasks : CostAt(e)[t] = CostAt(d)[t]
  BY DEF CostAt, Cost
<1>8. \A t \in Tasks : CostAt(d)[t] \in Nat
  BY <1>1, RunCostIs, SeoAssumption
<1>9. RunsHold(e)
  BY <1>1, <1>4, <1>7, <1>8, RunsStill DEF Sound
<1> QED
  BY <1>3, <1>5, <1>6, <1>9, BalancedIsNat DEF Sound

(***************************************************************************)
(* Transactions.                                                           *)
(***************************************************************************)
AllFit(d) == \A j \in Jobs : JobFits(d, j)
Unposted == {"none", "queued", "cancelled"}

\* Nothing is posted, and no receipt, final status or judgement is lost.
Keeps(d, e) ==
  \A t \in Tasks :
    /\ d.task[t].actual # None => e.task[t].actual = d.task[t].actual
    /\ Status(d, t) \in Final => Status(e, t) = Status(d, t)
    /\ d.task[t].judged => e.task[t].judged
PostsNothing(d, e) == \A t \in Tasks : Status(e, t) \in Unposted <=> Status(d, t) \in Unposted
Calm(d, e) == Keeps(d, e) /\ PostsNothing(d, e)

LEMMA CalmComposes ==
  ASSUME NEW d, NEW e, NEW f, Calm(d, e), Calm(e, f)
  PROVE  Calm(d, f)
BY DEF Calm, Keeps, PostsNothing

LEMMA TaskRecord ==
  ASSUME NEW q \in TaskRecords
  PROVE  q = [status |-> q.status, owner |-> q.owner, stale |-> q.stale,
              outcome |-> q.outcome, actual |-> q.actual, judged |-> q.judged]
BY DEF TaskRecords

LEMMA WithTaskAndJob ==
  ASSUME NEW d, Shape(d), NEW x, NEW y, NEW e, e = [d EXCEPT !.task = x, !.job = y]
  PROVE  e = [task |-> x, job |-> y, held |-> d.held, spent |-> d.spent]
<1>1. PICK a, b, c, f : d = [task |-> a, job |-> b, held |-> c, spent |-> f]
  BY DEF Shape
<1>2. e = [[task |-> a, job |-> b, held |-> c, spent |-> f] EXCEPT !.task = x, !.job = y]
  BY <1>1, Zenon
<1>3. e = [task |-> x, job |-> y, held |-> c, spent |-> f]
  BY <1>2
<1> QED
  BY <1>1, <1>3

\* A task withdrawn.
LEMMA CancelledRecord ==
  ASSUME NEW q \in TaskRecords, NEW r, r = [q EXCEPT !.status = "cancelled", !.actual = 0]
  PROVE  /\ r \in TaskRecords /\ r.status = "cancelled" /\ r.actual = 0
         /\ r.owner = q.owner /\ r.judged = q.judged
<1>1. PICK a, b, c, f, g, h : q = [status |-> a, owner |-> b, stale |-> c, outcome |-> f, actual |-> g, judged |-> h]
  BY TaskRecord
<1>2. r = [[status |-> a, owner |-> b, stale |-> c, outcome |-> f, actual |-> g, judged |-> h]
             EXCEPT !.status = "cancelled", !.actual = 0]
  BY <1>1, Zenon
<1>3. r = [status |-> "cancelled", owner |-> b, stale |-> c, outcome |-> f, actual |-> 0, judged |-> h]
  BY <1>2
<1> QED
  BY <1>1, <1>3 DEF TaskRecords, TaskStates

\* A job cancelled.
LEMMA CancelledJob ==
  ASSUME NEW q \in JobRecords, NEW r, r = [q EXCEPT !.cancel = TRUE]
  PROVE  r \in JobRecords /\ r.period = q.period /\ r.linked = q.linked
<1>1. PICK a, b, c, l, p : q = [status |-> a, run |-> b, cancel |-> c, linked |-> l, period |-> p]
  BY DEF JobRecords
<1>2. r = [[status |-> a, run |-> b, cancel |-> c, linked |-> l, period |-> p] EXCEPT !.cancel = TRUE]
  BY <1>1, Zenon
<1>3. r = [status |-> a, run |-> b, cancel |-> TRUE, linked |-> l, period |-> p]
  BY <1>2
<1> QED
  BY <1>1, <1>3 DEF JobRecords

\* What cancel writes: the queued tasks of the active jobs among J are withdrawn.
Withdrawn(d, J) == {t \in Tasks : Job(t) \in {j \in J : d.job[j].status \in Active} /\ Status(d, t) = "queued"}

LEMMA CancelIs ==
  ASSUME NEW d, Shape(d), NEW J \in SUBSET Jobs, NEW e, e = Cancel(d, J),
         NEW T, T = Withdrawn(d, J)
  PROVE  /\ Shape(e) /\ e.spent = d.spent /\ Frees(d, e, T)
         /\ \A t \in T : /\ Status(e, t) = "cancelled" /\ e.task[t].actual = 0
                         /\ e.task[t].owner = d.task[t].owner /\ e.task[t].judged = d.task[t].judged
         /\ \A t \in Tasks \ T : e.task[t] = d.task[t]
         /\ \A j \in Jobs : /\ e.job[j].period = d.job[j].period /\ e.job[j].linked = d.job[j].linked
                            /\ IF j \in J /\ d.job[j].status \in Active THEN JobFits(e, j) ELSE e.job[j] = d.job[j]
<1>1. PICK C : C = {j \in J : d.job[j].status \in Active}
  OBVIOUS
<1>2. T = {t \in Tasks : Job(t) \in C /\ Status(d, t) = "queued"} /\ T \in SUBSET Tasks /\ C \in SUBSET Jobs
  BY <1>1 DEF Withdrawn
<1>3. PICK r : r = Release(d, T)
  OBVIOUS
<1>4. PICK x : x = [t \in Tasks |-> IF t \in T THEN [r.task[t] EXCEPT !.status = "cancelled", !.actual = 0] ELSE r.task[t]]
  OBVIOUS
<1>5. PICK y : y = [j \in Jobs |-> IF j \in C THEN [r.job[j] EXCEPT !.cancel = TRUE] ELSE r.job[j]]
  OBVIOUS
<1>6. PICK m : m = [r EXCEPT !.task = x, !.job = y]
  OBVIOUS
<1>7. e = Finish(m, C)
  BY <1>1, <1>2, <1>3, <1>4, <1>5, <1>6, Zenon DEF Cancel
<1>8. Shape(r) /\ r.task = d.task /\ r.job = d.job /\ r.spent = d.spent /\ Frees(d, r, T)
  BY <1>2, <1>3, ReleaseIs
<1>9. m = [task |-> x, job |-> y, held |-> r.held, spent |-> r.spent]
  <2>1. Shape(r)
    BY <1>8
  <2>2. \A z : z = [r EXCEPT !.task = x, !.job = y] => z = [task |-> x, job |-> y, held |-> r.held, spent |-> r.spent]
    BY <2>1, WithTaskAndJob, Zenon
  <2> QED
    BY <1>6, <2>2, Zenon
<1>10. \A t \in Tasks : d.task[t] \in TaskRecords
  BY DEF Shape
<1>11. \A t \in T : /\ x[t] \in TaskRecords /\ x[t].status = "cancelled" /\ x[t].actual = 0
                    /\ x[t].owner = d.task[t].owner /\ x[t].judged = d.task[t].judged
  <2>1. SUFFICES ASSUME NEW t \in T
                 PROVE  /\ x[t] \in TaskRecords /\ x[t].status = "cancelled" /\ x[t].actual = 0
                        /\ x[t].owner = d.task[t].owner /\ x[t].judged = d.task[t].judged
    OBVIOUS
  <2>2. d.task[t] \in TaskRecords /\ x[t] = [d.task[t] EXCEPT !.status = "cancelled", !.actual = 0]
    BY <1>2, <1>4, <1>8, <1>10
  <2> QED
    BY <2>2, CancelledRecord
<1>12. \A t \in Tasks \ T : x[t] = d.task[t]
  BY <1>4, <1>8
<1>13. \A j \in Jobs : d.job[j] \in JobRecords
  BY DEF Shape
<1>14. \A j \in C : y[j] \in JobRecords /\ y[j].period = d.job[j].period /\ y[j].linked = d.job[j].linked
  BY <1>2, <1>5, <1>8, <1>13, CancelledJob
<1>15. \A j \in Jobs \ C : y[j] = d.job[j]
  BY <1>5, <1>8
<1>16. m.task = x /\ m.job = y /\ m.held = r.held /\ m.spent = d.spent
  BY <1>8, <1>9
<1>17. Shape(m)
  <2>1. x \in [Tasks -> TaskRecords]
    BY <1>4, <1>10, <1>11, <1>12
  <2>2. y \in [Jobs -> JobRecords]
    BY <1>5, <1>13, <1>14, <1>15
  <2> QED
    BY <1>8, <1>9, <1>16, <2>1, <2>2 DEF Shape
<1>18. /\ Shape(e) /\ e.task = x /\ e.held = r.held /\ e.spent = d.spent
       /\ \A j \in Jobs : e.job[j].period = y[j].period /\ e.job[j].linked = y[j].linked
       /\ \A j \in Jobs \ C : e.job[j] = y[j]
       /\ \A j \in C : JobFits(e, j)
  BY <1>2, <1>7, <1>16, <1>17, FinishIs
<1>19. Frees(d, e, T)
  BY <1>8, <1>18 DEF Frees
<1>20. ASSUME NEW j \in Jobs
       PROVE  /\ e.job[j].period = d.job[j].period /\ e.job[j].linked = d.job[j].linked
              /\ IF j \in J /\ d.job[j].status \in Active THEN JobFits(e, j) ELSE e.job[j] = d.job[j]
  <2>1. CASE j \in C
    BY <1>1, <1>14, <1>18, <2>1
  <2>2. CASE j \notin C
    BY <1>1, <1>15, <1>18, <2>2
  <2> QED
    BY <2>1, <2>2
<1> QED
  BY <1>11, <1>12, <1>18, <1>19, <1>20 DEF Status

\* cancel keeps a database sound, and its jobs fit afterwards: those asked for
\* because they are cancelled, the others because nothing of theirs changes.
LEMMA CancelSound ==
  ASSUME NEW d, Sound(d), NEW J \in SUBSET Jobs, NEW e, e = Cancel(d, J),
         \A j \in Jobs : JobFits(d, j) \/ (j \in J /\ d.job[j].status \in Active)
  PROVE  Sound(e) /\ AllFit(e) /\ Calm(d, e)
<1>1. PICK T : T = Withdrawn(d, J)
  OBVIOUS
<1>2. Shape(d) /\ T \in SUBSET Tasks /\ None # 0
  BY <1>1, ShapeIs, SeoAssumption DEF Sound, Withdrawn
<1>3. /\ Shape(e) /\ e.spent = d.spent /\ Frees(d, e, T)
      /\ \A t \in T : /\ Status(e, t) = "cancelled" /\ e.task[t].actual = 0
                      /\ e.task[t].owner = d.task[t].owner /\ e.task[t].judged = d.task[t].judged
      /\ \A t \in Tasks \ T : e.task[t] = d.task[t]
      /\ \A j \in Jobs : /\ e.job[j].period = d.job[j].period /\ e.job[j].linked = d.job[j].linked
                         /\ IF j \in J /\ d.job[j].status \in Active THEN JobFits(e, j) ELSE e.job[j] = d.job[j]
  BY <1>1, <1>2, CancelIs
<1>4. \A t \in T : Status(d, t) = "queued" /\ d.task[t].actual = None
  BY <1>1 DEF Withdrawn, Sound, TasksFit
<1>5. TasksFit(e)
  <2>1. ASSUME NEW t \in Tasks
        PROVE  /\ Status(e, t) \in {"none", "queued", "running"} => e.task[t].actual = None
               /\ Status(e, t) = "reconciliation-required" /\ e.task[t].owner # None => e.task[t].actual = None
               /\ Status(e, t) \in Final => e.task[t].actual # None
    <3>1. CASE t \in T
      BY <1>2, <1>3, <3>1
    <3>2. CASE t \notin T
      BY <1>3, <3>2 DEF Sound, TasksFit, Status
    <3> QED
      BY <3>1, <3>2
  <2>2. ASSUME NEW s \in Searches, Status(e, <<s, 2>>) # "none"
        PROVE  Status(e, <<s, 1>>) = "failed"
    <3>1. <<s, 1>> \in Tasks /\ <<s, 2>> \in Tasks
      BY SearchTasks
    <3>2. Status(d, <<s, 2>>) # "none"
      BY <1>3, <1>4, <2>2, <3>1 DEF Status
    <3>3. Status(d, <<s, 1>>) = "failed"
      BY <3>2 DEF Sound, TasksFit
    <3> QED
      BY <1>3, <1>4, <3>1, <3>3 DEF Status
  <2> QED
    BY <2>1, <2>2 DEF TasksFit
<1>6. Sound(e)
  BY <1>2, <1>3, <1>4, <1>5, SoundWithdraw
<1>7. Calm(d, e)
  BY <1>2, <1>3, <1>4 DEF Calm, Keeps, PostsNothing, Unposted, Final, Status
<1>8. ASSUME NEW j \in Jobs
      PROVE  JobFits(e, j)
  <2>1. CASE j \in J /\ d.job[j].status \in Active
    BY <1>3, <2>1
  <2>2. CASE ~(j \in J /\ d.job[j].status \in Active)
    <3>1. e.job[j] = d.job[j] /\ JobFits(d, j)
      BY <1>3, <2>2
    <3>2. \A t \in TasksOf(j) : t \in Tasks \ T
      BY <1>1, <2>2 DEF TasksOf, Withdrawn
    <3>3. \A t \in TasksOf(j) : Status(e, t) = Status(d, t)
      BY <1>3, <3>2 DEF Status
    <3> QED
      BY <3>1, <3>3, SameJob
  <2> QED
    BY <2>1, <2>2
<1> QED
  BY <1>6, <1>7, <1>8 DEF AllFit

\* What is queued, out or unknown is a current attempt,
LEMMA UnsettledIsCurrent ==
  ASSUME NEW d, TasksFit(d), NEW t \in Tasks, Status(d, t) \in Active
  PROVE  t \in CurrentTasks(d, Job(t)) /\ Status(d, t) \in CurrentStates(d, Job(t))
<1>1. t \in TasksOf(Job(t))
  BY DEF TasksOf
<1>2. CASE t[2] = 2
  BY <1>1, <1>2 DEF CurrentTasks, CurrentStates, Active
<1>3. CASE t[2] = 1
  <2>1. t = <<t[1], 1>> /\ Retry(t) = <<t[1], 2>> /\ t[1] \in Searches
    BY <1>3, TaskParts DEF Retry
  <2>2. Status(d, Retry(t)) = "none"
    BY <2>1 DEF TasksFit, Active
  <2> QED
    BY <1>1, <1>3, <2>2 DEF CurrentTasks, CurrentStates
<1> QED
  BY <1>2, <1>3, TaskParts

\* and its job is not over.
LEMMA UnsettledIsActive ==
  ASSUME NEW d, TasksFit(d), NEW t \in Tasks, Status(d, t) \in Active, JobFits(d, Job(t))
  PROVE  d.job[Job(t)].status \in Active
<1>1. Status(d, t) \in CurrentStates(d, Job(t)) /\ t \in TasksOf(Job(t))
  BY UnsettledIsCurrent DEF TasksOf
<1>2. JobStatus(d, Job(t)) \in {"reconciliation-required", "running"}
  BY <1>1 DEF JobStatus, Active
<1>3. d.job[Job(t)].status # "none"
  BY <1>1 DEF JobFits, Active
<1> QED
  BY <1>2, <1>3 DEF JobFits, Active

\* A task whose outcome nobody knows any more.
LEMMA AbandonedRecord ==
  ASSUME NEW q \in TaskRecords, NEW r, r = [q EXCEPT !.status = "reconciliation-required"]
  PROVE  /\ r \in TaskRecords /\ r.status = "reconciliation-required"
         /\ r.actual = q.actual /\ r.judged = q.judged
<1>1. PICK a, b, c, f, g, h : q = [status |-> a, owner |-> b, stale |-> c, outcome |-> f, actual |-> g, judged |-> h]
  BY TaskRecord
<1>2. r = [[status |-> a, owner |-> b, stale |-> c, outcome |-> f, actual |-> g, judged |-> h]
             EXCEPT !.status = "reconciliation-required"]
  BY <1>1, Zenon
<1>3. r = [status |-> "reconciliation-required", owner |-> b, stale |-> c, outcome |-> f, actual |-> g, judged |-> h]
  BY <1>2
<1> QED
  BY <1>1, <1>3 DEF TaskRecords, TaskStates

\* First half of recover: calls that ran out go on holding their price.
LEMMA AbandonSound ==
  ASSUME NEW d, Sound(d), NEW T \in SUBSET Tasks, \A t \in T : Status(d, t) = "running",
         NEW e, e = Abandon(d, T)
  PROVE  /\ Sound(e) /\ Calm(d, e) /\ e.job = d.job
         /\ \A t \in Tasks \ T : e.task[t] = d.task[t]
<1>1. PICK x : x = [t \in Tasks |-> IF t \in T THEN [d.task[t] EXCEPT !.status = "reconciliation-required"] ELSE d.task[t]]
  OBVIOUS
<1>2. e = [d EXCEPT !.task = x]
  BY <1>1, Zenon DEF Abandon
<1>3. Shape(d)
  BY ShapeIs DEF Sound
<1>4. e = [task |-> x, job |-> d.job, held |-> d.held, spent |-> d.spent]
  BY <1>2, <1>3, WithTask
<1>5. e.task = x /\ e.job = d.job /\ e.held = d.held /\ e.spent = d.spent
  BY <1>4
<1>6. \A t \in Tasks : d.task[t] \in TaskRecords
  BY <1>3 DEF Shape
<1>7. /\ \A t \in T : /\ x[t] \in TaskRecords /\ x[t].status = "reconciliation-required"
                      /\ x[t].actual = d.task[t].actual /\ x[t].judged = d.task[t].judged
      /\ \A t \in Tasks \ T : x[t] = d.task[t]
  BY <1>1, <1>6, AbandonedRecord
<1>8. Shape(e)
  <2>1. x \in [Tasks -> TaskRecords]
    BY <1>1, <1>6, <1>7
  <2> QED
    BY <1>3, <1>4, <1>5, <2>1 DEF Shape
<1>9. \A t \in T : d.task[t].actual = None /\ ~(Status(d, t) \in Final)
  BY DEF Sound, TasksFit, Final
<1>10. TasksFit(e)
  <2>1. ASSUME NEW t \in Tasks
        PROVE  /\ Status(e, t) \in {"none", "queued", "running"} => e.task[t].actual = None
               /\ Status(e, t) = "reconciliation-required" /\ e.task[t].owner # None => e.task[t].actual = None
               /\ Status(e, t) \in Final => e.task[t].actual # None
    <3>1. CASE t \in T
      BY <1>5, <1>7, <1>9, <3>1 DEF Status, Final
    <3>2. CASE t \notin T
      BY <1>5, <1>7, <3>2 DEF Sound, TasksFit, Status
    <3> QED
      BY <3>1, <3>2
  <2>2. ASSUME NEW s \in Searches, Status(e, <<s, 2>>) # "none"
        PROVE  Status(e, <<s, 1>>) = "failed"
    <3>1. <<s, 1>> \in Tasks /\ <<s, 2>> \in Tasks
      BY SearchTasks
    <3>2. Status(d, <<s, 2>>) # "none"
      BY <1>5, <1>7, <2>2, <3>1 DEF Status
    <3>3. Status(d, <<s, 1>>) = "failed"
      BY <3>2 DEF Sound, TasksFit
    <3> QED
      BY <1>5, <1>7, <3>1, <3>3 DEF Status
  <2> QED
    BY <2>1, <2>2 DEF TasksFit
<1>11. \A t \in Tasks :
         /\ e.task[t].actual = d.task[t].actual
         /\ Holds(e, t) <=> Holds(d, t)
         /\ Status(e, t) = "none" <=> Status(d, t) = "none"
  BY <1>5, <1>7, <1>9 DEF Holds, Status
<1>12. Sound(e)
  BY <1>5, <1>8, <1>10, <1>11, SoundSame
<1>13. Calm(d, e)
  BY <1>5, <1>7, <1>9, <1>11 DEF Calm, Keeps, PostsNothing, Unposted, Status
<1> QED
  BY <1>5, <1>7, <1>12, <1>13

\* recover as a whole: the jobs of calls that ran out are active and are cancelled.
LEMMA RecoverSound ==
  ASSUME NEW d, Sound(d), AllFit(d), NEW e, e = Recover(d)
  PROVE  Sound(e) /\ AllFit(e) /\ Calm(d, e)
<1>1. PICK S : S = Stale(d)
  OBVIOUS
<1>2. PICK a : a = Abandon(d, S)
  OBVIOUS
<1>3. PICK J : J = {Job(t) : t \in S} \cup Orphans(d)
  OBVIOUS
<1>4. e = Cancel(a, J)
  BY <1>1, <1>2, <1>3 DEF Recover
<1>5. S \in SUBSET Tasks /\ \A t \in S : Status(d, t) = "running"
  BY <1>1 DEF Stale
<1>6. J \in SUBSET Jobs
  BY <1>3, <1>5, TaskParts DEF Orphans
<1>7. /\ Sound(a) /\ Calm(d, a) /\ a.job = d.job
      /\ \A t \in Tasks \ S : a.task[t] = d.task[t]
  BY <1>2, <1>5, AbandonSound
<1>8. ASSUME NEW j \in Jobs
      PROVE  JobFits(a, j) \/ (j \in J /\ a.job[j].status \in Active)
  <2>1. CASE \E t \in S : Job(t) = j
    <3>1. PICK t \in S : Job(t) = j
      BY <2>1
    <3>2. t \in Tasks /\ Status(d, t) \in Active /\ JobFits(d, Job(t)) /\ TasksFit(d)
      BY <1>5, <3>1 DEF Active, AllFit, Sound
    <3>3. d.job[j].status \in Active
      BY <3>1, <3>2, UnsettledIsActive
    <3> QED
      BY <1>3, <1>7, <3>1, <3>3
  <2>2. CASE ~\E t \in S : Job(t) = j
    <3>1. \A t \in TasksOf(j) : Status(a, t) = Status(d, t)
      BY <1>7, <2>2 DEF TasksOf, Status
    <3> QED
      BY <1>7, <3>1, SameJob DEF AllFit
  <2> QED
    BY <2>1, <2>2
<1>9. Sound(e) /\ AllFit(e) /\ Calm(a, e)
  BY <1>4, <1>6, <1>7, <1>8, CancelSound
<1> QED
  BY <1>7, <1>9, CalmComposes

\* A job is finished: what its tasks say does not change what they are.
LEMMA FinishSound ==
  ASSUME NEW d, Sound(d), NEW J \in SUBSET Jobs, NEW e, e = Finish(d, J),
         \A j \in Jobs \ J : JobFits(d, j)
  PROVE  Sound(e) /\ AllFit(e) /\ e.task = d.task
<1>1. Shape(d)
  BY ShapeIs DEF Sound
<1>2. /\ Shape(e) /\ e.task = d.task /\ e.held = d.held /\ e.spent = d.spent
      /\ \A j \in Jobs : /\ e.job[j].period = d.job[j].period /\ e.job[j].linked = d.job[j].linked
                         /\ e.job[j].cancel = d.job[j].cancel
      /\ \A j \in Jobs \ J : e.job[j] = d.job[j]
      /\ \A j \in J : JobFits(e, j)
  BY <1>1, FinishIs
<1>3. TasksFit(e)
  BY <1>2 DEF Sound, TasksFit, Status
<1>4. Sound(e)
  BY <1>2, <1>3, SoundSame DEF Holds, Status
<1>5. \A j \in Jobs \ J : JobFits(e, j)
  BY <1>2, SameJob DEF Status
<1> QED
  BY <1>2, <1>4, <1>5 DEF AllFit

\* One task, or one job, is stored.
Stored(d, t, r) == [d EXCEPT !.task[t] = r]
StoredJob(d, j, r) == [d EXCEPT !.job[j] = r]

LEMMA WithOneTask ==
  ASSUME NEW d, Shape(d), NEW t \in Tasks, NEW r \in TaskRecords, NEW e, e = Stored(d, t, r)
  PROVE  /\ Shape(e) /\ e.job = d.job /\ e.held = d.held /\ e.spent = d.spent
         /\ e.task[t] = r /\ \A u \in Tasks \ {t} : e.task[u] = d.task[u]
<1>1. PICK a, b, c, f : d = [task |-> a, job |-> b, held |-> c, spent |-> f]
  BY DEF Shape
<1>2. e = [[task |-> a, job |-> b, held |-> c, spent |-> f] EXCEPT !.task[t] = r]
  BY <1>1, Zenon DEF Stored
<1>3. e = [task |-> [a EXCEPT ![t] = r], job |-> b, held |-> c, spent |-> f]
  BY <1>2
<1>4. a \in [Tasks -> TaskRecords]
  BY <1>1 DEF Shape
<1>5. [a EXCEPT ![t] = r] \in [Tasks -> TaskRecords]
  BY <1>4
<1>6. e.task = [a EXCEPT ![t] = r] /\ e.job = b /\ e.held = c /\ e.spent = f
  BY <1>3
<1>7. Shape(e)
  BY <1>1, <1>3, <1>5, <1>6 DEF Shape
<1> QED
  BY <1>1, <1>4, <1>6, <1>7

LEMMA WithOneJob ==
  ASSUME NEW d, Shape(d), NEW j \in Jobs, NEW r \in JobRecords, NEW e, e = StoredJob(d, j, r)
  PROVE  /\ Shape(e) /\ e.task = d.task /\ e.held = d.held /\ e.spent = d.spent
         /\ e.job[j] = r /\ \A i \in Jobs \ {j} : e.job[i] = d.job[i]
<1>1. PICK a, b, c, f : d = [task |-> a, job |-> b, held |-> c, spent |-> f]
  BY DEF Shape
<1>2. e = [[task |-> a, job |-> b, held |-> c, spent |-> f] EXCEPT !.job[j] = r]
  BY <1>1, Zenon DEF StoredJob
<1>3. e = [task |-> a, job |-> [b EXCEPT ![j] = r], held |-> c, spent |-> f]
  BY <1>2
<1>4. b \in [Jobs -> JobRecords]
  BY <1>1 DEF Shape
<1>5. [b EXCEPT ![j] = r] \in [Jobs -> JobRecords]
  BY <1>4
<1>6. e.task = a /\ e.job = [b EXCEPT ![j] = r] /\ e.held = c /\ e.spent = f
  BY <1>3
<1>7. Shape(e)
  BY <1>1, <1>3, <1>5, <1>6 DEF Shape
<1> QED
  BY <1>1, <1>4, <1>6, <1>7

\* A task that has no retry, or is one, may be anything that fits a task; what was
\* queued, out or unknown has none yet.
LEMMA OneTaskFits ==
  ASSUME NEW d, TasksFit(d), NEW t \in Tasks, Status(d, t) \in Active,
         NEW e, \A u \in Tasks \ {t} : e.task[u] = d.task[u],
         Status(e, t) \in {"queued", "running"} => e.task[t].actual = None,
         Status(e, t) = "reconciliation-required" /\ e.task[t].owner # None => e.task[t].actual = None,
         Status(e, t) \in Final => e.task[t].actual # None,
         Status(e, t) # "none"
  PROVE  TasksFit(e)
<1>1. \A u \in Tasks : /\ Status(e, u) \in {"none", "queued", "running"} => e.task[u].actual = None
                       /\ Status(e, u) = "reconciliation-required" /\ e.task[u].owner # None => e.task[u].actual = None
                       /\ Status(e, u) \in Final => e.task[u].actual # None
  BY DEF TasksFit, Status
<1>2. ASSUME NEW s \in Searches, Status(e, <<s, 2>>) # "none"
      PROVE  Status(e, <<s, 1>>) = "failed"
  <2>1. <<s, 1>> \in Tasks /\ <<s, 2>> \in Tasks /\ <<s, 1>> # <<s, 2>>
    BY SearchTasks
  <2>2. CASE t = <<s, 1>>
    <3>1. Status(d, <<s, 2>>) # "none"
      BY <1>2, <2>1, <2>2 DEF Status
    <3> QED
      BY <2>2, <3>1 DEF TasksFit, Active
  <2>3. CASE t = <<s, 2>>
    <3>1. Status(d, <<s, 1>>) = "failed"
      BY <2>3 DEF TasksFit, Active
    <3> QED
      BY <2>1, <2>3, <3>1 DEF Status
  <2>4. CASE t # <<s, 1>> /\ t # <<s, 2>>
    BY <1>2, <2>1, <2>4 DEF TasksFit, Status
  <2> QED
    BY <2>2, <2>3, <2>4
<1> QED
  BY <1>1, <1>2 DEF TasksFit

\* The cost of a task is learned: its price is free again, the cost is paid.
Booked(d, t, r) == Stored(Spend(Release(d, {t}), t, r.actual), t, r)
Charges(d, e, t, c) ==
  \A s \in Scopes, q \in Periods : e.spent[s][q] = d.spent[s][q] + IF In(d, t, s, q) THEN c ELSE 0
Books(d, e, t, r) ==
  /\ Shape(e) /\ e.job = d.job /\ Frees(d, e, {t}) /\ Charges(d, e, t, r.actual)
  /\ e.task[t] = r /\ \A u \in Tasks \ {t} : e.task[u] = d.task[u]

LEMMA BookedIs ==
  ASSUME NEW d, Shape(d), NEW t \in Tasks, NEW r \in TaskRecords, r.actual \in Nat, NEW e, e = Booked(d, t, r)
  PROVE  Books(d, e, t, r)
<1>1. PICK f : f = Release(d, {t})
  OBVIOUS
<1>2. Shape(f) /\ f.task = d.task /\ f.job = d.job /\ f.spent = d.spent /\ Frees(d, f, {t})
  BY <1>1, ReleaseIs
<1>3. PICK g : g = Spend(f, t, r.actual)
  OBVIOUS
<1>4. /\ Shape(g) /\ g.task = d.task /\ g.job = d.job /\ g.held = f.held
      /\ \A s \in Scopes, q \in Periods : g.spent[s][q] = f.spent[s][q] + IF In(f, t, s, q) THEN r.actual ELSE 0
  BY <1>2, <1>3, SpendIs
<1>5. e = Stored(g, t, r)
  BY <1>1, <1>3 DEF Booked
<1>6. /\ Shape(e) /\ e.job = g.job /\ e.held = g.held /\ e.spent = g.spent
      /\ e.task[t] = r /\ \A u \in Tasks \ {t} : e.task[u] = g.task[u]
  <2>1. Shape(g)
    BY <1>4
  <2> QED
    BY <1>5, <2>1, WithOneTask
<1>7. Frees(d, e, {t})
  BY <1>2, <1>4, <1>6 DEF Frees
<1>8. \A s, q : In(f, t, s, q) <=> In(d, t, s, q)
  BY <1>2 DEF In
<1>9. Charges(d, e, t, r.actual)
  BY <1>2, <1>4, <1>6, <1>8 DEF Charges
<1> QED
  BY <1>2, <1>4, <1>6, <1>7, <1>9 DEF Books

\* That keeps a database sound: settle and reconcile.
LEMMA PaySound ==
  ASSUME NEW d, Sound(d), NEW t \in Tasks, Status(d, t) \in {"running", "reconciliation-required"},
         d.task[t].actual = None, NEW r \in TaskRecords, r.actual \in Nat,
         r.status \in {"completed", "partial", "failed", "reconciliation-required"},
         r.status = "reconciliation-required" => r.owner = None,
         d.task[t].judged => r.judged,
         NEW e, Books(d, e, t, r)
  PROVE  /\ Sound(e) /\ Calm(d, e) /\ e.job = d.job
         /\ e.task[t] = r /\ \A u \in Tasks \ {t} : e.task[u] = d.task[u]
<1>1. Shape(d) /\ r.actual # None
  BY ShapeIs, SeoAssumption DEF Sound
<1>2. /\ Shape(e) /\ e.job = d.job /\ Frees(d, e, {t})
      /\ e.task[t] = r /\ \A u \in Tasks \ {t} : e.task[u] = d.task[u]
      /\ Charges(d, e, t, r.actual)
  BY DEF Books
<1>3. Pays(d, e, t, r.actual)
  <2>1. \A u \in Tasks : Paid(e, u) = IF u = t THEN r.actual ELSE Paid(d, u)
    BY <1>1, <1>2 DEF Paid
  <2>2. Paid(d, t) = 0
    BY DEF Paid
  <2> QED
    BY <1>2, <2>1, <2>2 DEF Pays, Charges
<1>4. TasksFit(e)
  <2>1. TasksFit(d) /\ Status(d, t) \in Active
    BY DEF Sound, Active
  <2>2. /\ Status(e, t) \in {"queued", "running"} => e.task[t].actual = None
        /\ Status(e, t) = "reconciliation-required" /\ e.task[t].owner # None => e.task[t].actual = None
        /\ Status(e, t) \in Final => e.task[t].actual # None
        /\ Status(e, t) # "none"
    BY <1>1, <1>2 DEF Status
  <2>3. \A u \in Tasks \ {t} : e.task[u] = d.task[u]
    BY <1>2
  <2> QED
    BY <2>1, <2>2, <2>3, OneTaskFits
<1>5. Sound(e)
  <2>1. Holds(d, t) /\ e.task[t].actual = r.actual /\ Status(e, t) \notin {"none", "queued", "running"}
    BY <1>1, <1>2 DEF Holds, Status
  <2>2. /\ \A j \in Jobs : e.job[j].period = d.job[j].period
        /\ Shape(e) /\ Frees(d, e, {t}) /\ \A u \in Tasks \ {t} : e.task[u] = d.task[u]
    BY <1>2
  <2> QED
    BY <1>3, <1>4, <2>1, <2>2, SoundPay
<1>6. Calm(d, e)
  BY <1>2 DEF Calm, Keeps, PostsNothing, Unposted, Final, Status
<1> QED
  BY <1>2, <1>5, <1>6

\* A task is stored without money: its cost stays unknown or known, and what it holds.
LEMMA StoreSound ==
  ASSUME NEW d, Sound(d), NEW t \in Tasks, Status(d, t) \in {"running", "reconciliation-required"},
         NEW r \in TaskRecords, r.actual = d.task[t].actual,
         r.status \in {"completed", "partial", "failed", "running", "reconciliation-required"},
         r.status = "running" => d.task[t].actual = None,
         r.status = "reconciliation-required" /\ r.owner # None => d.task[t].actual = None,
         r.status \in {"completed", "partial", "failed"} => d.task[t].actual # None /\ Status(d, t) # "running",
         d.task[t].judged => r.judged,
         NEW e, e = Stored(d, t, r)
  PROVE  /\ Sound(e) /\ Calm(d, e) /\ e.job = d.job
         /\ e.task[t] = r /\ \A u \in Tasks \ {t} : e.task[u] = d.task[u]
<1>1. Shape(d)
  BY ShapeIs DEF Sound
<1>2. /\ Shape(e) /\ e.job = d.job /\ e.held = d.held /\ e.spent = d.spent
      /\ e.task[t] = r /\ \A u \in Tasks \ {t} : e.task[u] = d.task[u]
  BY <1>1, WithOneTask
<1>3. TasksFit(e)
  BY <1>2, OneTaskFits DEF Sound, Status, Active, Final
<1>4. Status(d, t) = "running" => d.task[t].actual = None
  BY DEF Sound, TasksFit
<1>5. \A u \in Tasks :
        /\ e.task[u].actual = d.task[u].actual
        /\ Holds(e, u) <=> Holds(d, u)
        /\ Status(e, u) = "none" <=> Status(d, u) = "none"
  BY <1>2, <1>4 DEF Holds, Status
<1>6. Sound(e)
  BY <1>2, <1>3, <1>5, SoundSame
<1>7. Calm(d, e)
  BY <1>2 DEF Calm, Keeps, PostsNothing, Unposted, Final, Status
<1> QED
  BY <1>2, <1>6, <1>7

\* A retry queued.
LEMMA QueuedRecord ==
  ASSUME NEW q \in TaskRecords, NEW r, r = [q EXCEPT !.status = "queued", !.actual = None]
  PROVE  r \in TaskRecords /\ r.status = "queued" /\ r.actual = None /\ r.judged = q.judged
<1>1. PICK a, b, c, f, g, h : q = [status |-> a, owner |-> b, stale |-> c, outcome |-> f, actual |-> g, judged |-> h]
  BY TaskRecord
<1>2. r = [[status |-> a, owner |-> b, stale |-> c, outcome |-> f, actual |-> g, judged |-> h]
             EXCEPT !.status = "queued", !.actual = None]
  BY <1>1, Zenon
<1>3. r = [status |-> "queued", owner |-> b, stale |-> c, outcome |-> f, actual |-> None, judged |-> h]
  BY <1>2
<1> QED
  BY <1>1, <1>3 DEF TaskRecords, TaskStates

LEMMA TotalOfOne ==
  ASSUME NEW t \in Tasks
  PROVE  Total({t}) = Price(t)
<1>1. PICK f : f = [u \in {t} |-> Price(u)]
  OBVIOUS
<1>2. IsFiniteSet({}) /\ t \notin {} /\ \A u \in {} \cup {t} : f[u] \in Int
  BY <1>1, FS_EmptySet, TaskParts
<1>3. SumFunctionOnSet(f, {} \cup {t}) = f[t] + SumFunctionOnSet(f, {})
  BY <1>2, SumAdd
<1>4. {} \cup {t} = {t} /\ SumFunctionOnSet(f, {}) = 0 /\ f[t] = Price(t) /\ Price(t) \in Nat
  BY <1>1, SumEmpty, TaskParts
<1>5. Total({t}) = SumFunctionOnSet(f, {t})
  BY <1>1 DEF Total, SumFunction
<1> QED
  BY <1>3, <1>4, <1>5

\* queueRetry: the retry of a failed task is queued within the limits.
LEMMA RetrySound ==
  ASSUME NEW d, Sound(d), NEW t \in Tasks, Status(d, t) = "failed", MayRetry(d, t),
         NEW e, e = QueueRetry(d, t)
  PROVE  /\ Sound(e) /\ Calm(d, e) /\ e.job = d.job
         /\ \A u \in Tasks : Job(u) # Job(t) => e.task[u] = d.task[u]
<1>1. PICK u : u = Retry(t)
  OBVIOUS
<1>2. /\ Shape(d) /\ u \in Tasks /\ Job(u) = Job(t) /\ Price(u) = Price(t) /\ Job(t) \in Jobs
      /\ t = <<t[1], 1>> /\ u = <<t[1], 2>> /\ t[1] \in Searches /\ t # u
  BY <1>1, ShapeIs, TaskParts DEF Sound, MayRetry, Retry
<1>3. PICK r : r = [d.task[u] EXCEPT !.status = "queued", !.actual = None]
  OBVIOUS
<1>4. PICK m : m = Stored(d, u, r)
  OBVIOUS
<1>5. e = Hold(m, {u})
  BY <1>1, <1>3, <1>4, Zenon DEF QueueRetry, Stored
<1>6. r \in TaskRecords /\ r.status = "queued" /\ r.actual = None /\ r.judged = d.task[u].judged
  BY <1>2, <1>3, QueuedRecord DEF Shape
<1>7. /\ Shape(m) /\ m.job = d.job /\ m.held = d.held /\ m.spent = d.spent
      /\ m.task[u] = r /\ \A v \in Tasks \ {u} : m.task[v] = d.task[v]
  <2>1. Shape(d) /\ u \in Tasks /\ r \in TaskRecords
    BY <1>2, <1>6
  <2> QED
    BY <1>4, <2>1, WithOneTask
<1>8. Shape(e) /\ e.task = m.task /\ e.job = d.job /\ e.spent = d.spent /\ Adds(m, e, {u})
  BY <1>2, <1>5, <1>7, HoldIs
<1>9. Adds(d, e, {u})
  BY <1>7, <1>8 DEF Adds
<1>10. Status(d, u) = "none" /\ d.task[u].actual = None
  BY <1>1, <1>2 DEF MayRetry, Sound, TasksFit
<1>11. TasksFit(e)
  <2>1. \A v \in Tasks : /\ Status(e, v) \in {"none", "queued", "running"} => e.task[v].actual = None
                         /\ Status(e, v) = "reconciliation-required" /\ e.task[v].owner # None => e.task[v].actual = None
                         /\ Status(e, v) \in Final => e.task[v].actual # None
    BY <1>6, <1>7, <1>8 DEF Sound, TasksFit, Status, Final
  <2>2. ASSUME NEW s \in Searches, Status(e, <<s, 2>>) # "none"
        PROVE  Status(e, <<s, 1>>) = "failed"
    <3>1. <<s, 1>> \in Tasks /\ <<s, 2>> \in Tasks /\ <<s, 1>> # u
      BY <1>2, SearchTasks
    <3>2. CASE <<s, 2>> = u
      <4>1. <<s, 1>> = t
        BY <1>2, <3>2
      <4> QED
        BY <1>7, <1>8, <3>1, <4>1 DEF Status
    <3>3. CASE <<s, 2>> # u
      BY <1>7, <1>8, <2>2, <3>1, <3>3 DEF Sound, TasksFit, Status
    <3> QED
      BY <3>2, <3>3
  <2> QED
    BY <2>1, <2>2 DEF TasksFit
<1>12. Total({u}) = Price(t) /\ {u} \in SUBSET TasksOf(Job(t))
  BY <1>2, TotalOfOne DEF TasksOf
<1>13. /\ Fits(d, Job(t), e.job[Job(t)].period, Total({u}))
       /\ RunCost(d, Job(t)) + Total({u}) <= RunCeiling
  BY <1>8, <1>12 DEF MayRetry
<1>14. /\ Status(e, u) = "queued" /\ e.task[u].actual = None
       /\ \A v \in Tasks \ {u} : e.task[v] = d.task[v]
  BY <1>6, <1>7, <1>8 DEF Status
<1>15. Sound(e)
  BY <1>2, <1>8, <1>9, <1>10, <1>11, <1>12, <1>13, <1>14, SoundQueue
<1>16. Calm(d, e)
  <2>1. /\ e.task[u].judged = d.task[u].judged
        /\ e.task[u].status = "queued" /\ d.task[u].status = "none" /\ d.task[u].actual = None
    BY <1>6, <1>7, <1>8, <1>10, <1>14 DEF Status
  <2>2. Keeps(d, e)
    <3>1. ASSUME NEW v \in Tasks
          PROVE  /\ d.task[v].actual # None => e.task[v].actual = d.task[v].actual
                 /\ d.task[v].status \in Final => e.task[v].status = d.task[v].status
                 /\ d.task[v].judged => e.task[v].judged
      <4>1. CASE v = u
        BY <2>1, <4>1 DEF Final
      <4>2. CASE v # u
        BY <1>14, <4>2
      <4> QED
        BY <4>1, <4>2
    <3> QED
      BY <3>1 DEF Keeps, Status
  <2>3. PostsNothing(d, e)
    BY <1>14, <2>1 DEF PostsNothing, Unposted, Status
  <2> QED
    BY <2>2, <2>3 DEF Calm
<1> QED
  BY <1>2, <1>8, <1>14, <1>15, <1>16

\* What a receipt says of its task.
LEMMA SettledIs ==
  ASSUME NEW a \in Answers, NEW t \in Tasks
  PROVE  /\ Settled(a, t) \in {"completed", "partial", "failed", "reconciliation-required"}
         /\ Settled(a, t) # "reconciliation-required" => Known(a)
         /\ Settled(a, t) \in TaskStates /\ a.outcome \in Outcomes /\ a.cost \in Nat \cup {None}
         /\ Known(a) => a.cost \in Nat
BY SeoAssumption DEF Settled, Known, TaskStates

\* A receipt is for a task in flight, or one that was abandoned, whose cost is unknown.
LEMMA MaySettleIs ==
  ASSUME NEW d, Sound(d), NEW t \in Tasks, NEW p \in Procs, MaySettle(d, p, t)
  PROVE  /\ d.task[t].actual = None /\ ~d.task[t].judged
         /\ Status(d, t) \in {"running", "reconciliation-required"}
<1>1. p # None
  BY SeoAssumption
<1> QED
  BY <1>1 DEF MaySettle, Sound, TasksFit

\* The part of settle that is about the task itself.
Receipt(q, t, a) ==
  [q EXCEPT !.status = Settled(a, t), !.outcome = a.outcome, !.owner = None,
                    !.actual = IF Known(a) THEN a.cost ELSE None]
Received(d, t, a) == IF Known(a) THEN Booked(d, t, Receipt(d.task[t], t, a)) ELSE Stored(d, t, Receipt(d.task[t], t, a))

LEMMA ReceiptIs ==
  ASSUME NEW q \in TaskRecords, NEW t \in Tasks, NEW a \in Answers, NEW r, r = Receipt(q, t, a)
  PROVE  /\ r \in TaskRecords /\ r.status = Settled(a, t) /\ r.owner = None /\ r.judged = q.judged
         /\ r.actual = IF Known(a) THEN a.cost ELSE None
<1>1. PICK b, c, f, g, h, k :
        q = [status |-> b, owner |-> c, stale |-> f, outcome |-> g, actual |-> h, judged |-> k]
  BY TaskRecord
<1>2. PICK v : v = IF Known(a) THEN a.cost ELSE None
  OBVIOUS
<1>3. PICK x \in TaskStates : x = Settled(a, t)
  BY SettledIs
<1>4. PICK o \in Outcomes : o = a.outcome
  BY SettledIs
<1>5. r = [[status |-> b, owner |-> c, stale |-> f, outcome |-> g, actual |-> h, judged |-> k]
             EXCEPT !.status = x, !.outcome = o, !.owner = None, !.actual = v]
  BY <1>1, <1>2, <1>3, <1>4, Zenon DEF Receipt
<1>6. r = [status |-> x, owner |-> None, stale |-> f, outcome |-> o, actual |-> v, judged |-> k]
  BY <1>5
<1>7. v \in Nat \cup {None}
  BY <1>2, SettledIs
<1>8. r \in TaskRecords
  BY <1>1, <1>6, <1>7 DEF TaskRecords
<1> QED
  BY <1>1, <1>2, <1>3, <1>6, <1>8

LEMMA ReceivedSound ==
  ASSUME NEW d, Sound(d), NEW t \in Tasks, d.task[t].actual = None, ~d.task[t].judged,
         Status(d, t) \in {"running", "reconciliation-required"}, NEW a \in Answers,
         NEW e, e = Received(d, t, a)
  PROVE  /\ Sound(e) /\ Calm(d, e) /\ e.job = d.job /\ Status(e, t) = Settled(a, t)
         /\ \A u \in Tasks \ {t} : e.task[u] = d.task[u]
<1>1. PICK r : r = Receipt(d.task[t], t, a)
  OBVIOUS
<1>2. PICK v : v = IF Known(a) THEN a.cost ELSE None
  OBVIOUS
<1>3. Shape(d) /\ d.task[t] \in TaskRecords
  BY ShapeIs DEF Sound, Shape
<1>4. r \in TaskRecords /\ r.status = Settled(a, t) /\ r.actual = v /\ r.owner = None /\ ~r.judged
  BY <1>1, <1>2, <1>3, ReceiptIs
<1>5. CASE Known(a)
  <2>1. r.actual \in Nat
    BY <1>2, <1>4, <1>5, SettledIs
  <2>2. Books(d, e, t, r)
    <3>1. e = Booked(d, t, r)
      BY <1>1, <1>5 DEF Received
    <3> QED
      BY <1>3, <1>4, <2>1, <3>1, BookedIs, Zenon
  <2>3. r.status \in {"completed", "partial", "failed", "reconciliation-required"}
    BY <1>4, SettledIs
  <2>4. /\ Sound(e) /\ Calm(d, e) /\ e.job = d.job
        /\ e.task[t] = r /\ \A u \in Tasks \ {t} : e.task[u] = d.task[u]
    BY <1>4, <2>1, <2>2, <2>3, PaySound
  <2> QED
    BY <1>4, <2>4 DEF Status
<1>6. CASE ~Known(a)
  <2>1. e = Stored(d, t, r)
    BY <1>1, <1>6 DEF Received
  <2>2. r.status = "reconciliation-required" /\ r.actual = d.task[t].actual
    BY <1>2, <1>4, <1>6 DEF Settled
  <2>3. /\ Sound(e) /\ Calm(d, e) /\ e.job = d.job
        /\ e.task[t] = r /\ \A u \in Tasks \ {t} : e.task[u] = d.task[u]
    BY <1>4, <2>1, <2>2, StoreSound
  <2> QED
    BY <1>4, <2>3 DEF Status
<1> QED
  BY <1>5, <1>6

\* settle: the receipt, the retry it may earn, and the job that hears of both.
LEMMA SettleSound ==
  ASSUME NEW d, Sound(d), AllFit(d), NEW t \in Tasks, NEW p \in Procs, MaySettle(d, p, t), NEW a \in Answers,
         NEW e, e = Settle(d, p, t, a)
  PROVE  Sound(e) /\ AllFit(e) /\ Calm(d, e)
<1>1. PICK f : f = Received(d, t, a)
  OBVIOUS
<1>2. PICK g : g = IF Settled(a, t) = "failed" /\ a.retryable /\ host # "unreadable" /\ MayRetry(f, t)
                   THEN QueueRetry(f, t) ELSE f
  OBVIOUS
<1>3. e = Finish(g, {Job(t)})
  <2>1. PICK x : x = IF Known(a) THEN Spend(Release(d, {t}), t, a.cost) ELSE d
    OBVIOUS
  <2>2. PICK r : r = Receipt(d.task[t], t, a)
    OBVIOUS
  <2>3. Shape(d) /\ d.task[t] \in TaskRecords
    BY ShapeIs DEF Sound, Shape
  <2>4. x.task = d.task
    <3>1. CASE Known(a)
      <4>1. PICK y : y = Release(d, {t})
        OBVIOUS
      <4>2. Shape(y) /\ y.task = d.task
        BY <2>3, <4>1, ReleaseIs
      <4>3. x = Spend(y, t, a.cost) /\ a.cost \in Nat
        BY <2>1, <3>1, <4>1, SettledIs
      <4> QED
        BY <4>2, <4>3, SpendIs
    <3>2. CASE ~Known(a)
      BY <2>1, <3>2
    <3> QED
      BY <3>1, <3>2
  <2>5. Known(a) => r.actual = a.cost
    BY <2>2, <2>3, ReceiptIs
  <2>6. f = [x EXCEPT !.task[t] = r]
    <3>1. CASE Known(a)
      <4>1. f = Stored(Spend(Release(d, {t}), t, r.actual), t, r)
        BY <1>1, <2>2, <3>1, Zenon DEF Received, Booked
      <4>2. x = Spend(Release(d, {t}), t, r.actual)
        BY <2>1, <2>5, <3>1, Zenon
      <4> QED
        BY <4>1, <4>2, Zenon DEF Stored
    <3>2. CASE ~Known(a)
      <4>1. x = d /\ f = Stored(d, t, r)
        BY <1>1, <2>1, <2>2, <3>2, Zenon DEF Received
      <4> QED
        BY <4>1, Zenon DEF Stored
    <3> QED
      BY <3>1, <3>2
  <2>7. r = [x.task[t] EXCEPT !.status = Settled(a, t), !.outcome = a.outcome, !.owner = None,
                              !.actual = IF Known(a) THEN a.cost ELSE None]
    BY <2>2, <2>4, Zenon DEF Receipt
  <2> QED
    BY <1>2, <2>1, <2>6, <2>7, Zenon DEF Settle
<1>4. /\ Sound(f) /\ Calm(d, f) /\ f.job = d.job /\ Status(f, t) = Settled(a, t)
      /\ \A u \in Tasks \ {t} : f.task[u] = d.task[u]
  BY <1>1, MaySettleIs, ReceivedSound
<1>5. /\ Sound(g) /\ Calm(f, g) /\ g.job = f.job
      /\ \A u \in Tasks : Job(u) # Job(t) => g.task[u] = f.task[u]
  <2>1. CASE Settled(a, t) = "failed" /\ MayRetry(f, t) /\ g = QueueRetry(f, t)
    BY <1>4, <2>1, RetrySound
  <2>2. CASE g = f
    BY <1>4, <2>2 DEF Calm, Keeps, PostsNothing
  <2> QED
    BY <1>2, <2>1, <2>2
<1>6. \A j \in Jobs \ {Job(t)} : JobFits(g, j)
  <2> TAKE j \in Jobs \ {Job(t)}
  <2>1. \A u \in TasksOf(j) : u \in Tasks /\ u # t /\ Job(u) # Job(t)
    BY DEF TasksOf
  <2>2. \A u \in TasksOf(j) : Status(g, u) = Status(d, u)
    BY <1>4, <1>5, <2>1 DEF Status
  <2>3. JobFits(d, j) /\ g.job = d.job
    BY <1>4, <1>5 DEF AllFit
  <2> QED
    BY <2>2, <2>3, SameJob
<1>7. Sound(e) /\ AllFit(e) /\ e.task = g.task
  BY <1>3, <1>5, <1>6, TaskParts, FinishSound
<1>8. Calm(g, e)
  BY <1>7 DEF Calm, Keeps, PostsNothing, Status
<1> QED
  BY <1>4, <1>5, <1>7, <1>8, CalmComposes

\* What an operator judges.
JudgedRecord(q, c, failed) == [q EXCEPT !.status = Judged(q.outcome, failed), !.actual = c, !.judged = TRUE]
Reconciled(d, t, c, failed) ==
  LET r == JudgedRecord(d.task[t], c, failed)
  IN  IF d.task[t].actual = None THEN Booked(d, t, r) ELSE Stored(d, t, r)

LEMMA JudgedRecordIs ==
  ASSUME NEW q \in TaskRecords, NEW c \in Nat \cup {None}, NEW failed \in BOOLEAN, NEW r, r = JudgedRecord(q, c, failed)
  PROVE  /\ r \in TaskRecords /\ r.status \in {"completed", "partial", "failed"}
         /\ r.actual = c /\ r.judged
<1>1. PICK b, o, f, g, h, k :
        q = [status |-> b, owner |-> o, stale |-> f, outcome |-> g, actual |-> h, judged |-> k]
  BY TaskRecord
<1>2. PICK x : x = Judged(q.outcome, failed)
  OBVIOUS
<1>3. r = [[status |-> b, owner |-> o, stale |-> f, outcome |-> g, actual |-> h, judged |-> k]
             EXCEPT !.status = x, !.actual = c, !.judged = TRUE]
  BY <1>1, <1>2, Zenon DEF JudgedRecord
<1>4. r = [status |-> x, owner |-> o, stale |-> f, outcome |-> g, actual |-> c, judged |-> TRUE]
  BY <1>3
<1>5. x \in {"completed", "partial", "failed"}
  BY <1>2 DEF Judged
<1>6. x \in TaskStates
  BY <1>5 DEF TaskStates
<1>7. b \in TaskStates /\ o \in Procs \cup {None} /\ f \in BOOLEAN /\ g \in Outcomes \cup {None} /\ c \in Nat \cup {None}
  BY <1>1 DEF TaskRecords
<1>8. r \in TaskRecords
  BY <1>4, <1>6, <1>7 DEF TaskRecords
<1>9. r.status = x /\ r.actual = c /\ r.judged = TRUE
  BY <1>4
<1> QED
  BY <1>5, <1>8, <1>9

LEMMA ReconciledSound ==
  ASSUME NEW d, Sound(d), NEW t \in Tasks, Status(d, t) = "reconciliation-required",
         NEW c \in Nat, d.task[t].actual \in {None, c}, NEW failed \in BOOLEAN,
         NEW e, e = Reconciled(d, t, c, failed)
  PROVE  /\ Sound(e) /\ Calm(d, e) /\ e.job = d.job
         /\ \A u \in Tasks \ {t} : e.task[u] = d.task[u]
<1>1. PICK r : r = JudgedRecord(d.task[t], c, failed)
  OBVIOUS
<1>2. Shape(d) /\ d.task[t] \in TaskRecords /\ c # None
  BY ShapeIs, SeoAssumption DEF Sound, Shape
<1>3. /\ r \in TaskRecords /\ r.status \in {"completed", "partial", "failed"}
      /\ r.actual = c /\ r.actual \in Nat /\ r.judged
  <2>1. c \in Nat \cup {None}
    OBVIOUS
  <2> QED
    BY <1>1, <1>2, <2>1, JudgedRecordIs
<1>4. CASE d.task[t].actual = None
  <2>1. Books(d, e, t, r)
    <3>1. e = Booked(d, t, r)
      BY <1>1, <1>4 DEF Reconciled
    <3> QED
      BY <1>2, <1>3, <3>1, BookedIs, Zenon
  <2> QED
    BY <1>3, <1>4, <2>1, PaySound
<1>5. CASE d.task[t].actual # None
  <2>1. e = Stored(d, t, r)
    BY <1>1, <1>5 DEF Reconciled
  <2>2. r.actual = d.task[t].actual
    BY <1>3, <1>5
  <2> QED
    BY <1>3, <1>5, <2>1, <2>2, StoreSound
<1> QED
  BY <1>4, <1>5

\* What reconcile writes.
LEMMA ReconcileSound ==
  ASSUME NEW t \in Tasks, NEW c \in JudgedCosts, NEW failed \in BOOLEAN, Reconcile(t, c, failed),
         Sound(db), AllFit(db)
  PROVE  Sound(db') /\ AllFit(db') /\ Calm(db, db')
<1>1. PICK e : e = Reconciled(db, t, c, failed)
  OBVIOUS
<1>2. db' = Finish(e, {Job(t)})
  <2>1. PICK r : r = JudgedRecord(db.task[t], c, failed)
    OBVIOUS
  <2>2. PICK x : x = IF db.task[t].actual = None THEN Spend(Release(db, {t}), t, c) ELSE db
    OBVIOUS
  <2>3. Shape(db) /\ db.task[t] \in TaskRecords /\ c \in Nat
    BY ShapeIs, SeoAssumption DEF Sound, Shape
  <2>4. x.task = db.task
    <3>1. PICK y : y = Release(db, {t})
      OBVIOUS
    <3>2. Shape(y) /\ y.task = db.task
      BY <2>3, <3>1, ReleaseIs
    <3>3. \A z : z = Spend(y, t, c) => z.task = y.task
      BY <2>3, <3>2, SpendIs
    <3> QED
      BY <2>2, <3>1, <3>2, <3>3, Zenon
  <2>5. r.actual = c
    BY <2>1, <2>3, JudgedRecordIs
  <2>6. e = [x EXCEPT !.task[t] = r]
    <3>1. e = IF db.task[t].actual = None THEN Stored(Spend(Release(db, {t}), t, c), t, r) ELSE Stored(db, t, r)
      BY <1>1, <2>1, <2>5, Zenon DEF Reconciled, Booked
    <3> QED
      BY <2>2, <3>1, Zenon DEF Stored
  <2>7. r = [x.task[t] EXCEPT !.status = Judged(db.task[t].outcome, failed), !.actual = c, !.judged = TRUE]
    BY <2>1, <2>4, Zenon DEF JudgedRecord
  <2> QED
    BY <2>2, <2>6, <2>7, Zenon DEF Reconcile
<1>3. /\ Sound(e) /\ Calm(db, e) /\ e.job = db.job
      /\ \A u \in Tasks \ {t} : e.task[u] = db.task[u]
  <2>1. Status(db, t) = "reconciliation-required" /\ c \in Nat /\ db.task[t].actual \in {None, c}
    BY SeoAssumption DEF Reconcile
  <2> QED
    BY <1>1, <2>1, ReconciledSound
<1>4. \A j \in Jobs \ {Job(t)} : JobFits(e, j)
  <2> TAKE j \in Jobs \ {Job(t)}
  <2>1. \A u \in TasksOf(j) : u \in Tasks /\ u # t
    BY DEF TasksOf
  <2>2. \A u \in TasksOf(j) : Status(e, u) = Status(db, u)
    BY <1>3, <2>1 DEF Status
  <2>3. JobFits(db, j) /\ e.job = db.job
    BY <1>3 DEF AllFit
  <2> QED
    BY <2>2, <2>3, SameJob
<1>5. Sound(db') /\ AllFit(db') /\ db'.task = e.task
  BY <1>2, <1>3, <1>4, TaskParts, FinishSound
<1>6. Calm(e, db')
  BY <1>5 DEF Calm, Keeps, PostsNothing, Status
<1> QED
  BY <1>3, <1>5, <1>6, CalmComposes

\* A lease is renewed or runs out.
LEMMA StaleRecord ==
  ASSUME NEW q \in TaskRecords, NEW b \in BOOLEAN, NEW r, r = [q EXCEPT !.stale = b]
  PROVE  /\ r \in TaskRecords /\ r.status = q.status /\ r.owner = q.owner
         /\ r.actual = q.actual /\ r.judged = q.judged
<1>1. PICK a, o, f, g, h, k :
        q = [status |-> a, owner |-> o, stale |-> f, outcome |-> g, actual |-> h, judged |-> k]
  BY TaskRecord
<1>2. r = [[status |-> a, owner |-> o, stale |-> f, outcome |-> g, actual |-> h, judged |-> k] EXCEPT !.stale = b]
  BY <1>1, Zenon
<1>3. r = [status |-> a, owner |-> o, stale |-> b, outcome |-> g, actual |-> h, judged |-> k]
  BY <1>2
<1> QED
  BY <1>1, <1>3 DEF TaskRecords

Leased(d, t, b) == [d EXCEPT !.task[t].stale = b]

LEMMA StaleSound ==
  ASSUME NEW d, Sound(d), AllFit(d), NEW t \in Tasks, Status(d, t) = "running", NEW b \in BOOLEAN,
         NEW e, e = Leased(d, t, b)
  PROVE  Sound(e) /\ AllFit(e) /\ Calm(d, e)
<1>1. PICK r : r = [d.task[t] EXCEPT !.stale = b]
  OBVIOUS
<1>2. e = Stored(d, t, r)
  BY <1>1, Zenon DEF Stored, Leased
<1>3. d.task[t] \in TaskRecords
  BY ShapeIs DEF Sound, Shape
<1>4. /\ r \in TaskRecords /\ r.status = "running" /\ r.actual = d.task[t].actual
      /\ r.judged = d.task[t].judged /\ d.task[t].actual = None
  BY <1>1, <1>3, StaleRecord DEF Sound, TasksFit, Status
<1>5. /\ Sound(e) /\ Calm(d, e) /\ e.job = d.job
      /\ e.task[t] = r /\ \A u \in Tasks \ {t} : e.task[u] = d.task[u]
  BY <1>2, <1>4, StoreSound
<1>6. \A u \in Tasks : Status(e, u) = Status(d, u)
  BY <1>4, <1>5 DEF Status
<1>7. \A j \in Jobs : JobFits(e, j)
  BY <1>5, <1>6, SameJob DEF AllFit, TasksOf
<1> QED
  BY <1>5, <1>7 DEF AllFit


\* A claim takes a task and a job.
ClaimedTask(q, p) == [q EXCEPT !.status = "running", !.owner = p, !.stale = FALSE]
ClaimedJob(q) == [q EXCEPT !.status = "running", !.run = "running"]
TodayJob(q) == [q EXCEPT !.period = Today]

LEMMA ClaimedTaskIs ==
  ASSUME NEW q \in TaskRecords, NEW p \in Procs, NEW r, r = ClaimedTask(q, p)
  PROVE  /\ r \in TaskRecords /\ r.status = "running" /\ r.owner = p
         /\ r.actual = q.actual /\ r.judged = q.judged
<1>1. PICK a, o, f, g, h, k :
        q = [status |-> a, owner |-> o, stale |-> f, outcome |-> g, actual |-> h, judged |-> k]
  BY TaskRecord
<1>2. r = [[status |-> a, owner |-> o, stale |-> f, outcome |-> g, actual |-> h, judged |-> k]
             EXCEPT !.status = "running", !.owner = p, !.stale = FALSE]
  BY <1>1, Zenon DEF ClaimedTask
<1>3. r = [status |-> "running", owner |-> p, stale |-> FALSE, outcome |-> g, actual |-> h, judged |-> k]
  BY <1>2
<1>4. p \in Procs \cup {None} /\ g \in Outcomes \cup {None} /\ h \in Nat \cup {None} /\ k \in BOOLEAN
  BY <1>1 DEF TaskRecords
<1>5. r \in TaskRecords
  BY <1>3, <1>4 DEF TaskRecords, TaskStates
<1> QED
  BY <1>1, <1>3, <1>5

LEMMA TodayIsPeriods ==
  ASSUME now \in 1..Days
  PROVE  Today \in [Kinds -> Periods]
<1>1. MonthOf[now] \in Range(MonthOf)
  BY SeoAssumption DEF Range
<1> QED
  BY <1>1 DEF Today, Period, Periods

LEMMA TodayJobIs ==
  ASSUME now \in 1..Days, NEW q \in JobRecords, NEW r, r = TodayJob(q)
  PROVE  /\ r \in JobRecords /\ r.period = Today
         /\ r.status = q.status /\ r.run = q.run /\ r.cancel = q.cancel /\ r.linked = q.linked
<1>1. PICK a, b, c, l, p : q = [status |-> a, run |-> b, cancel |-> c, linked |-> l, period |-> p]
  BY DEF JobRecords
<1>2. r = [[status |-> a, run |-> b, cancel |-> c, linked |-> l, period |-> p] EXCEPT !.period = Today]
  BY <1>1, Zenon DEF TodayJob
<1>3. r = [status |-> a, run |-> b, cancel |-> c, linked |-> l, period |-> Today]
  BY <1>2
<1>4. Today \in [Kinds -> Periods]
  BY TodayIsPeriods
<1> QED
  BY <1>1, <1>3, <1>4 DEF JobRecords

LEMMA ClaimedJobIs ==
  ASSUME NEW q \in JobRecords, NEW r, r = ClaimedJob(q)
  PROVE  /\ r \in JobRecords /\ r.period = q.period /\ r.status = "running" /\ r.run = "running"
         /\ r.cancel = q.cancel /\ r.linked = q.linked
<1>1. PICK a, b, c, l, p : q = [status |-> a, run |-> b, cancel |-> c, linked |-> l, period |-> p]
  BY DEF JobRecords
<1>2. r = [[status |-> a, run |-> b, cancel |-> c, linked |-> l, period |-> p]
             EXCEPT !.status = "running", !.run = "running"]
  BY <1>1, Zenon DEF ClaimedJob
<1>3. r = [status |-> "running", run |-> "running", cancel |-> c, linked |-> l, period |-> p]
  BY <1>2
<1> QED
  BY <1>1, <1>3 DEF JobRecords, TaskStates

\* Reservations move to today.
LEMMA MovedIs ==
  ASSUME NEW d, Shape(d), now \in 1..Days, NEW j \in Jobs, NEW T \in SUBSET Tasks, NEW e, e = Moved(d, j, T)
  PROVE  /\ Shape(e) /\ e.task = d.task /\ e.spent = d.spent /\ Moves(d, e, T)
         /\ e.job[j].period = Today /\ e.job[j].cancel = d.job[j].cancel /\ e.job[j].linked = d.job[j].linked
         /\ \A i \in Jobs \ {j} : e.job[i] = d.job[i]
<1>1. PICK x : x = Release(d, T)
  OBVIOUS
<1>2. Shape(x) /\ x.task = d.task /\ x.job = d.job /\ x.spent = d.spent /\ Frees(d, x, T)
  BY <1>1, ReleaseIs
<1>3. PICK r : r = TodayJob(x.job[j])
  OBVIOUS
<1>4. PICK y : y = StoredJob(x, j, r)
  OBVIOUS
<1>5. e = Hold(y, T)
  BY <1>1, <1>3, <1>4, Zenon DEF Moved, StoredJob, TodayJob
<1>6. /\ r \in JobRecords /\ r.period = Today
      /\ r.cancel = d.job[j].cancel /\ r.linked = d.job[j].linked
  <2>1. x.job[j] \in JobRecords /\ x.job[j] = d.job[j]
    BY <1>2 DEF Shape
  <2> QED
    BY <1>3, <2>1, TodayJobIs
<1>7. /\ Shape(y) /\ y.task = x.task /\ y.held = x.held /\ y.spent = x.spent
      /\ y.job[j] = r /\ \A i \in Jobs \ {j} : y.job[i] = x.job[i]
  <2>1. Shape(x)
    BY <1>2
  <2> QED
    BY <1>4, <1>6, <2>1, WithOneJob
<1>8. Shape(e) /\ e.task = y.task /\ e.job = y.job /\ e.spent = y.spent /\ Adds(y, e, T)
  <2>1. Shape(y)
    BY <1>7
  <2> QED
    BY <1>5, <2>1, HoldIs
<1>9. Moves(d, e, T)
  BY <1>2, <1>7, <1>8 DEF Moves, Frees, Adds
<1> QED
  BY <1>2, <1>6, <1>7, <1>8, <1>9

\* A transaction that writes one task and one job.
StoredBoth(d, t, r, j, q) == [d EXCEPT !.task[t] = r, !.job[j] = q]

LEMMA WithOneTaskAndJob ==
  ASSUME NEW d, Shape(d), NEW t \in Tasks, NEW r \in TaskRecords, NEW j \in Jobs, NEW q \in JobRecords,
         NEW e, e = StoredBoth(d, t, r, j, q)
  PROVE  /\ Shape(e) /\ e.held = d.held /\ e.spent = d.spent
         /\ e.task[t] = r /\ \A u \in Tasks \ {t} : e.task[u] = d.task[u]
         /\ e.job[j] = q /\ \A i \in Jobs \ {j} : e.job[i] = d.job[i]
<1>1. PICK a, b, c, f : d = [task |-> a, job |-> b, held |-> c, spent |-> f]
  BY DEF Shape
<1>2. e = [[task |-> a, job |-> b, held |-> c, spent |-> f] EXCEPT !.task[t] = r, !.job[j] = q]
  BY <1>1, Zenon DEF StoredBoth
<1>3. e = [task |-> [a EXCEPT ![t] = r], job |-> [b EXCEPT ![j] = q], held |-> c, spent |-> f]
  BY <1>2
<1>4. a \in [Tasks -> TaskRecords] /\ b \in [Jobs -> JobRecords]
  BY <1>1 DEF Shape
<1>5. [a EXCEPT ![t] = r] \in [Tasks -> TaskRecords] /\ [b EXCEPT ![j] = q] \in [Jobs -> JobRecords]
  BY <1>4
<1>6. e.task = [a EXCEPT ![t] = r] /\ e.job = [b EXCEPT ![j] = q] /\ e.held = c /\ e.spent = f
  BY <1>3
<1>7. Shape(e)
  BY <1>1, <1>3, <1>5, <1>6 DEF Shape
<1> QED
  BY <1>1, <1>4, <1>6, <1>7

\* What a claim writes.
LEMMA ClaimIs ==
  ASSUME NEW d, Shape(d), now \in 1..Days, NEW j \in Jobs, NEW p \in Procs, NEW t \in Tasks,
         NEW T \in SUBSET Tasks, T = Queued(d, j), NEW e, e = Claim(d, p, j, t)
  PROVE  /\ Shape(e) /\ e.spent = d.spent /\ Moves(d, e, T)
         /\ e.job[j].period = Today /\ e.job[j].cancel = d.job[j].cancel /\ e.job[j].linked = d.job[j].linked
         /\ e.job[j].status = "running" /\ e.job[j].run = "running"
         /\ \A i \in Jobs \ {j} : e.job[i] = d.job[i]
         /\ Status(e, t) = "running" /\ e.task[t].owner = p
         /\ e.task[t].actual = d.task[t].actual /\ e.task[t].judged = d.task[t].judged
         /\ \A u \in Tasks \ {t} : e.task[u] = d.task[u]
<1>1. PICK m : m = Moved(d, j, T)
  OBVIOUS
<1>2. /\ Shape(m) /\ m.task = d.task /\ m.spent = d.spent /\ Moves(d, m, T)
      /\ m.job[j].period = Today /\ m.job[j].cancel = d.job[j].cancel /\ m.job[j].linked = d.job[j].linked
      /\ \A i \in Jobs \ {j} : m.job[i] = d.job[i]
  BY <1>1, MovedIs
<1>3. PICK r : r = ClaimedTask(m.task[t], p)
  OBVIOUS
<1>4. PICK q : q = ClaimedJob(m.job[j])
  OBVIOUS
<1>5. e = StoredBoth(m, t, r, j, q)
  BY <1>1, <1>3, <1>4, Zenon DEF Claim, MovesAll, ClaimedTask, ClaimedJob, StoredBoth
<1>6. m.task[t] \in TaskRecords /\ m.job[j] \in JobRecords /\ m.task[t] = d.task[t]
  BY <1>2 DEF Shape
<1>7. /\ r \in TaskRecords /\ r.status = "running" /\ r.owner = p
      /\ r.actual = d.task[t].actual /\ r.judged = d.task[t].judged
  BY <1>3, <1>6, ClaimedTaskIs
<1>8. /\ q \in JobRecords /\ q.period = Today /\ q.status = "running" /\ q.run = "running"
      /\ q.cancel = d.job[j].cancel /\ q.linked = d.job[j].linked
  BY <1>2, <1>4, <1>6, ClaimedJobIs
<1>9. /\ Shape(e) /\ e.held = m.held /\ e.spent = m.spent
      /\ e.task[t] = r /\ \A u \in Tasks \ {t} : e.task[u] = m.task[u]
      /\ e.job[j] = q /\ \A i \in Jobs \ {j} : e.job[i] = m.job[i]
  <2>1. Shape(m)
    BY <1>2
  <2> QED
    BY <1>5, <1>7, <1>8, <2>1, WithOneTaskAndJob
<1>10. \A u \in T : e.job[Job(u)].period = m.job[Job(u)].period
  BY <1>2, <1>8, <1>9, TaskParts
<1>11. \A s, b : PriceIn(e, T, s, b) = PriceIn(m, T, s, b)
  BY <1>10, PriceInSame
<1>12. Moves(d, e, T)
  BY <1>2, <1>9, <1>11 DEF Moves
<1> QED
  BY <1>2, <1>7, <1>8, <1>9, <1>12 DEF Status


\* claim: an account that has no search out takes one, within the limits of today.
LEMMA ClaimSound ==
  ASSUME NEW d, Sound(d), AllFit(d), now \in 1..Days, NEW j \in Jobs, NEW p \in Procs, NEW t \in Tasks,
         t \in Claimable(d, j), ~Busy(d, AccountOf[j]), Fits(d, j, Today, 0),
         NEW e, e = Claim(d, p, j, t)
  PROVE  /\ Sound(e) /\ AllFit(e) /\ Keeps(d, e)
         /\ Status(d, t) = "queued" /\ Status(e, t) = "running" /\ \A u \in Tasks \ {t} : e.task[u] = d.task[u]
<1>1. PICK T : T = Queued(d, j)
  OBVIOUS
<1>2. T \in SUBSET Tasks /\ t \in T /\ Job(t) = j /\ Status(d, t) = "queued" /\ Shape(d)
  BY <1>1, ShapeIs DEF Claimable, Queued, TasksOf, Sound
<1>3. /\ Shape(e) /\ e.spent = d.spent /\ Moves(d, e, T)
      /\ e.job[j].period = Today /\ e.job[j].cancel = d.job[j].cancel /\ e.job[j].linked = d.job[j].linked
      /\ e.job[j].status = "running" /\ e.job[j].run = "running"
      /\ \A i \in Jobs \ {j} : e.job[i] = d.job[i]
      /\ Status(e, t) = "running" /\ e.task[t].owner = p
      /\ e.task[t].actual = d.task[t].actual /\ e.task[t].judged = d.task[t].judged
      /\ \A u \in Tasks \ {t} : e.task[u] = d.task[u]
  BY <1>1, <1>2, ClaimIs
<1>4. \A u \in Tasks : Job(u) = j => Status(d, u) \notin {"running", "reconciliation-required"}
  BY DEF Busy
<1>5. T = {u \in Holding(d) : Job(u) = j}
  BY <1>1, <1>4 DEF Queued, TasksOf, Holding, Holds
<1>6. TasksFit(d) /\ d.task[t].actual = None
  BY <1>2 DEF Sound, TasksFit
<1>7. TasksFit(e)
  <2>1. Status(d, t) \in Active /\ e.task[t].actual = None /\ Status(e, t) = "running"
    BY <1>2, <1>3, <1>6 DEF Active
  <2>2. \A u \in Tasks \ {t} : e.task[u] = d.task[u]
    BY <1>3
  <2>3. Status(e, t) \notin Final
    BY <2>1 DEF Final
  <2> QED
    BY <1>6, <2>1, <2>2, <2>3, OneTaskFits
<1>8. \A u \in Tasks : /\ e.task[u].actual = d.task[u].actual
                       /\ Holds(e, u) <=> Holds(d, u)
                       /\ Status(e, u) = "none" <=> Status(d, u) = "none"
  BY <1>2, <1>3 DEF Holds, Status
<1>9. Sound(e)
  <2>1. \A i \in Jobs \ {j} : e.job[i].period = d.job[i].period
    BY <1>3
  <2>2. Fits(d, j, e.job[j].period, 0) /\ Shape(e) /\ e.spent = d.spent /\ Moves(d, e, T)
    BY <1>3
  <2> QED
    BY <1>5, <1>7, <1>8, <2>1, <2>2, SoundMove
<1>10. Keeps(d, e)
  BY <1>2, <1>3 DEF Keeps, Final, Status
<1>11. ASSUME NEW i \in Jobs \ {j}
       PROVE  JobFits(e, i)
  <2>1. \A u \in TasksOf(i) : u \in Tasks \ {t}
    BY <1>2 DEF TasksOf
  <2>2. \A u \in TasksOf(i) : Status(e, u) = Status(d, u)
    BY <1>3, <2>1 DEF Status
  <2>3. JobFits(d, i) /\ e.job[i] = d.job[i]
    BY <1>3 DEF AllFit
  <2> QED
    BY <2>2, <2>3, SameJob
<1>12. JobFits(e, j)
  <2>1. "running" \in CurrentStates(e, j)
    BY <1>2, <1>3, <1>7, UnsettledIsCurrent DEF Active
  <2>2. \A u \in TasksOf(j) : Status(e, u) # "reconciliation-required"
    BY <1>3, <1>4 DEF TasksOf, Status
  <2>3. "reconciliation-required" \notin CurrentStates(e, j)
    BY <2>2 DEF CurrentStates, CurrentTasks
  <2>4. JobStatus(e, j) = "running" /\ RunStatus(e, j) = "running"
    BY <2>1, <2>3 DEF JobStatus, RunStatus
  <2> QED
    BY <1>3, <2>4 DEF JobFits
<1> QED
  BY <1>2, <1>3, <1>9, <1>10, <1>11, <1>12 DEF AllFit

\* Tasks admitted.
QueuedTask(q) == [q EXCEPT !.status = "queued"]
NewJob(q) == [q EXCEPT !.status = "queued", !.run = "queued", !.period = Today]
FirstTasks(j) == {t \in TasksOf(j) : t[2] = 1}
Admitted(d, j) ==
  [d EXCEPT !.task = [t \in Tasks |-> IF t \in FirstTasks(j) THEN QueuedTask(@[t]) ELSE @[t]], !.job[j] = NewJob(@)]

LEMMA QueuedTaskIs ==
  ASSUME NEW q \in TaskRecords, NEW r, r = QueuedTask(q)
  PROVE  r \in TaskRecords /\ r.status = "queued" /\ r.actual = q.actual /\ r.judged = q.judged
<1>1. PICK a, o, f, g, h, k :
        q = [status |-> a, owner |-> o, stale |-> f, outcome |-> g, actual |-> h, judged |-> k]
  BY TaskRecord
<1>2. r = [[status |-> a, owner |-> o, stale |-> f, outcome |-> g, actual |-> h, judged |-> k]
             EXCEPT !.status = "queued"]
  BY <1>1, Zenon DEF QueuedTask
<1>3. r = [status |-> "queued", owner |-> o, stale |-> f, outcome |-> g, actual |-> h, judged |-> k]
  BY <1>2
<1> QED
  BY <1>1, <1>3 DEF TaskRecords, TaskStates

LEMMA NewJobIs ==
  ASSUME now \in 1..Days, NEW q \in JobRecords, NEW r, r = NewJob(q)
  PROVE  /\ r \in JobRecords /\ r.period = Today /\ r.status = "queued" /\ r.run = "queued"
         /\ r.cancel = q.cancel /\ r.linked = q.linked
<1>1. PICK a, b, c, l, p : q = [status |-> a, run |-> b, cancel |-> c, linked |-> l, period |-> p]
  BY DEF JobRecords
<1>2. r = [[status |-> a, run |-> b, cancel |-> c, linked |-> l, period |-> p]
             EXCEPT !.status = "queued", !.run = "queued", !.period = Today]
  BY <1>1, Zenon DEF NewJob
<1>3. r = [status |-> "queued", run |-> "queued", cancel |-> c, linked |-> l, period |-> Today]
  BY <1>2
<1>4. Today \in [Kinds -> Periods]
  BY TodayIsPeriods
<1> QED
  BY <1>1, <1>3, <1>4 DEF JobRecords, TaskStates

LEMMA AdmittedIs ==
  ASSUME NEW d, Shape(d), now \in 1..Days, NEW j \in Jobs, NEW e, e = Admitted(d, j)
  PROVE  /\ Shape(e) /\ e.held = d.held /\ e.spent = d.spent
         /\ e.job[j].period = Today /\ e.job[j].status = "queued" /\ e.job[j].run = "queued"
         /\ \A i \in Jobs \ {j} : e.job[i] = d.job[i]
         /\ \A t \in FirstTasks(j) : /\ Status(e, t) = "queued" /\ e.task[t].actual = d.task[t].actual
                                     /\ e.task[t].judged = d.task[t].judged
         /\ \A t \in Tasks \ FirstTasks(j) : e.task[t] = d.task[t]
<1>1. PICK x : x = [t \in Tasks |-> IF t \in FirstTasks(j) THEN QueuedTask(d.task[t]) ELSE d.task[t]]
  OBVIOUS
<1>2. PICK q : q = NewJob(d.job[j])
  OBVIOUS
<1>3. PICK y : y = [d.job EXCEPT ![j] = q]
  OBVIOUS
<1>4. e = [task |-> x, job |-> y, held |-> d.held, spent |-> d.spent]
  <2>1. e = [d EXCEPT !.task = x, !.job = y]
    BY <1>1, <1>2, <1>3, Zenon DEF Admitted
  <2>2. \A z : z = [d EXCEPT !.task = x, !.job = y] => z = [task |-> x, job |-> y, held |-> d.held, spent |-> d.spent]
    BY WithTaskAndJob, Zenon
  <2> QED
    BY <2>1, <2>2, Zenon
<1>5. e.task = x /\ e.job = y /\ e.held = d.held /\ e.spent = d.spent
  BY <1>4
<1>6. d.job[j] \in JobRecords /\ d.job \in [Jobs -> JobRecords] /\ \A t \in Tasks : d.task[t] \in TaskRecords
  BY DEF Shape
<1>7. /\ q \in JobRecords /\ q.period = Today /\ q.status = "queued" /\ q.run = "queued"
  BY <1>2, <1>6, NewJobIs
<1>8. \A t \in FirstTasks(j) : /\ x[t] \in TaskRecords /\ x[t].status = "queued"
                               /\ x[t].actual = d.task[t].actual /\ x[t].judged = d.task[t].judged
  BY <1>1, <1>6, QueuedTaskIs DEF FirstTasks, TasksOf
<1>9. \A t \in Tasks \ FirstTasks(j) : x[t] = d.task[t]
  BY <1>1
<1>10. x \in [Tasks -> TaskRecords]
  BY <1>1, <1>6, <1>8, <1>9
<1>11. y \in [Jobs -> JobRecords] /\ y[j] = q /\ \A i \in Jobs \ {j} : y[i] = d.job[i]
  BY <1>3, <1>6, <1>7
<1>12. Shape(e)
  BY <1>4, <1>5, <1>10, <1>11 DEF Shape
<1> QED
  BY <1>5, <1>7, <1>8, <1>9, <1>11, <1>12 DEF Status


\* admit: all searches of a new job, within the ceiling and the limits of today.
LEMMA AdmitSound ==
  ASSUME NEW j \in Jobs, Admit(j), Sound(db), AllFit(db), now \in 1..Days
  PROVE  Sound(db') /\ AllFit(db') /\ Calm(db, db')
<1>1. PICK T : T = FirstTasks(j)
  OBVIOUS
<1>2. T \in SUBSET TasksOf(j) /\ T \in SUBSET Tasks /\ Shape(db)
  BY <1>1, ShapeIs DEF FirstTasks, TasksOf, Sound
<1>3. PICK x : x = Admitted(db, j)
  OBVIOUS
<1>4. PICK e : e = Hold(x, T)
  OBVIOUS
<1>5. db' = e
  BY <1>1, <1>3, <1>4, Zenon DEF Admit, Admitted, FirstTasks, QueuedTask, NewJob
<1>6. /\ Shape(x) /\ x.held = db.held /\ x.spent = db.spent
      /\ x.job[j].period = Today /\ x.job[j].status = "queued" /\ x.job[j].run = "queued"
      /\ \A i \in Jobs \ {j} : x.job[i] = db.job[i]
      /\ \A t \in T : /\ Status(x, t) = "queued" /\ x.task[t].actual = db.task[t].actual
                      /\ x.task[t].judged = db.task[t].judged
      /\ \A t \in Tasks \ T : x.task[t] = db.task[t]
  BY <1>1, <1>2, <1>3, AdmittedIs
<1>7. Shape(e) /\ e.task = x.task /\ e.job = x.job /\ e.spent = db.spent /\ Adds(x, e, T)
  <2>1. Shape(x)
    BY <1>6
  <2>2. Shape(e) /\ e.task = x.task /\ e.job = x.job /\ e.spent = x.spent /\ Adds(x, e, T)
    BY <1>2, <1>4, <2>1, HoldIs
  <2> QED
    BY <1>6, <2>2
<1>8. Adds(db, e, T)
  BY <1>6, <1>7 DEF Adds
<1>9. db.job[j].status = "none" /\ \A t \in TasksOf(j) : Status(db, t) = "none"
  BY DEF Admit, AllFit, JobFits
<1>10. \A t \in Tasks : Status(db, t) = "none" => db.task[t].actual = None
  BY DEF Sound, TasksFit
<1>11. /\ \A t \in T : Status(db, t) = "none" /\ Status(e, t) = "queued" /\ e.task[t].actual = None
       /\ \A t \in Tasks \ T : e.task[t] = db.task[t]
  BY <1>2, <1>6, <1>7, <1>9, <1>10 DEF Status
<1>12. TasksFit(e)
  <2>1. ASSUME NEW t \in Tasks
        PROVE  /\ Status(e, t) \in {"none", "queued", "running"} => e.task[t].actual = None
               /\ Status(e, t) = "reconciliation-required" /\ e.task[t].owner # None => e.task[t].actual = None
               /\ Status(e, t) \in Final => e.task[t].actual # None
    <3>1. CASE t \in T
      BY <1>11, <3>1 DEF Final
    <3>2. CASE t \notin T
      BY <1>11, <3>2 DEF Sound, TasksFit, Status
    <3> QED
      BY <3>1, <3>2
  <2>2. ASSUME NEW s \in Searches, Status(e, <<s, 2>>) # "none"
        PROVE  Status(e, <<s, 1>>) = "failed"
    <3>1. <<s, 1>> \in Tasks /\ <<s, 2>> \in Tasks
      BY SearchTasks
    <3>2. <<s, 2>> \notin T
      BY <1>1 DEF FirstTasks
    <3>3. Status(db, <<s, 2>>) # "none"
      BY <1>11, <2>2, <3>1, <3>2 DEF Status
    <3>4. Status(db, <<s, 1>>) = "failed"
      BY <3>3 DEF Sound, TasksFit
    <3>5. <<s, 1>> \notin T
      BY <1>11, <3>4
    <3> QED
      BY <1>11, <3>1, <3>4, <3>5 DEF Status
  <2> QED
    BY <2>1, <2>2 DEF TasksFit
<1>13. \A t \in Holding(db) : e.job[Job(t)].period = db.job[Job(t)].period
  <2> TAKE t \in Holding(db)
  <2>1. t \in Tasks /\ Status(db, t) # "none"
    BY DEF Holding, Holds
  <2>2. Job(t) \in Jobs \ {j}
    BY <1>9, <2>1, TaskParts DEF TasksOf
  <2> QED
    BY <1>6, <1>7, <2>2
<1>14. RunCost(db, j) = 0
  <2>1. {u \in TasksOf(j) : Status(db, u) # "none"} = {}
    BY <1>9
  <2>2. PICK f : f = [t \in {u \in TasksOf(j) : Status(db, u) # "none"} |-> Cost(db, t)]
    OBVIOUS
  <2>3. RunCost(db, j) = SumFunctionOnSet(f, {})
    BY <2>1, <2>2 DEF RunCost, SumFunction
  <2> QED
    BY <2>3, SumEmpty
<1>15. Fits(db, j, e.job[j].period, Total(T)) /\ RunCost(db, j) + Total(T) <= RunCeiling
  <2>1. Total(T) <= RunCeiling /\ Fits(db, j, Today, Total(T))
    BY <1>1, Zenon DEF Admit, FirstTasks, Total
  <2>2. Total(T) \in Nat /\ RunCeiling \in Nat
    BY <1>2, TotalNat, SeoAssumption
  <2> QED
    BY <1>6, <1>7, <1>14, <2>1, <2>2
<1>16. Sound(e)
  <2>1. Shape(e) /\ e.spent = db.spent
    BY <1>7
  <2> QED
    BY <1>2, <1>8, <1>11, <1>12, <1>13, <1>15, <2>1, SoundQueue
<1>17. Calm(db, e)
  <2>1. \A t \in T : e.task[t].judged = db.task[t].judged
    BY <1>6, <1>7
  <2> QED
    BY <1>10, <1>11, <2>1 DEF Calm, Keeps, PostsNothing, Unposted, Final, Status
<1>18. ASSUME NEW i \in Jobs \ {j}
       PROVE  JobFits(e, i)
  <2>1. \A t \in TasksOf(i) : t \in Tasks \ T
    BY <1>2 DEF TasksOf
  <2>2. \A t \in TasksOf(i) : Status(e, t) = Status(db, t)
    BY <1>11, <2>1 DEF Status
  <2>3. JobFits(db, i) /\ e.job[i] = db.job[i]
    BY <1>6, <1>7 DEF AllFit
  <2> QED
    BY <2>2, <2>3, SameJob
<1>19. JobFits(e, j)
  <2>1. \A t \in TasksOf(j) : Status(e, t) = IF t[2] = 1 THEN "queued" ELSE "none"
    <3> TAKE t \in TasksOf(j)
    <3>1. CASE t[2] = 1
      BY <1>1, <1>11, <3>1 DEF FirstTasks
    <3>2. CASE t[2] # 1
      BY <1>1, <1>9, <1>11, <3>2 DEF FirstTasks, TasksOf, Status
    <3> QED
      BY <3>1, <3>2
  <2>2. e.job[j].status = "queued" /\ e.job[j].run = "queued"
    BY <1>6, <1>7
  <2> QED
    BY <2>1, <2>2 DEF JobFits
<1> QED
  BY <1>5, <1>16, <1>17, <1>18, <1>19 DEF AllFit

\* The run of a job goes with its project: nothing else of it changes.
Unlinked(q) == [q EXCEPT !.linked = FALSE]

LEMMA UnlinkedIs ==
  ASSUME NEW q \in JobRecords, NEW r, r = Unlinked(q)
  PROVE  /\ r \in JobRecords /\ ~r.linked /\ r.status = q.status /\ r.run = q.run
         /\ r.cancel = q.cancel /\ r.period = q.period
<1>1. PICK a, b, c, l, p : q = [status |-> a, run |-> b, cancel |-> c, linked |-> l, period |-> p]
  BY DEF JobRecords
<1>2. r = [[status |-> a, run |-> b, cancel |-> c, linked |-> l, period |-> p] EXCEPT !.linked = FALSE]
  BY <1>1, Zenon DEF Unlinked
<1>3. r = [status |-> a, run |-> b, cancel |-> c, linked |-> FALSE, period |-> p]
  BY <1>2
<1>4. r.linked = FALSE /\ r.status = a /\ r.run = b /\ r.cancel = c /\ r.period = p
  BY <1>3
<1>5. a \in TaskStates /\ b \in TaskStates /\ c \in BOOLEAN /\ p \in [Kinds -> Periods] /\ FALSE \in BOOLEAN
  BY <1>1 DEF JobRecords
<1>6. \A z \in BOOLEAN : [status |-> a, run |-> b, cancel |-> c, linked |-> z, period |-> p] \in JobRecords
  BY <1>5 DEF JobRecords
<1>7. r \in JobRecords
  BY <1>3, <1>6, Zenon
<1> QED
  BY <1>1, <1>4, <1>7

LEMMA DeleteSound ==
  ASSUME NEW j \in Jobs, DeleteProject(j), Sound(db), AllFit(db)
  PROVE  Sound(db') /\ AllFit(db') /\ Calm(db, db')
<1>1. PICK y : y = [i \in Jobs |-> IF ProjectOf[i] = ProjectOf[j] THEN Unlinked(db.job[i]) ELSE db.job[i]]
  OBVIOUS
<1>2. PICK e : e = [db EXCEPT !.job = y]
  OBVIOUS
<1>3. db' = e
  BY <1>1, <1>2, Zenon DEF DeleteProject, Unlinked
<1>4. Shape(db)
  BY ShapeIs DEF Sound
<1>5. e = [task |-> db.task, job |-> y, held |-> db.held, spent |-> db.spent]
  <2>1. \A z : z = [db EXCEPT !.job = y] => z = [task |-> db.task, job |-> y, held |-> db.held, spent |-> db.spent]
    BY <1>4, WithJob, Zenon
  <2> QED
    BY <1>2, <2>1, Zenon
<1>6. e.task = db.task /\ e.job = y /\ e.held = db.held /\ e.spent = db.spent
  BY <1>5
<1>7. \A i \in Jobs : db.job[i] \in JobRecords
  BY <1>4 DEF Shape
<1>8. \A i \in Jobs : /\ y[i] \in JobRecords /\ y[i].period = db.job[i].period /\ y[i].cancel = db.job[i].cancel
                      /\ y[i].status = db.job[i].status /\ y[i].run = db.job[i].run
                      /\ y[i].linked => db.job[i].linked
  BY <1>1, <1>7, UnlinkedIs
<1>9. Shape(e)
  <2>1. y \in [Jobs -> JobRecords]
    BY <1>1, <1>8
  <2> QED
    BY <1>4, <1>5, <1>6, <2>1 DEF Shape
<1>10. TasksFit(e)
  BY <1>6 DEF Sound, TasksFit, Status
<1>11. Sound(e)
  BY <1>6, <1>8, <1>9, <1>10, SoundSame DEF Holds, Status
<1>12. \A i \in Jobs : JobFits(e, i)
  BY <1>6, <1>8, SameJob DEF AllFit, Status
<1>13. Calm(db, e)
  BY <1>6 DEF Calm, Keeps, PostsNothing, Status
<1> QED
  BY <1>3, <1>11, <1>12, <1>13 DEF AllFit


(***************************************************************************)
(* The inductive invariant: every step keeps the database sound and the    *)
(* jobs fitting, and what it does to the history of posts.                 *)
(***************************************************************************)
\* All of TypeOK but the database.
WorldOK ==
  /\ proc \in [Procs -> Runtimes]
  /\ now \in 1..Days /\ host \in {"ok", "unreadable", "lowered"}
  /\ posts \in [Tasks -> Nat] /\ faults \in 0..MaxFaults /\ changes \in 0..MaxHostChanges

LEMMA IInvIs == IInv <=> WorldOK /\ ProcsFit /\ PostedOnce /\ Sound(db) /\ AllFit(db)
BY DEF IInv, TypeOK, WorldOK, Sound, AllFit

\* A step that posts nothing.
Tame == Sound(db') /\ AllFit(db') /\ Calm(db, db') /\ posts' = posts

LEMMA CalmStays == ASSUME NEW d PROVE Calm(d, d)
BY DEF Calm, Keeps, PostsNothing

LEMMA TameStays == ASSUME Sound(db), AllFit(db), db' = db, posts' = posts PROVE Tame
BY CalmStays DEF Tame, Sound, AllFit

LEMMA TameCancel ==
  ASSUME Sound(db), AllFit(db), NEW J \in SUBSET Jobs, db' = Cancel(db, J), posts' = posts
  PROVE  Tame
BY CancelSound DEF Tame, AllFit

LEMMA TameSteps ==
  ASSUME IInv, Next
  PROVE  Tame \/ \E p \in Procs, j \in Jobs, t \in Tasks : Post(p, j, t)
<1>0. Sound(db) /\ AllFit(db) /\ ProcsFit /\ WorldOK /\ now \in 1..Days
  BY IInvIs DEF WorldOK
<1>1. ASSUME NEW j \in Jobs, Admit(j) PROVE Tame
  BY <1>0, <1>1, AdmitSound DEF Tame, Admit, Volatile
<1>2. ASSUME NEW j \in Jobs, CancelRequested(j) PROVE Tame
  <2>1. db' = Cancel(db, {j}) /\ posts' = posts
    BY <1>2 DEF CancelRequested, Volatile
  <2> QED
    BY <1>0, <2>1, TameCancel
<1>3. ASSUME NEW j \in Jobs, DeleteProject(j) PROVE Tame
  BY <1>0, <1>3, DeleteSound DEF Tame, DeleteProject, Volatile
<1>4. ASSUME NEW t \in Tasks, NEW c \in JudgedCosts, NEW failed \in BOOLEAN, Reconcile(t, c, failed) PROVE Tame
  BY <1>0, <1>4, ReconcileSound DEF Tame, Reconcile, Volatile
<1>5. ASSUME NEW p \in Procs, Wake(p) PROVE Tame
  <2>1. posts' = posts
    BY <1>5 DEF Wake
  <2>2. CASE db' = db
    BY <1>0, <2>1, <2>2, TameStays
  <2>3. CASE db' = Recover(db)
    BY <1>0, <2>1, <2>3, RecoverSound DEF Tame
  <2> QED
    BY <1>5, <2>2, <2>3 DEF Wake
<1>6. ASSUME NEW p \in Procs, EndPass(p) \/ Paused(p) PROVE Tame
  BY <1>0, <1>6, TameStays DEF EndPass, Paused
<1>7. ASSUME NEW p \in Procs, NEW j \in Jobs, Visit(p, j) \/ Withdraw(p, j) PROVE Tame
  <2>1. posts' = posts /\ (db' = db \/ db' = Cancel(db, {j}))
    BY <1>7 DEF Visit, Withdraw
  <2> QED
    BY <1>0, <2>1, TameStays, TameCancel
<1>8. ASSUME NEW p \in Procs, NEW a \in Answers, Answer(p, a) PROVE Tame
  BY <1>0, <1>8, TameStays DEF Answer
<1>9. ASSUME NEW p \in Procs, StoreReceipt(p) PROVE Tame
  <2>1. PICK t : t = proc[p].task
    OBVIOUS
  <2>2. t \in Tasks /\ proc[p].answer \in Answers /\ posts' = posts
    BY <1>0, <1>9, <2>1 DEF StoreReceipt, ProcsFit, At
  <2>3. CASE MaySettle(db, p, t)
    <3>1. PICK a \in Answers : a = proc[p].answer
      BY <2>2
    <3>2. db' = Settle(db, p, t, a)
      BY <1>9, <2>1, <2>3, <3>1 DEF StoreReceipt
    <3> QED
      BY <1>0, <2>2, <2>3, <3>2, SettleSound DEF Tame
  <2>4. CASE ~MaySettle(db, p, t)
    <3>1. db' = db
      BY <1>9, <2>1, <2>4 DEF StoreReceipt
    <3> QED
      BY <1>0, <2>2, <3>1, TameStays
  <2> QED
    BY <2>3, <2>4
<1>10. ASSUME NEW p \in Procs, StopRefresh(p) PROVE Tame
  <2>1. PICK t \in Tasks : t = proc[p].task
    BY <1>0, <1>10 DEF StopRefresh, ProcsFit, At
  <2>2. posts' = posts /\ (db' = db \/ db' = Cancel(db, {Job(t)}))
    BY <1>10, <2>1 DEF StopRefresh
  <2>3. {Job(t)} \in SUBSET Jobs
    BY TaskParts
  <2> QED
    BY <1>0, <2>2, <2>3, TameStays, TameCancel
<1>11. ASSUME NEW p \in Procs, Renew(p) PROVE Tame
  <2>1. PICK t \in Tasks : t = proc[p].task
    BY <1>0, <1>11 DEF Renew, WorldOK, Runtimes
  <2>2. db' = Leased(db, t, FALSE) /\ Status(db, t) = "running" /\ posts' = posts
    BY <1>11, <2>1 DEF Renew, Leased
  <2> QED
    BY <1>0, <2>2, StaleSound DEF Tame
<1>12. ASSUME NEW t \in Tasks, LeaseRunsOut(t) PROVE Tame
  <2>1. db' = Leased(db, t, TRUE) /\ Status(db, t) = "running" /\ posts' = posts
    BY <1>12 DEF LeaseRunsOut, Leased
  <2> QED
    BY <1>0, <2>1, StaleSound DEF Tame
<1>13. ASSUME NEW p \in Procs, StorageFails(p) \/ Crash(p) \/ StartServer(p) PROVE Tame
  BY <1>0, <1>13, TameStays DEF StorageFails, Crash, StartServer
<1>14. ASSUME DayTurns \/ HostChanges \/ HostRepaired PROVE Tame
  BY <1>0, <1>14, TameStays DEF DayTurns, HostChanges, HostRepaired
<1> QED
  BY <1>1, <1>2, <1>3, <1>4, <1>5, <1>6, <1>7, <1>8, <1>9, <1>10, <1>11, <1>12, <1>13, <1>14 DEF Next, Step


\* The posts follow what the tasks say.
LEMMA PostsFollow ==
  ASSUME IInv, Tame
  PROVE  PostedOnce'
BY DEF IInv, Tame, Calm, PostsNothing, PostedOnce, Unposted

LEMMA PostIs ==
  ASSUME IInv, NEW p \in Procs, NEW j \in Jobs, NEW t \in Tasks, Post(p, j, t)
  PROVE  /\ Sound(db') /\ AllFit(db') /\ Keeps(db, db') /\ PostedOnce'
         /\ Job(t) = j /\ ~Busy(db, AccountOf[j]) /\ \A u \in Tasks \ {t} : posts'[u] = posts[u]
<1>1. Sound(db) /\ AllFit(db) /\ PostedOnce /\ now \in 1..Days /\ posts \in [Tasks -> Nat]
  BY IInvIs DEF WorldOK
<1>2. /\ t \in Claimable(db, j) /\ ~Busy(db, AccountOf[j]) /\ Fits(db, j, Today, 0)
      /\ db' = Claim(db, p, j, t) /\ posts' = [posts EXCEPT ![t] = @ + 1]
  BY DEF Post, WithinLimits
<1>3. /\ Sound(db') /\ AllFit(db') /\ Keeps(db, db')
      /\ Status(db, t) = "queued" /\ Status(db', t) = "running"
      /\ \A u \in Tasks \ {t} : db'.task[u] = db.task[u]
  BY <1>1, <1>2, ClaimSound
<1>4. posts[t] = 0 /\ posts'[t] = 1 /\ \A u \in Tasks \ {t} : posts'[u] = posts[u]
  BY <1>1, <1>2, <1>3 DEF PostedOnce
<1>5. PostedOnce'
  <2> SUFFICES ASSUME NEW u \in Tasks
               PROVE  posts'[u] = IF Status(db', u) \in {"none", "queued", "cancelled"} THEN 0 ELSE 1
    BY DEF PostedOnce
  <2>1. CASE u = t
    BY <1>3, <1>4, <2>1
  <2>2. CASE u # t
    BY <1>1, <1>3, <1>4, <2>2 DEF PostedOnce, Status
  <2> QED
    BY <2>1, <2>2
<1>6. Job(t) = j
  BY <1>2 DEF Claimable, Queued, TasksOf
<1> QED
  BY <1>2, <1>3, <1>4, <1>5, <1>6

\* The memory of a process fits.
RuntimeFits(r) ==
  /\ r \in Runtimes
  /\ r.phase = "call" \/ r.answer # None => r.task \in Tasks
  /\ r.phase = "flush" => r.task \in Tasks /\ r.answer \in Answers
MemoryFits == proc \in [Procs -> Runtimes] /\ \A p \in Procs : RuntimeFits(proc[p])

LEMMA MemoryIs == MemoryFits <=> proc \in [Procs -> Runtimes] /\ ProcsFit
BY DEF MemoryFits, ProcsFit, RuntimeFits

LEMMA OneRemembers ==
  ASSUME MemoryFits, NEW p \in Procs, NEW r, RuntimeFits(r), Becomes(p, r)
  PROVE  MemoryFits'
<1>1. proc' = [proc EXCEPT ![p] = r] /\ proc \in [Procs -> Runtimes] /\ r \in Runtimes
  BY DEF Becomes, MemoryFits, RuntimeFits
<1>2. proc' \in [Procs -> Runtimes] /\ \A q \in Procs : proc'[q] = IF q = p THEN r ELSE proc[q]
  BY <1>1
<1> QED
  BY <1>2 DEF MemoryFits

LEMMA StartsFit == RuntimeFits(ReadyProc) /\ RuntimeFits(DeadProc)
BY DEF RuntimeFits, Runtimes, ReadyProc, DeadProc

LEMMA NextMemory ==
  ASSUME MemoryFits, Next
  PROVE  MemoryFits'
<1>0. \A p \in Procs : RuntimeFits(proc[p]) /\ proc[p] \in Runtimes
  BY DEF MemoryFits
<1>1. \A d, p : OpenJobs(d) \in SUBSET Jobs
  BY DEF OpenJobs
<1>2. CASE proc' = proc
  BY <1>2 DEF MemoryFits
<1>3. ASSUME NEW p \in Procs
      PROVE  RuntimeFits(Idle(p))
  BY <1>0 DEF RuntimeFits, Runtimes, Idle
<1>4. ASSUME NEW p \in Procs, proc[p].phase = "visit", NEW j
      PROVE  RuntimeFits(Visited(p, j))
  BY <1>0, <1>4 DEF RuntimeFits, Runtimes, Visited
<1>5. ASSUME NEW p \in Procs, Wake(p)
      PROVE  MemoryFits'
  <2>1. CASE proc[p].answer # None
    <3>1. RuntimeFits([proc[p] EXCEPT !.phase = "flush"])
      BY <1>0, <2>1 DEF RuntimeFits, Runtimes
    <3>2. Becomes(p, [proc[p] EXCEPT !.phase = "flush"])
      BY <1>5, <2>1 DEF Wake
    <3> QED
      BY <3>1, <3>2, OneRemembers
  <2>2. CASE proc[p].answer = None
    <3>1. RuntimeFits([proc[p] EXCEPT !.phase = "visit", !.draining = TRUE, !.todo = OpenJobs(db')])
      BY <1>0, <1>1, <2>2 DEF RuntimeFits, Runtimes
    <3>2. Becomes(p, [proc[p] EXCEPT !.phase = "visit", !.draining = TRUE, !.todo = OpenJobs(db')])
      BY <1>5, <2>2 DEF Wake
    <3> QED
      BY <3>1, <3>2, OneRemembers
  <2> QED
    BY <2>1, <2>2
<1>6. ASSUME NEW p \in Procs, EndPass(p)
      PROVE  MemoryFits'
  <2>1. RuntimeFits([proc[p] EXCEPT !.todo = OpenJobs(db), !.progressed = FALSE])
    BY <1>0, <1>1 DEF RuntimeFits, Runtimes
  <2>2. Becomes(p, [proc[p] EXCEPT !.todo = OpenJobs(db), !.progressed = FALSE]) \/ Becomes(p, Idle(p))
    BY <1>6 DEF EndPass
  <2> QED
    BY <1>3, <2>1, <2>2, OneRemembers
<1>7. ASSUME NEW p \in Procs, Paused(p) \/ StorageFails(p)
      PROVE  MemoryFits'
  <2>1. Becomes(p, Idle(p))
    BY <1>7 DEF Paused, StorageFails
  <2> QED
    BY <1>3, <2>1, OneRemembers
<1>8. ASSUME NEW p \in Procs, NEW j \in Jobs, Visit(p, j) \/ Withdraw(p, j)
      PROVE  MemoryFits'
  <2>1. Becomes(p, Visited(p, j)) /\ proc[p].phase = "visit"
    BY <1>8 DEF Visit, Withdraw, At
  <2> QED
    BY <1>4, <2>1, OneRemembers
<1>9. ASSUME NEW p \in Procs, NEW j \in Jobs, NEW t \in Tasks, Post(p, j, t)
      PROVE  MemoryFits'
  <2>1. PICK r : r = Visited(p, j)
    OBVIOUS
  <2>2. RuntimeFits(r) /\ Becomes(p, [r EXCEPT !.phase = "call", !.progressed = TRUE, !.task = t])
    BY <1>4, <1>9, <2>1 DEF Post, At
  <2>3. RuntimeFits([r EXCEPT !.phase = "call", !.progressed = TRUE, !.task = t])
    BY <2>2 DEF RuntimeFits, Runtimes
  <2> QED
    BY <2>2, <2>3, OneRemembers
<1>10. ASSUME NEW p \in Procs, NEW a \in Answers, Answer(p, a)
       PROVE  MemoryFits'
  <2>1. proc[p].phase = "call" /\ Becomes(p, [proc[p] EXCEPT !.phase = "flush", !.answer = a])
    BY <1>10 DEF Answer, At
  <2>2. RuntimeFits([proc[p] EXCEPT !.phase = "flush", !.answer = a])
    BY <1>0, <2>1 DEF RuntimeFits, Runtimes
  <2> QED
    BY <2>1, <2>2, OneRemembers
<1>11. ASSUME NEW p \in Procs, StoreReceipt(p) \/ StopRefresh(p)
       PROVE  MemoryFits'
  <2>1. proc[p].phase = "flush"
    BY <1>11 DEF StoreReceipt, StopRefresh, At
  <2>2. RuntimeFits([proc[p] EXCEPT !.settled = TRUE])
    BY <1>0, <2>1 DEF RuntimeFits, Runtimes
  <2>3. RuntimeFits(Flushed(p))
    BY <1>0, <2>1 DEF RuntimeFits, Runtimes, Flushed
  <2>4. Becomes(p, [proc[p] EXCEPT !.settled = TRUE]) \/ Becomes(p, Flushed(p))
    BY <1>11 DEF StoreReceipt, StopRefresh
  <2> QED
    BY <2>2, <2>3, <2>4, OneRemembers
<1>12. ASSUME NEW p \in Procs, Crash(p) \/ StartServer(p)
       PROVE  MemoryFits'
  <2>1. Becomes(p, DeadProc) \/ Becomes(p, ReadyProc)
    BY <1>12 DEF Crash, StartServer
  <2> QED
    BY <2>1, OneRemembers, StartsFit
<1>13. CASE \E j \in Jobs : Admit(j) \/ CancelRequested(j) \/ DeleteProject(j)
  BY <1>2, <1>13 DEF Admit, CancelRequested, DeleteProject, Volatile
<1>14. CASE \E t \in Tasks, c \in JudgedCosts, failed \in BOOLEAN : Reconcile(t, c, failed)
  BY <1>2, <1>14 DEF Reconcile, Volatile
<1>15. CASE (\E p \in Procs : Renew(p)) \/ \E t \in Tasks : LeaseRunsOut(t)
  BY <1>2, <1>15 DEF Renew, LeaseRunsOut
<1>16. CASE DayTurns \/ HostChanges \/ HostRepaired
  BY <1>2, <1>16 DEF DayTurns, HostChanges, HostRepaired
<1> QED
  BY <1>5, <1>6, <1>7, <1>8, <1>9, <1>10, <1>11, <1>12, <1>13, <1>14, <1>15, <1>16 DEF Next, Step


\* Nothing is held or spent at first.
LEMMA InitFits ==
  ASSUME Init
  PROVE  IInv
<1>1. PICK tr : tr = [status |-> "none", owner |-> None, stale |-> FALSE, outcome |-> None, actual |-> None, judged |-> FALSE]
  OBVIOUS
<1>2. PICK jr : jr = [status |-> "none", run |-> "none", cancel |-> FALSE, linked |-> TRUE,
                      period |-> [k \in Kinds |-> Period(k, 1)]]
  OBVIOUS
<1>3. PICK z : z = [q \in Periods |-> 0]
  OBVIOUS
<1>4. db = [task |-> [t \in Tasks |-> tr], job |-> [j \in Jobs |-> jr], held |-> [s \in Scopes |-> z], spent |-> [s \in Scopes |-> z]]
  BY <1>1, <1>2, <1>3 DEF Init
<1>5. tr \in TaskRecords /\ tr.status = "none" /\ tr.actual = None
  BY <1>1 DEF TaskRecords, TaskStates
<1>6. jr \in JobRecords /\ jr.status = "none" /\ jr.run = "none"
  <2>1. 1 \in 1..Days /\ MonthOf[1] \in Range(MonthOf)
    BY SeoAssumption DEF Range
  <2>2. [k \in Kinds |-> Period(k, 1)] \in [Kinds -> Periods]
    BY <2>1 DEF Period, Periods
  <2> QED
    BY <1>2, <2>2 DEF JobRecords, TaskStates
<1>7. z \in [Periods -> Nat]
  BY <1>3
<1>8. /\ db.task \in [Tasks -> TaskRecords] /\ db.job \in [Jobs -> JobRecords]
      /\ db.held \in [Scopes -> [Periods -> Nat]] /\ db.spent \in [Scopes -> [Periods -> Nat]]
      /\ db \in Databases
  BY <1>4, <1>5, <1>6, <1>7 DEF Databases
<1>9. /\ \A t \in Tasks : Status(db, t) = "none" /\ db.task[t].actual = None
      /\ \A j \in Jobs : db.job[j].status = "none" /\ db.job[j].run = "none"
      /\ \A s \in Scopes : db.held[s] = z /\ db.spent[s] = z
  BY <1>4, <1>5, <1>6 DEF Status
<1>10. TasksFit(db)
  BY <1>9, SearchTasks DEF TasksFit, Final
<1>11. AllFit(db)
  BY <1>9 DEF AllFit, JobFits, TasksOf
<1>12. Holding(db) = {} /\ \A t \in Tasks : Paid(db, t) = 0 /\ Over(db, t) = 0
  <2>1. \A t \in Tasks : Paid(db, t) = 0 /\ Price(t) \in Nat
    BY <1>9, TaskParts DEF Paid
  <2> QED
    BY <1>9, <2>1 DEF Holding, Holds, Over
<1>13. HeldBalanced(db)
  <2> SUFFICES ASSUME NEW s \in Scopes, NEW q \in Periods
               PROVE  db.held[s][q] = PriceIn(db, Holding(db), s, q)
    BY DEF HeldBalanced
  <2>1. PICK f : f = [t \in {u \in Holding(db) : In(db, u, s, q)} |-> Price(t)]
    OBVIOUS
  <2>2. PriceIn(db, Holding(db), s, q) = SumFunctionOnSet(f, {})
    BY <1>12, <2>1 DEF PriceIn, SumFunction
  <2>3. db.held[s][q] = 0
    BY <1>3, <1>9
  <2> QED
    BY <2>2, <2>3, SumEmpty
<1>14. \A S : \A f : IsFiniteSet(S) /\ (\A x \in S : f[x] = 0) => SumFunctionOnSet(f, S) = 0
  <2> SUFFICES ASSUME NEW S, NEW f, IsFiniteSet(S), \A x \in S : f[x] = 0
               PROVE  SumFunctionOnSet(f, S) = 0
    OBVIOUS
  <2>1. \A x \in S : f[x] \in Int /\ f[x] = f[x] + f[x]
    OBVIOUS
  <2>2. SumFunctionOnSet(f, S) = SumFunctionOnSet(f, S) + SumFunctionOnSet(f, S)
    BY <2>1, SumPlus
  <2>3. SumFunctionOnSet(f, S) \in Int
    BY <2>1, SumInt
  <2>4. \A x \in Int : x = x + x => x = 0
    OBVIOUS
  <2> QED
    BY <2>2, <2>3, <2>4, Zenon
<1>15. SpentBalanced(db)
  <2> SUFFICES ASSUME NEW s \in Scopes
               PROVE  SumFunction(db.spent[s]) = SumFunction([t \in InScope(s) |-> Paid(db, t)])
    BY DEF SpentBalanced
  <2>1. PICK f : f = [t \in InScope(s) |-> Paid(db, t)]
    OBVIOUS
  <2>2. InScope(s) \subseteq Tasks /\ IsFiniteSet(InScope(s)) /\ IsFiniteSet(Periods)
    BY AllFinite DEF InScope
  <2>3. SumFunction(f) = SumFunctionOnSet(f, InScope(s)) /\ \A t \in InScope(s) : f[t] = 0
    BY <1>12, <2>1, <2>2 DEF SumFunction
  <2>4. SumFunction(z) = SumFunctionOnSet(z, Periods) /\ \A q \in Periods : z[q] = 0
    BY <1>3 DEF SumFunction
  <2>5. SumFunction(f) = 0 /\ SumFunction(z) = 0
    BY <1>14, <2>2, <2>3, <2>4
  <2> QED
    BY <1>9, <2>1, <2>5
<1>16. \A T \in SUBSET Tasks : Overcharge(db, T) \in Nat
  BY <1>8, ShapeIs, OverchargeIs
<1>17. BudgetsHold(db)
  <2> SUFFICES ASSUME NEW s \in Scopes, NEW q \in Periods
               PROVE  db.spent[s][q] + db.held[s][q] <= Limit[s[1]] + Overcharge(db, InScope(s))
    BY DEF BudgetsHold
  <2>1. db.spent[s][q] = 0 /\ db.held[s][q] = 0
    BY <1>3, <1>9
  <2>2. Limit[s[1]] \in Nat /\ Overcharge(db, InScope(s)) \in Nat
    BY <1>16, LimitNat DEF InScope
  <2> QED
    BY <2>1, <2>2
<1>18. RunsHold(db)
  <2> SUFFICES ASSUME NEW j \in Jobs
               PROVE  RunCost(db, j) <= RunCeiling + Overcharge(db, TasksOf(j))
    BY DEF RunsHold
  <2>1. Overcharge(db, TasksOf(j)) \in Nat /\ RunCeiling \in Nat
    BY <1>16, SeoAssumption DEF TasksOf
  <2>2. RunCost(db, j) = SumFunctionOnSet(CostAt(db), TasksOf(j))
    BY <1>8, ShapeIs, RunCostIs
  <2>3. IsFiniteSet(TasksOf(j)) /\ \A t \in TasksOf(j) : CostAt(db)[t] = 0
    BY <1>9, AllFinite DEF TasksOf, CostAt
  <2>4. RunCost(db, j) = 0
    BY <1>14, <2>2, <2>3
  <2> QED
    BY <2>1, <2>4
<1>19. Sound(db)
  BY <1>8, <1>10, <1>13, <1>15, <1>17, <1>18 DEF Sound
<1>20. WorldOK /\ ProcsFit
  <2>1. proc \in [Procs -> Runtimes] /\ \A p \in Procs : RuntimeFits(proc[p])
    <3>1. PICK p \in Procs : proc = [q \in Procs |-> IF q = p THEN ReadyProc ELSE DeadProc]
      BY DEF Init
    <3> QED
      BY <3>1, StartsFit DEF RuntimeFits
  <2> QED
    BY <2>1, MemoryIs, SeoAssumption DEF Init, WorldOK, MemoryFits
<1>21. PostedOnce
  BY <1>9 DEF Init, PostedOnce
<1> QED
  BY <1>11, <1>19, <1>20, <1>21, IInvIs

\* What no step writes beyond its type.
LEMMA NextWorld ==
  ASSUME IInv, Next
  PROVE  now' \in 1..Days /\ host' \in {"ok", "unreadable", "lowered"} /\ posts' \in [Tasks -> Nat]
         /\ faults' \in 0..MaxFaults /\ changes' \in 0..MaxHostChanges
<1>0. now \in 1..Days /\ host \in {"ok", "unreadable", "lowered"} /\ posts \in [Tasks -> Nat]
      /\ faults \in 0..MaxFaults /\ changes \in 0..MaxHostChanges
      /\ Days \in Nat /\ MaxFaults \in Nat /\ MaxHostChanges \in Nat
  BY IInvIs, SeoAssumption DEF WorldOK
<1>1. CASE UNCHANGED <<now, host, posts, faults, changes>>
  BY <1>0, <1>1
<1>2. ASSUME NEW p \in Procs, NEW j \in Jobs, NEW t \in Tasks, Post(p, j, t)
      PROVE  /\ UNCHANGED <<now, host, faults, changes>> /\ posts' \in [Tasks -> Nat]
  BY <1>0, <1>2 DEF Post, Others
<1>3. ASSUME NEW p \in Procs, StorageFails(p) \/ Crash(p)
      PROVE  UNCHANGED <<now, host, posts, changes>> /\ faults' \in 0..MaxFaults
  BY <1>0, <1>3 DEF StorageFails, Crash
<1>4. CASE DayTurns
  BY <1>0, <1>4 DEF DayTurns
<1>5. CASE HostChanges \/ HostRepaired
  BY <1>0, <1>5 DEF HostChanges, HostRepaired
<1>6. CASE \E j \in Jobs : Admit(j) \/ CancelRequested(j) \/ DeleteProject(j)
  BY <1>1, <1>6 DEF Admit, CancelRequested, DeleteProject, Volatile
<1>7. CASE \E t \in Tasks, c \in JudgedCosts, failed \in BOOLEAN : Reconcile(t, c, failed)
  BY <1>1, <1>7 DEF Reconcile, Volatile
<1>8. ASSUME NEW p \in Procs, Wake(p) \/ EndPass(p) \/ Paused(p) \/ StoreReceipt(p) \/ StopRefresh(p)
      PROVE  UNCHANGED <<now, host, posts, faults, changes>>
  BY <1>8 DEF Wake, EndPass, Paused, StoreReceipt, StopRefresh, Others
<1>9. ASSUME NEW p \in Procs, NEW j \in Jobs, Visit(p, j) \/ Withdraw(p, j)
      PROVE  UNCHANGED <<now, host, posts, faults, changes>>
  BY <1>9 DEF Visit, Withdraw, Others
<1>10. ASSUME NEW p \in Procs, NEW a \in Answers, Answer(p, a)
       PROVE  UNCHANGED <<now, host, posts, faults, changes>>
  BY <1>10 DEF Answer, Others
<1>11. ASSUME NEW p \in Procs, Renew(p) \/ StartServer(p)
       PROVE  UNCHANGED <<now, host, posts, faults, changes>>
  BY <1>11 DEF Renew, StartServer, Others
<1>12. CASE \E t \in Tasks : LeaseRunsOut(t)
  BY <1>1, <1>12 DEF LeaseRunsOut, Others
<1> QED
  BY <1>0, <1>1, <1>2, <1>3, <1>4, <1>5, <1>6, <1>7, <1>8, <1>9, <1>10, <1>11, <1>12 DEF Next, Step


LEMMA NextFits ==
  ASSUME IInv, Next
  PROVE  IInv' /\ Keeps(db, db')
<1>1. Sound(db') /\ AllFit(db') /\ Keeps(db, db') /\ PostedOnce'
  <2>1. CASE Tame
    BY <2>1, PostsFollow DEF Tame, Calm
  <2>2. ASSUME NEW p \in Procs, NEW j \in Jobs, NEW t \in Tasks, Post(p, j, t)
        PROVE  Sound(db') /\ AllFit(db') /\ Keeps(db, db') /\ PostedOnce'
    BY <2>2, PostIs
  <2> QED
    BY <2>1, <2>2, TameSteps
<1>2. MemoryFits
  BY IInvIs, MemoryIs DEF WorldOK
<1>3. MemoryFits'
  BY <1>2, NextMemory
<1>4. WorldOK' /\ ProcsFit'
  BY <1>3, MemoryIs, NextWorld DEF WorldOK, MemoryFits, ProcsFit, RuntimeFits
<1> QED
  BY <1>1, <1>4 DEF IInv, TypeOK, WorldOK, Sound, AllFit

\* The inductive invariant of paid refreshes.
THEOREM Invariant == Spec => []IInv
<1>1. Init => IInv
  BY InitFits
<1>2. IInv /\ [Next]_vars => IInv'
  <2> SUFFICES ASSUME IInv, [Next]_vars PROVE IInv'
    OBVIOUS
  <2>1. CASE Next
    BY <2>1, NextFits
  <2>2. CASE UNCHANGED vars
    <3>1. /\ db' = db /\ proc' = proc /\ now' = now /\ host' = host
          /\ posts' = posts /\ faults' = faults /\ changes' = changes
      BY <2>2 DEF vars
    <3>2. TypeOK' /\ ProcsFit' /\ PostedOnce'
      BY <3>1 DEF IInv, TypeOK, ProcsFit, PostedOnce
    <3> QED
      BY <3>1, <3>2 DEF IInv
  <2> QED
    BY <2>1, <2>2
<1> QED
  BY <1>1, <1>2, PTL DEF Spec

\* Type correctness: nothing held or spent is ever below zero.
THEOREM TypeCorrect == Spec => []TypeOK
<1>1. IInv => TypeOK
  BY DEF IInv
<1> QED
  BY <1>1, Invariant, PTL

\* What a budget holds is the price of what may still be charged, what it has spent is what was
\* charged: no reservation is lost, none is counted twice.
THEOREM Balanced == Spec => []LedgerBalanced
<1>1. IInv => LedgerBalanced
  BY DEF IInv, LedgerBalanced
<1> QED
  BY <1>1, Invariant, PTL

\* No limit is passed but by what the provider charges above a reservation.
THEOREM LimitsKept == Spec => []WithinBudget
<1>1. ASSUME IInv PROVE WithinBudget
  <2>0. Sound(db) /\ Shape(db) /\ db \in Databases
    BY <1>1, IInvIs, ShapeIs DEF Sound
  <2>1. ASSUME NEW s \in Scopes, NEW q \in Periods
        PROVE  db.spent[s][q] <= Limit[s[1]] + Overcharge(db, InScope(s))
    <3>1. db.spent[s][q] + db.held[s][q] <= Limit[s[1]] + Overcharge(db, InScope(s))
      BY <2>0 DEF Sound, BudgetsHold
    <3>2. /\ db.spent[s][q] \in Nat /\ db.held[s][q] \in Nat /\ Limit[s[1]] \in Nat
          /\ Overcharge(db, InScope(s)) \in Nat
      BY <2>0, LimitNat, OverchargeIs DEF Databases, InScope
    <3> QED
      BY <3>1, <3>2
  <2>2. ASSUME NEW j \in Jobs
        PROVE  SumFunction([t \in TasksOf(j) |-> Paid(db, t)]) <= RunCeiling + Overcharge(db, TasksOf(j))
    <3>1. PICK f : f = [t \in TasksOf(j) |-> Paid(db, t)]
      OBVIOUS
    <3>2. TasksOf(j) \in SUBSET Tasks /\ IsFiniteSet(TasksOf(j))
      BY AllFinite DEF TasksOf
    <3>3. \A t \in TasksOf(j) : f[t] \in Nat /\ CostAt(db)[t] \in Nat
      BY <2>0, <3>1, <3>2, PaidNat, RunCostIs
    <3>4. \A t \in TasksOf(j) : f[t] <= CostAt(db)[t]
      <4> TAKE t \in TasksOf(j)
      <4>1. CASE db.task[t].actual = None
        BY <3>1, <3>3, <4>1 DEF Paid
      <4>2. CASE db.task[t].actual # None
        <5>1. Status(db, t) # "none"
          BY <2>0, <3>2, <4>2 DEF Sound, TasksFit
        <5>2. CostAt(db)[t] = db.task[t].actual /\ f[t] = db.task[t].actual
          BY <3>1, <3>2, <4>2, <5>1 DEF CostAt, Cost, Paid
        <5> QED
          BY <3>3, <5>2
      <4> QED
        BY <4>1, <4>2
    <3>5. SumFunctionOnSet(f, TasksOf(j)) <= SumFunctionOnSet(CostAt(db), TasksOf(j))
      <4>1. \A t \in TasksOf(j) : f[t] \in Int /\ CostAt(db)[t] \in Int /\ f[t] <= CostAt(db)[t]
        BY <3>3, <3>4
      <4> QED
        BY <3>2, <4>1, SumMonotonic
    <3>6. SumFunction(f) = SumFunctionOnSet(f, TasksOf(j)) /\ SumFunctionOnSet(f, TasksOf(j)) \in Nat
      BY <3>1, <3>2, <3>3, SumNat DEF SumFunction
    <3>7. RunCost(db, j) = SumFunctionOnSet(CostAt(db), TasksOf(j)) /\ RunCost(db, j) \in Nat
      BY <2>0, RunCostIs
    <3>8. RunCost(db, j) <= RunCeiling + Overcharge(db, TasksOf(j))
      BY <2>0 DEF Sound, RunsHold
    <3>9. RunCeiling \in Nat /\ Overcharge(db, TasksOf(j)) \in Nat
      BY <2>0, <3>2, OverchargeIs, SeoAssumption
    <3>10. SumFunction(f) <= RunCeiling + Overcharge(db, TasksOf(j))
      BY <3>5, <3>6, <3>7, <3>8, <3>9
    <3> QED
      BY <3>1, <3>10
  <2> QED
    BY <2>1, <2>2 DEF WithinBudget
<1> QED
  BY <1>1, Invariant, PTL

\* No search is posted twice, and none that was withdrawn was posted.
THEOREM NeverPostedTwice == Spec => []PostedOnce
<1>1. IInv => PostedOnce
  BY DEF IInv
<1> QED
  BY <1>1, Invariant, PTL

\* What a job and its run claim, their tasks say.
LEMMA CurrentAreTasks ==
  ASSUME NEW d, NEW j, NEW x \in CurrentStates(d, j)
  PROVE  \E t \in TasksOf(j) : Status(d, t) = x
BY DEF CurrentStates, CurrentTasks

LEMMA UnsettledShows ==
  ASSUME NEW d, TasksFit(d), NEW j \in Jobs, NEW t \in TasksOf(j), Status(d, t) \in Active
  PROVE  Status(d, t) \in CurrentStates(d, j)
BY UnsettledIsCurrent DEF TasksOf

\* What jobs, runs and tasks say of each other is true, whichever of settle,
\* cancel, recover and reconcile wrote last (finishTerminalJobs).
THEOREM Honest == Spec => []StatusIsHonest
<1>1. ASSUME IInv, NEW j \in Jobs
      PROVE  LET J == db.job[j] IN
               /\ J.status \in Final => \A t \in TasksOf(j) : Status(db, t) \in Final \cup {"none"}
               /\ J.status = "reconciliation-required" <=> \E t \in TasksOf(j) : Status(db, t) = "reconciliation-required"
               /\ J.status = "completed" => \A s \in Searches : JobOf[s] = j => Status(db, LastAttempt(s)) = "completed"
               /\ J.linked => /\ J.run \in {"queued", "running"} <=> \E t \in TasksOf(j) : Status(db, t) \in {"queued", "running"}
                              /\ J.run = "completed" <=> J.status = "completed"
  <2>0. TasksFit(db) /\ JobFits(db, j) /\ PostedOnce /\ Shape(db)
    BY <1>1, IInvIs, ShapeIs DEF Sound, AllFit
  <2>1. PICK x, y, l : x = db.job[j].status /\ y = db.job[j].run /\ l = db.job[j].linked
    OBVIOUS
  <2>2. PICK S : S = CurrentStates(db, j)
    OBVIOUS
  <2>3. \A t \in TasksOf(j) : Status(db, t) \in TaskStates
    BY <2>0 DEF TasksOf, Shape, TaskRecords, Status
  <2>4. \A t \in TasksOf(j) : Status(db, t) \in Active => Status(db, t) \in S
    BY <2>0, <2>2, UnsettledShows
  <2>5. \A z \in S : \E t \in TasksOf(j) : Status(db, t) = z
    BY <2>2, CurrentAreTasks
  <2>6. CASE x = "none"
    <3>1. y = "none" /\ \A t \in TasksOf(j) : Status(db, t) = "none"
      BY <2>0, <2>1, <2>6 DEF JobFits
    <3> QED
      BY <2>1, <2>6, <3>1 DEF Final
  <2>7. CASE x = "queued"
    <3>1. /\ l => y = "queued"
          /\ \A t \in TasksOf(j) : Status(db, t) = IF t[2] = 1 THEN "queued" ELSE "none"
      BY <2>0, <2>1, <2>7 DEF JobFits
    <3>2. PICK s \in Searches : JobOf[s] = j
      BY SeoAssumption
    <3>3. <<s, 1>> \in TasksOf(j) /\ Status(db, <<s, 1>>) = "queued"
      <4>1. <<s, 1>> \in TasksOf(j) /\ <<s, 1>>[2] = 1
        BY <3>2, SearchTasks DEF TasksOf
      <4> QED
        BY <3>1, <4>1
    <3> QED
      BY <2>1, <2>7, <3>1, <3>3 DEF Final
  <2>8. CASE x \notin {"none", "queued"}
    <3>1. x = JobStatus(db, j) /\ (l => y = RunStatus(db, j))
      BY <2>0, <2>1, <2>8 DEF JobFits
    <3>2. /\ "reconciliation-required" \in S => x = "reconciliation-required"
          /\ "reconciliation-required" \notin S /\ S \cap {"queued", "running"} # {} => x = "running"
          /\ "reconciliation-required" \notin S /\ S \cap {"queued", "running"} = {} => x \in Final
          /\ x = "completed" => S = {"completed"}
      BY <2>2, <3>1 DEF JobStatus, Final
    <3>3. l => /\ y \in {"queued", "running"} <=> S \cap {"queued", "running"} # {}
               /\ y = "completed" <=> x = "completed"
      BY <2>2, <3>1 DEF JobStatus, RunStatus
    <3>4. x \in Final => \A t \in TasksOf(j) : Status(db, t) \in Final \cup {"none"}
      BY <2>3, <2>4, <3>2 DEF Final, Active, TaskStates
    <3>5. x = "reconciliation-required" <=> \E t \in TasksOf(j) : Status(db, t) = "reconciliation-required"
      <4>1. x = "reconciliation-required" => "reconciliation-required" \in S
        BY <3>2 DEF Final
      <4> QED
        BY <2>4, <2>5, <3>2, <4>1 DEF Active
    <3>6. ASSUME x = "completed", NEW s \in Searches, JobOf[s] = j
          PROVE  Status(db, LastAttempt(s)) = "completed"
      <4>1. <<s, 1>> \in TasksOf(j) /\ <<s, 2>> \in TasksOf(j) /\ Retry(<<s, 1>>) = <<s, 2>>
            /\ <<s, 1>> \in Tasks /\ <<s, 2>> \in Tasks
        BY <3>6, SearchTasks DEF TasksOf
      <4>2. S = {"completed"} /\ \A t \in CurrentTasks(db, j) : Status(db, t) = "completed"
        BY <2>2, <3>2, <3>6 DEF CurrentStates
      <4>3. CASE posts[<<s, 2>>] > 0
        <5>1. Status(db, <<s, 2>>) \notin {"none", "queued", "cancelled"}
          BY <2>0, <4>1, <4>3 DEF PostedOnce
        <5>2. <<s, 2>> \in CurrentTasks(db, j)
          BY <4>1, <5>1 DEF CurrentTasks
        <5> QED
          BY <4>2, <4>3, <5>2 DEF LastAttempt
      <4>4. CASE ~(posts[<<s, 2>>] > 0)
        <5>1. Status(db, <<s, 2>>) \in {"none", "queued", "cancelled"}
          BY <2>0, <4>1, <4>4 DEF PostedOnce
        <5>2. Status(db, <<s, 2>>) # "queued"
          BY <2>4, <4>1, <4>2 DEF Active
        <5>3. <<s, 1>> \in CurrentTasks(db, j)
          BY <4>1, <5>1, <5>2 DEF CurrentTasks
        <5> QED
          BY <4>2, <4>4, <5>3 DEF LastAttempt
      <4> QED
        BY <4>3, <4>4
    <3>7. l => (y \in {"queued", "running"} <=> \E t \in TasksOf(j) : Status(db, t) \in {"queued", "running"})
      BY <2>4, <2>5, <3>3 DEF Active
    <3> QED
      BY <2>1, <3>3, <3>4, <3>5, <3>6, <3>7
  <2> QED
    BY <2>6, <2>7, <2>8
<1>2. IInv => StatusIsHonest
  BY <1>1 DEF StatusIsHonest
<1> QED
  BY <1>2, Invariant, PTL

\* On an account, nothing is posted while a search is out or its cost unknown.
THEOREM OneOut == Spec => OneAtATime
<1>1. ASSUME IInv, [Next]_vars, NEW t \in Tasks, NEW u \in Tasks,
             AccountOf[Job(t)] = AccountOf[Job(u)], t # u, posts'[t] > posts[t], posts[u] > 0
      PROVE  db.task[u].actual # None /\ Status(db, u) \in Final
  <2>0. TasksFit(db) /\ PostedOnce /\ Shape(db) /\ posts \in [Tasks -> Nat]
    BY <1>1, IInvIs, ShapeIs DEF Sound, WorldOK
  <2>1. posts' # posts
    BY <1>1, <2>0
  <2>2. Next /\ ~Tame
    BY <1>1, <2>1 DEF vars, Tame
  <2>3. PICK p \in Procs, j \in Jobs, v \in Tasks : Post(p, j, v)
    BY <1>1, <2>2, TameSteps
  <2>4. Job(v) = j /\ ~Busy(db, AccountOf[j]) /\ \A w \in Tasks \ {v} : posts'[w] = posts[w]
    BY <1>1, <2>3, PostIs
  <2>5. v = t
    BY <1>1, <2>0, <2>4
  <2>6. Status(db, u) \notin {"running", "reconciliation-required"}
    BY <1>1, <2>4, <2>5 DEF Busy
  <2>7. Status(db, u) \notin {"none", "queued", "cancelled"}
    BY <1>1, <2>0 DEF PostedOnce
  <2>8. Status(db, u) \in TaskStates
    BY <2>0 DEF Shape, TaskRecords, Status
  <2>9. Status(db, u) \in Final
    BY <2>6, <2>7, <2>8 DEF TaskStates, Final
  <2> QED
    BY <2>0, <2>9 DEF TasksFit
<1>2. IInv /\ [Next]_vars =>
        \A t, u \in Tasks : /\ AccountOf[Job(t)] = AccountOf[Job(u)] /\ t # u
                            /\ posts'[t] > posts[t] /\ posts[u] > 0
                            => db.task[u].actual # None /\ Status(db, u) \in Final
  BY <1>1
<1> QED
  BY <1>2, Invariant, PTL DEF Spec, OneAtATime

\* Nothing that was reported or judged is overwritten.
THEOREM ReceiptsKept == Spec => ReceiptsStand
<1>1. ASSUME IInv, [Next]_vars
      PROVE  \A t \in Tasks : /\ db.task[t].actual # None => db'.task[t].actual = db.task[t].actual
                              /\ Status(db, t) \in Final => Status(db', t) = Status(db, t)
                              /\ db.task[t].judged => db'.task[t].judged
  <2>1. Keeps(db, db')
    <3>1. CASE Next
      BY <1>1, <3>1, NextFits
    <3>2. CASE UNCHANGED vars
      BY <3>2 DEF vars, Keeps
    <3> QED
      BY <1>1, <3>1, <3>2
  <2> QED
    BY <2>1 DEF Keeps
<1>2. IInv /\ [Next]_vars =>
        \A t \in Tasks : /\ db.task[t].actual # None => db'.task[t].actual = db.task[t].actual
                         /\ Status(db, t) \in Final => Status(db', t) = Status(db, t)
                         /\ db.task[t].judged => db'.task[t].judged
  BY <1>1
<1> QED
  BY <1>2, Invariant, PTL DEF Spec, ReceiptsStand

==============================================================================
