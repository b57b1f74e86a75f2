----------------------------- MODULE SumTheorems -----------------------------
(***************************************************************************)
(* Sums of functions over finite sets, as Functions defines them, and the  *)
(* induction on finite sets these lemmas need: a set that breaks a claim   *)
(* has a smallest subset that does (MinimalSet), so the claim is a set of  *)
(* subsets and no lemma takes an operator. The proofs about money          *)
(* (SeoRefresh) and the quota of batches (BatchSweep) rest on the sums,    *)
(* those about the request gate (ExecutionGate) and the sentiment queue    *)
(* (SentimentQueue) on the least number of a set.                          *)
(***************************************************************************)
EXTENDS Integers, FiniteSets, Functions, FiniteSetTheorems, TLAPS

\* Among some subsets of a finite set one is smallest.
LEMMA MinimalSet ==
  ASSUME NEW S, IsFiniteSet(S), NEW Bad, Bad \subseteq SUBSET S, Bad # {}
  PROVE  \E T \in Bad : \A U \in Bad : U \subseteq T => U = T
<1>1. FiniteSubsetsOf(S) = SUBSET S
  BY FS_FiniteSubsetsOfFinite
<1>2. IsWellFoundedOn(StrictSubsetOrdering(S), SUBSET S)
  BY <1>1, FS_StrictSubsetOrderingWellFounded
<1>3. PICK T \in Bad : \A U \in Bad : <<U, T>> \notin StrictSubsetOrdering(S)
  BY <1>2, WFMin
<1> QED
  BY <1>3 DEF StrictSubsetOrdering

\* A set of numbers in an interval has a least one.
LEMMA LeastNumber ==
  ASSUME NEW a \in Int, NEW b \in Int, NEW T, T \subseteq a..b, T # {}
  PROVE  \E x \in T : \A y \in T : x <= y
<1> DEFINE I == a..b
           Bad == {a..x : x \in T}
<1>1. Bad \subseteq SUBSET I
  <2> SUFFICES ASSUME NEW x \in T PROVE a..x \subseteq I
    OBVIOUS
  <2> QED
    OBVIOUS
<1>2. Bad # {}
  OBVIOUS
<1>3. IsFiniteSet(I)
  BY FS_Interval
<1>4. PICK U \in Bad : \A V \in Bad : V \subseteq U => V = U
  <2> HIDE DEF Bad, I
  <2> QED
    BY <1>1, <1>2, <1>3, MinimalSet
<1>5. PICK x \in T : U = a..x
  OBVIOUS
<1>6. ASSUME NEW y \in T, y < x
      PROVE  FALSE
  <2>1. a..y \in Bad /\ a..y \subseteq U
    BY <1>5, <1>6
  <2>2. a..y = U
    BY <1>4, <2>1
  <2> QED
    BY <1>5, <1>6, <2>2
<1> QED
  BY <1>6

\* Induction on finite sets: what holds of a set when it holds of all smaller ones.
LEMMA SmallerSets ==
  ASSUME NEW S, IsFiniteSet(S), NEW Good,
         \A T \in SUBSET S : (\A U \in SUBSET T : U # T => U \in Good) => T \in Good
  PROVE  \A T \in SUBSET S : T \in Good
<1> DEFINE Bad == {T \in SUBSET S : T \notin Good}
<1> SUFFICES ASSUME Bad # {} PROVE FALSE
  OBVIOUS
<1>1. PICK T \in Bad : \A U \in Bad : U \subseteq T => U = T
  <2>1. Bad \subseteq SUBSET S
    OBVIOUS
  <2> HIDE DEF Bad
  <2> QED
    BY <2>1, MinimalSet
<1>2. \A U \in SUBSET T : U # T => U \in Good
  BY <1>1
<1> QED
  BY <1>1, <1>2

\* What holds of the empty set and stays true when an element is added.
LEMMA SetInduction ==
  ASSUME NEW S, IsFiniteSet(S), NEW Good, {} \in Good,
         \A T \in SUBSET S : \A x \in S \ T : T \in Good => T \cup {x} \in Good
  PROVE  \A T \in SUBSET S : T \in Good
<1>1. ASSUME NEW T \in SUBSET S, \A U \in SUBSET T : U # T => U \in Good
      PROVE  T \in Good
  <2>1. CASE T = {}
    BY <2>1
  <2>2. CASE T # {}
    <3>1. PICK x \in T : TRUE
      BY <2>2
    <3>2. T \ {x} \in SUBSET S /\ x \in S \ (T \ {x}) /\ (T \ {x}) \cup {x} = T /\ T \ {x} \in Good
      BY <1>1
    <3> QED
      BY <3>2
  <2> QED
    BY <2>1, <2>2
<1> QED
  BY <1>1, SmallerSets

-----------------------------------------------------------------------------
\* The recursive functions a sum is the value of: on all subsets, and on those of
\* at most n elements.
IsSum(g, f, S) ==
  g = [s \in SUBSET S |-> IF s = {} THEN 0 ELSE LET x == CHOOSE y \in s : TRUE IN f[x] + g[s \ {x}]]
UpTo(S, n) == {T \in SUBSET S : Cardinality(T) <= n}
IsSumUpTo(g, f, S, n) ==
  g = [s \in UpTo(S, n) |-> IF s = {} THEN 0 ELSE LET x == CHOOSE y \in s : TRUE IN f[x] + g[s \ {x}]]

\* The sum is the value at the whole set of a function it chooses.
LEMMA SumIsOne ==
  ASSUME NEW f, NEW S
  PROVE  SumFunctionOnSet(f, S) = (CHOOSE g : IsSum(g, f, S))[S]
BY DEF SumFunctionOnSet, FoldFunctionOnSet, MapThenFoldSet, IsSum

\* Such a function on the subsets up to a size gives one on those one larger,
LEMMA SumExtends ==
  ASSUME NEW S, IsFiniteSet(S), NEW f, NEW n \in Nat, NEW g, IsSumUpTo(g, f, S, n)
  PROVE  \E h : IsSumUpTo(h, f, S, n + 1)
<1> DEFINE D(m) == UpTo(S, m)
           Pick(s) == CHOOSE y \in s : TRUE
           h == [s \in D(n + 1) |-> IF s = {} THEN 0 ELSE f[Pick(s)] + g[s \ {Pick(s)}]]
<1>0. \A T \in SUBSET S : IsFiniteSet(T) /\ Cardinality(T) \in Nat
  BY FS_Subset, FS_CardinalityType
<1>1. ASSUME NEW s \in D(n + 1), s # {}
      PROVE  Pick(s) \in s /\ s \ {Pick(s)} \in D(n) /\ s \ {Pick(s)} \in D(n + 1)
  <2>1. Pick(s) \in s
    BY <1>1
  <2>2. Cardinality(s \ {Pick(s)}) = Cardinality(s) - 1
    BY <2>1, <1>0, FS_RemoveElement DEF UpTo
  <2>3. Cardinality(s) \in Nat /\ s \ {Pick(s)} \in SUBSET S
    BY <1>0 DEF UpTo
  <2> HIDE DEF Pick
  <2> QED
    BY <2>1, <2>2, <2>3 DEF UpTo
<1>2. ASSUME NEW s \in D(n)
      PROVE  s \in D(n + 1) /\ h[s] = g[s]
  <2>1. s \in D(n + 1)
    BY <1>0 DEF UpTo
  <2>2. CASE s = {}
    BY <2>1, <2>2 DEF IsSumUpTo
  <2>3. CASE s # {}
    BY <2>1, <2>3 DEF IsSumUpTo
  <2> QED
    BY <2>2, <2>3, <2>1
<1>3. \A s \in D(n + 1) : s # {} => h[s \ {Pick(s)}] = g[s \ {Pick(s)}]
  BY <1>1, <1>2
<1>4. h = [s \in D(n + 1) |-> IF s = {} THEN 0 ELSE f[Pick(s)] + g[s \ {Pick(s)}]]
  OBVIOUS
<1> HIDE DEF h
<1>5. \A s \in D(n + 1) : (IF s = {} THEN 0 ELSE f[Pick(s)] + g[s \ {Pick(s)}])
                          = IF s = {} THEN 0 ELSE f[Pick(s)] + h[s \ {Pick(s)}]
  BY <1>3
<1>6. IsSumUpTo(h, f, S, n + 1)
  <2>1. h = [s \in D(n + 1) |-> IF s = {} THEN 0 ELSE f[Pick(s)] + h[s \ {Pick(s)}]]
    <3> HIDE DEF Pick, D
    <3> QED
      BY <1>4, <1>5
  <2> QED
    BY <2>1 DEF IsSumUpTo
<1> QED
  BY <1>6

\* so there is one on all subsets,
LEMMA SumExists ==
  ASSUME NEW S, IsFiniteSet(S), NEW f
  PROVE  \E g : IsSum(g, f, S)
<1> DEFINE Good == {T \in SUBSET S : \E g : IsSumUpTo(g, f, S, Cardinality(T))}
<1>0. \A T \in SUBSET S : IsFiniteSet(T) /\ Cardinality(T) \in Nat /\ Cardinality(T) <= Cardinality(S)
  BY FS_Subset, FS_CardinalityType
<1>1. {} \in Good
  <2> DEFINE z == [s \in UpTo(S, 0) |-> 0]
  <2>1. \A s \in UpTo(S, 0) : s = {}
    BY <1>0, FS_EmptySet DEF UpTo
  <2>2. IsSumUpTo(z, f, S, 0)
    BY <2>1 DEF IsSumUpTo
  <2> QED
    BY <2>2, FS_EmptySet
<1>2. ASSUME NEW T \in SUBSET S, NEW x \in S \ T, T \in Good
      PROVE  T \cup {x} \in Good
  <2>1. Cardinality(T \cup {x}) = Cardinality(T) + 1
    BY <1>0, FS_AddElement
  <2>2. \E h : IsSumUpTo(h, f, S, Cardinality(T) + 1)
    BY <1>0, <1>2, SumExtends
  <2> QED
    BY <2>1, <2>2
<1>3. S \in Good
  <2> HIDE DEF Good
  <2> QED
    BY <1>1, <1>2, SetInduction
<1>4. UpTo(S, Cardinality(S)) = SUBSET S
  BY <1>0 DEF UpTo
<1>5. PICK g : IsSumUpTo(g, f, S, Cardinality(S))
  BY <1>3
<1>6. IsSum(g, f, S)
  BY <1>4, <1>5, Zenon DEF IsSum, IsSumUpTo
<1> QED
  BY <1>6

\* and the sum is its value.
LEMMA SumUnfolds ==
  ASSUME NEW S, IsFiniteSet(S), NEW f
  PROVE  \E g : /\ IsSum(g, f, S)
                /\ SumFunctionOnSet(f, S) = g[S]
BY SumExists, SumIsOne

\* Two functions that agree on T have the same partial sums there.
LEMMA PartialSumsAgree ==
  ASSUME NEW S, NEW R, NEW T, IsFiniteSet(T), T \subseteq S, T \subseteq R,
         NEW f, NEW e, \A x \in T : f[x] = e[x],
         NEW g, IsSum(g, f, S), NEW h, IsSum(h, e, R)
  PROVE  \A U \in SUBSET T : g[U] = h[U]
<1> DEFINE Good == {U \in SUBSET T : g[U] = h[U]}
           Pick(s) == CHOOSE y \in s : TRUE
<1>1. \A U \in SUBSET T : /\ g[U] = IF U = {} THEN 0 ELSE f[Pick(U)] + g[U \ {Pick(U)}]
                          /\ h[U] = IF U = {} THEN 0 ELSE e[Pick(U)] + h[U \ {Pick(U)}]
  BY DEF IsSum
<1>2. \A U \in SUBSET T : U # {} => Pick(U) \in U
  OBVIOUS
<1> HIDE DEF Pick
<1>3. ASSUME NEW U \in SUBSET T, \A V \in SUBSET U : V # U => V \in Good
      PROVE  U \in Good
  <2>1. CASE U = {}
    BY <1>1, <2>1
  <2>2. CASE U # {}
    <3>1. Pick(U) \in U /\ U \ {Pick(U)} \in Good /\ f[Pick(U)] = e[Pick(U)]
      BY <1>2, <1>3, <2>2
    <3> QED
      BY <1>1, <3>1
  <2> QED
    BY <2>1, <2>2
<1>4. \A U \in SUBSET T : U \in Good
  <2> HIDE DEF Good
  <2> QED
    BY <1>3, SmallerSets
<1> QED
  BY <1>4

\* The sum depends only on the values summed.
LEMMA SumAgrees ==
  ASSUME NEW S, IsFiniteSet(S), NEW f, NEW e, \A x \in S : f[x] = e[x]
  PROVE  SumFunctionOnSet(f, S) = SumFunctionOnSet(e, S)
<1>1. PICK g : IsSum(g, f, S) /\ SumFunctionOnSet(f, S) = g[S]
  BY SumUnfolds
<1>2. PICK h : IsSum(h, e, S) /\ SumFunctionOnSet(e, S) = h[S]
  BY SumUnfolds
<1>3. \A U \in SUBSET S : g[U] = h[U]
  BY <1>1, <1>2, PartialSumsAgree
<1> QED
  BY <1>1, <1>2, <1>3

\* Nothing adds up to nothing.
LEMMA SumEmpty ==
  ASSUME NEW f
  PROVE  SumFunctionOnSet(f, {}) = 0
<1>1. IsFiniteSet({})
  BY FS_EmptySet
<1>2. PICK g : IsSum(g, f, {}) /\ SumFunctionOnSet(f, {}) = g[{}]
  BY <1>1, SumUnfolds
<1>3. g[{}] = 0
  BY <1>2 DEF IsSum
<1> QED
  BY <1>2, <1>3

\* One step of the recursion, and with it the type.
LEMMA SumChosen ==
  ASSUME NEW S, IsFiniteSet(S), S # {}, NEW f
  PROVE  \E x \in S : SumFunctionOnSet(f, S) = f[x] + SumFunctionOnSet(f, S \ {x})
<1>1. PICK g : IsSum(g, f, S) /\ SumFunctionOnSet(f, S) = g[S]
  BY SumUnfolds
<1> DEFINE x == CHOOSE y \in S : TRUE
<1>2. x \in S /\ g[S] = f[x] + g[S \ {x}]
  BY <1>1 DEF IsSum
<1> HIDE DEF x
<1>3. IsFiniteSet(S \ {x})
  BY FS_RemoveElement
<1>4. PICK h : IsSum(h, f, S \ {x}) /\ SumFunctionOnSet(f, S \ {x}) = h[S \ {x}]
  BY <1>3, SumUnfolds
<1>5. g[S \ {x}] = h[S \ {x}]
  BY <1>1, <1>3, <1>4, PartialSumsAgree
<1> QED
  BY <1>1, <1>2, <1>4, <1>5

\* Integers add up to an integer.
LEMMA SumInt ==
  ASSUME NEW S, IsFiniteSet(S), NEW f, \A x \in S : f[x] \in Int
  PROVE  SumFunctionOnSet(f, S) \in Int
<1> DEFINE Good == {T \in SUBSET S : SumFunctionOnSet(f, T) \in Int}
<1>1. ASSUME NEW T \in SUBSET S, \A U \in SUBSET T : U # T => U \in Good
      PROVE  T \in Good
  <2>1. CASE T = {}
    BY <2>1, SumEmpty
  <2>2. CASE T # {}
    <3>1. PICK x \in T : SumFunctionOnSet(f, T) = f[x] + SumFunctionOnSet(f, T \ {x})
      BY <2>2, SumChosen, FS_Subset
    <3>2. T \ {x} \in Good
      BY <1>1
    <3> QED
      BY <3>1, <3>2
  <2> QED
    BY <2>1, <2>2
<1> HIDE DEF Good
<1>2. S \in Good
  BY <1>1, SmallerSets
<1> QED
  BY <1>2 DEF Good

\* Any element may be taken out of the sum.
LEMMA SumRemove ==
  ASSUME NEW S, IsFiniteSet(S), NEW f, \A x \in S : f[x] \in Int, NEW y \in S
  PROVE  SumFunctionOnSet(f, S) = f[y] + SumFunctionOnSet(f, S \ {y})
<1> DEFINE Sum(T) == SumFunctionOnSet(f, T)
           Good == {T \in SUBSET S : \A z \in T : Sum(T) = f[z] + Sum(T \ {z})}
<1>0. \A T \in SUBSET S : IsFiniteSet(T) /\ Sum(T) \in Int
  BY FS_Subset, SumInt
<1>1. ASSUME NEW T \in SUBSET S, \A U \in SUBSET T : U # T => U \in Good
      PROVE  T \in Good
  <2> SUFFICES ASSUME NEW z \in T PROVE Sum(T) = f[z] + Sum(T \ {z})
    OBVIOUS
  <2>1. PICK x \in T : Sum(T) = f[x] + Sum(T \ {x})
    BY <1>0, SumChosen
  <2>2. CASE x = z
    BY <2>1, <2>2
  <2>3. CASE x # z
    <3>1. T \ {x} \in Good /\ T \ {z} \in Good
      BY <1>1
    <3>2. (T \ {x}) \ {z} = (T \ {z}) \ {x} /\ (T \ {x}) \ {z} \in SUBSET S
      OBVIOUS
    <3> HIDE DEF Sum
    <3>3. Sum(T \ {x}) = f[z] + Sum((T \ {x}) \ {z})
      BY <2>3, <3>1
    <3>4. Sum(T \ {z}) = f[x] + Sum((T \ {x}) \ {z})
      BY <2>3, <3>1, <3>2
    <3>5. Sum((T \ {x}) \ {z}) \in Int /\ f[x] \in Int /\ f[z] \in Int
      BY <1>0, <3>2
    <3> QED
      BY <2>1, <3>3, <3>4, <3>5
  <2> QED
    BY <2>2, <2>3
<1> HIDE DEF Good
<1>2. S \in Good
  BY <1>1, SmallerSets
<1> QED
  BY <1>2 DEF Good

\* One more element adds its value.
LEMMA SumAdd ==
  ASSUME NEW S, IsFiniteSet(S), NEW y, y \notin S, NEW f, \A x \in S \cup {y} : f[x] \in Int
  PROVE  SumFunctionOnSet(f, S \cup {y}) = f[y] + SumFunctionOnSet(f, S)
<1>1. IsFiniteSet(S \cup {y}) /\ (S \cup {y}) \ {y} = S
  BY FS_AddElement
<1> QED
  BY <1>1, SumRemove

-----------------------------------------------------------------------------
(* Sums of whole functions, as the modules write them. *)

\* A function to the integers has an integer sum.
LEMMA SumOfInt ==
  ASSUME NEW S, IsFiniteSet(S), NEW f \in [S -> Int]
  PROVE  SumFunction(f) \in Int
BY SumInt DEF SumFunction

\* The function on nothing has none.
LEMMA SumOfEmpty ==
  ASSUME NEW f, DOMAIN f = {}
  PROVE  SumFunction(f) = 0
BY SumEmpty DEF SumFunction

\* What is summed may be written as any function that agrees.
LEMMA SumOver ==
  ASSUME NEW S, IsFiniteSet(S), NEW f, DOMAIN f = S, NEW e, \A x \in S : f[x] = e[x]
  PROVE  SumFunction(f) = SumFunctionOnSet(e, S)
BY SumAgrees DEF SumFunction

\* A sum over two disjoint sets.
LEMMA SumUnion ==
  ASSUME NEW S, IsFiniteSet(S), NEW T, IsFiniteSet(T), S \cap T = {},
         NEW f, \A x \in S \cup T : f[x] \in Int
  PROVE  SumFunctionOnSet(f, S \cup T) = SumFunctionOnSet(f, S) + SumFunctionOnSet(f, T)
<1> DEFINE Sum(U) == SumFunctionOnSet(f, U)
           Good == {U \in SUBSET T : Sum(S \cup U) = Sum(S) + Sum(U)}
<1>0. /\ Sum(S) \in Int
      /\ \A U \in SUBSET T : IsFiniteSet(U) /\ Sum(U) \in Int
      /\ \A U \in SUBSET T : IsFiniteSet(S \cup U) /\ Sum(S \cup U) \in Int
  BY FS_Subset, FS_Union, SumInt
<1>1. {} \in Good
  <2>1. Sum({}) = 0 /\ S \cup {} = S
    BY SumEmpty
  <2> HIDE DEF Sum
  <2> QED
    BY <1>0, <2>1
<1>2. ASSUME NEW U \in SUBSET T, NEW x \in T \ U, U \in Good
      PROVE  U \cup {x} \in Good
  <2>1. Sum(U \cup {x}) = f[x] + Sum(U)
    BY <1>0, SumAdd
  <2>2. Sum((S \cup U) \cup {x}) = f[x] + Sum(S \cup U)
    BY <1>0, SumAdd
  <2>3. (S \cup U) \cup {x} = S \cup (U \cup {x})
    OBVIOUS
  <2>4. f[x] \in Int
    OBVIOUS
  <2>5. Sum(S \cup U) = Sum(S) + Sum(U) /\ U \cup {x} \in SUBSET T
    BY <1>2
  <2> HIDE DEF Sum
  <2>6. Sum(S \cup (U \cup {x})) = Sum(S) + Sum(U \cup {x})
    BY <1>0, <2>1, <2>2, <2>3, <2>4, <2>5
  <2> QED
    BY <2>5, <2>6
<1> HIDE DEF Good
<1>3. T \in Good
  BY <1>1, <1>2, SetInduction
<1> QED
  BY <1>3 DEF Good

\* Sums of two functions add up to the sum of the function that adds them.
LEMMA SumPlus ==
  ASSUME NEW S, IsFiniteSet(S), NEW f, NEW e, NEW g,
         \A x \in S : f[x] \in Int /\ e[x] \in Int /\ g[x] = f[x] + e[x]
  PROVE  SumFunctionOnSet(g, S) = SumFunctionOnSet(f, S) + SumFunctionOnSet(e, S)
<1> DEFINE Sum(h, U) == SumFunctionOnSet(h, U)
           Good == {U \in SUBSET S : Sum(g, U) = Sum(f, U) + Sum(e, U)}
<1>0. \A U \in SUBSET S : IsFiniteSet(U) /\ Sum(f, U) \in Int /\ Sum(e, U) \in Int
  BY FS_Subset, SumInt
<1>1. {} \in Good
  BY SumEmpty
<1>2. ASSUME NEW U \in SUBSET S, NEW x \in S \ U, U \in Good
      PROVE  U \cup {x} \in Good
  <2>1. /\ Sum(g, U \cup {x}) = g[x] + Sum(g, U)
        /\ Sum(f, U \cup {x}) = f[x] + Sum(f, U)
        /\ Sum(e, U \cup {x}) = e[x] + Sum(e, U)
    <3>1. \A y \in U \cup {x} : g[y] \in Int /\ f[y] \in Int /\ e[y] \in Int
      OBVIOUS
    <3> QED
      BY <1>0, <3>1, SumAdd
  <2>2. f[x] \in Int /\ e[x] \in Int /\ g[x] = f[x] + e[x]
    OBVIOUS
  <2> HIDE DEF Sum
  <2> QED
    BY <1>0, <1>2, <2>1, <2>2
<1> HIDE DEF Good
<1>3. S \in Good
  BY <1>1, <1>2, SetInduction
<1> QED
  BY <1>3 DEF Good

\* A sum of larger values is larger.
LEMMA SumMonotonic ==
  ASSUME NEW S, IsFiniteSet(S), NEW f, NEW e,
         \A x \in S : f[x] \in Int /\ e[x] \in Int /\ f[x] <= e[x]
  PROVE  SumFunctionOnSet(f, S) <= SumFunctionOnSet(e, S)
<1> DEFINE Sum(h, U) == SumFunctionOnSet(h, U)
           Good == {U \in SUBSET S : Sum(f, U) <= Sum(e, U)}
<1>0. \A U \in SUBSET S : IsFiniteSet(U) /\ Sum(f, U) \in Int /\ Sum(e, U) \in Int
  BY FS_Subset, SumInt
<1>1. {} \in Good
  BY SumEmpty
<1>2. ASSUME NEW U \in SUBSET S, NEW x \in S \ U, U \in Good
      PROVE  U \cup {x} \in Good
  <2>1. /\ Sum(f, U \cup {x}) = f[x] + Sum(f, U)
        /\ Sum(e, U \cup {x}) = e[x] + Sum(e, U)
    <3>1. \A y \in U \cup {x} : f[y] \in Int /\ e[y] \in Int
      OBVIOUS
    <3> QED
      BY <1>0, <3>1, SumAdd
  <2>2. f[x] \in Int /\ e[x] \in Int /\ f[x] <= e[x]
    OBVIOUS
  <2> HIDE DEF Sum
  <2> QED
    BY <1>0, <1>2, <2>1, <2>2
<1> HIDE DEF Good
<1>3. S \in Good
  BY <1>1, <1>2, SetInduction
<1> QED
  BY <1>3 DEF Good

\* Natural numbers add up to a natural number,
LEMMA SumNat ==
  ASSUME NEW S, IsFiniteSet(S), NEW f, \A x \in S : f[x] \in Nat
  PROVE  SumFunctionOnSet(f, S) \in Nat
<1> DEFINE z == [x \in S |-> 0]
<1>1. SumFunctionOnSet(f, S) \in Int /\ SumFunctionOnSet(z, S) \in Int
  BY SumInt
<1>2. SumFunctionOnSet(z, S) <= SumFunctionOnSet(f, S)
  BY SumMonotonic
<1>3. SumFunctionOnSet(z, S) = SumFunctionOnSet(z, S) + SumFunctionOnSet(z, S)
  BY SumPlus
<1> HIDE DEF z
<1> QED
  BY <1>1, <1>2, <1>3

\* to at least each of them.
LEMMA SumBoundsEach ==
  ASSUME NEW S, IsFiniteSet(S), NEW f, \A x \in S : f[x] \in Nat, NEW y \in S
  PROVE  f[y] <= SumFunctionOnSet(f, S)
<1>1. SumFunctionOnSet(f, S) = f[y] + SumFunctionOnSet(f, S \ {y})
  BY SumRemove
<1>2. SumFunctionOnSet(f, S \ {y}) \in Nat
  <2>1. IsFiniteSet(S \ {y})
    BY FS_RemoveElement
  <2> QED
    BY <2>1, SumNat
<1> QED
  BY <1>1, <1>2

\* and to any two.
LEMMA SumBoundsTwo ==
  ASSUME NEW S, IsFiniteSet(S), NEW f, \A x \in S : f[x] \in Nat, NEW y \in S, NEW z \in S, y # z
  PROVE  f[y] + f[z] <= SumFunctionOnSet(f, S)
<1>1. SumFunctionOnSet(f, S) = f[y] + SumFunctionOnSet(f, S \ {y})
  BY SumRemove
<1>2. IsFiniteSet(S \ {y}) /\ z \in S \ {y}
  BY FS_RemoveElement
<1>3. f[z] <= SumFunctionOnSet(f, S \ {y}) /\ SumFunctionOnSet(f, S \ {y}) \in Nat
  BY <1>2, SumBoundsEach, SumNat
<1> QED
  BY <1>1, <1>3

\* Zeros may be left out of a sum.
LEMMA SumFilter ==
  ASSUME NEW S, IsFiniteSet(S), NEW T, T \subseteq S, NEW f, NEW g,
         \A x \in S : g[x] \in Int, \A x \in T : f[x] = g[x], \A x \in S \ T : g[x] = 0
  PROVE  SumFunctionOnSet(f, T) = SumFunctionOnSet(g, S)
<1>0. IsFiniteSet(T) /\ IsFiniteSet(S \ T) /\ T \cap (S \ T) = {} /\ T \cup (S \ T) = S
  BY FS_Subset
<1>1. PICK R : R = S \ T
  OBVIOUS
<1>2. SumFunctionOnSet(g, S) = SumFunctionOnSet(g, T) + SumFunctionOnSet(g, R)
  <2>1. IsFiniteSet(R) /\ T \cap R = {} /\ T \cup R = S
    BY <1>0, <1>1
  <2> QED
    BY <1>0, <2>1, SumUnion
<1>3. SumFunctionOnSet(f, T) = SumFunctionOnSet(g, T)
  BY <1>0, SumAgrees
<1>4. SumFunctionOnSet(g, R) = SumFunctionOnSet(g, R) + SumFunctionOnSet(g, R)
  <2>1. IsFiniteSet(R) /\ \A x \in R : g[x] = 0
    BY <1>0, <1>1
  <2> QED
    BY <2>1, SumPlus
<1>5. SumFunctionOnSet(g, R) \in Int /\ SumFunctionOnSet(g, T) \in Int
  BY <1>0, <1>1, SumInt
<1>6. \A a, b, c, d \in Int : a = b + c /\ d = b /\ c = c + c => d = a
  OBVIOUS
<1>7. SumFunctionOnSet(f, T) \in Int /\ SumFunctionOnSet(g, S) \in Int
  BY <1>0, SumInt
<1> QED
  BY <1>2, <1>3, <1>4, <1>5, <1>6, <1>7, Zenon

\* One value changes: so does the sum, by as much.
LEMMA SumChange ==
  ASSUME NEW S, IsFiniteSet(S), NEW y \in S, NEW f, NEW g,
         \A x \in S : f[x] \in Int /\ g[x] \in Int,
         \A x \in S \ {y} : g[x] = f[x]
  PROVE  SumFunctionOnSet(g, S) = SumFunctionOnSet(f, S) - f[y] + g[y]
<1>1. IsFiniteSet(S \ {y})
  BY FS_RemoveElement
<1>2. /\ SumFunctionOnSet(f, S) = f[y] + SumFunctionOnSet(f, S \ {y})
      /\ SumFunctionOnSet(g, S) = g[y] + SumFunctionOnSet(g, S \ {y})
  BY SumRemove
<1>3. SumFunctionOnSet(f, S \ {y}) = SumFunctionOnSet(g, S \ {y})
  BY <1>1, SumAgrees
<1>4. SumFunctionOnSet(f, S \ {y}) \in Int /\ f[y] \in Int /\ g[y] \in Int
  BY <1>1, SumInt
<1> QED
  BY <1>2, <1>3, <1>4

\* Sets that overlap or not hold together at most the sum of their sizes.
LEMMA CountUnion ==
  ASSUME NEW S, IsFiniteSet(S), NEW g, NEW f,
         \A x \in S : IsFiniteSet(g[x]) /\ Cardinality(g[x]) <= f[x] /\ f[x] \in Int
  PROVE  /\ IsFiniteSet(UNION {g[x] : x \in S})
         /\ Cardinality(UNION {g[x] : x \in S}) <= SumFunctionOnSet(f, S)
<1> DEFINE All(U) == UNION {g[x] : x \in U}
           Good == {U \in SUBSET S : /\ IsFiniteSet(All(U))
                                     /\ Cardinality(All(U)) <= SumFunctionOnSet(f, U)}
<1>1. {} \in Good
  <2>1. All({}) = {}
    OBVIOUS
  <2>2. IsFiniteSet({}) /\ Cardinality({}) = 0 /\ SumFunctionOnSet(f, {}) = 0
    BY FS_EmptySet, SumEmpty
  <2> QED
    BY <2>1, <2>2
<1>2. ASSUME NEW U \in SUBSET S, NEW x \in S \ U, U \in Good PROVE U \cup {x} \in Good
  <2>1. IsFiniteSet(U) /\ \A y \in U \cup {x} : f[y] \in Int
    BY <1>2, FS_Subset
  <2>2. SumFunctionOnSet(f, U \cup {x}) = f[x] + SumFunctionOnSet(f, U)
    BY <1>2, <2>1, SumAdd
  <2>3. SumFunctionOnSet(f, U) \in Int /\ f[x] \in Int
    BY <2>1, SumInt
  <2>4. All(U \cup {x}) = All(U) \cup g[x]
    OBVIOUS
  <2>5. IsFiniteSet(All(U)) /\ Cardinality(All(U)) <= SumFunctionOnSet(f, U)
    BY <1>2
  <2>6. IsFiniteSet(g[x]) /\ Cardinality(g[x]) <= f[x]
    BY <1>2
  <2> HIDE DEF All
  <2>7. /\ IsFiniteSet(All(U) \cup g[x])
        /\ Cardinality(All(U) \cup g[x])
             = Cardinality(All(U)) + Cardinality(g[x]) - Cardinality(All(U) \cap g[x])
    BY <2>5, <2>6, FS_Union
  <2>8. /\ Cardinality(All(U)) \in Nat /\ Cardinality(g[x]) \in Nat
        /\ Cardinality(All(U) \cap g[x]) \in Nat
    BY <2>5, <2>6, FS_CardinalityType, FS_Intersection
  <2>9. Cardinality(All(U \cup {x})) <= SumFunctionOnSet(f, U \cup {x})
    <3>1. PICK A : A = All(U)
      OBVIOUS
    <3>2. PICK m, n, k : /\ m = Cardinality(A) /\ n = Cardinality(g[x])
                         /\ k = Cardinality(A \cap g[x])
      OBVIOUS
    <3>3. /\ m \in Nat /\ n \in Nat /\ k \in Nat /\ n <= f[x]
          /\ m <= SumFunctionOnSet(f, U) /\ Cardinality(A \cup g[x]) = m + n - k
      BY <2>5, <2>6, <2>7, <2>8, <3>1, <3>2
    <3>4. m + n - k <= f[x] + SumFunctionOnSet(f, U)
      BY <2>3, <3>3
    <3> QED
      BY <2>2, <2>4, <3>1, <3>3, <3>4
  <2> QED
    BY <1>2, <2>4, <2>7, <2>9
<1>3. S \in Good
  <2> HIDE DEF Good
  <2> QED
    BY <1>1, <1>2, SetInduction
<1> QED
  BY <1>3
=============================================================================
