---------------------------- MODULE RunFill_proofs ----------------------------
(***************************************************************************)
(* Theorems about RunFill, for every run, every number of attempts, calls  *)
(* at a time and crashes, and, where not said otherwise, with database     *)
(* accesses that may throw: the breaker, purchases, status and error, and  *)
(* the quota.                                                              *)
(***************************************************************************)
EXTENDS RunFill, FiniteSetTheorems, TLAPS

\* Slots of one kind can be counted.
LEMMA CountNat ==
  ASSUME NEW S, S \subseteq Slots
  PROVE  IsFiniteSet(S) /\ Cardinality(S) \in Nat
BY FS_Subset, FS_CardinalityType, FillAssumption

LEMMA NeededNat ==
  ASSUME NEW p, NEW asked
  PROVE  Needed(p, asked) \in Nat
BY CountNat DEF Needed, ToAsk, Missing

LEMMA InHandNat ==
  ASSUME NEW f, NEW p
  PROVE  IsFiniteSet(InHand(f, p)) /\ Cardinality(InHand(f, p)) \in Nat
BY CountNat DEF InHand, Units

-----------------------------------------------------------------------------
(* Type correctness. *)

LEMMA TypeInit == Init => TypeOK
<1> SUFFICES ASSUME Init PROVE TypeOK
  OBVIOUS
<1>1. Zero \in [Providers -> Nat] /\ Zero \in [Providers -> Int]
  BY DEF Zero
<1>2. crashes \in 0..MaxCrashes
  BY FillAssumption DEF Init
<1>3. bought \in [Slots -> Nat] /\ lost \in [Slots -> Nat]
  BY DEF Init
<1>4. /\ fill \in [Fills -> FillStatus]
      /\ phase \in [Fills -> [Slots -> Phases]]
      /\ filled \in [Fills -> Nat]
      /\ stopped \in [Fills -> SUBSET Providers]
  BY DEF Init, FillStatus, Phases
<1>5. /\ reserved \in [Fills -> [Providers -> Nat]]
      /\ sent \in [Fills -> [Providers -> Nat]]
      /\ fails \in [Fills -> [Providers -> Nat]]
      /\ calls \in [Providers -> Nat] /\ held \in [Providers -> Int]
  BY <1>1 DEF Init
<1> QED
  BY <1>2, <1>3, <1>4, <1>5 DEF Init, TypeOK

\* What a dead process leaves in memory, and of its calls.
LEMMA TypeDie ==
  ASSUME TypeOK, Die
  PROVE  /\ phase' \in [Fills -> [Slots -> Phases]]
         /\ reserved' \in [Fills -> [Providers -> Nat]]
         /\ sent' \in [Fills -> [Providers -> Nat]]
         /\ fails' \in [Fills -> [Providers -> Nat]]
         /\ stopped' \in [Fills -> SUBSET Providers]
         /\ filled' \in [Fills -> Nat]
         /\ superseded' \in [Fills -> BOOLEAN] /\ cut' \in [Fills -> BOOLEAN]
         /\ up' \in BOOLEAN /\ crashes' \in 0..MaxCrashes
         /\ snap' \in SUBSET Slots /\ active' \in {"none", "sweep", "spot"}
         /\ overtaken' \in BOOLEAN /\ closed' \in BOOLEAN
         /\ calls' \in [Providers -> Nat]
         /\ bought' \in [Slots -> Nat] /\ lost' \in [Slots -> Nat]
         /\ reports' \in Nat /\ late' \in [Fills -> BOOLEAN]
<1>1. Zero \in [Providers -> Nat]
  BY DEF Zero
<1>2. /\ phase' \in [Fills -> [Slots -> Phases]]
      /\ stopped' \in [Fills -> SUBSET Providers]
      /\ filled' \in [Fills -> Nat]
      /\ superseded' \in [Fills -> BOOLEAN] /\ cut' \in [Fills -> BOOLEAN]
  BY DEF Die, Phases
<1>3. /\ reserved' \in [Fills -> [Providers -> Nat]]
      /\ sent' \in [Fills -> [Providers -> Nat]]
      /\ fails' \in [Fills -> [Providers -> Nat]]
  BY <1>1 DEF Die
<1>4. up' \in BOOLEAN /\ crashes' \in 0..MaxCrashes
  <2>1. up' \in BOOLEAN
    BY DEF Die
  <2>2. /\ crashes' = crashes + 1 /\ crashes < MaxCrashes
        /\ crashes \in 0..MaxCrashes
    BY DEF Die, TypeOK
  <2>3. crashes' \in 0..MaxCrashes
    BY <2>2, FillAssumption
  <2> QED BY <2>1, <2>3
<1>5. lost' \in [Slots -> Nat]
  <2>1. \A s \in Slots :
          (IF \E f \in Fills : Unrecorded(f, s) THEN lost[s] + 1 ELSE lost[s]) \in Nat
    BY DEF TypeOK
  <2> QED BY <2>1 DEF Die
<1> QED
  BY <1>2, <1>3, <1>4, <1>5 DEF Die, TypeOK, sweepVars

LEMMA TypeAdmit ==
  ASSUME TypeOK, NEW f \in Fills, NEW asked \in SUBSET Providers,
         AdmitFill(f, asked) \/ AdmitThenCrash(f, asked)
  PROVE  TypeOK'
<1> USE DEF sweepVars, runVars, workVars, procVars, historyVars, FillStatus, Phases
<1>1. CASE AdmitFill(f, asked)
  <2>1. PICK served \in SUBSET asked :
          LET reserve == [p \in Providers |-> IF p \in served THEN Needed(p, asked) ELSE 0]
          IN /\ reserved' = [reserved EXCEPT ![f] = reserve]
             /\ held' = [p \in Providers |-> held[p] + reserve[p]]
             /\ \E threw \in {FALSE, StorageErrors} :
                  /\ cut' = [cut EXCEPT ![f] = threw]
                  /\ phase' = [phase EXCEPT ![f] =
                       [s \in Slots |->
                          IF s \in ToAsk(served) /\ ~threw THEN "todo" ELSE "idle"]]
    BY <1>1 DEF AdmitFill
  <2> DEFINE reserve == [p \in Providers |-> IF p \in served THEN Needed(p, asked) ELSE 0]
  <2>2. reserve \in [Providers -> Nat]
    BY NeededNat
  <2> HIDE DEF reserve
  <2>3. /\ reserved' = [reserved EXCEPT ![f] = reserve]
        /\ held' = [p \in Providers |-> held[p] + reserve[p]]
    BY <2>1 DEF reserve
  <2>4. /\ reserved' \in [Fills -> [Providers -> Nat]]
        /\ held' \in [Providers -> Int]
    BY <2>2, <2>3 DEF TypeOK
  <2>5. /\ phase' \in [Fills -> [Slots -> Phases]]
        /\ cut' \in [Fills -> BOOLEAN]
    <3>1. PICK threw \in BOOLEAN :
            /\ cut' = [cut EXCEPT ![f] = threw]
            /\ phase' = [phase EXCEPT ![f] =
                 [s \in Slots |-> IF s \in ToAsk(served) /\ ~threw THEN "todo" ELSE "idle"]]
      BY <2>1, FillAssumption
    <3> QED BY <3>1 DEF TypeOK, Phases
  <2>6. fill' \in [Fills -> FillStatus]
    BY <1>1 DEF AdmitFill, TypeOK
  <2> QED BY <1>1, <2>4, <2>5, <2>6 DEF AdmitFill, TypeOK
<1>2. CASE AdmitThenCrash(f, asked)
  <2>1. held' \in [Providers -> Int]
    <3>1. PICK served \in SUBSET asked :
            held' = [p \in Providers |->
              held[p] + IF p \in served THEN Needed(p, asked) ELSE 0]
      BY <1>2 DEF AdmitThenCrash
    <3>2. \A p \in Providers :
            held[p] + (IF p \in served THEN Needed(p, asked) ELSE 0) \in Int
      BY NeededNat DEF TypeOK
    <3> QED BY <3>1, <3>2
  <2>2. fill' \in [Fills -> FillStatus]
    BY <1>2 DEF AdmitThenCrash, TypeOK
  <2> QED BY <1>2, <2>1, <2>2, TypeDie DEF AdmitThenCrash, TypeOK
<1> QED
  BY <1>1, <1>2

LEMMA TypeWork ==
  ASSUME TypeOK, NEW f \in Fills, Pull(f) \/ CallReturns(f)
  PROVE  TypeOK'
<1> USE DEF sweepVars, runVars, workVars, procVars, historyVars
<1>1. PICK s \in Slots : \/ SkipSlot(f, s) \/ JoinGate(f, s)
                         \/ CallProvider(f, s) \/ WorkerThrows(f, s)
                         \/ AnswerArrives(f, s) \/ RecordSlot(f, s) \/ CallFailed(f, s)
  BY DEF Pull, CallReturns
<1>2. ProviderOf[s] \in Providers
  BY FillAssumption
<1>3. CASE SkipSlot(f, s)
  BY <1>3 DEF SkipSlot, TypeOK, Phases, Stopped, AttemptRemoved, NewerFullSweep
<1>8. CASE JoinGate(f, s)
  BY <1>8 DEF JoinGate, TypeOK, Phases
<1>4. CASE CallProvider(f, s)
  BY <1>2, <1>4 DEF CallProvider, TypeOK, Phases
<1>5. CASE WorkerThrows(f, s)
  BY <1>5 DEF WorkerThrows, TypeOK, Phases
<1>9. CASE AnswerArrives(f, s)
  BY <1>9 DEF AnswerArrives, TypeOK, Phases
<1>6. CASE RecordSlot(f, s)
  BY <1>2, <1>6 DEF RecordSlot, TypeOK, Phases, NewerFullSweep
<1>7. CASE CallFailed(f, s)
  BY <1>2, <1>7 DEF CallFailed, TypeOK, Phases
<1> QED
  BY <1>1, <1>3, <1>4, <1>5, <1>6, <1>7, <1>8, <1>9

\* What the end of an attempt writes.
LEMMA TypeOutcome ==
  ASSUME TypeOK, NEW f \in Fills, WriteOutcome(f)
  PROVE  /\ status' \in {"partial", "completed"}
         /\ named' \in SUBSET Providers
         /\ fill' \in [Fills -> FillStatus]
         /\ excused' \in [Fills -> BOOLEAN]
<1>1. ErrorNow(f) \in SUBSET Providers
  BY FillAssumption DEF ErrorNow, Gaps, Missing
<1>2. EndOf(f) \in FillStatus
  BY DEF EndOf, FillStatus
<1> QED
  BY <1>1, <1>2 DEF WriteOutcome, TypeOK, Complete, Superseded

LEMMA TypeFlush ==
  ASSUME TypeOK, NEW f \in Fills, NEW P \in SUBSET Providers,
         held' = [p \in Providers |-> held[p] - IF p \in P THEN Unsent(f, p) ELSE 0]
  PROVE  held' \in [Providers -> Int]
<1>1. \A p \in Providers : held[p] - (IF p \in P THEN Unsent(f, p) ELSE 0) \in Int
  BY DEF Unsent, TypeOK
<1> QED BY <1>1

LEMMA TypeEnd ==
  ASSUME TypeOK, NEW f \in Fills, EndFill(f) \/ EndThenCrash(f)
  PROVE  TypeOK'
<1> USE DEF sweepVars, runVars, workVars, procVars, historyVars
<1>1. PICK P \in SUBSET Providers :
        held' = [p \in Providers |-> held[p] - IF p \in P THEN Unsent(f, p) ELSE 0]
  BY DEF EndFill, FinalizeRunFill, FillAborted, EndThenCrash, Flush
<1>2. held' \in [Providers -> Int]
  BY <1>1, TypeFlush
<1>3. EndFill(f) => reserved' \in [Fills -> [Providers -> Nat]]
  <2>1. reserved \in [Fills -> [Providers -> Nat]] /\ Zero \in [Providers -> Nat]
    BY DEF TypeOK, Zero
  <2>2. EndFill(f) => reserved' = [reserved EXCEPT ![f] = Zero]
    BY DEF EndFill, FinalizeRunFill, FillAborted, Flush
  <2> QED BY <2>1, <2>2
<1>4. CASE FinalizeRunFill(f)
  <2>1. reports' \in Nat
    BY <1>4 DEF FinalizeRunFill, TypeOK
  <2> QED BY <1>2, <1>3, <1>4, <2>1, TypeOutcome DEF EndFill, FinalizeRunFill, TypeOK
<1>5. CASE FillAborted(f)
  BY <1>2, <1>3, <1>5 DEF EndFill, FillAborted, TypeOK, FillStatus
<1>6. CASE EndThenCrash(f)
  <2>1. WriteOutcome(f) \/ UNCHANGED <<status, named, fill, excused>>
    BY <1>6 DEF EndThenCrash
  <2>2. /\ status' \in {"partial", "completed"}
        /\ named' \in SUBSET Providers
        /\ fill' \in [Fills -> FillStatus]
        /\ excused' \in [Fills -> BOOLEAN]
    BY <2>1, TypeOutcome DEF TypeOK
  <2> QED BY <1>2, <1>6, <2>2, TypeDie DEF EndThenCrash, TypeOK
<1> QED
  BY <1>4, <1>5, <1>6 DEF EndFill

LEMMA TypeStep == TypeOK /\ [Next]_vars => TypeOK'
<1> SUFFICES ASSUME TypeOK, [Next]_vars PROVE TypeOK'
  OBVIOUS
<1> USE DEF sweepVars, runVars, workVars, procVars, historyVars
<1>1. CASE SweepQueued \/ SweepEnds \/ Closes
  BY <1>1 DEF SweepQueued, SweepEnds, SweepOver, Closes, TypeOK
<1>2. CASE Crash
  BY <1>2, TypeDie DEF Crash, TypeOK
<1>3. CASE Restart
  <2>1. fill' \in [Fills -> FillStatus]
    BY <1>3 DEF Restart, Recovered, FillStatus, TypeOK
  <2> QED BY <1>3, <2>1 DEF Restart, SweepOver, TypeOK
<1>4. CASE UNCHANGED vars
  BY <1>4 DEF vars, TypeOK
<1> QED
  BY <1>1, <1>2, <1>3, <1>4, TypeAdmit, TypeWork, TypeEnd DEF Next

\* Every reachable state of a run and its fills is well formed, whatever its
\* slots, providers, attempts and crashes.
THEOREM TypeCorrect == Spec => []TypeOK
BY TypeInit, TypeStep, PTL DEF Spec
-----------------------------------------------------------------------------
(* The breaker. *)

LEMMA BreakerInit == Init => BreakerInv
<1> SUFFICES ASSUME Init, NEW f \in Fills, NEW p \in Providers
             PROVE  /\ Cardinality(InHand(f, p)) <= Concurrency[p]
                    /\ fails[f][p] = 0 /\ stopped[f] = {}
  BY FillAssumption DEF BreakerInv
<1>1. InHand(f, p) = {}
  BY DEF InHand, Units, Init
<1> QED
  BY <1>1, FS_EmptySet, FillAssumption DEF Init, Zero

\* A step that counts no failure and makes no call keeps the breaker's books.
LEMMA BreakerKept ==
  ASSUME TypeOK, BreakerInv, UNCHANGED <<fails, stopped>>,
         \A g \in Fills, p \in Providers : InHand(g, p)' \subseteq InHand(g, p)
  PROVE  BreakerInv'
<1> SUFFICES ASSUME NEW g \in Fills, NEW p \in Providers
             PROVE  /\ Cardinality(InHand(g, p)') <= Concurrency[p]
                    /\ p \notin stopped[g] => fails[g][p] < Breaker
                    /\ p \in stopped[g] =>
                         fails[g][p] + Cardinality(InHand(g, p)') <= Breaker - 1 + Concurrency[p]
  BY DEF BreakerInv
<1>1. Cardinality(InHand(g, p)') <= Cardinality(InHand(g, p))
  BY InHandNat, FS_Subset
<1>2. /\ Cardinality(InHand(g, p)) \in Nat /\ Cardinality(InHand(g, p)') \in Nat
      /\ fails[g][p] \in Nat /\ Concurrency[p] \in Nat /\ Breaker \in Nat
  BY InHandNat, FillAssumption, CountNat DEF TypeOK, InHand, Units
<1> QED
  BY <1>1, <1>2 DEF BreakerInv

LEMMA BreakerPull ==
  ASSUME TypeOK, BreakerInv, NEW f \in Fills, NEW s \in Slots, JoinGate(f, s)
  PROVE  BreakerInv'
<1> DEFINE p == ProviderOf[s]
<1>1. p \in Providers /\ p \notin stopped[f]
  BY FillAssumption DEF JoinGate, ShouldSkip, Stopped
<1>2. UNCHANGED <<fails, stopped>>
  BY DEF JoinGate
<1>3. \A g \in Fills, q \in Providers :
        InHand(g, q)' = IF g = f /\ q = p THEN InHand(g, q) \cup {s} ELSE InHand(g, q)
  BY DEF JoinGate, InHand, Units, TypeOK
<1>4. Cardinality(InHand(f, p)') <= Concurrency[p]
  <2>1. \/ Cardinality(InHand(f, p) \cup {s}) = Cardinality(InHand(f, p)) + 1
        \/ Cardinality(InHand(f, p) \cup {s}) = Cardinality(InHand(f, p))
    BY InHandNat, FS_AddElement
  <2>2. Cardinality(InHand(f, p)) < Concurrency[p]
    BY DEF JoinGate, Pulls
  <2>3. Cardinality(InHand(f, p) \cup {s}) \in Nat
    BY InHandNat, FS_AddElement, FS_CardinalityType
  <2>4. Cardinality(InHand(f, p)) \in Nat /\ Concurrency[p] \in Nat
    BY <1>1, InHandNat, FillAssumption
  <2>5. InHand(f, p)' = InHand(f, p) \cup {s}
    BY <1>1 DEF JoinGate, InHand, Units, TypeOK
  <2> QED BY <2>1, <2>2, <2>3, <2>4, <2>5
<1>5. SUFFICES ASSUME NEW g \in Fills, NEW q \in Providers
               PROVE  /\ Cardinality(InHand(g, q)') <= Concurrency[q]
                      /\ q \notin stopped[g] => fails[g][q] < Breaker
                      /\ q \in stopped[g] =>
                           fails[g][q] + Cardinality(InHand(g, q)') <= Breaker - 1 + Concurrency[q]
  BY <1>2 DEF BreakerInv
<1>6. CASE g = f /\ q = p
  BY <1>1, <1>4, <1>6 DEF BreakerInv
<1>7. CASE ~(g = f /\ q = p)
  BY <1>3, <1>7 DEF BreakerInv
<1> QED
  BY <1>6, <1>7

LEMMA BreakerRecorded ==
  ASSUME TypeOK, BreakerInv, NEW f \in Fills, NEW s \in Slots, RecordSlot(f, s)
  PROVE  BreakerInv'
<1> DEFINE p == ProviderOf[s]
<1>1. p \in Providers
  BY FillAssumption
<1>2. stopped' = stopped /\ fails' = [fails EXCEPT ![f][p] = 0]
  BY DEF RecordSlot
<1>3. \A g \in Fills, q \in Providers :
        InHand(g, q)' = IF g = f /\ q = p THEN InHand(g, q) \ {s} ELSE InHand(g, q)
  BY DEF RecordSlot, InHand, Units, TypeOK
<1>4. SUFFICES ASSUME NEW g \in Fills, NEW q \in Providers
               PROVE  /\ Cardinality(InHand(g, q)') <= Concurrency[q]
                      /\ q \notin stopped[g] => fails'[g][q] < Breaker
                      /\ q \in stopped[g] =>
                           fails'[g][q] + Cardinality(InHand(g, q)') <= Breaker - 1 + Concurrency[q]
  BY <1>2 DEF BreakerInv
<1>5. /\ Cardinality(InHand(g, q)') <= Cardinality(InHand(g, q))
      /\ Cardinality(InHand(g, q)) \in Nat /\ Cardinality(InHand(g, q)') \in Nat
  <2>1. InHand(g, q)' \subseteq InHand(g, q)
    BY <1>3
  <2> QED BY <2>1, InHandNat, FS_Subset, FS_CardinalityType
<1>6. fails'[g][q] \in Nat /\ fails'[g][q] <= fails[g][q] /\ fails[g][q] \in Nat
  BY <1>2 DEF TypeOK
<1>7. Concurrency[q] \in Nat /\ Breaker \in Nat
  BY FillAssumption
<1> QED
  BY <1>5, <1>6, <1>7 DEF BreakerInv

LEMMA BreakerFailed ==
  ASSUME TypeOK, BreakerInv, NEW f \in Fills, NEW s \in Slots, CallFailed(f, s)
  PROVE  BreakerInv'
<1> DEFINE p == ProviderOf[s]
<1>1. p \in Providers
  BY FillAssumption
<1>2. /\ fails' = [fails EXCEPT ![f][p] = @ + 1]
      /\ stopped' = [stopped EXCEPT ![f] =
                       IF fails'[f][p] >= Breaker THEN @ \cup {p} ELSE @]
      /\ phase[f][s] \in {"gate", "flight", "answer"}
  BY DEF CallFailed, ItsTurn, Unrecorded
<1>3. \A g \in Fills, q \in Providers :
        InHand(g, q)' = IF g = f /\ q = p THEN InHand(g, q) \ {s} ELSE InHand(g, q)
  BY DEF CallFailed, InHand, Units, TypeOK
<1>4. SUFFICES ASSUME NEW g \in Fills, NEW q \in Providers
               PROVE  /\ Cardinality(InHand(g, q)') <= Concurrency[q]
                      /\ q \notin stopped'[g] => fails'[g][q] < Breaker
                      /\ q \in stopped'[g] =>
                           fails'[g][q] + Cardinality(InHand(g, q)') <= Breaker - 1 + Concurrency[q]
  BY DEF BreakerInv
<1>5. Concurrency[q] \in Nat /\ Breaker \in Nat /\ fails[g][q] \in Nat
  BY FillAssumption DEF TypeOK
<1>6. CASE g = f /\ q = p
  <2>1. s \in InHand(g, q)
    BY <1>2, <1>6 DEF InHand, Units
  <2>2. Cardinality(InHand(g, q)') = Cardinality(InHand(g, q)) - 1
    BY <1>3, <1>6, <2>1, InHandNat, FS_RemoveElement
  <2>3. Cardinality(InHand(g, q)) \in Nat
    BY InHandNat
  <2>4. fails'[g][q] = fails[g][q] + 1
    BY <1>1, <1>2, <1>6 DEF TypeOK
  <2>5. q \in stopped'[g] <=> (q \in stopped[g] \/ fails[g][q] + 1 >= Breaker)
    BY <1>2, <1>6, <2>4 DEF TypeOK
  <2> QED BY <1>5, <2>2, <2>3, <2>4, <2>5 DEF BreakerInv
<1>7. CASE ~(g = f /\ q = p)
  <2>1. InHand(g, q)' = InHand(g, q) /\ fails'[g][q] = fails[g][q]
    BY <1>2, <1>3, <1>7 DEF TypeOK
  <2>2. q \in stopped'[g] <=> q \in stopped[g]
    BY <1>2, <1>7 DEF TypeOK
  <2> QED BY <2>1, <2>2 DEF BreakerInv
<1> QED
  BY <1>6, <1>7

\* A dead process has counted nothing and has nothing in hand.
LEMMA BreakerDie == Die => BreakerInv'
<1> SUFFICES ASSUME Die, NEW f \in Fills, NEW p \in Providers
             PROVE  /\ Cardinality(InHand(f, p)') <= Concurrency[p]
                    /\ fails'[f][p] = 0 /\ stopped'[f] = {}
  BY FillAssumption DEF BreakerInv
<1>1. InHand(f, p)' = {}
  BY DEF InHand, Units, Die
<1> QED
  BY <1>1, FS_EmptySet, FillAssumption DEF Die, Zero

LEMMA BreakerStep == TypeOK /\ BreakerInv /\ [Next]_vars => BreakerInv'
<1> SUFFICES ASSUME TypeOK, BreakerInv, [Next]_vars PROVE BreakerInv'
  OBVIOUS
<1> USE DEF sweepVars, runVars, workVars, procVars, historyVars
<1>1. CASE UNCHANGED <<phase, fails, stopped>>
  <2>1. \A g \in Fills, p \in Providers : InHand(g, p)' \subseteq InHand(g, p)
    BY <1>1 DEF InHand
  <2> QED BY <1>1, <2>1, BreakerKept
<1>2. ASSUME NEW f \in Fills, NEW asked \in SUBSET Providers, AdmitFill(f, asked)
      PROVE  BreakerInv'
  <2>1. UNCHANGED <<fails, stopped>>
    BY <1>2 DEF AdmitFill
  <2>2. \A g \in Fills, p \in Providers : InHand(g, p)' \subseteq InHand(g, p)
    <3>1. PICK served \in SUBSET asked, threw \in {FALSE, StorageErrors} :
            phase' = [phase EXCEPT ![f] =
              [s \in Slots |-> IF s \in ToAsk(served) /\ ~threw THEN "todo" ELSE "idle"]]
      BY <1>2 DEF AdmitFill
    <3> QED BY <3>1 DEF InHand, Units, TypeOK
  <2> QED BY <2>1, <2>2, BreakerKept
<1>4. ASSUME NEW f \in Fills, NEW s \in Slots, SkipSlot(f, s) \/ WorkerThrows(f, s)
      PROVE  BreakerInv'
  <2>1. UNCHANGED <<fails, stopped>> /\ phase' = [phase EXCEPT ![f][s] = "done"]
    BY <1>4 DEF SkipSlot, WorkerThrows
  <2>2. \A g \in Fills, p \in Providers : InHand(g, p)' \subseteq InHand(g, p)
    BY <2>1 DEF InHand, Units, TypeOK
  <2> QED BY <2>1, <2>2, BreakerKept
<1>7. ASSUME NEW f \in Fills, NEW s \in Slots, CallProvider(f, s) \/ AnswerArrives(f, s)
      PROVE  BreakerInv'
  <2>1. /\ UNCHANGED <<fails, stopped>>
        /\ \/ phase' = [phase EXCEPT ![f][s] = "flight"] /\ phase[f][s] = "gate"
           \/ phase' = [phase EXCEPT ![f][s] = "answer"] /\ phase[f][s] = "flight"
    BY <1>7 DEF CallProvider, MayCall, ItsTurn, AnswerArrives
  <2>2. /\ \A g \in Fills, t \in Slots : g # f \/ t # s => phase'[g][t] = phase[g][t]
        /\ phase[f][s] \in {"gate", "flight"}
    BY <2>1 DEF TypeOK
  <2>3. \A g \in Fills, p \in Providers : InHand(g, p)' \subseteq InHand(g, p)
    BY <2>2 DEF InHand, Units
  <2> QED BY <2>1, <2>3, BreakerKept
<1>5. ASSUME NEW f \in Fills, EndFill(f) PROVE UNCHANGED <<phase, fails, stopped>>
  BY <1>5 DEF EndFill, FinalizeRunFill, FillAborted
<1>6. CASE SweepQueued \/ SweepEnds \/ Closes \/ Restart \/ UNCHANGED vars
  BY <1>1, <1>6 DEF SweepQueued, SweepEnds, Closes, Restart, vars
<1> QED
  BY <1>1, <1>2, <1>4, <1>5, <1>6, <1>7,
     BreakerPull, BreakerRecorded, BreakerFailed, BreakerDie
  DEF Next, Pull, CallReturns, AdmitThenCrash, Crash, EndThenCrash
-----------------------------------------------------------------------------
(* Who is at work, and what may be bought again. *)

LEMMA OneFillStep == TypeOK /\ OneFill /\ [Next]_vars => OneFill'
<1> SUFFICES ASSUME TypeOK, OneFill, [Next]_vars PROVE OneFill'
  OBVIOUS
<1> USE DEF sweepVars, runVars, workVars, procVars, historyVars
<1>1. ASSUME NEW f \in Fills, ActiveFills = {} \/ f \in ActiveFills, NEW x,
             fill' = [fill EXCEPT ![f] = x]
      PROVE  OneFill'
  BY <1>1 DEF OneFill, ActiveFills, TypeOK
<1>2. CASE fill' = fill
  BY <1>2 DEF OneFill, ActiveFills
<1>3. ASSUME NEW f \in Fills, NEW asked \in SUBSET Providers,
             AdmitFill(f, asked) \/ AdmitThenCrash(f, asked)
      PROVE  OneFill'
  <2>1. ActiveFills = {}
    BY <1>3 DEF AdmitFill, AdmitThenCrash, Admissible, Busy
  <2>2. \E x : fill' = [fill EXCEPT ![f] = x]
    BY <1>3 DEF AdmitFill, AdmitThenCrash
  <2> QED BY <1>1, <2>1, <2>2
<1>4. ASSUME NEW f \in Fills, EndFill(f) \/ EndThenCrash(f)
      PROVE  OneFill'
  <2>1. f \in ActiveFills
    BY <1>4 DEF EndFill, FinalizeRunFill, FillAborted, EndThenCrash, FillOver, ActiveFills
  <2>2. fill' = fill \/ \E x : fill' = [fill EXCEPT ![f] = x]
    BY <1>4 DEF EndFill, FinalizeRunFill, FillAborted, EndThenCrash, WriteOutcome
  <2> QED BY <1>1, <1>2, <2>1, <2>2
<1>5. CASE Restart
  BY <1>5 DEF Restart, Recovered, OneFill, ActiveFills, TypeOK
<1>6. ASSUME NEW f \in Fills, Pull(f) \/ CallReturns(f) PROVE fill' = fill
  BY <1>6 DEF Pull, CallReturns, SkipSlot, JoinGate, CallProvider, WorkerThrows, AnswerArrives,
              RecordSlot, CallFailed
<1>7. CASE SweepQueued \/ SweepEnds \/ Closes \/ Crash \/ UNCHANGED vars
  BY <1>2, <1>7 DEF SweepQueued, SweepEnds, Closes, Crash, vars
<1> QED
  BY <1>2, <1>3, <1>4, <1>5, <1>6, <1>7 DEF Next

LEMMA DownStep == TypeOK /\ DownInv /\ [Next]_vars => DownInv'
<1> SUFFICES ASSUME TypeOK, DownInv, [Next]_vars PROVE DownInv'
  OBVIOUS
<1> USE DEF sweepVars, runVars, workVars, procVars, historyVars
<1>1. CASE Die
  BY <1>1, FillAssumption DEF Die, DownInv, TypeOK
<1>2. CASE up /\ up' = up
  BY <1>2 DEF DownInv
<1>3. CASE Restart
  BY <1>3 DEF Restart, DownInv
<1>4. CASE UNCHANGED <<up, phase, crashes>>
  BY <1>4 DEF DownInv
<1>5. ASSUME NEW f \in Fills, NEW asked \in SUBSET Providers, AdmitFill(f, asked)
      PROVE  up /\ up' = up
  BY <1>5 DEF AdmitFill, Admissible
<1>6. ASSUME NEW f \in Fills, EndFill(f) PROVE up /\ up' = up
  BY <1>6 DEF EndFill, FinalizeRunFill, FillAborted, FillOver
<1>7. ASSUME NEW f \in Fills, NEW s \in Slots,
             SkipSlot(f, s) \/ JoinGate(f, s) \/ CallProvider(f, s) \/ WorkerThrows(f, s)
               \/ AnswerArrives(f, s) \/ RecordSlot(f, s) \/ CallFailed(f, s)
      PROVE  up /\ up' = up
  BY <1>7 DEF SkipSlot, JoinGate, CallProvider, MayCall, WorkerThrows, AnswerArrives,
              RecordSlot, CallFailed, Pulls, ItsTurn
<1>8. CASE SweepQueued \/ SweepEnds \/ Closes \/ UNCHANGED vars
  BY <1>4, <1>8 DEF SweepQueued, SweepEnds, Closes, vars
<1> QED
  BY <1>1, <1>2, <1>3, <1>5, <1>6, <1>7, <1>8
  DEF Next, Pull, CallReturns, AdmitThenCrash, Crash, EndThenCrash

\* Steps between which no call is made, answered or lost.
LEMMA AskKept ==
  ASSUME AskInv, UNCHANGED <<snap, bought, lost, cut>>,
         \A f \in Fills, s \in Slots : InWork(f, s)' => InWork(f, s) /\ fill'[f] = "running",
         \A f \in Fills, s \in Slots : Unrecorded(f, s)' <=> Unrecorded(f, s)
  PROVE  AskInv'
BY DEF AskInv, Missing, OnlyLostIsRebought

\* The steps of one slot of the fill at work.
LEMMA AskMoves ==
  ASSUME TypeOK, OneFill, AskInv, ~StorageErrors, UNCHANGED <<fill, cut>>,
         NEW f \in Fills, NEW s \in Slots, InWork(f, s),
         \A g \in Fills, t \in Slots : t # s \/ g # f => phase'[g][t] = phase[g][t]
  PROVE  /\ \A g \in Fills : ~cut'[g]
         /\ \A g \in Fills, t \in Slots : InWork(g, t)' => fill'[g] = "running"
         /\ \A g \in Fills : g # f => ~Unrecorded(g, s)
<1>1. fill[f] = "running"
  BY DEF AskInv
<1>2. \A g \in Fills, t \in Slots : InWork(g, t)' => fill'[g] = "running"
  BY <1>1 DEF AskInv, InWork
<1>3. \A g \in Fills : g # f => ~Unrecorded(g, s)
  BY <1>1 DEF AskInv, InWork, Unrecorded, OneFill, ActiveFills
<1> QED
  BY <1>1, <1>2, <1>3 DEF AskInv

LEMMA AskStep ==
  ASSUME TypeOK, OneFill, DownInv, AskInv, [Next]_vars
  PROVE  AskInv'
<1> SUFFICES ASSUME ~StorageErrors PROVE AskInv'
  BY DEF AskInv
<1> USE DEF sweepVars, runVars, workVars, procVars, historyVars
<1>1. CASE Die
  <2>1. \A f \in Fills, s \in Slots : ~InWork(f, s)' /\ ~Unrecorded(f, s)'
    BY <1>1 DEF Die, InWork, Unrecorded
  <2>2. /\ \A f \in Fills : ~cut'[f]
        /\ UNCHANGED <<snap, bought>>
        /\ \A s \in Slots : lost'[s] = IF \E f \in Fills : Unrecorded(f, s) THEN lost[s] + 1
                                                                          ELSE lost[s]
    BY <1>1 DEF Die
  <2>3. \A s \in Slots : bought[s] <= 1 + lost[s] /\ bought[s] \in Nat /\ lost[s] \in Nat
    BY DEF AskInv, OnlyLostIsRebought, TypeOK
  <2>4. \A s \in Slots : bought'[s] <= 1 + lost'[s]
    BY <2>2, <2>3
  <2>5. \A s \in Missing : bought'[s] <= lost'[s]
    <3> SUFFICES ASSUME NEW s \in Missing PROVE bought[s] <= lost'[s]
      BY <2>2
    <3>1. s \in Slots
      BY DEF Missing
    <3>2. CASE \E f \in Fills : Unrecorded(f, s)
      BY <2>2, <2>3, <3>1, <3>2
    <3>3. CASE \A f \in Fills : ~Unrecorded(f, s)
      BY <2>2, <3>1, <3>3 DEF AskInv
    <3> QED BY <3>2, <3>3
  <2> QED BY <2>1, <2>2, <2>4, <2>5 DEF AskInv, Missing, OnlyLostIsRebought
<1>2. CASE UNCHANGED <<phase, snap, fill, cut, bought, lost>>
  BY <1>2 DEF AskInv, InWork, Unrecorded, Missing, OnlyLostIsRebought
<1>3. ASSUME NEW f \in Fills, NEW asked \in SUBSET Providers, AdmitFill(f, asked)
      PROVE  AskInv'
  <2>1. PICK served \in SUBSET asked :
          /\ cut' = [cut EXCEPT ![f] = FALSE]
          /\ phase' = [phase EXCEPT ![f] =
               [s \in Slots |-> IF s \in ToAsk(served) THEN "todo" ELSE "idle"]]
    <3>1. StorageErrors = FALSE
      BY FillAssumption
    <3>2. PICK served \in SUBSET asked, threw \in {FALSE, StorageErrors} :
            /\ cut' = [cut EXCEPT ![f] = threw]
            /\ phase' = [phase EXCEPT ![f] =
                 [s \in Slots |-> IF s \in ToAsk(served) /\ ~threw THEN "todo" ELSE "idle"]]
      BY <1>3, Zenon DEF AdmitFill
    <3>3. threw = FALSE
      BY <3>1
    <3> QED BY <3>2, <3>3
  <2>2. UNCHANGED <<snap, bought, lost>> /\ fill' = [fill EXCEPT ![f] = "running"]
    BY <1>3 DEF AdmitFill
  <2>3. fill[f] = "none"
    BY <1>3 DEF AdmitFill, Admissible
  <2>4. \A s \in Slots : ~Unrecorded(f, s) /\ ~Unrecorded(f, s)'
    BY <2>1, <2>3 DEF AskInv, InWork, Unrecorded, TypeOK
  <2>5. \A g \in Fills, s \in Slots : g # f => phase'[g][s] = phase[g][s] /\ fill'[g] = fill[g]
    BY <2>1, <2>2 DEF TypeOK
  <2>6. \A g \in Fills, s \in Slots : Unrecorded(g, s)' <=> Unrecorded(g, s)
    BY <2>4, <2>5 DEF Unrecorded
  <2>7. \A g \in Fills, s \in Slots : InWork(g, s)' => fill'[g] = "running"
    BY <2>2, <2>5 DEF AskInv, InWork, TypeOK
  <2>8. \A g \in Fills : ~cut'[g]
    BY <2>1 DEF AskInv, TypeOK
  <2> QED BY <2>2, <2>6, <2>7, <2>8 DEF AskInv, Missing, OnlyLostIsRebought
<1>4. ASSUME NEW f \in Fills, NEW s \in Slots, SkipSlot(f, s) \/ JoinGate(f, s)
      PROVE  AskInv'
  <2>1. PICK now \in {"gate", "done"} : phase' = [phase EXCEPT ![f][s] = now]
    BY <1>4 DEF SkipSlot, JoinGate
  <2>2. UNCHANGED <<snap, cut, bought, lost, fill>> /\ phase[f][s] \in {"todo", "gate"}
    BY <1>4 DEF SkipSlot, JoinGate, Pulls, ItsTurn
  <2>3. InWork(f, s) /\ ~Unrecorded(f, s)
    BY <2>2 DEF InWork, Unrecorded
  <2>4. /\ \A g \in Fills, t \in Slots : InWork(g, t)' => fill'[g] = "running"
        /\ \A g \in Fills, t \in Slots : Unrecorded(g, t)' <=> Unrecorded(g, t)
    <3>1. /\ phase'[f][s] = now
          /\ \A g \in Fills, t \in Slots : t # s \/ g # f => phase'[g][t] = phase[g][t]
      BY <2>1 DEF TypeOK
    <3> QED BY <2>1, <2>2, <2>3, <3>1, AskMoves DEF Unrecorded
  <2> QED BY <2>2, <2>4 DEF AskInv, Missing, OnlyLostIsRebought
<1>5. ASSUME NEW f \in Fills, NEW s \in Slots, CallProvider(f, s)
      PROVE  AskInv'
  <2>1. /\ UNCHANGED <<snap, cut, lost, fill>> /\ phase' = [phase EXCEPT ![f][s] = "flight"]
        /\ bought' = [bought EXCEPT ![s] = @ + 1]
    BY <1>5 DEF CallProvider
  <2>2. phase[f][s] = "gate" /\ s \in Missing
    BY <1>5 DEF CallProvider, MayCall, ItsTurn, ShouldSkip, Missing
  <2>3. InWork(f, s) /\ ~Unrecorded(f, s)
    BY <2>2 DEF InWork, Unrecorded
  <2>4. /\ \A g \in Fills : ~cut'[g]
        /\ \A g \in Fills, t \in Slots : InWork(g, t)' => fill'[g] = "running"
        /\ \A g \in Fills, t \in Slots : t # s => (Unrecorded(g, t)' <=> Unrecorded(g, t))
        /\ \A g \in Fills : g # f => ~Unrecorded(g, s) /\ ~Unrecorded(g, s)'
        /\ Unrecorded(f, s)'
    <3>1. /\ phase'[f][s] = "flight"
          /\ \A g \in Fills, t \in Slots : t # s \/ g # f => phase'[g][t] = phase[g][t]
      BY <2>1 DEF TypeOK
    <3> QED BY <2>1, <2>3, <3>1, AskMoves DEF Unrecorded
  <2>5. bought[s] <= lost[s]
    BY <2>2, <2>3, <2>4 DEF AskInv
  <2>6. /\ bought'[s] = bought[s] + 1 /\ bought[s] \in Nat /\ lost[s] \in Nat
        /\ \A t \in Slots : t # s => bought'[t] = bought[t]
    BY <2>1 DEF TypeOK
  <2>7. OnlyLostIsRebought'
    BY <2>1, <2>5, <2>6 DEF AskInv, OnlyLostIsRebought
  <2>8. \A g \in Fills, t \in Slots : Unrecorded(g, t)' => t \notin snap'
    BY <2>1, <2>2, <2>4 DEF AskInv, Missing
  <2>9. \A t \in Missing' : (\A g \in Fills : ~Unrecorded(g, t)') => bought'[t] <= lost'[t]
    BY <2>1, <2>4, <2>6 DEF AskInv, Missing
  <2> QED BY <2>4, <2>7, <2>8, <2>9 DEF AskInv
<1>6. ASSUME NEW f \in Fills, NEW s \in Slots, AnswerArrives(f, s)
      PROVE  AskInv'
  <2>1. /\ UNCHANGED <<snap, cut, bought, lost, fill>>
        /\ phase' = [phase EXCEPT ![f][s] = "answer"] /\ phase[f][s] = "flight"
    BY <1>6 DEF AnswerArrives
  <2>2. InWork(f, s) /\ Unrecorded(f, s)
    BY <2>1 DEF InWork, Unrecorded
  <2>3. /\ \A g \in Fills, t \in Slots : InWork(g, t)' => fill'[g] = "running"
        /\ \A g \in Fills, t \in Slots : Unrecorded(g, t)' <=> Unrecorded(g, t)
    <3>1. /\ phase'[f][s] = "answer"
          /\ \A g \in Fills, t \in Slots : t # s \/ g # f => phase'[g][t] = phase[g][t]
      BY <2>1 DEF TypeOK
    <3> QED BY <2>1, <2>2, <3>1, AskMoves DEF Unrecorded
  <2> QED BY <2>1, <2>3 DEF AskInv, Missing, OnlyLostIsRebought
<1>7. ASSUME NEW f \in Fills, NEW s \in Slots, RecordSlot(f, s)
      PROVE  AskInv'
  <2>1. /\ UNCHANGED <<cut, fill, bought, lost>> /\ phase' = [phase EXCEPT ![f][s] = "done"]
        /\ snap' = snap \cup {s} /\ phase[f][s] = "answer"
    BY <1>7 DEF RecordSlot
  <2>2. InWork(f, s)
    BY <2>1 DEF InWork
  <2>3. /\ \A g \in Fills : ~cut'[g]
        /\ \A g \in Fills, t \in Slots : InWork(g, t)' => fill'[g] = "running"
        /\ \A g \in Fills, t \in Slots : t # s => (Unrecorded(g, t)' <=> Unrecorded(g, t))
        /\ \A g \in Fills : g # f => ~Unrecorded(g, s)'
        /\ ~Unrecorded(f, s)'
    <3>1. /\ phase'[f][s] = "done"
          /\ \A g \in Fills, t \in Slots : t # s \/ g # f => phase'[g][t] = phase[g][t]
      BY <2>1 DEF TypeOK
    <3> QED BY <2>1, <2>2, <3>1, AskMoves DEF Unrecorded
  <2>4. \A g \in Fills, t \in Slots : Unrecorded(g, t)' => t \notin snap'
    BY <2>1, <2>3 DEF AskInv
  <2>5. \A t \in Missing' : (\A g \in Fills : ~Unrecorded(g, t)') => bought'[t] <= lost'[t]
    BY <2>1, <2>3 DEF AskInv, Missing
  <2> QED BY <2>1, <2>3, <2>4, <2>5 DEF AskInv, OnlyLostIsRebought
<1>8. ASSUME NEW f \in Fills, NEW s \in Slots, CallFailed(f, s)
      PROVE  AskInv'
  <2>1. /\ UNCHANGED <<snap, cut, fill, bought>> /\ phase' = [phase EXCEPT ![f][s] = "done"]
        /\ Unrecorded(f, s) /\ lost' = [lost EXCEPT ![s] = @ + 1]
    BY <1>8 DEF CallFailed
  <2>2. InWork(f, s)
    BY <2>1 DEF InWork, Unrecorded
  <2>3. /\ \A g \in Fills : ~cut'[g]
        /\ \A g \in Fills, t \in Slots : InWork(g, t)' => fill'[g] = "running"
        /\ \A g \in Fills, t \in Slots : t # s => (Unrecorded(g, t)' <=> Unrecorded(g, t))
        /\ \A g \in Fills : g # f => ~Unrecorded(g, s)'
        /\ ~Unrecorded(f, s)'
    <3>1. /\ phase'[f][s] = "done"
          /\ \A g \in Fills, t \in Slots : t # s \/ g # f => phase'[g][t] = phase[g][t]
      BY <2>1 DEF TypeOK
    <3> QED BY <2>1, <2>2, <3>1, AskMoves DEF Unrecorded
  <2>4. /\ lost'[s] = lost[s] + 1 /\ lost[s] \in Nat /\ bought[s] \in Nat
        /\ bought[s] <= 1 + lost[s]
        /\ \A t \in Slots : t # s => lost'[t] = lost[t]
    BY <2>1 DEF AskInv, OnlyLostIsRebought, TypeOK
  <2>5. bought'[s] <= lost'[s] /\ OnlyLostIsRebought'
    BY <2>1, <2>4 DEF AskInv, OnlyLostIsRebought
  <2>6. \A g \in Fills, t \in Slots : Unrecorded(g, t)' => t \notin snap'
    BY <2>1, <2>3 DEF AskInv
  <2>7. \A t \in Missing' : (\A g \in Fills : ~Unrecorded(g, t)') => bought'[t] <= lost'[t]
    BY <2>1, <2>3, <2>4, <2>5 DEF AskInv, Missing
  <2> QED BY <2>3, <2>5, <2>6, <2>7 DEF AskInv
<1>9. ASSUME NEW f \in Fills, FinalizeRunFill(f)
      PROVE  AskInv'
  <2>1. UNCHANGED <<snap, cut, bought, lost, phase>> /\ \E x : fill' = [fill EXCEPT ![f] = x]
    BY <1>9 DEF FinalizeRunFill, WriteOutcome
  <2>2. \A s \in Slots : ~InWork(f, s)
    BY <1>9 DEF FinalizeRunFill, FillOver, AskInv, InWork
  <2>3. \A g \in Fills, s \in Slots : InWork(g, s)' => InWork(g, s) /\ fill'[g] = "running"
    BY <2>1, <2>2 DEF TypeOK, AskInv, InWork
  <2>4. \A g \in Fills, s \in Slots : Unrecorded(g, s)' <=> Unrecorded(g, s)
    BY <2>1 DEF Unrecorded
  <2> QED BY <2>1, <2>3, <2>4, AskKept
<1>10. CASE Restart
  <2>1. UNCHANGED <<snap, cut, bought, lost, phase>>
    BY <1>10 DEF Restart
  <2>2. \A f \in Fills, s \in Slots : ~InWork(f, s)' /\ (Unrecorded(f, s)' <=> Unrecorded(f, s))
    BY <1>10, <2>1 DEF Restart, DownInv, InWork, Unrecorded
  <2> QED BY <2>1, <2>2, AskKept
<1>11. CASE SweepQueued \/ SweepEnds \/ Closes \/ UNCHANGED vars
  BY <1>2, <1>11 DEF SweepQueued, SweepEnds, Closes, vars
<1>12. (\E f \in Fills, s \in Slots : WorkerThrows(f, s)) \/ (\E f \in Fills : FillAborted(f))
         => FALSE
  BY DEF WorkerThrows, FillAborted
<1> QED
  BY <1>1, <1>3, <1>4, <1>5, <1>6, <1>7, <1>8, <1>9, <1>10, <1>11, <1>12
  DEF Next, Pull, CallReturns, EndFill, AdmitThenCrash, Crash, EndThenCrash

-----------------------------------------------------------------------------
(* The run's status and its error. *)

LEMMA RunStep ==
  ASSUME TypeOK, CompletedIsWhole, GapsStayNamed, [Next]_vars
  PROVE  CompletedIsWhole' /\ GapsStayNamed'
<1> USE DEF sweepVars, runVars, workVars, procVars, historyVars
<1>1. CASE UNCHANGED <<status, named, snap>>
  BY <1>1 DEF CompletedIsWhole, GapsStayNamed, Gaps, Missing
<1>2. ASSUME NEW f \in Fills, WriteOutcome(f), snap' = snap
      PROVE  CompletedIsWhole' /\ GapsStayNamed'
  <2>1. Missing' = Missing /\ Gaps' = Gaps
    BY <1>2 DEF Missing, Gaps
  <2> QED
    BY <1>2, <2>1 DEF WriteOutcome, Complete, ErrorNow, CompletedIsWhole, GapsStayNamed, TypeOK
<1>3. ASSUME NEW f \in Fills, NEW s \in Slots, RecordSlot(f, s)
      PROVE  CompletedIsWhole' /\ GapsStayNamed'
  <2>1. UNCHANGED <<status, named>> /\ snap' = snap \cup {s}
    BY <1>3 DEF RecordSlot
  <2>2. Missing' \subseteq Missing /\ Gaps' \subseteq Gaps
    BY <2>1 DEF Missing, Gaps
  <2> QED BY <2>1, <2>2 DEF CompletedIsWhole, GapsStayNamed
<1>4. ASSUME NEW f \in Fills, NEW asked \in SUBSET Providers,
             AdmitFill(f, asked) \/ AdmitThenCrash(f, asked)
      PROVE  UNCHANGED <<status, named, snap>>
  BY <1>4 DEF AdmitFill, AdmitThenCrash, Die
<1>5. ASSUME NEW f \in Fills, EndFill(f) \/ EndThenCrash(f)
      PROVE  CompletedIsWhole' /\ GapsStayNamed'
  BY <1>1, <1>2, <1>5 DEF EndFill, FinalizeRunFill, FillAborted, EndThenCrash, Die
<1>6. ASSUME NEW f \in Fills, NEW s \in Slots,
             SkipSlot(f, s) \/ JoinGate(f, s) \/ CallProvider(f, s)
               \/ WorkerThrows(f, s) \/ AnswerArrives(f, s) \/ CallFailed(f, s)
      PROVE  UNCHANGED <<status, named, snap>>
  BY <1>6 DEF SkipSlot, JoinGate, CallProvider, WorkerThrows, AnswerArrives, CallFailed
<1>7. CASE SweepQueued \/ SweepEnds \/ Closes \/ Crash \/ Restart \/ UNCHANGED vars
  BY <1>1, <1>7 DEF SweepQueued, SweepEnds, Closes, Crash, Die, Restart, vars
<1> QED
  BY <1>1, <1>3, <1>4, <1>5, <1>6, <1>7 DEF Next, Pull, CallReturns

-----------------------------------------------------------------------------
(* The invariant, and what follows. *)

LEMMA InvInit == Init => IInv
<1> SUFFICES ASSUME Init PROVE IInv
  OBVIOUS
<1>1. OneFill /\ DownInv /\ CompletedIsWhole /\ GapsStayNamed
  BY DEF Init, OneFill, ActiveFills, DownInv, CompletedIsWhole, GapsStayNamed
<1>2. AskInv
  BY DEF Init, AskInv, InWork, Unrecorded, Missing, OnlyLostIsRebought
<1> QED
  BY <1>1, <1>2, TypeInit, BreakerInit DEF IInv

LEMMA InvStep == IInv /\ [Next]_vars => IInv'
BY TypeStep, BreakerStep, OneFillStep, DownStep, AskStep, RunStep DEF IInv

\* The inductive invariant: how far each provider's failures may go, which fill
\* is at work and what it may still buy, and what the run's status and error say.
THEOREM Invariant == Spec => []IInv
BY InvInit, InvStep, PTL DEF Spec

\* A failing provider is asked at most the breaker's calls in a row and the
\* ones that were out already, whatever else fails.
THEOREM BreakerBounds == Spec => []FailuresBounded
<1>1. IInv => FailuresBounded
  <2> SUFFICES ASSUME IInv, NEW f \in Fills, NEW p \in Providers
               PROVE  fails[f][p] <= Breaker - 1 + Concurrency[p]
    BY DEF FailuresBounded
  <2>1. /\ fails[f][p] \in Nat /\ Breaker \in Nat /\ Concurrency[p] \in Nat
        /\ Cardinality(InHand(f, p)) \in Nat
    BY FillAssumption, InHandNat DEF IInv, TypeOK
  <2> QED BY <2>1 DEF IInv, BreakerInv
<1> QED
  BY <1>1, Invariant, PTL

\* While the database takes its writes, a slot is called for again only after a
\* call for it failed or died with the process, across any number of attempts,
\* newer sweeps and crashes: an answer that is stored, on its way or in memory is
\* not bought again.
THEOREM OnlyLostRebought == StorageErrors = FALSE => (Spec => []OnlyLostIsRebought)
<1> SUFFICES ASSUME StorageErrors = FALSE PROVE Spec => []OnlyLostIsRebought
  OBVIOUS
<1>1. IInv => OnlyLostIsRebought
  BY DEF IInv, AskInv
<1> QED
  BY <1>1, Invariant, PTL

\* A fill completes a run only when no provider has a gap left.
THEOREM CompletedWhole == Spec => []CompletedIsWhole
<1>1. IInv => CompletedIsWhole
  BY DEF IInv
<1> QED
  BY <1>1, Invariant, PTL

\* A partial run's error names every provider that still has a gap.
THEOREM GapsNamed == Spec => []GapsStayNamed
<1>1. IInv => GapsStayNamed
  BY DEF IInv
<1> QED
  BY <1>1, Invariant, PTL

\* Status, error and gaps of the run agree.
THEOREM OutcomeHonest == Spec => []StatusAndErrorAgree
<1>1. CompletedIsWhole /\ GapsStayNamed => StatusAndErrorAgree
  BY DEF StatusAndErrorAgree
<1> QED
  BY <1>1, CompletedWhole, GapsNamed, PTL

LEMMA YieldStep ==
  ASSUME TypeOK, [Next]_vars, NewerFullSweep
  PROVE  UNCHANGED <<calls, reports>>
<1> USE DEF sweepVars, runVars, workVars, procVars, historyVars
<1>1. ASSUME NEW f \in Fills, NEW asked \in SUBSET Providers,
             AdmitFill(f, asked) \/ AdmitThenCrash(f, asked)
      PROVE  UNCHANGED <<calls, reports>>
  BY <1>1 DEF AdmitFill, AdmitThenCrash, Die
<1>2. ASSUME NEW f \in Fills, NEW s \in Slots,
             SkipSlot(f, s) \/ JoinGate(f, s) \/ WorkerThrows(f, s)
               \/ AnswerArrives(f, s) \/ RecordSlot(f, s) \/ CallFailed(f, s)
      PROVE  UNCHANGED <<calls, reports>>
  BY <1>2 DEF SkipSlot, JoinGate, WorkerThrows, AnswerArrives, RecordSlot, CallFailed
<1>3. ASSUME NEW f \in Fills, NEW s \in Slots, CallProvider(f, s)
      PROVE  FALSE
  BY <1>3 DEF CallProvider, MayCall, ShouldSkip, NewerSweepExists
<1>4. ASSUME NEW f \in Fills, FinalizeRunFill(f)
      PROVE  UNCHANGED <<calls, reports>>
  BY <1>4 DEF FinalizeRunFill, Superseded, TypeOK
<1>5. ASSUME NEW f \in Fills, FillAborted(f) \/ EndThenCrash(f)
      PROVE  UNCHANGED <<calls, reports>>
  BY <1>5 DEF FillAborted, EndThenCrash, Die
<1>6. CASE SweepQueued \/ SweepEnds \/ Closes \/ Crash \/ Restart \/ UNCHANGED vars
  BY <1>6 DEF SweepQueued, SweepEnds, Closes, Crash, Die, Restart, vars
<1> QED
  BY <1>1, <1>2, <1>3, <1>4, <1>5, <1>6 DEF Next, Pull, CallReturns, EndFill

\* Behind a newer sweep of the project no provider is called and no completion
\* reported.
THEOREM Yields == Spec => YieldsToNewerSweep
<1>1. TypeOK /\ [Next]_vars => [NewerFullSweep => UNCHANGED <<calls, reports>>]_vars
  BY YieldStep
<1> QED
  BY <1>1, TypeCorrect, PTL DEF Spec, YieldsToNewerSweep

-----------------------------------------------------------------------------
(* The end of a whole run. *)

\* While database accesses succeed and the process lives, the fill that stores
\* the last missing answer is at work, and its end completes the run.
LEMMA WholeStep ==
  ASSUME IInv, WholeRunIsCompleted, [Next]_vars
  PROVE  WholeRunIsCompleted'
<1> USE DEF IInv, sweepVars, runVars, workVars, procVars, historyVars
<1> SUFFICES ASSUME \E f \in Fills : filled'[f] > 0, Missing' = {}, ActiveFills' = {},
                    crashes' = 0, ~StorageErrors
             PROVE  status' = "completed"
  BY DEF WholeRunIsCompleted
<1>1. CASE UNCHANGED <<filled, snap, fill, status>> /\ crashes' = crashes
  BY <1>1 DEF WholeRunIsCompleted, Missing, ActiveFills
<1>2. CASE Die
  BY <1>2 DEF Die, TypeOK
<1>3. CASE SweepQueued \/ SweepEnds \/ Closes \/ UNCHANGED vars
  BY <1>1, <1>3 DEF SweepQueued, SweepEnds, Closes, vars
<1>4. CASE Restart
  BY <1>4 DEF Restart, DownInv
<1>5. ASSUME NEW f \in Fills, NEW asked \in SUBSET Providers, AdmitFill(f, asked)
      PROVE  FALSE
  BY <1>5 DEF AdmitFill, ActiveFills, TypeOK
<1>6. ASSUME NEW f \in Fills, NEW s \in Slots, RecordSlot(f, s)
      PROVE  FALSE
  BY <1>6 DEF RecordSlot, ActiveFills, AskInv, InWork
<1>7. ASSUME NEW f \in Fills, FinalizeRunFill(f)
      PROVE  status' = "completed"
  BY <1>7 DEF FinalizeRunFill, WriteOutcome, Complete, Missing
<1>8. ASSUME NEW f \in Fills, NEW s \in Slots,
             SkipSlot(f, s) \/ JoinGate(f, s) \/ CallProvider(f, s) \/ AnswerArrives(f, s)
               \/ CallFailed(f, s)
      PROVE  status' = "completed"
  BY <1>1, <1>8 DEF SkipSlot, JoinGate, CallProvider, AnswerArrives, CallFailed
<1>9. (\E f \in Fills, s \in Slots : WorkerThrows(f, s)) \/ (\E f \in Fills : FillAborted(f))
        => FALSE
  BY DEF WorkerThrows, FillAborted
<1> QED
  BY <1>2, <1>3, <1>4, <1>5, <1>6, <1>7, <1>8, <1>9
  DEF Next, Pull, CallReturns, EndFill, AdmitThenCrash, Crash, EndThenCrash

\* A run with gaps that a fill closed is completed once no fill is at work.
THEOREM WholeCompleted == Spec => []WholeRunIsCompleted
<1>1. Init => WholeRunIsCompleted
  BY DEF Init, WholeRunIsCompleted
<1>2. IInv /\ WholeRunIsCompleted /\ [Next]_vars => WholeRunIsCompleted'
  BY WholeStep
<1> QED
  BY <1>1, <1>2, Invariant, PTL DEF Spec

-----------------------------------------------------------------------------
(* The quota of a fill. *)

LEMMA WaitingNat ==
  ASSUME NEW f, NEW p
  PROVE  IsFiniteSet(Waiting(f, p)) /\ Cardinality(Waiting(f, p)) \in Nat
BY CountNat DEF Waiting, Units

\* What the fill at work may still call for, its units and its claim.
LEMMA UnsentInt ==
  ASSUME TypeOK, NEW f \in Fills, NEW p \in Providers
  PROVE  /\ reserved[f][p] \in Nat /\ sent[f][p] \in Nat
         /\ Unsent(f, p) = reserved[f][p] - sent[f][p]
         /\ Unsent(f, p) \in Int /\ held[p] \in Int /\ calls[p] \in Nat
BY DEF Unsent, TypeOK

\* Steps of a fill that call for nothing: less is left to call for.
LEMMA ReserveKept ==
  ASSUME TypeOK, ReserveInv, UNCHANGED <<fill, reserved, sent>>, up' => up,
         \A f \in Fills, p \in Providers : Waiting(f, p)' \subseteq Waiting(f, p)
  PROVE  ReserveInv'
<1>1. (\A f \in Fills : fill[f] = "none" => sent[f] = Zero)'
  BY DEF ReserveInv, Zero
<1>2. ASSUME NEW f \in Fills, f \in AtWork', NEW p \in Providers
      PROVE  Cardinality(Waiting(f, p)') <= Unsent(f, p)'
  <2>1. Cardinality(Waiting(f, p)) <= Unsent(f, p)
    BY <1>2 DEF ReserveInv, AtWork
  <2>2. PICK S : S = Waiting(f, p)'
    OBVIOUS
  <2>3. S \subseteq Waiting(f, p) /\ Waiting(f, p) \subseteq Slots
    BY <2>2 DEF Waiting, Units
  <2>4. Cardinality(S) <= Cardinality(Waiting(f, p)) /\ Cardinality(S) \in Nat
    BY <2>3, WaitingNat, FS_Subset, CountNat
  <2>5. Unsent(f, p)' = Unsent(f, p)
    BY DEF Unsent
  <2> QED
    BY <2>1, <2>2, <2>4, <2>5, WaitingNat, UnsentInt
<1> QED
  BY <1>1, <1>2 DEF ReserveInv, AtWork

\* A fill that is over, or whose process died, reserves nothing.
LEMMA ReserveOver ==
  ASSUME ReserveInv, sent' \in {sent, [f \in Fills |-> Zero]},
         \A f \in Fills : fill'[f] = "none" => fill[f] = "none", AtWork' = {}
  PROVE  ReserveInv'
<1>1. (\A f \in Fills : fill[f] = "none" => sent[f] = Zero)'
  BY DEF ReserveInv, Zero
<1> QED
  BY <1>1 DEF ReserveInv

LEMMA ReserveCall ==
  ASSUME TypeOK, ReserveInv, NEW f \in Fills, NEW s \in Slots, CallProvider(f, s)
  PROVE  ReserveInv'
<1> DEFINE p == ProviderOf[s]
<1>1. /\ p \in Providers /\ phase[f][s] = "gate" /\ f \in AtWork
      /\ phase' = [phase EXCEPT ![f][s] = "flight"]
      /\ sent' = [sent EXCEPT ![f][p] = @ + 1]
      /\ UNCHANGED <<fill, reserved, up>>
  BY FillAssumption
  DEF CallProvider, MayCall, ItsTurn, ShouldSkip, Stopped, AttemptRemoved, AtWork, procVars
<1>2. (\A g \in Fills : fill[g] = "none" => sent[g] = Zero)'
  BY <1>1 DEF ReserveInv, AtWork, TypeOK, Zero
<1>3. ASSUME NEW g \in AtWork, NEW q \in Providers
      PROVE  Cardinality(Waiting(g, q)') <= Unsent(g, q)'
  <2>0. g \in Fills /\ Cardinality(Waiting(g, q)) <= Unsent(g, q)
    BY DEF ReserveInv, AtWork
  <2>1. CASE g = f /\ q = p
    <3>1. Waiting(g, q)' = Waiting(g, q) \ {s} /\ s \in Waiting(g, q)
      BY <1>1, <2>1 DEF Waiting, Units, TypeOK
    <3>2. Cardinality(Waiting(g, q) \ {s}) = Cardinality(Waiting(g, q)) - 1
      BY <3>1, WaitingNat, FS_RemoveElement
    <3>3. Unsent(g, q)' = Unsent(g, q) - 1
      BY <1>1, <2>1 DEF Unsent, TypeOK
    <3> QED
      BY <2>0, <3>1, <3>2, <3>3, WaitingNat, UnsentInt
  <2>2. CASE ~(g = f /\ q = p)
    <3>1. Waiting(g, q)' = Waiting(g, q)
      BY <1>1, <2>0, <2>2 DEF Waiting, Units, TypeOK
    <3>2. Unsent(g, q)' = Unsent(g, q)
      BY <1>1, <2>0, <2>2 DEF Unsent, TypeOK
    <3> QED
      BY <2>0, <3>1, <3>2
  <2> QED
    BY <2>1, <2>2
<1>4. AtWork' = AtWork
  BY <1>1 DEF AtWork
<1> QED
  BY <1>2, <1>3, <1>4 DEF ReserveInv

\* Admission reserves a unit for every slot the fill will ask for, and takes
\* them from the day's counter.
LEMMA AdmitReserves ==
  ASSUME TypeOK, NEW f \in Fills, NEW asked \in SUBSET Providers, AdmitFill(f, asked)
  PROVE  \E reserve \in [Providers -> Nat] :
           /\ reserved' = [reserved EXCEPT ![f] = reserve]
           /\ held' = [p \in Providers |-> held[p] + reserve[p]]
           /\ \A p \in Providers : Cardinality(Waiting(f, p)') <= reserve[p]
<1>1. PICK served \in SUBSET asked :
        LET reserve == [p \in Providers |-> IF p \in served THEN Needed(p, asked) ELSE 0]
        IN /\ reserved' = [reserved EXCEPT ![f] = reserve]
           /\ held' = [p \in Providers |-> held[p] + reserve[p]]
           /\ \E threw \in {FALSE, StorageErrors} :
                /\ cut' = [cut EXCEPT ![f] = threw]
                /\ phase' = [phase EXCEPT ![f] =
                     [s \in Slots |->
                        IF s \in ToAsk(served) /\ ~threw THEN "todo" ELSE "idle"]]
  BY DEF AdmitFill
<1> DEFINE reserve == [p \in Providers |-> IF p \in served THEN Needed(p, asked) ELSE 0]
<1>2. reserve \in [Providers -> Nat]
  BY NeededNat
<1>3. \A s \in Slots : phase'[f][s] \in {"todo", "gate"} => s \in ToAsk(served)
  BY <1>1 DEF TypeOK
<1>4. ASSUME NEW p \in Providers
      PROVE  Cardinality(Waiting(f, p)') <= reserve[p]
  <2>1. PICK S : S = Waiting(f, p)'
    OBVIOUS
  <2>2. S \subseteq {s \in Slots : s \in ToAsk(served) /\ ProviderOf[s] = p}
    BY <1>3, <2>1 DEF Waiting, Units
  <2>3. CASE p \in served
    <3>1. S \subseteq {s \in ToAsk(asked) : ProviderOf[s] = p}
      BY <2>2 DEF ToAsk
    <3>2. {s \in ToAsk(asked) : ProviderOf[s] = p} \subseteq Slots
      BY DEF ToAsk, Missing
    <3>3. Cardinality(S) <= Needed(p, asked)
      BY <3>1, <3>2, CountNat, FS_Subset DEF Needed
    <3> QED
      BY <2>1, <2>3, <3>3
  <2>4. CASE p \notin served
    <3>1. S = {}
      BY <2>2, <2>4 DEF ToAsk
    <3> QED
      BY <2>1, <2>4, <3>1, FS_EmptySet
  <2> QED
    BY <2>3, <2>4
<1> HIDE DEF reserve
<1>5. reserved' = [reserved EXCEPT ![f] = reserve]
      /\ held' = [p \in Providers |-> held[p] + reserve[p]]
  BY <1>1 DEF reserve
<1> QED
  BY <1>2, <1>4, <1>5

\* The fill that was admitted is the only one at work.
LEMMA AdmitAlone ==
  ASSUME TypeOK, NEW f \in Fills, NEW asked \in SUBSET Providers, AdmitFill(f, asked)
  PROVE  /\ ActiveFills = {} /\ fill[f] = "none" /\ AtWork' = {f} /\ f \in ActiveFills'
         /\ \A g \in Fills : fill'[g] = "none" => fill[g] = "none"
         /\ UNCHANGED <<sent, calls, crashes>>
<1>1. /\ ActiveFills = {} /\ fill[f] = "none" /\ up /\ up' = up
      /\ fill' = [fill EXCEPT ![f] = "running"] /\ UNCHANGED <<sent, calls, crashes>>
  BY DEF AdmitFill, Admissible, Busy, procVars, historyVars
<1>2. AtWork' = {f} /\ f \in ActiveFills'
  BY <1>1 DEF AtWork, ActiveFills, TypeOK
<1> QED
  BY <1>1, <1>2 DEF TypeOK

LEMMA ReserveAdmit ==
  ASSUME TypeOK, TypeOK', ReserveInv, NEW f \in Fills, NEW asked \in SUBSET Providers,
         AdmitFill(f, asked)
  PROVE  ReserveInv'
<1>1. PICK reserve \in [Providers -> Nat] :
        /\ reserved' = [reserved EXCEPT ![f] = reserve]
        /\ \A p \in Providers : Cardinality(Waiting(f, p)') <= reserve[p]
  BY AdmitReserves
<1>2. ASSUME NEW p \in Providers PROVE Unsent(f, p)' = reserve[p]
  <2>1. sent[f][p] = 0 /\ sent' = sent
    BY AdmitAlone DEF ReserveInv, Zero
  <2>2. reserved'[f][p] = reserve[p]
    BY <1>1 DEF TypeOK
  <2> QED
    BY <1>1, <2>1, <2>2 DEF Unsent
<1>3. \A g \in AtWork', p \in Providers : Cardinality(Waiting(g, p)') <= Unsent(g, p)'
  BY <1>1, <1>2, AdmitAlone
<1>4. (\A g \in Fills : fill[g] = "none" => sent[g] = Zero)'
  BY AdmitAlone DEF ReserveInv, Zero
<1> QED
  BY <1>3, <1>4 DEF ReserveInv

\* The end of a fill, as far as its quota goes.
LEMMA EndsAlone ==
  ASSUME TypeOK, OneFill, NEW f \in Fills, EndFill(f)
  PROVE  /\ AtWork = {f} /\ AtWork' = {} /\ up
         /\ \A g \in Fills : fill'[g] = "none" => fill[g] = "none"
         /\ UNCHANGED <<sent, calls, crashes>>
<1>1. /\ up /\ up' = up /\ fill[f] = "running" /\ UNCHANGED <<sent, calls, crashes>>
      /\ \E x \in {"completed", "partial", "failed"} : fill' = [fill EXCEPT ![f] = x]
  BY DEF EndFill, FinalizeRunFill, FillAborted, FillOver, WriteOutcome, EndOf, procVars,
         historyVars
<1>2. AtWork = {f}
  BY <1>1 DEF AtWork, OneFill, ActiveFills
<1>3. AtWork' = {}
  BY <1>1, <1>2 DEF AtWork, TypeOK
<1> QED
  BY <1>1, <1>2, <1>3 DEF TypeOK

\* The steps of a fill that call for nothing.
LEMMA WorksQuietly ==
  ASSUME TypeOK, NEW f \in Fills, NEW s \in Slots,
         SkipSlot(f, s) \/ JoinGate(f, s) \/ WorkerThrows(f, s) \/ AnswerArrives(f, s)
           \/ RecordSlot(f, s) \/ CallFailed(f, s)
  PROVE  /\ UNCHANGED <<fill, held, reserved, sent, up, calls, crashes>>
         /\ \A g \in Fills, p \in Providers : Waiting(g, p)' \subseteq Waiting(g, p)
<1>1. UNCHANGED <<fill, held, reserved, sent, up, calls, crashes>>
  BY DEF SkipSlot, JoinGate, WorkerThrows, AnswerArrives, RecordSlot, CallFailed, procVars,
         historyVars
<1>2. \/ phase' = [phase EXCEPT ![f][s] = "done"]
      \/ phase' = [phase EXCEPT ![f][s] = "gate"] /\ phase[f][s] = "todo"
      \/ phase' = [phase EXCEPT ![f][s] = "answer"]
  BY DEF SkipSlot, JoinGate, WorkerThrows, AnswerArrives, RecordSlot, CallFailed, Pulls
<1>3. /\ \A g \in Fills, t \in Slots : g # f \/ t # s => phase'[g][t] = phase[g][t]
      /\ phase'[f][s] \in {"todo", "gate"} => phase[f][s] \in {"todo", "gate"}
  BY <1>2 DEF TypeOK
<1>4. \A g \in Fills, p \in Providers : Waiting(g, p)' \subseteq Waiting(g, p)
  BY <1>3 DEF Waiting, Units
<1> QED
  BY <1>1, <1>4

LEMMA DeathEndsWork ==
  ASSUME TypeOK, Crash \/ (\E f \in Fills, asked \in SUBSET Providers : AdmitThenCrash(f, asked))
                 \/ \E f \in Fills : EndThenCrash(f)
  PROVE  /\ AtWork' = {} /\ sent' = [f \in Fills |-> Zero] /\ calls' = calls /\ crashes' > 0
         /\ \A g \in Fills : fill'[g] = "none" => fill[g] = "none"
<1>1. Die
  BY DEF Crash, AdmitThenCrash, EndThenCrash
<1>2. AtWork' = {} /\ sent' = [f \in Fills |-> Zero] /\ calls' = calls /\ crashes' > 0
  BY <1>1, FillAssumption DEF Die, AtWork, TypeOK
<1>3. CASE Crash
  BY <1>2, <1>3 DEF Crash
<1>4. ASSUME NEW f \in Fills, NEW asked \in SUBSET Providers, AdmitThenCrash(f, asked)
      PROVE  \A g \in Fills : fill'[g] = "none" => fill[g] = "none"
  BY <1>4 DEF AdmitThenCrash, TypeOK
<1>5. ASSUME NEW f \in Fills, EndThenCrash(f)
      PROVE  \A g \in Fills : fill'[g] = "none" => fill[g] = "none"
  BY <1>5 DEF EndThenCrash, WriteOutcome, EndOf, TypeOK
<1> QED
  BY <1>2, <1>3, <1>4, <1>5

LEMMA ReserveStep ==
  ASSUME IInv, TypeOK', ReserveInv, [Next]_vars
  PROVE  ReserveInv'
<1> USE DEF IInv
<1>1. CASE SweepQueued \/ SweepEnds \/ Closes \/ UNCHANGED vars
  <2>1. UNCHANGED <<fill, reserved, sent, up, phase>>
    BY <1>1 DEF SweepQueued, SweepEnds, Closes, vars, workVars, procVars
  <2>2. \A f \in Fills, p \in Providers : Waiting(f, p)' \subseteq Waiting(f, p)
    BY <2>1 DEF Waiting, Units
  <2> QED
    BY <2>1, <2>2, ReserveKept
<1>2. ASSUME NEW f \in Fills, NEW asked \in SUBSET Providers, AdmitFill(f, asked)
      PROVE  ReserveInv'
  BY <1>2, ReserveAdmit
<1>3. ASSUME NEW f \in Fills, NEW s \in Slots, CallProvider(f, s)
      PROVE  ReserveInv'
  BY <1>3, ReserveCall
<1>4. ASSUME NEW f \in Fills, NEW s \in Slots,
             SkipSlot(f, s) \/ JoinGate(f, s) \/ WorkerThrows(f, s) \/ AnswerArrives(f, s)
               \/ RecordSlot(f, s) \/ CallFailed(f, s)
      PROVE  ReserveInv'
  BY <1>4, WorksQuietly, ReserveKept
<1>5. ASSUME NEW f \in Fills, EndFill(f) PROVE ReserveInv'
  BY <1>5, EndsAlone, ReserveOver
<1>6. CASE Crash \/ (\E f \in Fills, asked \in SUBSET Providers : AdmitThenCrash(f, asked))
           \/ \E f \in Fills : EndThenCrash(f)
  BY <1>6, DeathEndsWork, ReserveOver
<1>7. CASE Restart
  <2>1. sent' = sent /\ AtWork' = {} /\ \A f \in Fills : fill'[f] = "none" => fill[f] = "none"
    BY <1>7 DEF Restart, Recovered, AtWork, workVars, TypeOK
  <2> QED
    BY <2>1, ReserveOver
<1> QED
  BY <1>1, <1>2, <1>3, <1>4, <1>5, <1>6, <1>7 DEF Next, Pull, CallReturns

\* Steps that neither reserve, call nor give back.
LEMMA HeldKept ==
  ASSUME HeldInv, UNCHANGED <<held, calls, reserved, sent, crashes>>,
         AtWork' \subseteq AtWork, ActiveFills' = ActiveFills
  PROVE  HeldInv'
<1>1. \A f, p : Unsent(f, p)' = Unsent(f, p)
  BY DEF Unsent
<1> QED
  BY <1>1 DEF HeldInv

\* Steps after which nobody is at work.
LEMMA HeldOver ==
  ASSUME AtWork' = {}, \A p \in Providers : held'[p] >= calls'[p],
         crashes' = 0 /\ ~StorageErrors => \A p \in Providers : held'[p] = calls'[p]
  PROVE  HeldInv'
BY DEF HeldInv

LEMMA HeldAdmit ==
  ASSUME TypeOK, TypeOK', ReserveInv, HeldInv, NEW f \in Fills,
         NEW asked \in SUBSET Providers, AdmitFill(f, asked)
  PROVE  HeldInv'
<1>1. PICK reserve \in [Providers -> Nat] :
        /\ reserved' = [reserved EXCEPT ![f] = reserve]
        /\ held' = [p \in Providers |-> held[p] + reserve[p]]
  BY AdmitReserves
<1>2. ASSUME NEW p \in Providers
      PROVE  /\ held'[p] >= calls'[p] /\ held'[p] >= calls'[p] + Unsent(f, p)'
             /\ crashes' = 0 /\ ~StorageErrors => held'[p] = calls'[p] + Unsent(f, p)'
  <2>1. sent[f][p] = 0 /\ sent' = sent /\ calls' = calls /\ crashes' = crashes
    BY AdmitAlone DEF ReserveInv, Zero
  <2>2. reserved'[f][p] = reserve[p] /\ reserve[p] \in Nat
    BY <1>1 DEF TypeOK
  <2>3. Unsent(f, p)' = reserve[p]
    BY <2>1, <2>2 DEF Unsent
  <2>4. held'[p] = held[p] + reserve[p] /\ held[p] \in Int /\ calls[p] \in Nat
    BY <1>1 DEF TypeOK
  <2>5. held[p] >= calls[p] /\ (crashes = 0 /\ ~StorageErrors => held[p] = calls[p])
    BY AdmitAlone DEF HeldInv
  <2> QED
    BY <2>1, <2>2, <2>3, <2>4, <2>5
<1>3. AtWork' = {f} /\ ActiveFills' # {}
  BY AdmitAlone
<1> QED
  BY <1>2, <1>3 DEF HeldInv

\* A call takes a unit the fill had reserved for it.
LEMMA HeldCall ==
  ASSUME TypeOK, TypeOK', OneFill, ReserveInv', HeldInv, NEW f \in Fills, NEW s \in Slots,
         CallProvider(f, s)
  PROVE  HeldInv'
<1> DEFINE q == ProviderOf[s]
<1>1. /\ q \in Providers /\ f \in AtWork
      /\ sent' = [sent EXCEPT ![f][q] = @ + 1]
      /\ calls' = [calls EXCEPT ![q] = @ + 1]
      /\ UNCHANGED <<fill, held, reserved, up, crashes>>
  BY FillAssumption
  DEF CallProvider, MayCall, ItsTurn, ShouldSkip, Stopped, AttemptRemoved, AtWork, procVars
<1>2. AtWork' = {f} /\ AtWork = {f} /\ f \in ActiveFills'
  BY <1>1 DEF AtWork, ActiveFills, OneFill
<1>3. ASSUME NEW p \in Providers
      PROVE  /\ held'[p] >= calls'[p] /\ held'[p] >= calls'[p] + Unsent(f, p)'
             /\ crashes' = 0 /\ ~StorageErrors => held'[p] = calls'[p] + Unsent(f, p)'
  <2>1. PICK k \in Nat : k = IF p = q THEN 1 ELSE 0
    OBVIOUS
  <2>2. calls'[p] = calls[p] + k /\ Unsent(f, p)' = Unsent(f, p) - k
    <3>1. calls'[p] = calls[p] + k
      BY <1>1, <2>1 DEF TypeOK
    <3>2. sent'[f][p] = sent[f][p] + k /\ reserved'[f][p] = reserved[f][p]
      BY <1>1, <2>1 DEF TypeOK
    <3> QED
      BY <2>1, <3>1, <3>2, UnsentInt DEF Unsent
  <2>3. Unsent(f, p)' >= 0
    <3>1. PICK S : S = Waiting(f, p)'
      OBVIOUS
    <3>2. S \subseteq Slots
      BY <3>1 DEF Waiting, Units
    <3>3. Cardinality(S) \in Nat
      BY <3>2, CountNat
    <3>4. Cardinality(S) <= Unsent(f, p)'
      BY <1>2, <3>1 DEF ReserveInv
    <3> QED
      BY <2>1, <2>2, <3>3, <3>4, UnsentInt
  <2>4. /\ held[p] >= calls[p] + Unsent(f, p)
        /\ crashes = 0 /\ ~StorageErrors => held[p] = calls[p] + Unsent(f, p)
    BY <1>1 DEF HeldInv
  <2>5. held'[p] = held[p] /\ crashes' = crashes
    BY <1>1
  <2> QED
    BY <2>1, <2>2, <2>3, <2>4, <2>5, UnsentInt
<1> QED
  BY <1>2, <1>3 DEF HeldInv

\* A fill that ends gives back no more than it has left to send.
LEMMA HeldGivenBack ==
  ASSUME TypeOK, ReserveInv, HeldInv, NEW f \in AtWork, NEW P \in SUBSET Providers,
         held' = [p \in Providers |-> held[p] - IF p \in P THEN Unsent(f, p) ELSE 0]
  PROVE  /\ \A p \in Providers : held'[p] >= calls[p]
         /\ P = Providers /\ crashes = 0 /\ ~StorageErrors =>
              \A p \in Providers : held'[p] = calls[p]
<1> SUFFICES ASSUME NEW p \in Providers
             PROVE  /\ held'[p] >= calls[p]
                    /\ P = Providers /\ crashes = 0 /\ ~StorageErrors => held'[p] = calls[p]
  OBVIOUS
<1>1. f \in Fills
  BY DEF AtWork
<1>2. /\ held[p] >= calls[p] /\ held[p] >= calls[p] + Unsent(f, p)
      /\ crashes = 0 /\ ~StorageErrors => held[p] = calls[p] + Unsent(f, p)
  BY DEF HeldInv
<1>3. held'[p] = held[p] - IF p \in P THEN Unsent(f, p) ELSE 0
  OBVIOUS
<1> QED
  BY <1>1, <1>2, <1>3, UnsentInt

LEMMA HeldEnds ==
  ASSUME TypeOK, OneFill, ReserveInv, HeldInv, NEW f \in Fills, EndFill(f)
  PROVE  HeldInv'
<1>1. PICK P \in SUBSET Providers :
        /\ held' = [p \in Providers |-> held[p] - IF p \in P THEN Unsent(f, p) ELSE 0]
        /\ P = Providers \/ StorageErrors
  BY DEF EndFill, FinalizeRunFill, FillAborted, Flush
<1>2. f \in AtWork /\ AtWork' = {} /\ UNCHANGED <<calls, crashes>>
  BY EndsAlone
<1>3. \A p \in Providers : held'[p] >= calls[p]
  BY <1>1, <1>2, HeldGivenBack
<1>4. crashes = 0 /\ ~StorageErrors => \A p \in Providers : held'[p] = calls[p]
  BY <1>1, <1>2, HeldGivenBack
<1> QED
  BY <1>2, <1>3, <1>4, HeldOver

LEMMA HeldDeath ==
  ASSUME TypeOK, ReserveInv, HeldInv,
         Crash \/ (\E f \in Fills, asked \in SUBSET Providers : AdmitThenCrash(f, asked))
               \/ \E f \in Fills : EndThenCrash(f)
  PROVE  HeldInv'
<1>1. \A p \in Providers : held[p] >= calls[p] /\ held[p] \in Int /\ calls[p] \in Nat
  BY DEF HeldInv, TypeOK
<1>2. CASE Crash
  <2>1. \A p \in Providers : held'[p] >= calls[p]
    BY <1>1, <1>2 DEF Crash
  <2> QED
    BY <1>2, <2>1, DeathEndsWork, HeldOver
<1>3. ASSUME NEW f \in Fills, NEW asked \in SUBSET Providers, AdmitThenCrash(f, asked)
      PROVE  HeldInv'
  <2>1. PICK served \in SUBSET asked :
          held' = [p \in Providers |-> held[p] + IF p \in served THEN Needed(p, asked) ELSE 0]
    BY <1>3 DEF AdmitThenCrash
  <2>2. \A p \in Providers : held'[p] >= calls[p]
    BY <1>1, <2>1, NeededNat
  <2> QED
    BY <1>3, <2>2, DeathEndsWork, HeldOver
<1>4. ASSUME NEW f \in Fills, EndThenCrash(f)
      PROVE  HeldInv'
  <2>1. PICK P \in SUBSET Providers :
          held' = [p \in Providers |-> held[p] - IF p \in P THEN Unsent(f, p) ELSE 0]
    BY <1>4 DEF EndThenCrash
  <2>2. f \in AtWork
    BY <1>4 DEF EndThenCrash, FillOver, AtWork
  <2>3. \A p \in Providers : held'[p] >= calls[p]
    BY <2>1, <2>2, HeldGivenBack
  <2> QED
    BY <1>4, <2>3, DeathEndsWork, HeldOver
<1> QED
  BY <1>2, <1>3, <1>4

LEMMA HeldStep ==
  ASSUME IInv, TypeOK', ReserveInv, ReserveInv', HeldInv, [Next]_vars
  PROVE  HeldInv'
<1> USE DEF IInv
<1>1. CASE SweepQueued \/ SweepEnds \/ Closes \/ UNCHANGED vars
  <2>1. UNCHANGED <<fill, held, calls, reserved, sent, up, crashes>>
    BY <1>1 DEF SweepQueued, SweepEnds, Closes, vars, workVars, procVars, historyVars
  <2>2. AtWork' = AtWork /\ ActiveFills' = ActiveFills
    BY <2>1 DEF AtWork, ActiveFills
  <2> QED
    BY <2>1, <2>2, HeldKept
<1>2. ASSUME NEW f \in Fills, NEW asked \in SUBSET Providers, AdmitFill(f, asked)
      PROVE  HeldInv'
  BY <1>2, HeldAdmit
<1>3. ASSUME NEW f \in Fills, NEW s \in Slots, CallProvider(f, s)
      PROVE  HeldInv'
  BY <1>3, HeldCall
<1>4. ASSUME NEW f \in Fills, NEW s \in Slots,
             SkipSlot(f, s) \/ JoinGate(f, s) \/ WorkerThrows(f, s) \/ AnswerArrives(f, s)
               \/ RecordSlot(f, s) \/ CallFailed(f, s)
      PROVE  HeldInv'
  <2>1. UNCHANGED <<fill, held, reserved, sent, up, calls, crashes>>
    BY <1>4, WorksQuietly
  <2>2. AtWork' = AtWork /\ ActiveFills' = ActiveFills
    BY <2>1 DEF AtWork, ActiveFills
  <2> QED
    BY <2>1, <2>2, HeldKept
<1>5. ASSUME NEW f \in Fills, EndFill(f) PROVE HeldInv'
  BY <1>5, HeldEnds
<1>6. CASE Crash \/ (\E f \in Fills, asked \in SUBSET Providers : AdmitThenCrash(f, asked))
           \/ \E f \in Fills : EndThenCrash(f)
  BY <1>6, HeldDeath
<1>7. CASE Restart
  <2>1. /\ UNCHANGED <<held, calls, crashes>> /\ AtWork' = {} /\ crashes > 0
    BY <1>7 DEF Restart, Recovered, AtWork, DownInv, historyVars, TypeOK
  <2>2. \A p \in Providers : held'[p] >= calls'[p]
    BY <2>1 DEF HeldInv
  <2> QED
    BY <2>1, <2>2, HeldOver
<1> QED
  BY <1>1, <1>2, <1>3, <1>4, <1>5, <1>6, <1>7 DEF Next, Pull, CallReturns

LEMMA QuotaInit == Init => ReserveInv /\ HeldInv
<1> SUFFICES ASSUME Init PROVE ReserveInv /\ HeldInv
  OBVIOUS
<1>1. AtWork = {}
  BY DEF Init, AtWork
<1>2. \A p \in Providers : held[p] = 0 /\ calls[p] = 0
  BY DEF Init, Zero
<1>3. \A f \in Fills : sent[f] = Zero
  BY DEF Init
<1> QED
  BY <1>1, <1>2, <1>3 DEF ReserveInv, HeldInv

\* The inductive invariant of the quota, whatever throws and however often the
\* process dies: a fill at work has a unit for every slot it may call for.
THEOREM Reserves == Spec => [](ReserveInv /\ HeldInv)
<1>1. Init => ReserveInv /\ HeldInv
  BY QuotaInit
<1>2. IInv /\ IInv' /\ ReserveInv /\ HeldInv /\ [Next]_vars => (ReserveInv /\ HeldInv)'
  BY ReserveStep, HeldStep DEF IInv
<1> QED
  BY <1>1, <1>2, Invariant, PTL DEF Spec

\* The day's counter covers the calls fills made and, without a crash or a
\* failed write, nothing else once no fill is at work.
THEOREM QuotaCovers == Spec => []QuotaMatchesCalls
<1>1. HeldInv => QuotaMatchesCalls
  BY DEF HeldInv, QuotaMatchesCalls
<1> QED
  BY <1>1, Reserves, PTL
=============================================================================
