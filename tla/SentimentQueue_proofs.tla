------------------------ MODULE SentimentQueue_proofs ------------------------
(***************************************************************************)
(* Theorems about SentimentQueue, for any items, classes, receipts,        *)
(* backfills and processes, and any number of faults, changes and          *)
(* refusals.                                                               *)
(*                                                                         *)
(* Each transaction is first shown to keep the counts of all jobs true     *)
(* (ShiftSound, CancelSound, AdmitSound). Touched, Kept and Calm say       *)
(* what it does to rows and leases, for the requests that are out; Legal   *)
(* what it may do to receipts, jobs and settings so that what was judged   *)
(* stays judged (JudgedStays, SetPast). WorkerStep carries what no step of *)
(* a worker disturbs, TickStep and LandStep the steps before a request and *)
(* after it, and every action has its lemma (its name and Inv). InvParts   *)
(* names the parts of the invariant and InvPartsNext those of the next     *)
(* state.                                                                  *)
(***************************************************************************)
EXTENDS SentimentQueue, SumTheorems

-----------------------------------------------------------------------------
(* Numbers, sets and the order of parts. *)

LEMMA Constants ==
  /\ MaxChanges \in Nat /\ MaxFaults \in Nat /\ MaxRefusals \in Nat /\ MaxTrouble \in Nat
  /\ Receipts \in Nat /\ Concurrency \in Nat \ {0} /\ MaxAttempts \in Nat \ {0}
  /\ Classes \subseteq Nat /\ None \notin Workers
  /\ MaxChanges \div 2 \in Nat
  /\ Epochs \subseteq Nat \ {0} /\ Keys \subseteq Nat \ {0} /\ 1 \in Epochs /\ 1 \in Keys
<1>1. MaxChanges \in Nat /\ MaxFaults \in Nat /\ MaxRefusals \in Nat /\ MaxTrouble \in Nat
  BY SentimentAssumption
<1>2. MaxChanges \div 2 \in Nat
  BY <1>1
<1> QED
  BY <1>1, <1>2, SentimentAssumption DEF Epochs, Keys

\* Two changes pay for an epoch, one for a key.
LEMMA EpochFits ==
  ASSUME NEW e \in Nat \ {0}, 2 * (e - 1) <= MaxChanges
  PROVE  e \in Epochs
<1>1. MaxChanges \in Nat
  BY Constants
<1>2. e - 1 <= MaxChanges \div 2
  BY <1>1
<1> QED
  BY <1>2, Constants DEF Epochs

LEMMA LargerOf ==
  ASSUME NEW a \in Int, NEW b \in Int
  PROVE  Max({a, b}) = IF a >= b THEN a ELSE b
<1>1. \E x \in {a, b} : \A y \in {a, b} : x >= y
  OBVIOUS
<1> QED
  BY <1>1 DEF Max

Parts == (1..Receipts) \X Classes

\* A reconciling worker takes its parts in the order of their receipts.
LEMMA FirstPartIs ==
  ASSUME NEW P \in SUBSET Parts, P # {}
  PROVE  /\ FirstPart(P) \in P
         /\ \A q \in P : FirstPart(P)[1] < q[1] \/ (FirstPart(P)[1] = q[1] /\ FirstPart(P)[2] <= q[2])
<1>1. Receipts \in Nat /\ Classes \subseteq Nat
  BY Constants
<1>0. \A q \in P : q = <<q[1], q[2]>> /\ q[1] \in 1..Receipts /\ q[2] \in Nat
  <2>1. \A q \in Parts : q = <<q[1], q[2]>> /\ q[1] \in 1..Receipts /\ q[2] \in Classes
    BY DEF Parts
  <2> QED
    BY <1>1, <2>1
<1>2. PICK r \in {q[1] : q \in P} : \A s \in {q[1] : q \in P} : r <= s
  <2> DEFINE R == {q[1] : q \in P}
  <2>1. R \subseteq 1..Receipts /\ R # {}
    BY <1>0
  <2> HIDE DEF R
  <2>2. \E x \in R : \A y \in R : x <= y
    BY <1>1, <2>1, LeastNumber, 1 \in Int, Receipts \in Int, Zenon
  <2> QED
    BY <2>2 DEF R
<1>3. PICK p0 \in P : p0[1] = r
  BY <1>2
<1>4. PICK n \in Nat : p0 = <<r, n>>
  BY <1>0, <1>3
<1> DEFINE T == {c \in 0..n : <<r, c>> \in P}
<1>5. PICK c \in T : \A x \in T : c <= x
  <2>1. T \subseteq 0..n /\ T # {}
    BY <1>4
  <2> HIDE DEF T
  <2> QED
    BY <2>1, LeastNumber, 0 \in Int, n \in Int, Zenon
<1>6. \A q \in P : r < q[1] \/ (r = q[1] /\ c <= q[2])
  <2> SUFFICES ASSUME NEW q \in P PROVE r < q[1] \/ (r = q[1] /\ c <= q[2])
    OBVIOUS
  <2>1. q = <<q[1], q[2]>> /\ q[1] \in 1..Receipts /\ q[2] \in Nat
    BY <1>0
  <2>2. r <= q[1] /\ r \in Int
    BY <1>0, <1>1, <1>2
  <2>3. CASE q[2] > n /\ r = q[1]
    BY <2>1, <2>3, <1>5
  <2>4. CASE q[2] <= n /\ r = q[1]
    <3>1. q[2] \in T
      BY <2>1, <2>4
    <3> QED
      BY <3>1, <2>4, <1>5
  <2>5. CASE r # q[1]
    BY <1>1, <2>1, <2>2, <2>5
  <2> QED
    BY <2>1, <2>3, <2>4, <2>5
<1>7. <<r, c>> \in P
  OBVIOUS
<1>8. \E p \in P : \A q \in P : p[1] < q[1] \/ (p[1] = q[1] /\ p[2] <= q[2])
  <2>1. <<r, c>>[1] = r /\ <<r, c>>[2] = c
    OBVIOUS
  <2> QED
    BY <1>6, <1>7, <2>1
<1> QED
  BY <1>8 DEF FirstPart

\* The number of some of the items.
LEMMA CountItems ==
  ASSUME NEW T \in SUBSET Items
  PROVE  IsFiniteSet(T) /\ Cardinality(T) \in 0..Cardinality(Items) /\ Cardinality(T) \in Nat
         /\ Cardinality(Items) \in Nat
BY SentimentAssumption, FS_Subset, FS_CardinalityType

-----------------------------------------------------------------------------
(* Jobs and their counts. *)

\* The members of a job that follow their items into a bucket, and those canceled for good.
InBucket(d, rows, j, b) == {i \in Items : Follows(d, j, i) /\ Bucket(rows[i].status) = b}
Gone(d, j, b) == {i \in Items : d.member[j][i] = "canceled" /\ b = "canceled"}

LEMMA RecountedIs ==
  ASSUME NEW d \in Tables, NEW j \in Jobs, NEW b \in Buckets
  PROVE  Recounted(d, j)[b] = Cardinality(InBucket(d, d.item, j, b)) + Cardinality(Gone(d, j, b))
<1> DEFINE A == InBucket(d, d.item, j, b)
           B == Gone(d, j, b)
<1>1. Recounted(d, j)[b] = Cardinality({i \in Items : d.member[j][i] # "out" /\ MemberBucket(d, j, i) = b})
  BY DEF Recounted
<1>2. \A i \in Items : d.member[j][i] \in {"out", "in", "canceled"}
  BY DEF Tables
<1>3. {i \in Items : d.member[j][i] # "out" /\ MemberBucket(d, j, i) = b} = A \cup B /\ A \cap B = {}
  BY <1>2 DEF InBucket, Gone, MemberBucket, Follows
<1>4. A \in SUBSET Items /\ B \in SUBSET Items
  BY DEF InBucket, Gone
<1> HIDE DEF A, B
<1>5. IsFiniteSet(A) /\ IsFiniteSet(B) /\ Cardinality(A) \in Nat /\ Cardinality(B) \in Nat
  BY <1>4, CountItems
<1>6. Cardinality(A \cup B) = Cardinality(A) + Cardinality(B)
  <2>1. Cardinality(A \cup B) = Cardinality(A) + Cardinality(B) - Cardinality(A \cap B)
    BY <1>5, FS_Union
  <2>2. Cardinality(A \cap B) = 0
    BY <1>3, FS_EmptySet
  <2> QED
    BY <1>5, <2>1, <2>2
<1> QED
  BY <1>1, <1>3, <1>6 DEF A, B

LEMMA RecountedType ==
  ASSUME NEW d \in Tables, NEW j \in Jobs
  PROVE  Recounted(d, j) \in [Buckets -> 0..Cardinality(Items)] /\ Recounted(d, j) \in [Buckets -> Int]
<1>1. \A b \in Buckets : Cardinality({i \in Items : d.member[j][i] # "out" /\ MemberBucket(d, j, i) = b})
                           \in 0..Cardinality(Items)
  BY CountItems
<1>2. 0..Cardinality(Items) \subseteq Int
  BY CountItems
<1> QED
  BY <1>1, <1>2 DEF Recounted

\* What a job counts depends on its members and the states of the items.
LEMMA RecountedSame ==
  ASSUME NEW d \in Tables, NEW e \in Tables, NEW j \in Jobs, e.member[j] = d.member[j],
         \A i \in Items : d.member[j][i] = "in" => e.item[i].status = d.item[i].status
  PROVE  Recounted(e, j) = Recounted(d, j)
<1>1. \A i \in Items : d.member[j][i] # "out" => MemberBucket(e, j, i) = MemberBucket(d, j, i)
  BY DEF MemberBucket, Tables
<1>2. \A b \in Buckets : {i \in Items : e.member[j][i] # "out" /\ MemberBucket(e, j, i) = b}
                       = {i \in Items : d.member[j][i] # "out" /\ MemberBucket(d, j, i) = b}
  BY <1>1
<1> QED
  BY <1>2 DEF Recounted

LEMMA StateOfType ==
  ASSUME NEW c
  PROVE  StateOf(c) \in JobStates \ {"none"}
BY DEF StateOf, JobStates

LEMMA CountedIs ==
  ASSUME NEW job, NEW c
  PROVE  /\ Counted(job, c).count = c
         /\ Counted(job, c).state # "none"
         /\ Counted(job, c).state \in {"canceled", StateOf(c)}
         /\ c \in [Buckets -> Int] => Counted(job, c) \in [state : JobStates, count : [Buckets -> Int]]
BY StateOfType DEF Counted, JobStates

\* shiftJobs keeps the counts of every job.
LEMMA ShiftedType ==
  ASSUME NEW d \in Tables, NEW rows \in [Items -> Rows], NEW j \in Jobs
  PROVE  [b \in Buckets |-> ShiftedCount(d, j, rows, b)] \in [Buckets -> Int]
<1> SUFFICES ASSUME NEW b \in Buckets PROVE ShiftedCount(d, j, rows, b) \in Int
  OBVIOUS
<1>1. /\ Cardinality({i \in Items : Follows(d, j, i) /\ Bucket(rows[i].status) = b}) \in Nat
      /\ Cardinality({i \in Items : Follows(d, j, i) /\ Bucket(d.item[i].status) = b}) \in Nat
  BY CountItems
<1>2. d.job[j].count[b] \in Int
  BY DEF Tables
<1> QED
  BY <1>1, <1>2 DEF ShiftedCount

LEMMA ShiftIs ==
  ASSUME NEW d \in Tables, NEW rows \in [Items -> Rows], NEW e, e = Shift(d, rows)
  PROVE  /\ e \in Tables
         /\ e.item = rows /\ e.member = d.member /\ e.set = d.set /\ e.pause = d.pause /\ e.top = d.top
         /\ \A j \in Jobs :
              e.job[j] = IF \E i \in Items : Follows(d, j, i) /\ rows[i].status # d.item[i].status
                         THEN Counted(d.job[j], [b \in Buckets |-> ShiftedCount(d, j, rows, b)])
                         ELSE d.job[j]
<1> DEFINE J == [j \in Jobs |->
                  IF \E i \in Items : Follows(d, j, i) /\ rows[i].status # d.item[i].status
                  THEN Counted(d.job[j], [b \in Buckets |-> ShiftedCount(d, j, rows, b)]) ELSE d.job[j]]
<1>1. J \in [Jobs -> [state : JobStates, count : [Buckets -> Int]]]
  <2>1. \A j \in Jobs : d.job[j] \in [state : JobStates, count : [Buckets -> Int]]
    BY DEF Tables
  <2>2. \A j \in Jobs : Counted(d.job[j], [b \in Buckets |-> ShiftedCount(d, j, rows, b)])
                         \in [state : JobStates, count : [Buckets -> Int]]
    BY ShiftedType, CountedIs
  <2> QED
    BY <2>1, <2>2
<1>2. e = [d EXCEPT !.item = rows, !.job = J]
  BY DEF Shift
<1> HIDE DEF J
<1>3. /\ e \in Tables /\ e.item = rows /\ e.job = J /\ e.member = d.member /\ e.set = d.set
      /\ e.pause = d.pause /\ e.top = d.top
  BY <1>1, <1>2 DEF Tables
<1> QED
  BY <1>3 DEF J

LEMMA ShiftCounts ==
  ASSUME NEW d \in Tables, NEW rows \in [Items -> Rows], NEW e, e = Shift(d, rows),
         NEW j \in Jobs, JobCounts(d, j)
  PROVE  JobCounts(e, j) /\ (e.job[j].state = "none" <=> d.job[j].state = "none")
<1>1. /\ e \in Tables /\ e.item = rows /\ e.member = d.member
      /\ e.job[j] = IF \E i \in Items : Follows(d, j, i) /\ rows[i].status # d.item[i].status
                    THEN Counted(d.job[j], [b \in Buckets |-> ShiftedCount(d, j, rows, b)])
                    ELSE d.job[j]
  BY ShiftIs
<1>2. CASE ~\E i \in Items : Follows(d, j, i) /\ rows[i].status # d.item[i].status
  <2>1. Recounted(e, j) = Recounted(d, j)
    BY <1>1, <1>2, RecountedSame DEF Follows
  <2>2. e.job[j] = d.job[j]
    BY <1>1, <1>2
  <2> QED
    BY <1>1, <2>1, <2>2 DEF JobCounts
<1>3. CASE \E i \in Items : Follows(d, j, i) /\ rows[i].status # d.item[i].status
  <2> DEFINE c == [b \in Buckets |-> ShiftedCount(d, j, rows, b)]
  <2>1. e.job[j] = Counted(d.job[j], c)
    BY <1>1, <1>3
  <2>2. c = Recounted(e, j)
    <3>1. ASSUME NEW b \in Buckets
          PROVE  c[b] = Recounted(e, j)[b]
      <4>1. InBucket(e, e.item, j, b) = InBucket(d, rows, j, b) /\ Gone(e, j, b) = Gone(d, j, b)
        BY <1>1 DEF InBucket, Gone, Follows
      <4>2. Recounted(e, j)[b] = Cardinality(InBucket(d, rows, j, b)) + Cardinality(Gone(d, j, b))
        BY <1>1, <4>1, RecountedIs
      <4>3. d.job[j].count[b] = Cardinality(InBucket(d, d.item, j, b)) + Cardinality(Gone(d, j, b))
        BY RecountedIs DEF JobCounts
      <4>4. c[b] = d.job[j].count[b] + Cardinality(InBucket(d, rows, j, b)) - Cardinality(InBucket(d, d.item, j, b))
        BY DEF ShiftedCount, InBucket
      <4>5. /\ Cardinality(InBucket(d, rows, j, b)) \in Nat /\ Cardinality(InBucket(d, d.item, j, b)) \in Nat
            /\ Cardinality(Gone(d, j, b)) \in Nat
        BY CountItems DEF InBucket, Gone
      <4> HIDE DEF c
      <4> QED
        BY <4>2, <4>3, <4>4, <4>5
    <3>2. Recounted(e, j) \in [Buckets -> Int]
      BY <1>1, RecountedType
    <3> QED
      BY <3>1, <3>2
  <2>3. d.job[j].state # "none"
    BY <1>3 DEF JobCounts, Follows
  <2> HIDE DEF c
  <2>4. e.job[j].count = c /\ e.job[j].state # "none" /\ e.job[j].state \in {"canceled", StateOf(c)}
    BY <2>1, CountedIs
  <2> QED
    BY <2>2, <2>3, <2>4 DEF JobCounts
<1> QED
  BY <1>2, <1>3

-----------------------------------------------------------------------------
(* Transactions keep the tables sound. *)

Sound(d) ==
  /\ d \in Tables
  /\ \A i \in Items : RowFits(d.item[i])
  /\ \A j \in Jobs : JobCounts(d, j)

\* What most transactions leave alone: the settings, the receipts and which jobs there are.
SameJobs(d, e) == \A j \in Jobs : e.job[j].state = "none" <=> d.job[j].state = "none"
Calm(d, e) == e.set = d.set /\ e.top = d.top /\ SameJobs(d, e)

\* The lease of worker w stays if it has one, and whoever has the lease had it before and is not
\* charged less.
Stays(r, s, w) ==
  /\ r.owner = w /\ r.live => s.owner = w /\ s.live
  /\ s.owner = w => r.owner = w /\ s.used >= r.used
\* All leases but that of worker w on item i.
KeptBut(d, e, w, i) ==
  \A v \in Workers, x \in Items : v # w \/ x # i => Stays(d.item[x], e.item[x], v)
Kept(d, e) == \A v \in Workers, x \in Items : Stays(d.item[x], e.item[x], v)

LEMMA ShiftSound ==
  ASSUME NEW d, Sound(d), NEW rows \in [Items -> Rows], \A i \in Items : RowFits(rows[i]),
         NEW e, e = Shift(d, rows)
  PROVE  Sound(e) /\ Calm(d, e) /\ e.item = rows /\ e.member = d.member /\ e.pause = d.pause
<1>1. d \in Tables /\ \A j \in Jobs : JobCounts(d, j)
  BY DEF Sound
<1>2. /\ e \in Tables /\ e.item = rows /\ e.member = d.member /\ e.set = d.set /\ e.pause = d.pause
      /\ e.top = d.top
  BY <1>1, ShiftIs
<1>3. \A j \in Jobs : JobCounts(e, j) /\ (e.job[j].state = "none" <=> d.job[j].state = "none")
  BY <1>1, ShiftCounts
<1> QED
  BY <1>2, <1>3 DEF Sound, Calm, SameJobs

\* One row.
LEMMA WriteSound ==
  ASSUME NEW d, Sound(d), NEW i \in Items, NEW row \in Rows, RowFits(row), NEW e, e = Write(d, i, row)
  PROVE  Sound(e) /\ Calm(d, e) /\ e.item = [d.item EXCEPT ![i] = row] /\ e.member = d.member /\ e.pause = d.pause
<1> DEFINE rows == [d.item EXCEPT ![i] = row]
<1>1. rows \in [Items -> Rows] /\ \A x \in Items : RowFits(rows[x])
  BY DEF Sound, Tables
<1>2. e = Shift(d, rows)
  BY DEF Write
<1> HIDE DEF rows
<1>3. Sound(e) /\ Calm(d, e) /\ e.item = rows /\ e.member = d.member /\ e.pause = d.pause
  BY <1>1, <1>2, ShiftSound
<1> QED
  BY <1>3 DEF rows

\* What changes neither the states of the items nor the jobs keeps the counts.
LEMMA SameSound ==
  ASSUME NEW d, Sound(d), NEW e \in Tables, e.job = d.job, e.member = d.member,
         \A i \in Items : e.item[i].status = d.item[i].status /\ RowFits(e.item[i])
  PROVE  Sound(e) /\ SameJobs(d, e)
<1>1. ASSUME NEW j \in Jobs PROVE JobCounts(e, j)
  <2>1. d \in Tables /\ JobCounts(d, j)
    BY DEF Sound
  <2>2. Recounted(e, j) = Recounted(d, j)
    BY <2>1, RecountedSame
  <2> QED
    BY <2>1, <2>2 DEF JobCounts
<1> QED
  BY <1>1 DEF Sound, SameJobs

\* recountJobs: what the jobs J count is counted again.
LEMMA RecountIs ==
  ASSUME NEW d \in Tables, NEW J \in SUBSET Jobs, NEW e, e = Recount(d, J)
  PROVE  /\ e \in Tables /\ e.item = d.item /\ e.member = d.member /\ e.set = d.set /\ e.pause = d.pause
         /\ e.top = d.top
         /\ \A j \in Jobs : e.job[j] = IF j \in J THEN Counted(d.job[j], Recounted(d, j)) ELSE d.job[j]
         /\ \A j \in Jobs : Recounted(e, j) = Recounted(d, j)
<1> DEFINE K == [j \in Jobs |-> IF j \in J THEN Counted(d.job[j], Recounted(d, j)) ELSE d.job[j]]
<1>1. K \in [Jobs -> [state : JobStates, count : [Buckets -> Int]]]
  <2>1. \A j \in Jobs : d.job[j] \in [state : JobStates, count : [Buckets -> Int]]
    BY DEF Tables
  <2>2. \A j \in Jobs : Counted(d.job[j], Recounted(d, j)) \in [state : JobStates, count : [Buckets -> Int]]
    BY RecountedType, CountedIs
  <2> QED
    BY <2>1, <2>2
<1>2. e = [d EXCEPT !.job = K]
  BY DEF Recount
<1> HIDE DEF K
<1>3. /\ e \in Tables /\ e.item = d.item /\ e.job = K /\ e.member = d.member /\ e.set = d.set
      /\ e.pause = d.pause /\ e.top = d.top
  BY <1>1, <1>2 DEF Tables
<1>4. \A j \in Jobs : Recounted(e, j) = Recounted(d, j)
  BY <1>3, RecountedSame
<1> QED
  BY <1>3, <1>4 DEF K

LEMMA RecountCounts ==
  ASSUME NEW d \in Tables, NEW J \in SUBSET Jobs, NEW e, e = Recount(d, J), NEW j \in J
  PROVE  e.job[j].state # "none" /\ JobCounts(e, j)
<1>1. e.job[j] = Counted(d.job[j], Recounted(d, j)) /\ Recounted(e, j) = Recounted(d, j)
  BY RecountIs
<1> QED
  BY <1>1, CountedIs DEF JobCounts

\* cancelProject: the rows that are canceled, the memberships and the jobs.
LEMMA CancelSound ==
  ASSUME NEW d, Sound(d), NEW e, e = CancelProject(d)
  PROVE  Sound(e) /\ Calm(d, e) /\ e.pause = d.pause /\ Kept(d, e)
<1>0. d \in Tables
  BY DEF Sound
<1> DEFINE A == {i \in Items : d.item[i].status \in Active}
           J == {j \in Jobs : \E i \in A : Follows(d, j, i)}
           rows == [i \in Items |-> IF i \in A THEN [d.item[i] EXCEPT !.status = "canceled"] ELSE d.item[i]]
           M == [j \in Jobs |-> [i \in Items |-> IF i \in A /\ d.member[j][i] = "in" THEN "canceled"
                                                  ELSE d.member[j][i]]]
           K == [j \in Jobs |-> IF d.job[j].state \in {"pending", "running", "partial"}
                                THEN [d.job[j] EXCEPT !.state = "canceled"] ELSE d.job[j]]
           c == [d EXCEPT !.item = rows, !.member = M, !.job = K]
<1>1. e = Recount(c, J)
  <2>1. c = [d EXCEPT
              !.item = [i \in Items |-> IF i \in A THEN [@[i] EXCEPT !.status = "canceled"] ELSE @[i]],
              !.member = [j \in Jobs |-> [i \in Items |-> IF i \in A /\ @[j][i] = "in" THEN "canceled" ELSE @[j][i]]],
              !.job = [j \in Jobs |-> IF @[j].state \in {"pending", "running", "partial"}
                                      THEN [@[j] EXCEPT !.state = "canceled"] ELSE @[j]]]
    OBVIOUS
  <2> HIDE DEF c
  <2> QED
    BY <2>1 DEF CancelProject
<1>2. rows \in [Items -> Rows] /\ \A i \in Items : RowFits(rows[i])
  <2> SUFFICES ASSUME NEW i \in Items PROVE rows[i] \in Rows /\ RowFits(rows[i])
    OBVIOUS
  <2>1. d.item[i] \in Rows /\ RowFits(d.item[i])
    BY DEF Sound, Tables
  <2>2. CASE i \in A
    <3>1. rows[i] = [d.item[i] EXCEPT !.status = "canceled"] /\ d.item[i].status \in {"pending", "running", "waiting"}
      BY <2>2 DEF Active
    <3> QED
      BY <2>1, <3>1 DEF Rows, RowFits, ItemStatus
  <2>3. CASE i \notin A
    BY <2>1, <2>3
  <2> QED
    BY <2>2, <2>3
<1>3. M \in [Jobs -> [Items -> {"out", "in", "canceled"}]]
  BY <1>0 DEF Tables
<1>4. /\ K \in [Jobs -> [state : JobStates, count : [Buckets -> Int]]]
      /\ \A j \in Jobs : /\ K[j].count = d.job[j].count
                         /\ K[j].state \in {d.job[j].state, "canceled"}
                         /\ K[j].state = "none" <=> d.job[j].state = "none"
  <2> SUFFICES ASSUME NEW j \in Jobs
               PROVE  /\ K[j] \in [state : JobStates, count : [Buckets -> Int]] /\ K[j].count = d.job[j].count
                      /\ K[j].state \in {d.job[j].state, "canceled"}
                      /\ K[j].state = "none" <=> d.job[j].state = "none"
    OBVIOUS
  <2>1. d.job[j] \in [state : JobStates, count : [Buckets -> Int]]
    BY <1>0 DEF Tables
  <2>2. CASE d.job[j].state \in {"pending", "running", "partial"}
    BY <2>1, <2>2 DEF JobStates
  <2>3. CASE d.job[j].state \notin {"pending", "running", "partial"}
    BY <2>1, <2>3
  <2> QED
    BY <2>2, <2>3
<1>5. J \in SUBSET Jobs
  OBVIOUS
<1>6. \A i \in Items : /\ d.item[i].status \notin Active => rows[i] = d.item[i]
                       /\ rows[i].owner = d.item[i].owner /\ rows[i].live = d.item[i].live /\ rows[i].used = d.item[i].used
  <2> SUFFICES ASSUME NEW i \in Items
               PROVE  /\ d.item[i].status \notin Active => rows[i] = d.item[i]
                      /\ rows[i].owner = d.item[i].owner /\ rows[i].live = d.item[i].live /\ rows[i].used = d.item[i].used
    OBVIOUS
  <2>1. d.item[i] \in Rows
    BY <1>0 DEF Tables
  <2> QED
    BY <2>1 DEF Rows
<1>7. \A j \in Jobs \ J, i \in Items : M[j][i] = d.member[j][i] /\ (d.member[j][i] = "in" => d.item[i].status \notin Active)
  BY DEF Follows
<1>8. \A j \in Jobs : (\A i \in Items : d.member[j][i] = "out") => j \notin J /\ \A i \in Items : M[j][i] = "out"
  BY DEF Follows
<1>9. \A j \in Jobs \ J : M[j] = d.member[j]
  <2> SUFFICES ASSUME NEW j \in Jobs \ J PROVE M[j] = d.member[j]
    OBVIOUS
  <2>1. M[j] \in [Items -> {"out", "in", "canceled"}] /\ d.member[j] \in [Items -> {"out", "in", "canceled"}]
    <3> HIDE DEF M
    <3> QED
      BY <1>0, <1>3 DEF Tables
  <2>2. \A i \in Items : M[j][i] = d.member[j][i]
    BY <1>7
  <2> HIDE DEF M, J
  <2> QED
    BY <2>1, <2>2
<1> HIDE DEF A, J, rows, M, K
<1>10. /\ c \in Tables /\ c.item = rows /\ c.member = M /\ c.job = K /\ c.set = d.set /\ c.pause = d.pause
       /\ c.top = d.top
  BY <1>0, <1>2, <1>3, <1>4 DEF Tables
<1> HIDE DEF c
<1>11. /\ e \in Tables /\ e.item = rows /\ e.member = M /\ e.set = d.set /\ e.pause = d.pause /\ e.top = d.top
       /\ \A j \in Jobs : e.job[j] = IF j \in J THEN Counted(K[j], Recounted(c, j)) ELSE K[j]
       /\ \A j \in Jobs : Recounted(e, j) = Recounted(c, j)
  BY <1>1, <1>5, <1>10, RecountIs
<1>12. ASSUME NEW j \in Jobs
       PROVE  JobCounts(e, j) /\ (e.job[j].state = "none" <=> d.job[j].state = "none")
  <2>0. JobCounts(d, j)
    BY DEF Sound
  <2>1. CASE j \in J
    <3>1. e.job[j].state # "none" /\ JobCounts(e, j)
      BY <1>1, <1>5, <1>10, <2>1, RecountCounts
    <3>2. d.job[j].state # "none"
      BY <1>8, <2>0, <2>1 DEF JobCounts
    <3> QED
      BY <3>1, <3>2
  <2>2. CASE j \notin J
    <3>1. e.job[j] = K[j] /\ Recounted(e, j) = Recounted(c, j) /\ e.member[j] = d.member[j]
      BY <1>9, <1>11, <2>2
    <3>2. Recounted(c, j) = Recounted(d, j)
      <4>1. \A i \in Items : d.member[j][i] = "in" => c.item[i].status = d.item[i].status
        BY <1>6, <1>7, <1>10, <2>2
      <4>2. c.member[j] = d.member[j]
        BY <1>9, <1>10, <2>2
      <4> QED
        BY <1>0, <1>10, <4>1, <4>2, RecountedSame
    <3> QED
      BY <1>4, <2>0, <3>1, <3>2 DEF JobCounts
  <2> QED
    BY <2>1, <2>2
<1>13. Kept(d, e)
  <2> SUFFICES ASSUME NEW v \in Workers, NEW x \in Items PROVE Stays(d.item[x], e.item[x], v)
    BY DEF Kept
  <2>1. d.item[x].used \in Int
    BY <1>0, Constants DEF Tables, Rows
  <2> QED
    BY <1>6, <1>11, <2>1 DEF Stays
<1> QED
  BY <1>2, <1>11, <1>12, <1>13 DEF Sound, Calm, SameJobs

\* admitJob of one row: what is out stays out.
LEMMA AdmittedIs ==
  ASSUME NEW r \in Rows, RowFits(r), NEW epoch \in Epochs, NEW automatic,
         NEW s, s = Admitted(r, epoch, automatic)
  PROVE  s \in Rows /\ RowFits(s) /\ \A v \in Workers : Stays(r, s, v)
<1>0. r.used \in 0..MaxAttempts /\ r.used \in Int /\ MaxAttempts \in Nat
  BY Constants DEF Rows
<1>1. PICK status \in ItemStatus, owner \in Workers \cup {None}, live \in BOOLEAN, ep \in {0} \cup Epochs,
           used \in 0..MaxAttempts, result \in BOOLEAN :
        r = [status |-> status, owner |-> owner, live |-> live, epoch |-> ep, used |-> used, result |-> result]
  BY DEF Rows
<1>2. CASE r.status = "none"
  <2>1. s = [r EXCEPT !.status = "pending", !.epoch = epoch]
    BY <1>2 DEF Admitted
  <2>2. s \in Rows
    BY <2>1 DEF Rows, ItemStatus
  <2>3. s.owner = r.owner /\ s.live = r.live /\ s.used = r.used /\ s.result = r.result /\ s.status = "pending"
    BY <2>1 DEF Rows
  <2> QED
    BY <1>0, <1>2, <2>2, <2>3 DEF RowFits, Stays
<1>3. CASE s = Queued(r, epoch)
  <2> DEFINE leased == StillLeased(r)
  <2>1. leased \in BOOLEAN
    BY DEF StillLeased
  <2>2. s = [r EXCEPT !.status = IF r.result THEN "completed" ELSE IF leased THEN "running" ELSE "pending",
                      !.epoch = epoch, !.owner = IF leased THEN r.owner ELSE None, !.live = leased,
                      !.used = IF r.result \/ leased THEN r.used ELSE 0]
    BY <1>3 DEF Queued
  <2> HIDE DEF leased
  <2>3. /\ s.status = IF r.result THEN "completed" ELSE IF leased THEN "running" ELSE "pending"
        /\ s.epoch = epoch /\ s.owner = (IF leased THEN r.owner ELSE None) /\ s.live = leased
        /\ s.used = (IF r.result \/ leased THEN r.used ELSE 0) /\ s.result = r.result
    BY <2>2 DEF Rows
  <2>4. s \in Rows
    <3>1. /\ s.status \in ItemStatus /\ s.owner \in Workers \cup {None} /\ s.live \in BOOLEAN
          /\ s.epoch \in {0} \cup Epochs /\ s.used \in 0..MaxAttempts /\ s.result \in BOOLEAN
      BY <1>0, <2>1, <2>3 DEF Rows, ItemStatus
    <3> QED
      BY <2>2, <3>1 DEF Rows
  <2>5. leased <=> (~r.result /\ r.owner # None /\ r.live)
    BY DEF leased, StillLeased
  <2>6. RowFits(s)
    BY <2>3, <2>5 DEF RowFits
  <2>7. ASSUME NEW v \in Workers PROVE Stays(r, s, v)
    BY <1>0, <2>3, <2>5, Constants DEF RowFits, Stays
  <2> QED
    BY <2>4, <2>6, <2>7
<1>4. CASE s = r
  BY <1>0, <1>4 DEF Stays
<1> QED
  BY <1>2, <1>3, <1>4 DEF Admitted

\* admitJob: the job is there and counts its members.
LEMMA AdmitSound ==
  ASSUME NEW d, Sound(d), NEW j \in Jobs, NEW T, NEW automatic,
         NEW e, e = AdmitJob(d, j, T, automatic)
  PROVE  /\ Sound(e) /\ e.set = d.set /\ e.top = d.top /\ e.pause = d.pause /\ Kept(d, e)
         /\ e.job[j].state # "none"
         /\ \A k \in Jobs \ {j} : e.job[k].state = "none" <=> d.job[k].state = "none"
<1>0. d \in Tables /\ d.set.epoch \in Epochs
  BY DEF Sound, Tables, Settings
<1> DEFINE rows == [i \in Items |-> IF i \in T THEN Admitted(d.item[i], d.set.epoch, automatic) ELSE d.item[i]]
           X == [i \in Items |-> IF i \notin T THEN "out"
                                 ELSE IF rows[i].status = "canceled" THEN "canceled" ELSE "in"]
<1>1. \A i \in Items : rows[i] \in Rows /\ RowFits(rows[i]) /\ \A v \in Workers : Stays(d.item[i], rows[i], v)
  <2> SUFFICES ASSUME NEW i \in Items
               PROVE  rows[i] \in Rows /\ RowFits(rows[i]) /\ \A v \in Workers : Stays(d.item[i], rows[i], v)
    OBVIOUS
  <2>1. d.item[i] \in Rows /\ RowFits(d.item[i])
    BY DEF Sound, Tables
  <2>2. CASE i \in T
    <3>1. rows[i] = Admitted(d.item[i], d.set.epoch, automatic)
      BY <2>2
    <3> QED
      BY <1>0, <2>1, <3>1, AdmittedIs
  <2>3. CASE i \notin T
    <3>1. rows[i] = d.item[i]
      BY <2>3
    <3>2. d.item[i].used \in Int
      BY <2>1, Constants DEF Rows
    <3> QED
      BY <2>1, <3>1, <3>2 DEF Stays
  <2> QED
    BY <2>2, <2>3
<1>2. X \in [Items -> {"out", "in", "canceled"}]
  OBVIOUS
<1> DEFINE f == Shift(d, rows)
           g == [f EXCEPT !.job[j].state = "pending", !.member[j] = X]
<1>3. e = Recount(g, {j})
  BY DEF AdmitJob
<1>4. rows \in [Items -> Rows]
  BY <1>1
<1> HIDE DEF rows, X, f
<1>5. Sound(f) /\ Calm(d, f) /\ f.item = rows /\ f.member = d.member /\ f.pause = d.pause
  BY <1>1, <1>4, ShiftSound DEF f
<1>6. f \in Tables
  BY <1>5 DEF Sound
<1>7. /\ g \in Tables /\ g.item = f.item /\ g.set = f.set /\ g.pause = f.pause /\ g.top = f.top
      /\ \A k \in Jobs \ {j} : g.job[k] = f.job[k] /\ g.member[k] = f.member[k]
  <2>1. /\ g.item = f.item /\ g.set = f.set /\ g.pause = f.pause /\ g.top = f.top
        /\ g.job = [f.job EXCEPT ![j] = [f.job[j] EXCEPT !.state = "pending"]]
        /\ g.member = [f.member EXCEPT ![j] = X]
    BY <1>6 DEF Tables
  <2>2. g.job \in [Jobs -> [state : JobStates, count : [Buckets -> Int]]]
    <3>1. f.job[j] \in [state : JobStates, count : [Buckets -> Int]]
      BY <1>6 DEF Tables
    <3>2. [f.job[j] EXCEPT !.state = "pending"] \in [state : JobStates, count : [Buckets -> Int]]
      BY <3>1 DEF JobStates
    <3> QED
      BY <1>6, <2>1, <3>2 DEF Tables
  <2>3. g.member \in [Jobs -> [Items -> {"out", "in", "canceled"}]]
    BY <1>2, <1>6, <2>1 DEF Tables
  <2>4. g \in Tables
    BY <1>6, <2>1, <2>2, <2>3 DEF Tables
  <2> QED
    BY <1>6, <2>1, <2>4 DEF Tables
<1> HIDE DEF g
<1>8. /\ e \in Tables /\ e.item = rows /\ e.set = d.set /\ e.pause = d.pause /\ e.top = d.top
      /\ \A k \in Jobs \ {j} : e.job[k] = f.job[k] /\ e.member[k] = f.member[k]
  <2>1. /\ e \in Tables /\ e.item = g.item /\ e.member = g.member /\ e.set = g.set /\ e.pause = g.pause /\ e.top = g.top
        /\ \A k \in Jobs : e.job[k] = IF k \in {j} THEN Counted(g.job[k], Recounted(g, k)) ELSE g.job[k]
    BY <1>3, <1>7, RecountIs
  <2> QED
    BY <1>5, <1>7, <2>1 DEF Calm
<1>9. e.job[j].state # "none" /\ JobCounts(e, j)
  BY <1>3, <1>7, RecountCounts
<1>10. ASSUME NEW k \in Jobs \ {j}
       PROVE  JobCounts(e, k) /\ (e.job[k].state = "none" <=> d.job[k].state = "none")
  <2>1. JobCounts(f, k) /\ (f.job[k].state = "none" <=> d.job[k].state = "none")
    BY <1>5 DEF Sound, Calm, SameJobs
  <2>2. e.job[k] = f.job[k] /\ e.member[k] = f.member[k] /\ e.item = f.item
    BY <1>5, <1>8
  <2>3. Recounted(e, k) = Recounted(f, k)
    BY <1>6, <1>8, <2>2, RecountedSame
  <2> QED
    BY <2>1, <2>2, <2>3 DEF JobCounts
<1>11. Sound(e)
  BY <1>1, <1>8, <1>9, <1>10 DEF Sound
<1>12. Kept(d, e)
  BY <1>1, <1>8 DEF Kept
<1> QED
  BY <1>8, <1>9, <1>10, <1>11, <1>12

-----------------------------------------------------------------------------
(* Transactions on one row. *)

\* A step that touches the lease of worker w on item i, and no other lease.
Touched(d, e, w, i) == Sound(e) /\ Calm(d, e) /\ KeptBut(d, e, w, i)

LEMMA CalmSame ==
  ASSUME NEW d, Sound(d)
  PROVE  Calm(d, d) /\ Kept(d, d)
<1>1. \A x \in Items : d.item[x].used \in Int
  BY Constants DEF Sound, Tables, Rows
<1> QED
  BY <1>1 DEF Calm, SameJobs, Kept, Stays

LEMMA UntouchedIs ==
  ASSUME NEW d, Sound(d), NEW w, NEW i
  PROVE  Touched(d, d, w, i)
BY CalmSame DEF Touched, Kept, KeptBut

LEMMA CalmTransitive ==
  ASSUME NEW d, NEW e, NEW f, Calm(d, e), Calm(e, f)
  PROVE  Calm(d, f)
BY DEF Calm, SameJobs

LEMMA TouchedTransitive ==
  ASSUME NEW d, Sound(d), NEW e, Sound(e), NEW f, NEW w, NEW i, Calm(d, e), Kept(d, e), Touched(e, f, w, i)
  PROVE  Touched(d, f, w, i)
<1>1. Sound(f) /\ Calm(d, f) /\ KeptBut(e, f, w, i)
  BY CalmTransitive DEF Touched
<1>2. \A x \in Items : d.item[x].used \in Int /\ e.item[x].used \in Int /\ f.item[x].used \in Int
  BY <1>1, Constants DEF Sound, Tables, Rows
<1>3. KeptBut(d, f, w, i)
  <2> SUFFICES ASSUME NEW v \in Workers, NEW x \in Items, v # w \/ x # i
               PROVE  Stays(d.item[x], f.item[x], v)
    BY DEF KeptBut
  <2>1. Stays(d.item[x], e.item[x], v) /\ Stays(e.item[x], f.item[x], v)
    BY <1>1 DEF Kept, KeptBut
  <2> QED
    BY <1>2, <2>1 DEF Stays
<1> QED
  BY <1>1, <1>3 DEF Touched

LEMMA RowType ==
  ASSUME NEW d, Sound(d), NEW i \in Items
  PROVE  /\ d.item[i] \in Rows /\ RowFits(d.item[i]) /\ d.item[i].used \in Int
<1>1. d.item[i] \in Rows /\ RowFits(d.item[i])
  BY DEF Sound, Tables
<1>2. d.item[i].used \in Int
  BY <1>1, Constants DEF Rows
<1> QED
  BY <1>1, <1>2 DEF Rows

\* What is written over a row whose lease is w's.
LEMMA FreeTouches ==
  ASSUME NEW d, Sound(d), NEW w \in Workers, NEW i \in Items, d.item[i].owner = w,
         NEW row \in Rows, RowFits(row), row.owner = None, NEW e, e = Write(d, i, row)
  PROVE  Touched(d, e, w, i) /\ e.pause = d.pause
<1>1. Sound(e) /\ Calm(d, e) /\ e.item = [d.item EXCEPT ![i] = row] /\ e.pause = d.pause
  BY WriteSound
<1>2. d.item \in [Items -> Rows]
  BY DEF Sound, Tables
<1>3. KeptBut(d, e, w, i)
  <2> SUFFICES ASSUME NEW v \in Workers, NEW x \in Items, v # w \/ x # i
               PROVE  Stays(d.item[x], e.item[x], v)
    BY DEF KeptBut
  <2>1. CASE x = i
    <3>1. e.item[x] = row /\ d.item[x].owner # v /\ row.owner # v
      BY <1>1, <1>2, <2>1, Constants
    <3> QED
      BY <3>1 DEF Stays
  <2>2. CASE x # i
    <3>1. e.item[x] = d.item[x] /\ d.item[x].used \in Int
      BY <1>1, <1>2, <2>2, RowType
    <3> QED
      BY <3>1 DEF Stays
  <2> QED
    BY <2>1, <2>2
<1> QED
  BY <1>1, <1>3 DEF Touched

LEMMA ReleaseTouches ==
  ASSUME NEW d, Sound(d), NEW w \in Workers, NEW i \in Items, NEW e, e = ReleaseWork(d, w, i)
  PROVE  Touched(d, e, w, i) /\ e.pause = d.pause
<1>1. CASE Owns(d, w, i)
  <2> DEFINE row == [Free(d.item[i]) EXCEPT !.status = "pending"]
  <2>1. d.item[i] \in Rows /\ RowFits(d.item[i]) /\ d.item[i].owner = w /\ w # None
    BY <1>1, RowType, Constants DEF Owns
  <2>2. row \in Rows /\ row.owner = None /\ row.status = "pending" /\ row.result = d.item[i].result
    BY <2>1 DEF Free, Rows, ItemStatus
  <2>3. RowFits(row)
    BY <2>1, <2>2 DEF RowFits
  <2>4. e = Write(d, i, row)
    BY <1>1 DEF ReleaseWork
  <2> HIDE DEF row
  <2> QED
    BY <2>1, <2>2, <2>3, <2>4, FreeTouches
<1>2. CASE ~Owns(d, w, i)
  <2>1. e = d
    BY <1>2 DEF ReleaseWork
  <2> QED
    BY <2>1, UntouchedIs
<1> QED
  BY <1>1, <1>2

LEMMA FailTouches ==
  ASSUME NEW d, Sound(d), NEW w \in Workers, NEW i \in Items, NEW to \in {"waiting", "failed"},
         NEW e, e = FailWork(d, w, i, to)
  PROVE  Touched(d, e, w, i) /\ e.pause = d.pause
<1>1. CASE Owns(d, w, i)
  <2> DEFINE row == [Free(d.item[i]) EXCEPT !.status = to]
  <2>1. d.item[i] \in Rows /\ RowFits(d.item[i]) /\ d.item[i].owner = w /\ w # None
    BY <1>1, RowType, Constants DEF Owns
  <2>2. row \in Rows /\ row.owner = None /\ row.status = to /\ row.result = d.item[i].result
    BY <2>1 DEF Free, Rows, ItemStatus
  <2>3. RowFits(row)
    BY <2>1, <2>2 DEF RowFits
  <2>4. e = Write(d, i, row)
    BY <1>1 DEF FailWork
  <2> HIDE DEF row
  <2> QED
    BY <2>1, <2>2, <2>3, <2>4, FreeTouches
<1>2. CASE ~Owns(d, w, i)
  <2>1. e = d
    BY <1>2 DEF FailWork
  <2> QED
    BY <2>1, UntouchedIs
<1> QED
  BY <1>1, <1>2

LEMMA CompleteTouches ==
  ASSUME NEW d, Sound(d), NEW w \in Workers, NEW i \in Items, NEW e, e = CompleteWork(d, w, i)
  PROVE  Touched(d, e, w, i) /\ e.pause = d.pause
<1>1. CASE d.item[i].owner = w /\ d.item[i].status \in {"running", "canceled"}
  <2> DEFINE row == [Free(d.item[i]) EXCEPT !.status = IF @ = "canceled" THEN @ ELSE "completed", !.result = TRUE]
  <2>1. d.item[i] \in Rows /\ RowFits(d.item[i]) /\ d.item[i].owner = w /\ w # None
    BY <1>1, RowType, Constants
  <2>2. row \in Rows /\ row.owner = None /\ row.status \in {"canceled", "completed"} /\ row.result
    BY <2>1 DEF Free, Rows, ItemStatus
  <2>3. RowFits(row)
    BY <2>1, <2>2 DEF RowFits
  <2>4. e = Write(d, i, row)
    BY <1>1 DEF CompleteWork
  <2> HIDE DEF row
  <2> QED
    BY <2>1, <2>2, <2>3, <2>4, FreeTouches
<1>2. CASE ~(d.item[i].owner = w /\ d.item[i].status \in {"running", "canceled"})
  <2>1. e = d
    BY <1>2 DEF CompleteWork
  <2> QED
    BY <2>1, UntouchedIs
<1> QED
  BY <1>1, <1>2

\* A claim takes no lease that anyone else still has.
LEMMA ClaimTouches ==
  ASSUME NEW d, Sound(d), NEW w \in Workers, NEW i \in Items, Claimable(d, i), NEW e, e = Claim(d, w, i)
  PROVE  Touched(d, e, w, i) /\ e.pause = d.pause
<1> DEFINE row == [d.item[i] EXCEPT !.status = "running", !.owner = w, !.live = TRUE]
<1>1. d.item[i] \in Rows /\ RowFits(d.item[i])
  BY RowType
<1>2. row \in Rows /\ row.owner = w /\ row.status = "running" /\ row.result = d.item[i].result
  BY <1>1 DEF Rows, ItemStatus
<1>3. d.item[i].status \in {"pending", "running", "waiting"} /\ (d.item[i].status = "running" => ~d.item[i].live)
  BY DEF Claimable
<1>4. RowFits(row)
  BY <1>1, <1>2, <1>3 DEF RowFits
<1>5. e = Write(d, i, row)
  BY DEF Claim
<1> HIDE DEF row
<1>6. Sound(e) /\ Calm(d, e) /\ e.item = [d.item EXCEPT ![i] = row] /\ e.pause = d.pause
  BY <1>2, <1>4, <1>5, WriteSound
<1>7. d.item \in [Items -> Rows]
  BY DEF Sound, Tables
<1>8. KeptBut(d, e, w, i)
  <2> SUFFICES ASSUME NEW v \in Workers, NEW x \in Items, v # w \/ x # i
               PROVE  Stays(d.item[x], e.item[x], v)
    BY DEF KeptBut
  <2>1. CASE x = i
    <3>1. e.item[x] = row /\ row.owner # v
      BY <1>2, <1>6, <1>7, <2>1
    <3>2. ~(d.item[x].owner = v /\ d.item[x].live)
      BY <1>1, <1>3, <2>1, Constants DEF RowFits
    <3> QED
      BY <3>1, <3>2 DEF Stays
  <2>2. CASE x # i
    <3>1. e.item[x] = d.item[x] /\ d.item[x].used \in Int
      BY <1>6, <1>7, <2>2, RowType
    <3> QED
      BY <3>1 DEF Stays
  <2> QED
    BY <2>1, <2>2
<1> QED
  BY <1>6, <1>8 DEF Touched

-----------------------------------------------------------------------------
(* Pauses, settings and receipts. *)

Pauses == [reason : {"none", "rate", "auth"}, key : {0} \cup Keys]

WithHead(d, set, pause, top) == [d EXCEPT !.set = set, !.pause = pause, !.top = top]

\* What changes neither rows nor jobs.
LEMMA HeadSound ==
  ASSUME NEW d, Sound(d), NEW set \in Settings, NEW pause \in Pauses, NEW top \in 0..Receipts,
         NEW e, e = WithHead(d, set, pause, top)
  PROVE  /\ Sound(e) /\ SameJobs(d, e) /\ Kept(d, e) /\ e.set = set /\ e.pause = pause /\ e.top = top
         /\ e.job = d.job /\ e.item = d.item
<1>0. d \in Tables
  BY DEF Sound
<1>1. /\ e \in Tables /\ e.item = d.item /\ e.job = d.job /\ e.member = d.member
      /\ e.set = set /\ e.pause = pause /\ e.top = top
  BY <1>0 DEF Tables, Pauses, WithHead
<1>2. \A i \in Items : e.item[i].status = d.item[i].status /\ RowFits(e.item[i])
  BY <1>1 DEF Sound
<1>3. Sound(e) /\ SameJobs(d, e)
  BY <1>1, <1>2, SameSound
<1>4. \A i \in Items : e.item[i] = d.item[i] /\ d.item[i].used \in Int
  BY <1>1, RowType
<1>5. Kept(d, e)
  BY <1>4 DEF Kept, Stays
<1> QED
  BY <1>1, <1>3, <1>5

LEMMA HeadTypes ==
  ASSUME NEW d, Sound(d)
  PROVE  d.set \in Settings /\ d.pause \in Pauses /\ d.top \in 0..Receipts /\ d \in Tables
BY DEF Sound, Tables, Pauses

LEMMA PauseSound ==
  ASSUME NEW d, Sound(d), NEW pause \in Pauses, NEW e, e = [d EXCEPT !.pause = pause]
  PROVE  Sound(e) /\ Calm(d, e) /\ Kept(d, e) /\ e.pause = pause /\ e.item = d.item
<1>1. e = WithHead(d, d.set, pause, d.top)
  BY DEF Sound, Tables, WithHead
<1>2. Sound(e) /\ SameJobs(d, e) /\ Kept(d, e) /\ e.set = d.set /\ e.pause = pause /\ e.top = d.top /\ e.item = d.item
  BY <1>1, HeadTypes, HeadSound
<1> QED
  BY <1>2 DEF Calm

LEMMA NoPauseType == NoPause \in Pauses /\ NoPause.reason = "none"
BY DEF NoPause, Pauses

LEMMA ReleasePauseIs ==
  ASSUME NEW d, Sound(d), NEW f, NEW e, e = ReleasePause(d, f)
  PROVE  /\ Sound(e) /\ Calm(d, e) /\ Kept(d, e)
         /\ e.pause = d.pause \/ ~f.old
<1>1. CASE Releases(d, f)
  <2>1. e = [d EXCEPT !.pause = NoPause] /\ ~f.old
    BY <1>1 DEF ReleasePause, Releases
  <2> QED
    BY <2>1, NoPauseType, PauseSound
<1>2. CASE ~Releases(d, f)
  <2>1. e = d
    BY <1>2 DEF ReleasePause
  <2> QED
    BY <2>1, CalmSame
<1> QED
  BY <1>1, <1>2

LEMMA LiftIs ==
  ASSUME NEW d, Sound(d), NEW e, e = LiftForKey(d)
  PROVE  Sound(e) /\ Calm(d, e) /\ Kept(d, e)
BY NoPauseType, PauseSound DEF LiftForKey

\* recordProviderRefusal: the request was charged, so it can be given back.
LEMMA RefuseTouches ==
  ASSUME NEW d, Sound(d), NEW w \in Workers, NEW i \in Items, NEW f, f.key \in {0} \cup Keys,
         NEW reason \in {"rate", "auth"}, d.item[i].owner = w => d.item[i].used > 0,
         NEW e, e = Refuse(d, w, i, f, reason)
  PROVE  Touched(d, e, w, i) /\ e.pause.reason # "none"
<1> DEFINE pause == [reason |-> IF d.pause.reason = "auth" THEN "auth" ELSE reason,
                     key |-> IF reason = "auth" THEN f.key ELSE d.pause.key]
           c == [d EXCEPT !.pause = pause]
<1>1. pause \in Pauses /\ pause.reason # "none"
  BY HeadTypes DEF Pauses
<1>2. e = IF Owns(d, w, i) THEN Write(c, i, [Free(d.item[i]) EXCEPT !.status = "waiting", !.used = @ - 1]) ELSE c
  <2>1. c = [d EXCEPT !.pause = [reason |-> IF @.reason = "auth" THEN "auth" ELSE reason,
                                 key |-> IF reason = "auth" THEN f.key ELSE @.key]]
    BY HeadTypes DEF Tables
  <2> HIDE DEF c
  <2> QED
    BY <2>1 DEF Refuse
<1> HIDE DEF pause
<1>3. Sound(c) /\ Calm(d, c) /\ Kept(d, c) /\ c.pause = pause /\ c.item = d.item
  BY <1>1, PauseSound
<1> HIDE DEF c
<1>4. CASE Owns(d, w, i)
  <2> DEFINE row == [Free(d.item[i]) EXCEPT !.status = "waiting", !.used = @ - 1]
  <2>1. /\ d.item[i] \in Rows /\ RowFits(d.item[i]) /\ d.item[i].owner = w /\ w # None
        /\ d.item[i].used > 0 /\ d.item[i].used \in 0..MaxAttempts
    BY <1>4, RowType, Constants DEF Owns, Rows
  <2>2. d.item[i].used - 1 \in 0..MaxAttempts
    BY <2>1, Constants
  <2>3. row = [d.item[i] EXCEPT !.owner = None, !.live = FALSE, !.status = "waiting", !.used = d.item[i].used - 1]
    BY <2>1 DEF Free, Rows
  <2>4. row \in Rows /\ row.owner = None /\ row.status = "waiting" /\ row.result = d.item[i].result
    <3> HIDE DEF row
    <3> QED
      BY <2>1, <2>2, <2>3 DEF Rows, ItemStatus
  <2>5. RowFits(row)
    BY <2>1, <2>4 DEF RowFits
  <2>6. e = Write(c, i, row)
    BY <1>2, <1>4
  <2> HIDE DEF row
  <2>7. Touched(c, e, w, i) /\ e.pause = c.pause
    BY <1>3, <2>1, <2>4, <2>5, <2>6, FreeTouches
  <2> QED
    BY <1>1, <1>3, <2>7, TouchedTransitive
<1>5. CASE ~Owns(d, w, i)
  <2>1. e = c
    BY <1>2, <1>5
  <2>2. Touched(c, e, w, i)
    BY <1>3, <2>1, UntouchedIs
  <2> QED
    BY <1>1, <1>3, <2>1, <2>2, TouchedTransitive
<1> QED
  BY <1>4, <1>5

WithItems(d, rows) == [d EXCEPT !.item = rows]

LEMMA ItemsIs ==
  ASSUME NEW d \in Tables, NEW rows \in [Items -> Rows], NEW e, e = WithItems(d, rows)
  PROVE  /\ e \in Tables /\ e.job = d.job /\ e.member = d.member /\ e.set = d.set /\ e.pause = d.pause
         /\ e.top = d.top /\ e.item = rows
BY DEF Tables, WithItems

\* startAttempt charges the request.
LEMMA StartIs ==
  ASSUME NEW d, Sound(d), NEW w \in Workers, NEW i \in Items, MayStart(d, w, i), NEW e, e = Start(d, i)
  PROVE  /\ Sound(e) /\ Calm(d, e) /\ Kept(d, e) /\ e.pause = d.pause
         /\ e.item[i].owner = w /\ e.item[i].live /\ e.item[i].used > 0
<1> DEFINE row == [d.item[i] EXCEPT !.used = d.item[i].used + 1]
<1>1. /\ d.item[i] \in Rows /\ RowFits(d.item[i]) /\ d.item[i].owner = w /\ d.item[i].live
      /\ d.item[i].used < MaxAttempts /\ d.item[i].used \in Nat
  BY RowType, Constants DEF MayStart, Owns, Rows
<1>2. d.item[i].used + 1 \in 0..MaxAttempts
  BY <1>1, Constants
<1>3. /\ row \in Rows /\ row.owner = w /\ row.live /\ row.used = d.item[i].used + 1
      /\ row.status = d.item[i].status /\ row.result = d.item[i].result
  BY <1>1, <1>2 DEF Rows
<1>4. e = [d EXCEPT !.item = [d.item EXCEPT ![i] = row]]
  BY HeadTypes DEF Start, Tables
<1> HIDE DEF row
<1>5. /\ e \in Tables /\ e.job = d.job /\ e.member = d.member /\ e.set = d.set /\ e.pause = d.pause /\ e.top = d.top
      /\ e.item[i] = row /\ \A x \in Items : x # i => e.item[x] = d.item[x]
  <2> DEFINE rows == [d.item EXCEPT ![i] = row]
  <2>1. d.item \in [Items -> Rows]
    BY HeadTypes DEF Tables
  <2>2. rows \in [Items -> Rows] /\ rows[i] = row /\ \A x \in Items : x # i => rows[x] = d.item[x]
    BY <1>3, <2>1
  <2>3. e = WithItems(d, rows)
    BY <1>4, Zenon DEF WithItems
  <2> HIDE DEF rows
  <2>4. /\ e \in Tables /\ e.job = d.job /\ e.member = d.member /\ e.set = d.set /\ e.pause = d.pause
        /\ e.top = d.top /\ e.item = rows
    BY <2>2, <2>3, HeadTypes, ItemsIs
  <2> QED
    BY <2>2, <2>4
<1>6. RowFits(row)
  BY <1>1, <1>3 DEF RowFits
<1>7. \A x \in Items : e.item[x].status = d.item[x].status /\ RowFits(e.item[x])
  BY <1>3, <1>5, <1>6 DEF Sound
<1>8. Sound(e) /\ SameJobs(d, e)
  BY <1>5, <1>7, SameSound
<1>9. Kept(d, e)
  <2> SUFFICES ASSUME NEW v \in Workers, NEW x \in Items PROVE Stays(d.item[x], e.item[x], v)
    BY DEF Kept
  <2>1. CASE x = i
    BY <1>1, <1>3, <1>5, <2>1 DEF Stays
  <2>2. CASE x # i
    BY <1>5, <2>2, CalmSame DEF Kept
  <2> QED
    BY <2>1, <2>2
<1> QED
  BY <1>1, <1>3, <1>5, <1>8, <1>9 DEF Calm

LeaseEnds(d, i) == [d EXCEPT !.item[i].live = FALSE]

\* A lease that is over has no other effect.
LEMMA LeaseOver ==
  ASSUME NEW d, Sound(d), NEW i \in Items, NEW e, e = LeaseEnds(d, i)
  PROVE  /\ Sound(e) /\ Calm(d, e) /\ e.pause = d.pause
         /\ \A x \in Items : x # i => e.item[x] = d.item[x]
         /\ e.item[i].owner = d.item[i].owner /\ e.item[i].used = d.item[i].used
<1> DEFINE row == [d.item[i] EXCEPT !.live = FALSE]
<1>1. d.item[i] \in Rows /\ RowFits(d.item[i])
  BY RowType
<1>2. /\ row \in Rows /\ row.owner = d.item[i].owner /\ row.used = d.item[i].used
      /\ row.status = d.item[i].status /\ row.result = d.item[i].result
  BY <1>1 DEF Rows
<1>3. e = [d EXCEPT !.item = [d.item EXCEPT ![i] = row]]
  BY HeadTypes DEF Tables, LeaseEnds
<1> HIDE DEF row
<1>4. /\ e \in Tables /\ e.job = d.job /\ e.member = d.member /\ e.set = d.set /\ e.pause = d.pause /\ e.top = d.top
      /\ e.item[i] = row /\ \A x \in Items : x # i => e.item[x] = d.item[x]
  <2> DEFINE rows == [d.item EXCEPT ![i] = row]
  <2>1. d.item \in [Items -> Rows]
    BY HeadTypes DEF Tables
  <2>2. rows \in [Items -> Rows] /\ rows[i] = row /\ \A x \in Items : x # i => rows[x] = d.item[x]
    BY <1>2, <2>1
  <2>3. e = WithItems(d, rows)
    BY <1>3, Zenon DEF WithItems
  <2> HIDE DEF rows
  <2>4. /\ e \in Tables /\ e.job = d.job /\ e.member = d.member /\ e.set = d.set /\ e.pause = d.pause
        /\ e.top = d.top /\ e.item = rows
    BY <2>2, <2>3, HeadTypes, ItemsIs
  <2> QED
    BY <2>2, <2>4
<1>5. RowFits(row)
  BY <1>1, <1>2 DEF RowFits
<1>6. \A x \in Items : e.item[x].status = d.item[x].status /\ RowFits(e.item[x])
  BY <1>2, <1>4, <1>5 DEF Sound
<1>7. Sound(e) /\ SameJobs(d, e)
  BY <1>4, <1>6, SameSound
<1> QED
  BY <1>2, <1>4, <1>7 DEF Calm

-----------------------------------------------------------------------------
(* What has been judged. *)

Eras == [1..Receipts -> {0} \cup Epochs]
Past(d, e) == EraFits(d, e) /\ AutoFits(d, e) /\ CursorFits(d, e)
ReadersStay(d, f, e) == \A k \in Ticks : ReaderFits(d, e, k) => ReaderFits(f, e, k)

LEMMA SetTypes ==
  ASSUME NEW d, Sound(d)
  PROVE  /\ d.set.epoch \in Epochs /\ d.set.epoch \in Nat \ {0} /\ d.set.boundary \in 0..Receipts
         /\ d.set.boundary \in Nat /\ d.set.cursor \in 0..Receipts /\ d.set.cursor \in Nat
         /\ d.set.on \in BOOLEAN /\ d.set.suspended \in BOOLEAN /\ d.top \in Nat /\ d.top <= Receipts
         /\ Receipts \in Nat
<1>1. d.set \in Settings /\ d.top \in 0..Receipts /\ Receipts \in Nat /\ Epochs \subseteq Nat \ {0}
  BY HeadTypes, Constants
<1>2. /\ d.set.epoch \in Epochs /\ d.set.boundary \in 0..Receipts /\ d.set.cursor \in 0..Receipts
      /\ d.set.on \in BOOLEAN /\ d.set.suspended \in BOOLEAN
  BY <1>1 DEF Settings
<1>3. \A x \in 0..Receipts : x \in Nat /\ x <= Receipts
  BY <1>1
<1>4. d.set.epoch \in Nat \ {0}
  BY <1>1, <1>2, Zenon
<1> QED
  BY <1>1, <1>2, <1>3, <1>4, Zenon

\* Jobs are never taken back.
JobsGrow(d, f) == \A j \in Jobs : d.job[j].state # "none" => f.job[j].state # "none"

LEMMA SameGrow ==
  ASSUME NEW d, NEW f, SameJobs(d, f), NEW e, AutoFits(d, e)
  PROVE  JobsGrow(d, f) /\ AutoFits(f, e)
BY DEF SameJobs, JobsGrow, AutoFits, Jobs

\* A part of a receipt is judged when its job is there.
LEMMA JudgedStays ==
  ASSUME NEW d, Sound(d), NEW f, JobsGrow(d, f), f.set.epoch = d.set.epoch,
         NEW e, NEW r \in 1..Receipts, NEW c \in Classes, Judged(d, e, r, c)
  PROVE  Judged(f, e, r, c)
<1> SUFFICES ASSUME Due(f, e, r, c)
             PROVE  f.job[<<e[r], r, c>>].state # "none"
  BY DEF Judged
<1>1. Due(d, e, r, c) /\ e[r] \in Epochs
  BY SetTypes DEF Due
<1>2. <<e[r], r, c>> \in Jobs
  BY <1>1 DEF Jobs, Autos
<1> QED
  BY <1>1, <1>2 DEF Judged, JobsGrow

\* A change of the settings: of the epoch, or of none of what the receipts are compared with.
SetMoves(d, f) ==
  \/ /\ f.set.epoch = d.set.epoch /\ f.set.boundary = d.set.boundary
     /\ f.set.on => d.set.on
     /\ f.set.on /\ ~f.set.suspended => ~d.set.suspended
  \/ f.set.epoch = d.set.epoch + 1 /\ f.set.boundary = d.top
  \/ f.set.epoch = d.set.epoch /\ f.set.boundary = d.top /\ ~f.set.on

LEMMA SetPast ==
  ASSUME NEW d, Sound(d), NEW e \in Eras, Past(d, e), NEW f, Sound(f), JobsGrow(d, f), AutoFits(f, e),
         f.top = d.top, f.set.cursor = d.set.cursor, SetMoves(d, f)
  PROVE  Past(f, e) /\ ReadersStay(d, f, e)
<1>0. /\ Receipts \in Nat /\ d.top \in Nat /\ d.top <= Receipts
      /\ d.set.epoch \in Nat \ {0} /\ f.set.epoch \in Nat \ {0} /\ d.set.boundary \in Nat /\ f.set.boundary \in Nat
      /\ d.set.cursor \in Nat /\ d.set.cursor <= Receipts
  BY SetTypes
<1>1. f.set.epoch = d.set.epoch \/ f.set.epoch = d.set.epoch + 1
  BY DEF SetMoves
<1>2. EraFits(d, e) /\ AutoFits(d, e) /\ CursorFits(d, e)
  BY DEF Past
<1>3. \A r \in 1..Receipts : e[r] \in 0..d.set.epoch /\ e[r] \in Nat /\ (r > d.top => e[r] = 0)
  BY <1>0, <1>2 DEF EraFits
<1>4. EraFits(f, e)
  <2>1. \A r \in 1..Receipts : e[r] \in 0..f.set.epoch /\ (r > f.top => e[r] = 0)
    BY <1>0, <1>1, <1>3
  <2>2. f.set.boundary <= f.top /\ f.set.cursor <= f.top
    BY <1>0, <1>2 DEF SetMoves, EraFits
  <2>3. f.set.on /\ ~f.set.suspended => \A r \in (f.set.boundary + 1)..f.top : e[r] = f.set.epoch
    <3>1. CASE f.set.boundary = d.top
      <4>1. \A r \in (f.set.boundary + 1)..f.top : FALSE
        BY <1>0, <3>1
      <4> QED
        BY <4>1
    <3>2. CASE f.set.boundary # d.top
      <4>1. /\ f.set.epoch = d.set.epoch /\ f.set.boundary = d.set.boundary
            /\ f.set.on => d.set.on
            /\ f.set.on /\ ~f.set.suspended => ~d.set.suspended
        BY <3>2 DEF SetMoves
      <4> QED
        BY <4>1, <1>2 DEF EraFits
    <3> QED
      BY <3>1, <3>2
  <2>4. f.set.on => \A r \in 1..f.set.boundary : e[r] # f.set.epoch
    <3>1. CASE f.set.epoch = d.set.epoch + 1
      <4>1. f.set.boundary <= Receipts
        BY <1>0, <2>2
      <4> QED
        BY <1>0, <1>3, <3>1, <4>1
    <3>2. CASE f.set.epoch # d.set.epoch + 1
      <4>1. f.set.on => f.set.epoch = d.set.epoch /\ f.set.boundary = d.set.boundary /\ d.set.on
        BY <3>2 DEF SetMoves
      <4> QED
        BY <4>1, <1>2 DEF EraFits
    <3> QED
      BY <3>1, <3>2
  <2> QED
    BY <2>1, <2>2, <2>3, <2>4 DEF EraFits
<1>5. AutoFits(f, e)
  OBVIOUS
<1>6. ASSUME NEW r \in 1..Receipts, NEW c \in Classes, f.set.epoch # d.set.epoch
      PROVE  Judged(f, e, r, c)
  BY <1>0, <1>1, <1>3, <1>6 DEF Judged, Due
<1>7. CursorFits(f, e)
  <2> SUFFICES ASSUME NEW r \in 1..f.set.cursor, NEW c \in Classes PROVE Judged(f, e, r, c)
    BY DEF CursorFits
  <2>1. r \in 1..Receipts /\ r \in 1..d.set.cursor
    BY <1>0
  <2>2. CASE f.set.epoch # d.set.epoch
    BY <1>6, <2>1, <2>2
  <2>3. CASE f.set.epoch = d.set.epoch
    <3>1. Judged(d, e, r, c)
      BY <1>2, <2>1 DEF CursorFits
    <3> QED
      BY <2>1, <2>3, <3>1, JudgedStays
  <2> QED
    BY <2>2, <2>3
<1>8. ASSUME NEW k \in Ticks, ReaderFits(d, e, k), k.phase = "reconcile"
      PROVE  ReaderFits(f, e, k)
  <2>1. k.epoch \in 1..d.set.epoch /\ k.done <= d.top /\ \A p \in k.parts : p[1] <= d.top
    BY <1>8 DEF ReaderFits
  <2>2. k.done \in Nat /\ k.done <= Receipts /\ k.parts \subseteq (1..Receipts) \X Classes
    BY <1>0 DEF Ticks
  <2>3. k.epoch \in 1..f.set.epoch
    BY <1>0, <1>1, <2>1
  <2>4. CASE k.epoch # f.set.epoch
    BY <2>1, <2>3, <2>4 DEF ReaderFits
  <2>5. CASE k.epoch = f.set.epoch
    <3>1. f.set.epoch = d.set.epoch
      BY <1>0, <1>1, <2>1, <2>5
    <3>2. /\ d.set.on => \A p \in k.parts : d.set.boundary < p[1]
          /\ \A r \in 1..k.done, c \in Classes : Judged(d, e, r, c)
          /\ \A p \in k.parts : \A r \in 1..p[1], c \in Classes : <<r, c>> \in k.parts \/ Judged(d, e, r, c)
      BY <1>8, <2>5, <3>1 DEF ReaderFits
    <3>3. f.set.on => d.set.on /\ f.set.boundary = d.set.boundary
      BY <1>0, <3>1 DEF SetMoves
    <3>4. \A r \in 1..k.done, c \in Classes : Judged(f, e, r, c)
      BY <1>0, <2>2, <3>1, <3>2, JudgedStays
    <3>5. ASSUME NEW p \in k.parts, NEW r \in 1..p[1], NEW c \in Classes
          PROVE  <<r, c>> \in k.parts \/ Judged(f, e, r, c)
      <4>1. p[1] \in 1..Receipts
        BY <2>2
      <4>2. r \in 1..Receipts
        BY <1>0, <4>1
      <4> QED
        BY <3>1, <3>2, <4>2, JudgedStays
    <3> QED
      BY <2>1, <2>3, <3>2, <3>3, <3>4, <3>5 DEF ReaderFits
  <2> QED
    BY <2>4, <2>5
<1>9. ReadersStay(d, f, e)
  BY <1>8 DEF ReadersStay, ReaderFits
<1> QED
  BY <1>4, <1>5, <1>7, <1>9 DEF Past

\* A transaction under configuration h.
Legal(d, f, e, h) ==
  Sound(f) /\ Past(f, e) /\ ReadersStay(d, f, e) /\ Seen(f.set, h) <= Seen(d.set, h)

LEMMA SeenType ==
  ASSUME NEW d, Sound(d), NEW h
  PROVE  Seen(d.set, h) \in Nat
BY SetTypes DEF Seen

LEMMA CalmLegal ==
  ASSUME NEW d, Sound(d), NEW e \in Eras, Past(d, e), NEW h, NEW f, Sound(f), Calm(d, f)
  PROVE  Legal(d, f, e, h)
<1>1. f.set = d.set /\ f.top = d.top /\ SameJobs(d, f)
  BY DEF Calm
<1>2. SetMoves(d, f)
  BY <1>1 DEF SetMoves
<1>3. Past(f, e) /\ ReadersStay(d, f, e)
  BY <1>1, <1>2, SetPast, SameGrow DEF Past
<1> QED
  BY <1>1, <1>3, SeenType DEF Legal

LEMMA LegalTransitive ==
  ASSUME NEW d, Sound(d), NEW f, NEW g, NEW e, NEW h, Legal(d, f, e, h), Legal(f, g, e, h)
  PROVE  Legal(d, g, e, h)
<1>1. Sound(f) /\ Sound(g)
  BY DEF Legal
<1>2. Seen(d.set, h) \in Nat /\ Seen(f.set, h) \in Nat /\ Seen(g.set, h) \in Nat
  BY <1>1, SeenType
<1> QED
  BY <1>2 DEF Legal, ReadersStay

CancelWith(d, set) == [CancelProject(d) EXCEPT !.set = set]

LEMMA CancelHead ==
  ASSUME NEW d, Sound(d), NEW set \in Settings, NEW e, e = CancelWith(d, set)
  PROVE  Sound(e) /\ SameJobs(d, e) /\ Kept(d, e) /\ e.set = set /\ e.pause = d.pause /\ e.top = d.top
<1>1. PICK c : c = CancelProject(d)
  OBVIOUS
<1>2. Sound(c) /\ Calm(d, c) /\ c.pause = d.pause /\ Kept(d, c)
  BY <1>1, CancelSound
<1>3. e = WithHead(c, set, c.pause, c.top)
  <2>1. c \in Tables /\ e = [c EXCEPT !.set = set]
    BY <1>1, <1>2, HeadTypes DEF CancelWith
  <2> QED
    BY <2>1 DEF Tables, WithHead
<1>4. /\ Sound(e) /\ SameJobs(c, e) /\ Kept(c, e) /\ e.set = set /\ e.pause = c.pause /\ e.top = c.top
      /\ e.item = c.item
  BY <1>2, <1>3, HeadTypes, HeadSound
<1>5. SameJobs(d, e)
  BY <1>2, <1>4 DEF SameJobs, Calm
<1>6. Kept(d, e)
  BY <1>2, <1>4 DEF Kept
<1> QED
  BY <1>2, <1>4, <1>5, <1>6 DEF Calm

\* suspendInstall.
LEMMA SuspendIs ==
  ASSUME NEW d, Sound(d), NEW e \in Eras, Past(d, e), NEW h, h.install = "off", NEW f, f = SuspendInstall(d)
  PROVE  Legal(d, f, e, h) /\ Kept(d, f) /\ f.pause = d.pause /\ f.top = d.top
<1>1. CASE d.set.suspended
  <2>1. f = d
    BY <1>1 DEF SuspendInstall
  <2>2. Calm(d, f) /\ Kept(d, f) /\ Sound(f)
    BY <2>1, CalmSame
  <2>3. Legal(d, f, e, h)
    BY <2>2, CalmLegal
  <2> QED
    BY <2>1, <2>2, <2>3
<1>2. CASE ~d.set.suspended
  <2> DEFINE set == [d.set EXCEPT !.suspended = TRUE]
  <2>1. /\ set \in Settings /\ set.epoch = d.set.epoch /\ set.boundary = d.set.boundary /\ set.on = d.set.on
        /\ set.cursor = d.set.cursor /\ set.suspended
    BY HeadTypes DEF Settings
  <2>2. f = CancelWith(d, set)
    <3>1. PICK c : c = CancelProject(d)
      OBVIOUS
    <3>2. c \in Tables /\ c.set = d.set
      BY <3>1, CancelSound, HeadTypes DEF Calm
    <3>3. f = [c EXCEPT !.set.suspended = TRUE]
      BY <1>2, <3>1 DEF SuspendInstall
    <3> QED
      BY <3>1, <3>2, <3>3 DEF CancelWith, Tables
  <2> HIDE DEF set
  <2>3. Sound(f) /\ SameJobs(d, f) /\ Kept(d, f) /\ f.set = set /\ f.pause = d.pause /\ f.top = d.top
    BY <2>1, <2>2, CancelHead
  <2>4. SetMoves(d, f)
    BY <2>1, <2>3 DEF SetMoves
  <2>5. Past(f, e) /\ ReadersStay(d, f, e)
    BY <2>1, <2>3, <2>4, SetPast, SameGrow DEF Past
  <2>6. Seen(f.set, h) <= Seen(d.set, h)
    BY <1>2, <2>1, <2>3, SetTypes DEF Seen
  <2> QED
    BY <2>3, <2>5, <2>6 DEF Legal
<1> QED
  BY <1>1, <1>2

\* resumeInstall: a new epoch, if the project is on.
LEMMA ResumeIs ==
  ASSUME NEW d, Sound(d), NEW e \in Eras, Past(d, e), NEW h, h.install = "on", Seen(d.set, h) <= MaxChanges,
         NEW f, f = ResumeInstall(d)
  PROVE  Legal(d, f, e, h) /\ Kept(d, f) /\ f.pause = d.pause /\ ~f.set.suspended /\ f.item = d.item
<1>1. CASE ~d.set.suspended
  <2>1. f = d
    BY <1>1 DEF ResumeInstall
  <2>2. Calm(d, f) /\ Kept(d, f) /\ Sound(f)
    BY <2>1, CalmSame
  <2>3. Legal(d, f, e, h)
    BY <2>2, CalmLegal
  <2> QED
    BY <1>1, <2>1, <2>2, <2>3
<1>2. CASE d.set.suspended
  <2> DEFINE epoch == d.set.epoch + IF d.set.on THEN 1 ELSE 0
             set == [d.set EXCEPT !.suspended = FALSE, !.boundary = d.top, !.epoch = epoch]
  <2>1. epoch \in Epochs
    <3>1. CASE d.set.on
      <4>1. 2 * ((d.set.epoch + 1) - 1) <= MaxChanges
        BY <1>2, <3>1, SetTypes, Constants DEF Seen
      <4>2. epoch = d.set.epoch + 1 /\ d.set.epoch + 1 \in Nat \ {0}
        BY <3>1, SetTypes
      <4> QED
        BY <4>1, <4>2, EpochFits
    <3>2. CASE ~d.set.on
      <4>1. epoch = d.set.epoch
        BY <3>2, SetTypes
      <4> QED
        BY <4>1, SetTypes
    <3> QED
      BY <3>1, <3>2
  <2>2. epoch = IF d.set.on THEN d.set.epoch + 1 ELSE d.set.epoch
    BY SetTypes
  <2>3. f = [d EXCEPT !.set = set]
    BY <1>2, HeadTypes DEF ResumeInstall, Tables
  <2> HIDE DEF epoch
  <2>4. /\ set \in Settings /\ set.epoch = epoch /\ set.boundary = d.top /\ set.on = d.set.on
        /\ set.cursor = d.set.cursor /\ ~set.suspended
    BY <2>1, HeadTypes DEF Settings
  <2> HIDE DEF set
  <2>5. f = WithHead(d, set, d.pause, d.top)
    BY <2>3, HeadTypes DEF Tables, WithHead
  <2>6. /\ Sound(f) /\ SameJobs(d, f) /\ Kept(d, f) /\ f.set = set /\ f.pause = d.pause /\ f.top = d.top
        /\ f.item = d.item
    BY <2>4, <2>5, HeadTypes, HeadSound
  <2>7. SetMoves(d, f)
    BY <2>2, <2>4, <2>6 DEF SetMoves
  <2>8. Past(f, e) /\ ReadersStay(d, f, e)
    BY <2>4, <2>6, <2>7, SetPast, SameGrow DEF Past
  <2>9. Seen(f.set, h) <= Seen(d.set, h)
    BY <1>2, <2>2, <2>4, <2>6, SetTypes DEF Seen
  <2> QED
    BY <2>4, <2>6, <2>8, <2>9 DEF Legal
<1> QED
  BY <1>1, <1>2

-----------------------------------------------------------------------------
(* Steps of a worker. *)

Budgets(set, h, b) == h.key <= 1 + b.changes /\ Seen(set, h) <= b.changes
Requested(d, W) == \A w \in Workers, i \in Items : RequestFits(d.item[i], W[w].flight[i], w)

LEMMA InvParts ==
  IInv <=> /\ Sound(db) /\ Past(db, era) /\ worker \in [Workers -> Ticks] /\ era \in Eras
           /\ host \in Hosts /\ bounds \in Spending /\ Budgets(db.set, host, bounds)
           /\ Requested(db, worker) /\ \A w \in Workers : ReaderFits(db, era, worker[w])
BY DEF IInv, Sound, Past, Eras, Budgets, Requested

LEMMA InvPartsNext ==
  ASSUME Sound(db'), Past(db', era'), worker' \in [Workers -> Ticks], era' \in Eras,
         host' \in Hosts, bounds' \in Spending, Budgets(db'.set, host', bounds'),
         Requested(db', worker'), \A w \in Workers : ReaderFits(db', era', worker'[w])
  PROVE  IInv'
BY DEF IInv, Sound, Past, Eras, Budgets, Requested

LEMMA RequestStays ==
  ASSUME NEW r, NEW s, r.used \in Int, s.used \in Int, NEW f, NEW v, Stays(r, s, v), RequestFits(r, f, v)
  PROVE  RequestFits(s, f, v)
BY DEF Stays, RequestFits

LEMMA KeptIsBut ==
  ASSUME NEW d, NEW e, Kept(d, e), NEW w, NEW i
  PROVE  KeptBut(d, e, w, i)
BY DEF Kept, KeptBut

\* A transaction, and what one worker remembers of it.
LEMMA WorkerStep ==
  ASSUME IInv, NEW w \in Workers, NEW i, NEW r \in Ticks,
         Legal(db, db', era, host), KeptBut(db, db', w, i), worker' = [worker EXCEPT ![w] = r],
         ReaderFits(db', era, r),
         \A x \in Items : r.flight[x].at = "sent" => \/ /\ x # i \/ Stays(db.item[x], db'.item[x], w)
                                                        /\ r.flight[x] = worker[w].flight[x]
                                                     \/ RequestFits(db'.item[x], r.flight[x], w),
         UNCHANGED <<host, era>>, bounds' \in Spending, bounds'.changes = bounds.changes
  PROVE  IInv'
<1>1. /\ Sound(db) /\ Past(db, era) /\ worker \in [Workers -> Ticks] /\ era \in Eras
      /\ host \in Hosts /\ bounds \in Spending /\ Budgets(db.set, host, bounds)
      /\ Requested(db, worker) /\ \A v \in Workers : ReaderFits(db, era, worker[v])
  BY InvParts
<1>2. Sound(db') /\ Past(db', era) /\ ReadersStay(db, db', era) /\ Seen(db'.set, host) <= Seen(db.set, host)
  BY DEF Legal
<1>3. worker' \in [Workers -> Ticks]
  BY <1>1
<1>4. Budgets(db'.set, host', bounds')
  <2>1. Seen(db'.set, host) \in Nat /\ Seen(db.set, host) \in Nat
    BY <1>1, <1>2, SeenType
  <2>2. bounds.changes \in Nat
    BY <1>1, Constants DEF Spending
  <2> QED
    BY <1>1, <1>2, <2>1, <2>2 DEF Budgets
<1>5. ASSUME NEW v \in Workers, NEW x \in Items
      PROVE  RequestFits(db'.item[x], worker'[v].flight[x], v)
  <2>1. db.item[x].used \in Int /\ db'.item[x].used \in Int
    BY <1>1, <1>2, RowType
  <2>2. RequestFits(db.item[x], worker[v].flight[x], v)
    BY <1>1 DEF Requested
  <2>3. CASE v # w
    <3>1. worker'[v] = worker[v] /\ Stays(db.item[x], db'.item[x], v)
      BY <1>1, <2>3 DEF KeptBut
    <3> QED
      BY <2>1, <2>2, <3>1, RequestStays
  <2>4. CASE v = w
    <3>1. worker'[v] = r
      BY <1>1, <2>4
    <3>2. CASE (x # i \/ Stays(db.item[x], db'.item[x], w)) /\ r.flight[x] = worker[w].flight[x]
      <4>1. Stays(db.item[x], db'.item[x], v)
        BY <3>2 DEF KeptBut
      <4> QED
        BY <2>1, <2>2, <2>4, <3>1, <3>2, <4>1, RequestStays
    <3>3. CASE r.flight[x].at # "sent"
      BY <3>1, <3>3 DEF RequestFits
    <3> QED
      BY <2>4, <3>1, <3>2, <3>3
  <2> QED
    BY <2>3, <2>4
<1>6. \A v \in Workers : ReaderFits(db', era, worker'[v])
  <2> SUFFICES ASSUME NEW v \in Workers PROVE ReaderFits(db', era, worker'[v])
    OBVIOUS
  <2>1. CASE v = w
    BY <1>1, <2>1
  <2>2. CASE v # w
    <3>1. worker'[v] = worker[v] /\ worker[v] \in Ticks /\ ReaderFits(db, era, worker[v])
      BY <1>1, <2>2
    <3> QED
      BY <1>2, <3>1 DEF ReadersStay
  <2> QED
    BY <2>1, <2>2
<1>7. Requested(db', worker')
  BY <1>5 DEF Requested
<1>8. host' = host /\ era' = era
  OBVIOUS
<1>9. Past(db', era') /\ \A v \in Workers : ReaderFits(db', era', worker'[v])
  BY <1>2, <1>6, <1>8
<1>10. host' \in Hosts /\ era' \in Eras
  BY <1>1, <1>8
<1> QED
  BY <1>2, <1>3, <1>4, <1>7, <1>9, <1>10, InvPartsNext

\* What a worker sets to is typed.
Keeping(r, c) == [r EXCEPT !.closing = c]

LEMMA KeepingIs ==
  ASSUME NEW r \in Ticks, NEW c \in BOOLEAN, NEW s, s = Keeping(r, c)
  PROVE  /\ s \in Ticks /\ s.phase = r.phase /\ s.flight = r.flight /\ s.parts = r.parts /\ s.epoch = r.epoch
         /\ s.done = r.done
         /\ \A d, e : ReaderFits(d, e, r) => ReaderFits(d, e, s)
<1>1. /\ s \in Ticks /\ s.phase = r.phase /\ s.flight = r.flight /\ s.parts = r.parts /\ s.epoch = r.epoch
      /\ s.done = r.done
  BY DEF Keeping, Ticks
<1> QED
  BY <1>1 DEF ReaderFits

LEMMA SetWorkerIs ==
  ASSUME NEW w, NEW r, SetWorker(w, r)
  PROVE  worker' = [worker EXCEPT ![w] = Keeping(r, worker[w].closing)]
BY DEF SetWorker, Keeping

\* WorkerStep for SetWorker.
LEMMA TickStep ==
  ASSUME IInv, NEW w \in Workers, NEW i, NEW r \in Ticks,
         Legal(db, db', era, host), KeptBut(db, db', w, i), SetWorker(w, r), ReaderFits(db', era, r),
         \A x \in Items : r.flight[x].at = "sent" => \/ /\ x # i \/ Stays(db.item[x], db'.item[x], w)
                                                        /\ r.flight[x] = worker[w].flight[x]
                                                     \/ RequestFits(db'.item[x], r.flight[x], w),
         UNCHANGED <<host, era>>, bounds' \in Spending, bounds'.changes = bounds.changes
  PROVE  IInv'
<1>1. worker[w] \in Ticks
  BY InvParts
<1>2. worker[w].closing \in BOOLEAN
  BY <1>1 DEF Ticks
<1>3. PICK s : s = Keeping(r, worker[w].closing)
  OBVIOUS
<1>4. s \in Ticks /\ s.flight = r.flight /\ ReaderFits(db', era, s)
  BY <1>2, <1>3, KeepingIs
<1>5. worker' = [worker EXCEPT ![w] = s]
  BY <1>3, SetWorkerIs
<1>6. \A x \in Items : s.flight[x].at = "sent" => \/ /\ x # i \/ Stays(db.item[x], db'.item[x], w)
                                                     /\ s.flight[x] = worker[w].flight[x]
                                                  \/ RequestFits(db'.item[x], s.flight[x], w)
  BY <1>4
<1>7. /\ s \in Ticks /\ Legal(db, db', era, host) /\ KeptBut(db, db', w, i) /\ ReaderFits(db', era, s)
      /\ UNCHANGED <<host, era>> /\ bounds' \in Spending /\ bounds'.changes = bounds.changes
  BY <1>4
<1> QED
  BY ONLY IInv, w \in Workers, <1>5, <1>6, <1>7, WorkerStep

LEMMA NoFlightType == NoFlight \in Requests /\ NoFlight.at = "none"
BY Constants DEF NoFlight, Requests

LEMMA AsleepType ==
  /\ Asleep \in Ticks /\ Down \in Ticks /\ Asleep.phase = "idle" /\ Down.phase = "down"
  /\ \A x \in Items : Asleep.flight[x].at = "none" /\ Down.flight[x].at = "none"
  /\ Asleep.room = 0 /\ Asleep.parts = {}
<1>1. Asleep.flight \in [Items -> Requests] /\ \A x \in Items : Asleep.flight[x].at = "none"
  BY NoFlightType DEF Asleep
<1>2. Asleep \in Ticks
  BY <1>1, Constants DEF Asleep, Ticks
<1>3. Down \in Ticks /\ Down.phase = "down" /\ Down.flight = Asleep.flight
  BY <1>2 DEF Down, Ticks
<1> QED
  BY <1>1, <1>2, <1>3 DEF Asleep

LEMMA SpendsIs ==
  ASSUME bounds \in Spending, NEW kind \in {"faults", "changes", "refusals"}, Spends(kind)
  PROVE  /\ bounds' \in Spending
         /\ kind # "changes" => bounds'.changes = bounds.changes
         /\ kind = "changes" => bounds'.changes = bounds.changes + 1
<1>1. bounds[kind] < Limits[kind] /\ bounds' = [bounds EXCEPT ![kind] = bounds[kind] + 1]
  BY DEF Spends
<1>2. PICK f \in 0..MaxFaults, c \in 0..MaxChanges, u \in 0..MaxRefusals :
        bounds = [faults |-> f, changes |-> c, refusals |-> u]
  BY DEF Spending
<1>3. MaxFaults \in Nat /\ MaxChanges \in Nat /\ MaxRefusals \in Nat
  BY Constants
<1>4. CASE kind = "faults"
  <2>1. bounds' = [faults |-> f + 1, changes |-> c, refusals |-> u] /\ f < MaxFaults
    BY <1>1, <1>2, <1>4 DEF Limits
  <2>2. f + 1 \in 0..MaxFaults
    BY <1>3, <2>1
  <2> QED
    BY <1>2, <1>4, <2>1, <2>2 DEF Spending
<1>5. CASE kind = "changes"
  <2>1. bounds' = [faults |-> f, changes |-> c + 1, refusals |-> u] /\ c < MaxChanges
    BY <1>1, <1>2, <1>5 DEF Limits
  <2>2. c + 1 \in 0..MaxChanges
    BY <1>3, <2>1
  <2> QED
    BY <1>2, <1>5, <2>1, <2>2 DEF Spending
<1>6. CASE kind = "refusals"
  <2>1. bounds' = [faults |-> f, changes |-> c, refusals |-> u + 1] /\ u < MaxRefusals
    BY <1>1, <1>2, <1>6 DEF Limits
  <2>2. u + 1 \in 0..MaxRefusals
    BY <1>3, <2>1
  <2> QED
    BY <1>2, <1>6, <2>1, <2>2 DEF Spending
<1> QED
  BY <1>4, <1>5, <1>6

LEMMA KeptTransitive ==
  ASSUME NEW d, Sound(d), NEW e, Sound(e), NEW f, Sound(f), Kept(d, e), Kept(e, f)
  PROVE  Kept(d, f)
<1> SUFFICES ASSUME NEW v \in Workers, NEW x \in Items PROVE Stays(d.item[x], f.item[x], v)
  BY DEF Kept
<1>1. Stays(d.item[x], e.item[x], v) /\ Stays(e.item[x], f.item[x], v)
  BY DEF Kept
<1>2. d.item[x].used \in Int /\ e.item[x].used \in Int /\ f.item[x].used \in Int
  BY RowType
<1> QED
  BY <1>1, <1>2 DEF Stays

\* A worker that takes no part.
LEMMA StillStep ==
  ASSUME IInv, NEW w \in Workers, Legal(db, db', era, host), Kept(db, db'), UNCHANGED <<worker, host, era, bounds>>
  PROVE  IInv'
<1>1. worker \in [Workers -> Ticks] /\ bounds \in Spending /\ ReaderFits(db, era, worker[w]) /\ worker[w] \in Ticks
  BY InvParts
<1>2. worker' = [worker EXCEPT ![w] = worker[w]]
  BY <1>1
<1>3. ReaderFits(db', era, worker[w])
  BY <1>1 DEF Legal, ReadersStay
<1>4. KeptBut(db, db', w, None) /\ \A x \in Items : Stays(db.item[x], db'.item[x], w)
  BY KeptIsBut DEF Kept
<1>5. bounds' \in Spending /\ bounds'.changes = bounds.changes
  BY <1>1
<1> QED
  BY <1>1, <1>2, <1>3, <1>4, <1>5, WorkerStep

\* A step of a worker that has, or now has, nothing out and nothing to read.
LEMMA QuietStep ==
  ASSUME IInv, NEW w \in Workers, NEW r \in Ticks, r.phase # "reconcile", \A x \in Items : r.flight[x].at = "none",
         Legal(db, db', era, host), Kept(db, db'), SetWorker(w, r), UNCHANGED <<host, era, bounds>>
  PROVE  IInv'
<1>1. ReaderFits(db', era, r)
  BY DEF ReaderFits
<1>2. KeptBut(db, db', w, None)
  BY KeptIsBut
<1>3. \A x \in Items : r.flight[x].at # "sent"
  OBVIOUS
<1>4. bounds' \in Spending /\ bounds'.changes = bounds.changes
  BY InvParts
<1> QED
  BY <1>1, <1>2, <1>3, <1>4, TickStep

LEMMA DispatchStep ==
  ASSUME IInv, NEW w \in Workers, NEW d, Legal(db, d, era, host), Kept(db, d), NEW key, Dispatch(w, d, key),
         UNCHANGED <<host, era, bounds>>
  PROVE  IInv'
<1>0. Sound(db) /\ Sound(d) /\ Past(d, era) /\ era \in Eras
  BY InvParts DEF Legal
<1>1. PICK lifted : lifted = IF KeyChanged(d, key) THEN LiftForKey(d) ELSE d
  OBVIOUS
<1>2. Sound(lifted) /\ Calm(d, lifted) /\ Kept(d, lifted)
  BY <1>0, <1>1, LiftIs, CalmSame
<1>3. Legal(db, lifted, era, host) /\ Kept(db, lifted)
  <2>1. Legal(d, lifted, era, host)
    BY <1>0, <1>2, CalmLegal
  <2> QED
    BY <1>0, <1>2, <2>1, LegalTransitive, KeptTransitive
<1>4. PICK r : /\ db' = lifted /\ SetWorker(w, r)
               /\ r = Asleep \/ \E room \in {1, Concurrency} : r = [Asleep EXCEPT !.phase = "claim", !.room = room]
  BY <1>1 DEF Dispatch
<1>5. r \in Ticks /\ r.phase # "reconcile" /\ \A x \in Items : r.flight[x].at = "none"
  <2>1. \A room \in {1, Concurrency} : room \in 0..Concurrency
    BY Constants
  <2>2. CASE r = Asleep
    BY <2>2, AsleepType
  <2>3. ASSUME NEW room \in 0..Concurrency, r = [Asleep EXCEPT !.phase = "claim", !.room = room]
        PROVE  r \in Ticks /\ r.phase = "claim" /\ r.flight = Asleep.flight
    BY <2>3, AsleepType DEF Ticks
  <2> QED
    BY <1>4, <2>1, <2>2, <2>3, AsleepType
<1> QED
  BY <1>3, <1>4, <1>5, QuietStep

LEMMA HoldIs ==
  ASSUME NEW d, Sound(d), era \in Eras, Past(d, era), NEW f, f = Suspended(d)
  PROVE  Legal(d, f, era, host) /\ Kept(d, f) /\ f.pause = d.pause
<1>1. CASE host.install = "off"
  BY <1>1, SuspendIs DEF Suspended
<1>2. CASE host.install # "off"
  <2>1. f = d
    BY <1>2 DEF Suspended
  <2> QED
    BY <2>1, CalmSame, CalmLegal
<1> QED
  BY <1>1, <1>2

-----------------------------------------------------------------------------
(* Reconciliation. *)

LEMMA NewPartsAre ==
  ASSUME NEW d, Sound(d)
  PROVE  /\ NewParts(d) \in SUBSET Parts
         /\ \A p \in Parts :
              p \in NewParts(d) <=> /\ d.set.on /\ d.set.boundary < p[1] /\ d.set.cursor < p[1] /\ p[1] <= d.top
<1>1. d.set.boundary \in Nat /\ d.set.cursor \in Nat
  BY SetTypes
<1>2. PICK m : m = Max({d.set.boundary, d.set.cursor})
  OBVIOUS
<1>3. m = IF d.set.boundary >= d.set.cursor THEN d.set.boundary ELSE d.set.cursor
  BY <1>1, <1>2, LargerOf
<1>4. NewParts(d) = {p \in Parts : d.set.on /\ m < p[1] /\ p[1] <= d.top}
  BY <1>2 DEF NewParts, Parts
<1>5. \A p \in Parts : p[1] \in Nat
  BY Constants DEF Parts
<1>6. \A p \in Parts : m < p[1] <=> d.set.boundary < p[1] /\ d.set.cursor < p[1]
  BY <1>1, <1>3, <1>5
<1> QED
  BY <1>4, <1>6

\* A worker that begins to reconcile.
Reading(key, epoch, parts) ==
  [Asleep EXCEPT !.phase = "reconcile", !.key = key, !.epoch = epoch, !.parts = parts]

LEMMA ReadingIs ==
  ASSUME NEW key, key \in {0} \cup Keys, NEW epoch, epoch \in {0} \cup Epochs, NEW parts \in SUBSET Parts,
         NEW r, r = Reading(key, epoch, parts)
  PROVE  /\ r \in Ticks /\ r.phase = "reconcile" /\ r.key = key /\ r.epoch = epoch /\ r.parts = parts /\ r.done = 0
         /\ \A x \in Items : r.flight[x].at = "none"
<1>1. Asleep \in Ticks /\ Asleep.done = 0 /\ \A x \in Items : Asleep.flight[x].at = "none"
  BY AsleepType DEF Asleep
<1> QED
  BY <1>1 DEF Reading, Ticks, Parts

LEMMA ReadingFits ==
  ASSUME NEW d, Sound(d), Past(d, era), era \in Eras, ~d.set.suspended,
         NEW key, key \in {0} \cup Keys, NewParts(d) # {},
         NEW r, r = Reading(key, d.set.epoch, NewParts(d))
  PROVE  r \in Ticks /\ ReaderFits(d, era, r) /\ \A x \in Items : r.flight[x].at = "none"
<1>0. NewParts(d) \in SUBSET Parts /\ d.set.epoch \in {0} \cup Epochs
  BY NewPartsAre, SetTypes
<1>1. /\ r \in Ticks /\ r.phase = "reconcile" /\ r.epoch = d.set.epoch /\ r.parts = NewParts(d) /\ r.done = 0
      /\ \A x \in Items : r.flight[x].at = "none"
  <2>1. PICK epoch, parts : epoch = d.set.epoch /\ parts = NewParts(d)
    OBVIOUS
  <2>2. epoch \in {0} \cup Epochs /\ parts \in SUBSET Parts /\ r = Reading(key, epoch, parts)
    BY <1>0, <2>1
  <2>3. /\ r \in Ticks /\ r.phase = "reconcile" /\ r.epoch = epoch /\ r.parts = parts /\ r.done = 0
        /\ \A x \in Items : r.flight[x].at = "none"
    BY <2>2, ReadingIs
  <2> QED
    BY <2>1, <2>3
<1>2. /\ d.set.epoch \in Nat \ {0} /\ d.top \in Nat /\ d.top <= Receipts /\ Receipts \in Nat
      /\ d.set.boundary \in Nat /\ d.set.cursor \in Nat
  BY SetTypes
<1>3. \A p \in NewParts(d) : p \in Parts /\ d.set.on /\ d.set.boundary < p[1] /\ d.set.cursor < p[1] /\ p[1] <= d.top
  BY NewPartsAre
<1>4. \A r1 \in 1..0, c \in Classes : Judged(d, era, r1, c)
  OBVIOUS
<1>5. ASSUME NEW p \in NewParts(d), NEW x \in 1..p[1], NEW c \in Classes
      PROVE  <<x, c>> \in NewParts(d) \/ Judged(d, era, x, c)
  <2>1. p[1] \in Nat /\ p[1] <= d.top /\ d.set.on
    BY <1>3, Constants DEF Parts
  <2>2. x \in 1..Receipts /\ x \in Nat /\ x <= d.top
    BY <1>2, <2>1
  <2>3. <<x, c>> \in Parts /\ <<x, c>>[1] = x
    BY <2>2 DEF Parts
  <2>4. CASE x <= d.set.boundary
    <3>1. era[x] # d.set.epoch
      BY <1>2, <2>1, <2>2, <2>4 DEF Past, EraFits
    <3> QED
      BY <3>1 DEF Judged, Due
  <2>5. CASE x <= d.set.cursor
    BY <1>2, <2>2, <2>5 DEF Past, CursorFits
  <2>6. CASE x > d.set.boundary /\ x > d.set.cursor
    <3>1. d.set.boundary < <<x, c>>[1] /\ d.set.cursor < <<x, c>>[1] /\ <<x, c>>[1] <= d.top
      BY <2>2, <2>3, <2>6
    <3> QED
      BY <2>1, <2>3, <3>1, NewPartsAre
  <2> QED
    BY <1>2, <2>2, <2>4, <2>5, <2>6
<1>6. r.epoch \in 1..d.set.epoch /\ r.done <= d.top
  BY <1>1, <1>2
<1> QED
  BY <1>1, <1>3, <1>4, <1>5, <1>6 DEF ReaderFits

LEMMA TickInv ==
  ASSUME IInv, NEW w \in Workers, Tick(w)
  PROVE  IInv'
<1>0. /\ Sound(db) /\ Past(db, era) /\ era \in Eras /\ host \in Hosts /\ Seen(db.set, host) <= bounds.changes
      /\ bounds \in Spending
  BY InvParts DEF Budgets
<1>1. CASE host.install # "on"
  <2>1. db' = Suspended(db) /\ UNCHANGED <<worker, host, era, bounds>>
    BY <1>1 DEF Tick
  <2>2. Legal(db, db', era, host) /\ Kept(db, db')
    BY <1>0, <2>1, HoldIs
  <2> QED
    BY <2>1, <2>2, StillStep
<1>2. CASE host.install = "on"
  <2>1. PICK d : d = ResumeInstall(db)
    OBVIOUS
  <2>2. Seen(db.set, host) <= MaxChanges
    BY <1>0, SeenType, Constants DEF Spending
  <2>3. Legal(db, d, era, host) /\ Kept(db, d) /\ ~d.set.suspended
    BY <1>0, <1>2, <2>1, <2>2, ResumeIs
  <2>4. CASE NewParts(d) = {}
    <3>1. Dispatch(w, d, host.key) /\ UNCHANGED <<host, era, bounds>>
      BY <1>2, <2>1, <2>4 DEF Tick
    <3> QED
      BY <2>3, <3>1, DispatchStep
  <2>5. CASE NewParts(d) # {}
    <3>1. PICK r : r = Reading(host.key, d.set.epoch, NewParts(d))
      OBVIOUS
    <3>2. db' = d /\ SetWorker(w, r) /\ UNCHANGED <<host, era, bounds>>
      BY <1>2, <2>1, <2>5, <3>1 DEF Tick, Reading
    <3>3. Sound(d) /\ Past(d, era)
      BY <2>3 DEF Legal
    <3>4. host.key \in {0} \cup Keys
      BY <1>0 DEF Hosts
    <3>5. r \in Ticks /\ ReaderFits(d, era, r) /\ \A x \in Items : r.flight[x].at = "none"
      BY <1>0, <2>3, <2>5, <3>1, <3>3, <3>4, ReadingFits
    <3>6. ReaderFits(db', era, r)
      BY <3>2, <3>5
    <3>7. Legal(db, db', era, host) /\ KeptBut(db, db', w, None)
      BY <2>3, <3>2, KeptIsBut
    <3>8. \A x \in Items : r.flight[x].at # "sent"
      BY <3>5
    <3>9. bounds' \in Spending /\ bounds'.changes = bounds.changes
      BY <1>0, <3>2
    <3> QED
      BY <3>2, <3>5, <3>6, <3>7, <3>8, <3>9, TickStep
  <2> QED
    BY <2>4, <2>5
<1> QED
  BY <1>1, <1>2

\* A worker that has read on: what is left, and how far it came.
ReadOn(k, parts, failed, done) == [k EXCEPT !.parts = parts, !.failed = failed, !.done = done]

LEMMA ReadOnIs ==
  ASSUME NEW k \in Ticks, NEW parts \in SUBSET Parts, NEW failed \in BOOLEAN, NEW done, done \in 0..Receipts,
         NEW r, r = ReadOn(k, parts, failed, done)
  PROVE  /\ r \in Ticks /\ r.phase = k.phase /\ r.epoch = k.epoch /\ r.parts = parts /\ r.done = done
         /\ r.flight = k.flight
BY DEF ReadOn, Ticks, Parts

\* The first part is judged: what the worker has left still follows what is judged.
LEMMA JudgedOn ==
  ASSUME NEW f, Sound(f), NEW k \in Ticks, k.phase = "reconcile", k.parts # {}, ReaderFits(f, era, k),
         NEW p, p = FirstPart(k.parts), NEW rest, rest = k.parts \ {p},
         k.epoch = f.set.epoch => Judged(f, era, p[1], p[2]),
         NEW r, r.phase = k.phase, r.epoch = k.epoch, r.parts = rest, r.done = Done(p[1], rest, TRUE, k.done)
  PROVE  ReaderFits(f, era, r)
<1>1. k.parts \in SUBSET Parts /\ k.done \in 0..Receipts /\ Receipts \in Nat
  BY Constants DEF Ticks, Parts
<1>2. p \in k.parts /\ \A q \in k.parts : p[1] < q[1] \/ (p[1] = q[1] /\ p[2] <= q[2])
  BY <1>1, FirstPartIs
<1>3. p[1] \in 1..Receipts /\ p[2] \in Classes /\ p = <<p[1], p[2]>>
  BY <1>1, <1>2 DEF Parts
<1> DEFINE done == r.done
<1>4. done = IF \E c \in Classes : <<p[1], c>> \in rest THEN k.done ELSE p[1]
  BY DEF Done
<1>7. r.phase = k.phase /\ r.epoch = k.epoch /\ r.parts = rest /\ r.done = done
  OBVIOUS
<1> HIDE DEF done
<1>8. /\ k.epoch \in 1..f.set.epoch /\ k.done <= f.top /\ \A q \in k.parts : q[1] <= f.top
      /\ k.epoch = f.set.epoch =>
           /\ f.set.on => \A q \in k.parts : f.set.boundary < q[1]
           /\ \A x \in 1..k.done, c \in Classes : Judged(f, era, x, c)
           /\ \A q \in k.parts : \A x \in 1..q[1], c \in Classes : <<x, c>> \in k.parts \/ Judged(f, era, x, c)
  BY DEF ReaderFits
<1>9. done <= f.top
  BY <1>2, <1>4, <1>8
<1>10. ASSUME k.epoch = f.set.epoch, NEW q \in rest, NEW x \in 1..q[1], NEW c \in Classes
       PROVE  <<x, c>> \in rest \/ Judged(f, era, x, c)
  <2>1. <<x, c>> \in k.parts \/ Judged(f, era, x, c)
    BY <1>8, <1>10
  <2>2. <<x, c>> = p => x = p[1] /\ c = p[2]
    OBVIOUS
  <2> QED
    BY <1>10, <2>1, <2>2
<1>11. ASSUME k.epoch = f.set.epoch, NEW x \in 1..done, NEW c \in Classes
       PROVE  Judged(f, era, x, c)
  <2>1. CASE \E z \in Classes : <<p[1], z>> \in rest
    BY <1>4, <1>8, <1>11, <2>1
  <2>2. CASE ~\E z \in Classes : <<p[1], z>> \in rest
    <3>1. done = p[1] /\ x \in 1..p[1]
      BY <1>4, <2>2
    <3>2. CASE <<x, c>> \in k.parts
      <4>1. p[1] < x \/ p[1] = x
        BY <1>2, <3>2
      <4>2. x = p[1]
        BY <1>3, <3>1, <4>1
      <4>3. <<x, c>> \notin rest
        BY <2>2, <4>2
      <4>4. <<x, c>> = p
        BY <3>2, <4>3
      <4>5. c = p[2]
        BY <4>4
      <4> QED
        BY <1>11, <4>2, <4>5
    <3>3. CASE <<x, c>> \notin k.parts
      BY <1>2, <1>8, <1>11, <3>1, <3>3
    <3> QED
      BY <3>2, <3>3
  <2> QED
    BY <2>1, <2>2
<1>12. r.epoch = f.set.epoch =>
         /\ f.set.on => \A q \in r.parts : f.set.boundary < q[1]
         /\ \A x \in 1..r.done, c \in Classes : Judged(f, era, x, c)
         /\ \A q \in r.parts : \A x \in 1..q[1], c \in Classes : <<x, c>> \in r.parts \/ Judged(f, era, x, c)
  BY <1>7, <1>8, <1>10, <1>11
<1> QED
  BY <1>7, <1>8, <1>9, <1>12 DEF ReaderFits

\* The admission of a part that a reading of the epoch in force had left.
LEMMA AdmitLegal ==
  ASSUME NEW d, Sound(d), Past(d, era), era \in Eras, NEW h, NEW j \in Autos, Enabled(d, j[1]),
         d.set.boundary < j[2], j[2] <= d.top, NEW T, NEW automatic, NEW f, f = AdmitJob(d, j, T, automatic)
  PROVE  /\ Legal(d, f, era, h) /\ Kept(d, f) /\ f.pause = d.pause /\ f.set = d.set
         /\ Judged(f, era, j[2], j[3])
<1>1. j[1] = d.set.epoch /\ d.set.on /\ ~d.set.suspended
  BY SetTypes DEF Enabled
<1>2. PICK epoch \in Epochs, r \in 1..Receipts, c \in Classes : j = <<epoch, r, c>>
  BY DEF Autos
<1>3. j \in Jobs /\ j[1] = epoch /\ j[2] = r /\ j[3] = c /\ epoch = d.set.epoch
  BY <1>1, <1>2 DEF Jobs
<1>4. /\ Sound(f) /\ f.set = d.set /\ f.top = d.top /\ f.pause = d.pause /\ Kept(d, f)
      /\ f.job[j].state # "none"
      /\ \A k \in Jobs \ {j} : f.job[k].state = "none" <=> d.job[k].state = "none"
  <2>1. j \in Jobs
    BY <1>3
  <2> QED
    BY <2>1, AdmitSound
<1>5. era[r] = epoch
  <2>1. r \in (d.set.boundary + 1)..d.top
    BY <1>3, SetTypes
  <2> QED
    BY <1>1, <1>3, <2>1 DEF Past, EraFits
<1>6. JobsGrow(d, f)
  BY <1>4 DEF JobsGrow
<1>7. AutoFits(f, era)
  <2> SUFFICES ASSUME NEW a \in Autos, f.job[a].state # "none" PROVE era[a[2]] = a[1]
    BY DEF AutoFits
  <2>1. CASE a = j
    BY <1>3, <1>5, <2>1
  <2>2. CASE a # j
    BY <1>4, <2>2 DEF Past, AutoFits, Jobs
  <2> QED
    BY <2>1, <2>2
<1>8. SetMoves(d, f) /\ f.set.cursor = d.set.cursor
  BY <1>4 DEF SetMoves
<1>9. Past(f, era) /\ ReadersStay(d, f, era)
  BY <1>4, <1>6, <1>7, <1>8, SetPast
<1>10. Seen(f.set, h) <= Seen(d.set, h)
  <2>1. Seen(d.set, h) \in Nat
    BY SeenType
  <2>2. Seen(f.set, h) = Seen(d.set, h)
    BY <1>4
  <2>3. \A x \in Nat : x <= x
    OBVIOUS
  <2> QED
    BY <2>1, <2>2, <2>3, Zenon
<1>11. Judged(f, era, j[2], j[3])
  BY <1>2, <1>3, <1>4, <1>5 DEF Judged
<1> QED
  BY <1>4, <1>9, <1>10, <1>11 DEF Legal

LEMMA AdmitPartInv ==
  ASSUME IInv, NEW w \in Workers, AdmitPart(w)
  PROVE  IInv'
<1>0. /\ Sound(db) /\ Past(db, era) /\ era \in Eras /\ bounds \in Spending
      /\ Requested(db, worker) /\ worker[w] \in Ticks /\ ReaderFits(db, era, worker[w])
  BY InvParts
<1>1. PICK k \in Ticks : k = worker[w]
  BY <1>0
<1>2. PICK p : p = FirstPart(k.parts)
  OBVIOUS
<1>3. PICK rest : rest = k.parts \ {p}
  OBVIOUS
<1>4. k.phase = "reconcile" /\ k.parts # {} /\ UNCHANGED <<host, era>>
  BY <1>1 DEF AdmitPart
<1>5. k.parts \in SUBSET Parts /\ k.done \in 0..Receipts
  BY DEF Ticks, Parts
<1>6. p \in k.parts /\ p[1] \in 1..Receipts /\ p[2] \in Classes /\ p = <<p[1], p[2]>>
  <2>1. p \in k.parts
    BY <1>2, <1>4, <1>5, FirstPartIs
  <2> QED
    BY <1>5, <2>1 DEF Parts
<1>7. PICK ok \in BOOLEAN :
        /\ SetWorker(w, [k EXCEPT !.parts = IF ok THEN rest ELSE {}, !.failed = ~ok,
                                  !.done = Done(p[1], rest, ok, k.done)])
        /\ \/ (ok => Source[p] = {} \/ db.job[<<k.epoch, p[1], p[2]>>].state # "none") /\ db' = db
           \/ ok /\ Enabled(db, k.epoch) /\ db' = AdmitJob(db, <<k.epoch, p[1], p[2]>>, Source[p], TRUE)
        /\ bounds' = bounds \/ Spends("faults")
  BY <1>1, <1>2, <1>3 DEF AdmitPart
<1>8. bounds' \in Spending /\ bounds'.changes = bounds.changes
  BY <1>0, <1>7, SpendsIs
<1>9. /\ Legal(db, db', era, host) /\ Kept(db, db')
      /\ ok /\ k.epoch = db'.set.epoch => Judged(db', era, p[1], p[2])
  <2>1. CASE (ok => Source[p] = {} \/ db.job[<<k.epoch, p[1], p[2]>>].state # "none") /\ db' = db
    <3>1. Legal(db, db', era, host) /\ Kept(db, db')
      BY <1>0, <2>1, CalmSame, CalmLegal
    <3>2. ok /\ k.epoch = db'.set.epoch => Judged(db', era, p[1], p[2])
      BY <1>6, <2>1 DEF Judged, Due
    <3> QED
      BY <3>1, <3>2
  <2>2. CASE ok /\ Enabled(db, k.epoch) /\ db' = AdmitJob(db, <<k.epoch, p[1], p[2]>>, Source[p], TRUE)
    <3>1. db.set.boundary < p[1] /\ p[1] <= db.top
      <4>1. k.epoch = db.set.epoch /\ db.set.on
        BY <2>2 DEF Enabled
      <4>2. ReaderFits(db, era, k)
        BY <1>0, <1>1
      <4> QED
        BY <1>4, <1>6, <4>1, <4>2 DEF ReaderFits
    <3>2. PICK j \in Autos : j = <<k.epoch, p[1], p[2]>>
      BY <1>0, <1>6, <2>2, SetTypes DEF Autos, Enabled
    <3>3. j[1] = k.epoch /\ j[2] = p[1] /\ j[3] = p[2]
      BY <3>2
    <3>4. Enabled(db, j[1]) /\ db.set.boundary < j[2] /\ j[2] <= db.top
      BY <2>2, <3>1, <3>3
    <3>5. db' = AdmitJob(db, j, Source[p], TRUE)
      BY <2>2, <3>2
    <3>6. Legal(db, db', era, host) /\ Kept(db, db') /\ Judged(db', era, j[2], j[3])
      BY <1>0, <3>4, <3>5, AdmitLegal
    <3> QED
      BY <3>3, <3>6
  <2> QED
    BY <1>7, <2>1, <2>2
<1>10. PICK parts \in SUBSET Parts, failed \in BOOLEAN, done \in 0..Receipts :
         /\ parts = (IF ok THEN rest ELSE {}) /\ failed = ~ok /\ done = Done(p[1], rest, ok, k.done)
  <2>1. (IF ok THEN rest ELSE {}) \in SUBSET Parts /\ (~ok) \in BOOLEAN
    <3>1. CASE ok
      BY <1>3, <1>5, <3>1
    <3>2. CASE ~ok
      BY <3>2
    <3> QED
      BY <3>1, <3>2
  <2>2. Done(p[1], rest, ok, k.done) \in 0..Receipts
    <3>1. p[1] \in 0..Receipts
      BY <1>6, Constants
    <3> QED
      BY <1>5, <3>1 DEF Done
  <2> QED
    BY <2>1, <2>2, Zenon
<1>11. PICK r : r = ReadOn(k, parts, failed, done)
  OBVIOUS
<1>12. /\ r \in Ticks /\ r.phase = k.phase /\ r.epoch = k.epoch /\ r.parts = parts /\ r.done = done
       /\ r.flight = k.flight
  <2>1. done \in 0..Receipts
    BY <1>10
  <2> QED
    BY <1>11, <2>1, ReadOnIs
<1>13. SetWorker(w, r)
  BY <1>7, <1>10, <1>11 DEF ReadOn
<1>14. ReaderFits(db', era, r)
  <2>1. ReaderFits(db', era, k) /\ Sound(db')
    BY <1>0, <1>1, <1>9 DEF Legal, ReadersStay
  <2>2. CASE ok
    <3>1. r.parts = rest /\ r.done = Done(p[1], rest, TRUE, k.done)
      BY <1>10, <1>12, <2>2
    <3>2. k.epoch = db'.set.epoch => Judged(db', era, p[1], p[2])
      BY <1>9, <2>2
    <3> QED
      BY <1>2, <1>3, <1>4, <1>12, <2>1, <3>1, <3>2, JudgedOn
  <2>3. CASE ~ok
    <3>1. r.parts = {} /\ r.done = k.done
      BY <1>10, <1>12, <2>3 DEF Done
    <3> QED
      BY <1>12, <2>1, <3>1 DEF ReaderFits
  <2> QED
    BY <2>2, <2>3
<1>15. KeptBut(db, db', w, None) /\ \A x \in Items : Stays(db.item[x], db'.item[x], w)
  BY <1>9, KeptIsBut DEF Kept
<1>16. \A x \in Items : r.flight[x] = worker[w].flight[x]
  BY <1>1, <1>12
<1> QED
  BY <1>4, <1>8, <1>9, <1>12, <1>13, <1>14, <1>15, <1>16, TickStep

-----------------------------------------------------------------------------
(* The end of a reconciliation, and the claims. *)

\* markReconciled: the cursor follows what the worker found judged.
LEMMA CursorIs ==
  ASSUME NEW d, Sound(d), NEW e \in Eras, Past(d, e), NEW h, NEW k \in Ticks, k.phase = "reconcile",
         ReaderFits(d, e, k), k.epoch = d.set.epoch, d.set.cursor < k.done,
         NEW set, set = [d.set EXCEPT !.cursor = k.done], NEW f, f = WithHead(d, set, d.pause, d.top)
  PROVE  Legal(d, f, e, h) /\ Kept(d, f) /\ f.pause = d.pause
<1>1. k.done \in 0..Receipts /\ k.done \in Nat /\ k.done <= Receipts /\ Receipts \in Nat
  BY Constants DEF Ticks
<1>2. d.set \in Settings /\ d.pause \in Pauses /\ d.top \in 0..Receipts
  BY HeadTypes
<1>3. /\ set \in Settings /\ set.epoch = d.set.epoch /\ set.boundary = d.set.boundary /\ set.on = d.set.on
      /\ set.cursor = k.done /\ set.suspended = d.set.suspended
  BY <1>1, <1>2 DEF Settings
<1>4. /\ Sound(f) /\ SameJobs(d, f) /\ Kept(d, f) /\ f.set = set /\ f.pause = d.pause /\ f.top = d.top
      /\ f.job = d.job /\ f.item = d.item
  BY <1>2, <1>3, HeadSound
<1>5. \A r, c : Judged(d, e, r, c) => Judged(f, e, r, c)
  BY <1>3, <1>4 DEF Judged, Due
<1>6. /\ k.done <= d.top
      /\ \A r \in 1..k.done, c \in Classes : Judged(d, e, r, c)
  BY DEF ReaderFits
<1>7. EraFits(f, e)
  <2>1. EraFits(d, e)
    BY DEF Past
  <2>2. /\ f.set.epoch = d.set.epoch /\ f.set.boundary = d.set.boundary /\ f.set.on = d.set.on
        /\ f.set.cursor <= d.top /\ f.set.suspended = d.set.suspended /\ f.top = d.top
    BY <1>3, <1>4, <1>6
  <2> QED
    BY <2>1, <2>2, Zenon DEF EraFits
<1>8. CursorFits(f, e)
  BY <1>3, <1>4, <1>5, <1>6 DEF CursorFits
<1>9. AutoFits(f, e)
  BY <1>4, SameGrow DEF Past
<1>10. ReadersStay(d, f, e)
  <2>1. /\ f.set.epoch = d.set.epoch /\ f.set.on = d.set.on /\ f.set.boundary = d.set.boundary
        /\ f.top = d.top
    BY <1>3, <1>4
  <2>2. SUFFICES ASSUME NEW m \in Ticks, ReaderFits(d, e, m), m.phase = "reconcile"
                 PROVE  ReaderFits(f, e, m)
    BY DEF ReadersStay, ReaderFits
  <2>3. /\ m.epoch \in 1..f.set.epoch /\ m.done <= f.top /\ \A p \in m.parts : p[1] <= f.top
        /\ m.epoch = f.set.epoch /\ f.set.on => \A p \in m.parts : f.set.boundary < p[1]
    BY <2>1, <2>2 DEF ReaderFits
  <2>4. m.epoch = f.set.epoch => \A r \in 1..m.done, c \in Classes : Judged(f, e, r, c)
    BY <1>5, <2>1, <2>2 DEF ReaderFits
  <2>5. m.epoch = f.set.epoch =>
          \A p \in m.parts : \A r \in 1..p[1], c \in Classes : <<r, c>> \in m.parts \/ Judged(f, e, r, c)
    BY <1>5, <2>1, <2>2 DEF ReaderFits
  <2> QED
    BY <2>3, <2>4, <2>5 DEF ReaderFits
<1>11. Seen(f.set, h) <= Seen(d.set, h)
  <2>1. Seen(d.set, h) \in Nat
    BY SeenType
  <2>2. Seen(f.set, h) = Seen(d.set, h)
    BY <1>3, <1>4 DEF Seen
  <2>3. \A x \in Nat : x <= x
    OBVIOUS
  <2> QED
    BY <2>1, <2>2, <2>3, Zenon
<1> QED
  BY <1>4, <1>7, <1>8, <1>9, <1>10, <1>11 DEF Legal, Past

LEMMA EndReconcileInv ==
  ASSUME IInv, NEW w \in Workers, EndReconcile(w)
  PROVE  IInv'
<1>0. /\ Sound(db) /\ Past(db, era) /\ era \in Eras /\ worker[w] \in Ticks /\ ReaderFits(db, era, worker[w])
  BY InvParts
<1>1. PICK k \in Ticks : k = worker[w]
  BY <1>0
<1>2. PICK d : d = IF k.epoch = db.set.epoch /\ db.set.cursor < k.done THEN [db EXCEPT !.set.cursor = k.done] ELSE db
  OBVIOUS
<1>3. /\ k.phase = "reconcile" /\ UNCHANGED <<host, era, bounds>>
      /\ IF k.failed THEN db' = d /\ SetWorker(w, Asleep) ELSE Dispatch(w, d, k.key)
  BY <1>1, <1>2 DEF EndReconcile
<1>4. Legal(db, d, era, host) /\ Kept(db, d)
  <2>1. CASE k.epoch = db.set.epoch /\ db.set.cursor < k.done
    <3>1. PICK set : set = [db.set EXCEPT !.cursor = k.done]
      OBVIOUS
    <3>2. d = WithHead(db, set, db.pause, db.top)
      BY <1>0, <1>2, <2>1, <3>1, HeadTypes DEF WithHead, Tables
    <3>3. ReaderFits(db, era, k)
      BY <1>0, <1>1
    <3> QED
      BY <1>0, <1>3, <2>1, <3>1, <3>2, <3>3, CursorIs
  <2>2. CASE ~(k.epoch = db.set.epoch /\ db.set.cursor < k.done)
    <3>1. d = db
      BY <1>2, <2>2
    <3> QED
      BY <1>0, <3>1, CalmSame, CalmLegal
  <2> QED
    BY <2>1, <2>2
<1>5. CASE k.failed
  <2>1. db' = d /\ SetWorker(w, Asleep)
    BY <1>3, <1>5
  <2>2. Legal(db, db', era, host) /\ Kept(db, db')
    BY <1>4, <2>1
  <2>3. Asleep \in Ticks /\ Asleep.phase # "reconcile" /\ \A x \in Items : Asleep.flight[x].at = "none"
    BY AsleepType
  <2> QED
    BY <1>3, <2>1, <2>2, <2>3, QuietStep
<1>6. CASE ~k.failed
  BY <1>3, <1>4, <1>6, DispatchStep
<1> QED
  BY <1>5, <1>6

\* A worker with one more request in hand.
Holding(k, room, flight) == [k EXCEPT !.room = room, !.flight = flight]

LEMMA ClaimOneInv ==
  ASSUME IInv, NEW w \in Workers, ClaimOne(w)
  PROVE  IInv'
<1>0. /\ Sound(db) /\ Past(db, era) /\ era \in Eras /\ bounds \in Spending /\ worker[w] \in Ticks
  BY InvParts
<1>1. PICK k \in Ticks : k = worker[w]
  BY <1>0
<1>2. PICK i \in NextUp(db) :
        /\ db' = Claim(db, w, i)
        /\ SetWorker(w, [k EXCEPT !.room = k.room - 1,
             !.flight[i] = [NoFlight EXCEPT !.at = "claimed", !.epoch = db.item[i].epoch, !.used = db.item[i].used]])
  BY <1>1 DEF ClaimOne
<1>3. k.phase = "claim" /\ k.room > 0 /\ UNCHANGED <<host, era, bounds>>
  BY <1>1 DEF ClaimOne
<1>4. i \in Items /\ Claimable(db, i)
  BY DEF NextUp
<1>5. db.item[i] \in Rows
  BY <1>0, <1>4, RowType
<1>6. PICK f : f = [NoFlight EXCEPT !.at = "claimed", !.epoch = db.item[i].epoch, !.used = db.item[i].used]
  OBVIOUS
<1>7. f \in Requests /\ f.at = "claimed"
  <2>1. db.item[i].epoch \in {0} \cup Epochs /\ db.item[i].used \in 0..MaxAttempts
    BY <1>5 DEF Rows
  <2>2. PICK epoch, used : epoch = db.item[i].epoch /\ used = db.item[i].used
    OBVIOUS
  <2>3. epoch \in {0} \cup Epochs /\ used \in 0..MaxAttempts /\ f = [NoFlight EXCEPT !.at = "claimed", !.epoch = epoch, !.used = used]
    BY <1>6, <2>1, <2>2
  <2> QED
    BY <2>3, NoFlightType DEF Requests
<1>8. PICK flight : flight = [k.flight EXCEPT ![i] = f]
  OBVIOUS
<1>9. flight \in [Items -> Requests] /\ flight[i] = f /\ \A x \in Items : x # i => flight[x] = k.flight[x]
  BY <1>4, <1>7, <1>8 DEF Ticks
<1>10. PICK room : room = k.room - 1
  OBVIOUS
<1>11. room \in 0..Concurrency
  BY <1>3, <1>10, Constants DEF Ticks
<1>12. PICK r : r = Holding(k, room, flight)
  OBVIOUS
<1>13. r \in Ticks /\ r.phase = k.phase /\ r.flight = flight
  BY <1>9, <1>11, <1>12 DEF Holding, Ticks
<1>14. SetWorker(w, r)
  BY <1>2, <1>6, <1>8, <1>10, <1>12 DEF Holding
<1>15. Touched(db, db', w, i)
  BY <1>0, <1>2, <1>4, ClaimTouches
<1>16. Legal(db, db', era, host) /\ KeptBut(db, db', w, i)
  BY <1>0, <1>15, CalmLegal DEF Touched
<1>17. ReaderFits(db', era, r)
  BY <1>3, <1>13 DEF ReaderFits
<1>18. \A x \in Items : r.flight[x].at = "sent" => x # i /\ r.flight[x] = worker[w].flight[x]
  BY <1>1, <1>7, <1>9, <1>13
<1>19. bounds' \in Spending /\ bounds'.changes = bounds.changes
  BY <1>0, <1>3
<1> QED
  BY <1>3, <1>13, <1>14, <1>16, <1>17, <1>18, <1>19, TickStep

LEMMA EndClaimsInv ==
  ASSUME IInv, NEW w \in Workers, EndClaims(w)
  PROVE  IInv'
<1>0. /\ Sound(db) /\ Past(db, era) /\ era \in Eras /\ bounds \in Spending /\ worker[w] \in Ticks
  BY InvParts
<1>1. PICK k \in Ticks : k = worker[w]
  BY <1>0
<1>2. PICK r : /\ SetWorker(w, r)
               /\ r = [k EXCEPT !.phase = "run", !.room = 0] \/ r = Asleep
  BY <1>1 DEF EndClaims
<1>3. UNCHANGED <<db, host, era, bounds>>
  BY DEF EndClaims
<1>4. /\ r \in Ticks /\ r.phase \in {"run", "idle"}
      /\ \A x \in Items : r.flight[x].at = "sent" => r.flight[x] = k.flight[x]
  <2>1. CASE r = Asleep
    BY <2>1, AsleepType
  <2>2. CASE r = [k EXCEPT !.phase = "run", !.room = 0]
    <3>1. 0 \in 0..Concurrency
      BY Constants
    <3> QED
      BY <2>2, <3>1 DEF Ticks
  <2> QED
    BY <1>2, <2>1, <2>2
<1>5. Legal(db, db', era, host) /\ Kept(db, db')
  BY <1>0, <1>3, CalmSame, CalmLegal
<1>6. KeptBut(db, db', w, None) /\ \A x \in Items : Stays(db.item[x], db'.item[x], w)
  BY <1>5, KeptIsBut DEF Kept
<1>7. ReaderFits(db', era, r)
  BY <1>4 DEF ReaderFits
<1>8. bounds' \in Spending /\ bounds'.changes = bounds.changes
  BY <1>0, <1>3
<1>9. \A x \in Items : r.flight[x].at = "sent" => r.flight[x] = worker[w].flight[x]
  BY <1>1, <1>4
<1> QED
  BY <1>2, <1>3, <1>4, <1>5, <1>6, <1>7, <1>8, <1>9, TickStep

-----------------------------------------------------------------------------
(* The requests that are in hand. *)

LEMMA LandedIs ==
  ASSUME NEW k \in Ticks, NEW i \in Items, k.phase = "run", NEW r, r = Landed(k, i)
  PROVE  /\ r \in Ticks /\ r.phase # "reconcile" /\ r.flight[i].at = "none"
         /\ \A x \in Items : r.flight[x].at = "sent" => x # i /\ r.flight[x] = k.flight[x]
<1>1. CASE r = [k EXCEPT !.flight[i] = NoFlight]
  <2>1. PICK flight : flight = [k.flight EXCEPT ![i] = NoFlight]
    OBVIOUS
  <2>2. /\ flight \in [Items -> Requests] /\ flight[i].at = "none"
        /\ \A x \in Items : x # i => flight[x] = k.flight[x]
    BY <2>1, NoFlightType DEF Ticks
  <2>3. r = [k EXCEPT !.flight = flight]
    BY <1>1, <2>1
  <2>4. r \in Ticks /\ r.phase = k.phase /\ r.flight = flight
    BY <2>2, <2>3 DEF Ticks
  <2> QED
    BY <2>2, <2>4
<1>2. CASE r = Asleep
  BY <1>2, AsleepType
<1> QED
  BY <1>1, <1>2 DEF Landed

LEMMA LandStep ==
  ASSUME IInv, NEW w \in Workers, NEW i \in Items, worker[w].phase = "run", NEW d, Lands(w, i, d),
         Legal(db, d, era, host), KeptBut(db, d, w, i),
         UNCHANGED <<host, era>>, bounds' \in Spending, bounds'.changes = bounds.changes
  PROVE  IInv'
<1>1. worker[w] \in Ticks
  BY InvParts
<1>2. PICK r : r = Landed(worker[w], i)
  OBVIOUS
<1>3. /\ r \in Ticks /\ r.phase # "reconcile"
      /\ \A x \in Items : r.flight[x].at = "sent" => x # i /\ r.flight[x] = worker[w].flight[x]
  BY <1>1, <1>2, LandedIs
<1>4. db' = d /\ SetWorker(w, r)
  BY <1>2 DEF Lands
<1>5. Legal(db, db', era, host) /\ KeptBut(db, db', w, i)
  BY <1>4
<1>6. ReaderFits(db', era, r)
  BY <1>3 DEF ReaderFits
<1> QED
  BY <1>3, <1>4, <1>5, <1>6, TickStep

\* The same after a transaction that does not touch the leases.
LEMMA LegalTouched ==
  ASSUME NEW d, Sound(d), NEW e \in Eras, NEW h, NEW c, Legal(d, c, e, h), Kept(d, c),
         NEW w, NEW i, NEW f, Touched(c, f, w, i)
  PROVE  Legal(d, f, e, h) /\ KeptBut(d, f, w, i)
<1>1. Sound(c) /\ Past(c, e) /\ Sound(f) /\ Calm(c, f) /\ KeptBut(c, f, w, i)
  BY DEF Legal, Touched
<1>2. Legal(c, f, e, h)
  BY <1>1, CalmLegal
<1>3. Legal(d, f, e, h)
  BY <1>2, LegalTransitive
<1>4. KeptBut(d, f, w, i)
  <2> SUFFICES ASSUME NEW v \in Workers, NEW x \in Items, v # w \/ x # i PROVE Stays(d.item[x], f.item[x], v)
    BY DEF KeptBut
  <2>1. Stays(d.item[x], c.item[x], v) /\ Stays(c.item[x], f.item[x], v)
    BY <1>1 DEF Kept, KeptBut
  <2>2. d.item[x].used \in Int /\ c.item[x].used \in Int /\ f.item[x].used \in Int
    BY <1>1, RowType
  <2> QED
    BY <2>1, <2>2 DEF Stays
<1> QED
  BY <1>3, <1>4

\* A transaction that touches only the lease of the request that lands.
LEMMA TouchLands ==
  ASSUME IInv, NEW w \in Workers, NEW i \in Items, worker[w].phase = "run", NEW d, Lands(w, i, d),
         Touched(db, d, w, i), UNCHANGED <<host, era>>, bounds' \in Spending, bounds'.changes = bounds.changes
  PROVE  IInv'
<1>1. Sound(db) /\ Past(db, era) /\ era \in Eras
  BY InvParts
<1>2. Legal(db, d, era, host) /\ KeptBut(db, d, w, i)
  BY <1>1, CalmLegal DEF Touched
<1> QED
  BY <1>2, LandStep

LEMMA HandIs ==
  ASSUME IInv, NEW w \in Workers, NEW i, i \in InHand(w)
  PROVE  i \in Items /\ worker[w].phase = "run" /\ Sound(db) /\ Past(db, era) /\ era \in Eras /\ bounds \in Spending
BY InvParts DEF InHand

LEMMA SettleUnaskedInv ==
  ASSUME IInv, NEW w \in Workers, NEW i, i \in InHand(w), SettleUnasked(w, i)
  PROVE  IInv'
<1>1. i \in Items /\ worker[w].phase = "run" /\ Sound(db) /\ bounds \in Spending
  BY HandIs
<1>2. PICK d : Lands(w, i, d) /\ (d = CompleteWork(db, w, i) \/ d = FailWork(db, w, i, "failed"))
  BY DEF SettleUnasked
<1>3. Touched(db, d, w, i)
  <2>1. CASE d = CompleteWork(db, w, i)
    BY <1>1, <2>1, CompleteTouches
  <2>2. CASE d = FailWork(db, w, i, "failed")
    BY <1>1, <2>2, FailTouches
  <2> QED
    BY <1>2, <2>1, <2>2
<1>4. UNCHANGED <<host, era, bounds>>
  BY DEF SettleUnasked
<1>5. bounds' \in Spending /\ bounds'.changes = bounds.changes
  BY <1>1, <1>4
<1> QED
  BY <1>1, <1>2, <1>3, <1>4, <1>5, TouchLands

\* A request that is put back, or given up, after the settings were looked at.
LEMMA HoldLands ==
  ASSUME IInv, NEW w \in Workers, NEW i, i \in InHand(w), NEW to \in {"waiting", "failed"},
         Lands(w, i, FailWork(Suspended(db), w, i, to)), UNCHANGED <<host, era, bounds>>
  PROVE  IInv'
<1>1. i \in Items /\ worker[w].phase = "run" /\ Sound(db) /\ Past(db, era) /\ era \in Eras /\ bounds \in Spending
  BY HandIs
<1>2. PICK c : c = Suspended(db)
  OBVIOUS
<1>3. PICK d : d = FailWork(c, w, i, to)
  OBVIOUS
<1>4. Legal(db, c, era, host) /\ Kept(db, c)
  BY <1>1, <1>2, HoldIs
<1>5. Touched(c, d, w, i)
  <2>1. Sound(c)
    BY <1>4 DEF Legal
  <2> QED
    BY <1>1, <1>3, <2>1, FailTouches
<1>6. Legal(db, d, era, host) /\ KeptBut(db, d, w, i)
  BY <1>1, <1>4, <1>5, LegalTouched
<1>7. Lands(w, i, d)
  BY <1>2, <1>3
<1>8. bounds' \in Spending /\ bounds'.changes = bounds.changes
  BY <1>1
<1> QED
  BY <1>1, <1>6, <1>7, <1>8, LandStep

LEMMA PutBackInv ==
  ASSUME IInv, NEW w \in Workers, NEW i, i \in InHand(w), PutBack(w, i)
  PROVE  IInv'
BY HoldLands DEF PutBack

LEMMA FailureInv ==
  ASSUME IInv, NEW w \in Workers, NEW i, i \in InHand(w), Failure(w, i)
  PROVE  IInv'
<1>1. PICK to \in {"waiting", "failed"} : Lands(w, i, FailWork(Suspended(db), w, i, to))
  <2>1. PICK again \in BOOLEAN : Lands(w, i, FailWork(Suspended(db), w, i, IF again THEN "waiting" ELSE "failed"))
    BY DEF Failure
  <2>2. PICK to : to = IF again THEN "waiting" ELSE "failed"
    OBVIOUS
  <2> QED
    BY <2>1, <2>2
<1>2. UNCHANGED <<host, era, bounds>>
  BY DEF Failure
<1> QED
  BY <1>1, <1>2, HoldLands

LEMMA CancelStaleInv ==
  ASSUME IInv, NEW w \in Workers, NEW i, i \in InHand(w), CancelStale(w, i)
  PROVE  IInv'
<1>1. i \in Items /\ worker[w].phase = "run" /\ Sound(db) /\ bounds \in Spending
  BY HandIs
<1>2. PICK d : d = CancelProject(db)
  OBVIOUS
<1>3. Lands(w, i, d) /\ UNCHANGED <<host, era, bounds>>
  BY <1>2 DEF CancelStale
<1>4. Touched(db, d, w, i)
  BY <1>1, <1>2, CancelSound, KeptIsBut DEF Touched
<1>5. bounds' \in Spending /\ bounds'.changes = bounds.changes
  BY <1>1, <1>3
<1> QED
  BY <1>1, <1>3, <1>4, <1>5, TouchLands

LEMMA GiveUpInv ==
  ASSUME IInv, NEW w \in Workers, NEW i, i \in InHand(w), GiveUp(w, i)
  PROVE  IInv'
<1>1. i \in Items /\ worker[w].phase = "run" /\ Sound(db) /\ bounds \in Spending
  BY HandIs
<1>2. PICK d : d = FailWork(db, w, i, "failed")
  OBVIOUS
<1>3. Lands(w, i, d) /\ UNCHANGED <<host, era, bounds>>
  BY <1>2 DEF GiveUp
<1>4. Touched(db, d, w, i)
  BY <1>1, <1>2, FailTouches
<1>5. bounds' \in Spending /\ bounds'.changes = bounds.changes
  BY <1>1, <1>3
<1> QED
  BY <1>1, <1>3, <1>4, <1>5, TouchLands

LEMMA ReleaseClaimInv ==
  ASSUME IInv, NEW w \in Workers, NEW i, i \in InHand(w), ReleaseClaim(w, i)
  PROVE  IInv'
<1>1. i \in Items /\ worker[w].phase = "run" /\ Sound(db) /\ bounds \in Spending
  BY HandIs
<1>2. PICK d : d = ReleaseWork(db, w, i)
  OBVIOUS
<1>3. Lands(w, i, d) /\ UNCHANGED <<host, era>> /\ Spends("refusals")
  BY <1>2 DEF ReleaseClaim
<1>4. Touched(db, d, w, i)
  BY <1>1, <1>2, ReleaseTouches
<1>5. bounds' \in Spending /\ bounds'.changes = bounds.changes
  BY <1>1, <1>3, SpendsIs
<1> QED
  BY <1>1, <1>3, <1>4, <1>5, TouchLands

LEMMA VerdictInv ==
  ASSUME IInv, NEW w \in Workers, NEW i, i \in InHand(w), Verdict(w, i)
  PROVE  IInv'
<1>1. i \in Items /\ worker[w].phase = "run" /\ Sound(db) /\ bounds \in Spending
  BY HandIs
<1>2. PICK c : c = CompleteWork(db, w, i)
  OBVIOUS
<1>3. PICK f : f = worker[w].flight[i]
  OBVIOUS
<1>4. PICK d : d = ReleasePause(c, f)
  OBVIOUS
<1>5. Lands(w, i, d) /\ UNCHANGED <<host, era, bounds>>
  BY <1>2, <1>3, <1>4 DEF Verdict
<1>6. Touched(db, c, w, i)
  BY <1>1, <1>2, CompleteTouches
<1>7. Sound(d) /\ Calm(c, d) /\ Kept(c, d)
  BY <1>4, <1>6, ReleasePauseIs DEF Touched
<1>8. Touched(db, d, w, i)
  <2>1. Calm(db, d)
    BY <1>6, <1>7, CalmTransitive DEF Touched
  <2>2. KeptBut(db, d, w, i)
    <3> SUFFICES ASSUME NEW v \in Workers, NEW x \in Items, v # w \/ x # i PROVE Stays(db.item[x], d.item[x], v)
      BY DEF KeptBut
    <3>1. Stays(db.item[x], c.item[x], v) /\ Stays(c.item[x], d.item[x], v)
      BY <1>6, <1>7 DEF Kept, KeptBut, Touched
    <3>2. db.item[x].used \in Int /\ c.item[x].used \in Int /\ d.item[x].used \in Int
      BY <1>1, <1>6, <1>7, RowType DEF Touched
    <3> QED
      BY <3>1, <3>2 DEF Stays
  <2> QED
    BY <1>7, <2>1, <2>2 DEF Touched
<1>9. bounds' \in Spending /\ bounds'.changes = bounds.changes
  BY <1>1, <1>5
<1> QED
  BY <1>1, <1>5, <1>8, <1>9, TouchLands

Flying(k, flight) == [k EXCEPT !.flight = flight]

LEMMA FlyingIs ==
  ASSUME NEW k \in Ticks, NEW flight \in [Items -> Requests], NEW r, r = Flying(k, flight)
  PROVE  /\ r \in Ticks /\ r.phase = k.phase /\ r.flight = flight /\ r.epoch = k.epoch /\ r.parts = k.parts
         /\ r.done = k.done
BY DEF Flying, Ticks

LEMMA SendInv ==
  ASSUME IInv, NEW w \in Workers, NEW i, i \in InHand(w), Send(w, i)
  PROVE  IInv'
<1>1. /\ i \in Items /\ worker[w].phase = "run" /\ Sound(db) /\ Past(db, era) /\ era \in Eras
      /\ bounds \in Spending
  BY HandIs
<1>2. worker[w] \in Ticks /\ host.key \in {0} \cup Keys
  BY InvParts DEF Hosts
<1>3. PICK k \in Ticks : k = worker[w]
  BY <1>2
<1>4. PICK key : key = host.key
  OBVIOUS
<1>5. /\ MayStart(db, w, i) /\ db' = Start(db, i) /\ UNCHANGED <<host, era, bounds>>
      /\ SetWorker(w, [k EXCEPT !.flight[i].at = "sent", !.flight[i].key = key])
  BY <1>3, <1>4 DEF Send
<1>6. PICK f : f = [k.flight[i] EXCEPT !.at = "sent", !.key = key]
  OBVIOUS
<1>7. PICK flight : flight = [k.flight EXCEPT ![i] = f]
  OBVIOUS
<1>8. f \in Requests
  <2>1. k.flight[i] \in Requests /\ key \in {0} \cup Keys
    BY <1>1, <1>2, <1>4 DEF Ticks
  <2> QED
    BY <1>6, <2>1 DEF Requests
<1>9. flight \in [Items -> Requests] /\ flight[i] = f /\ \A x \in Items : x # i => flight[x] = k.flight[x]
  BY <1>1, <1>7, <1>8 DEF Ticks
<1>10. PICK r : r = Flying(k, flight)
  OBVIOUS
<1>11. r \in Ticks /\ r.phase = k.phase /\ r.flight = flight
  BY <1>9, <1>10, FlyingIs
<1>12. SetWorker(w, r)
  <2>1. k.flight \in [Items -> Requests]
    BY DEF Ticks
  <2>2. r = [k EXCEPT !.flight[i].at = "sent", !.flight[i].key = key]
    BY <1>1, <1>6, <1>7, <1>10, <2>1 DEF Flying, Ticks
  <2> QED
    BY <1>5, <2>2
<1>13. /\ Sound(db') /\ Calm(db, db') /\ Kept(db, db')
       /\ db'.item[i].owner = w /\ db'.item[i].live /\ db'.item[i].used > 0
  BY <1>1, <1>5, StartIs
<1>14. Legal(db, db', era, host) /\ KeptBut(db, db', w, i)
  BY <1>1, <1>13, CalmLegal, KeptIsBut
<1>15. ReaderFits(db', era, r)
  BY <1>1, <1>3, <1>11 DEF ReaderFits
<1>16. RequestFits(db'.item[i], r.flight[i], w)
  BY <1>13 DEF RequestFits
<1>17. \A x \in Items : r.flight[x].at = "sent" => \/ x # i /\ r.flight[x] = worker[w].flight[x]
                                                   \/ RequestFits(db'.item[x], r.flight[x], w)
  BY <1>3, <1>9, <1>11, <1>16
<1>18. bounds' \in Spending /\ bounds'.changes = bounds.changes
  BY <1>1, <1>5
<1> QED
  BY <1>5, <1>11, <1>12, <1>14, <1>15, <1>17, <1>18, TickStep

\* The requests that are out when a pause begins are older than it.
Aging(flight) == [x \in Items |-> IF flight[x].at = "sent" THEN [flight[x] EXCEPT !.old = TRUE] ELSE flight[x]]

LEMMA AgingIs ==
  ASSUME NEW flight \in [Items -> Requests], NEW g, g = Aging(flight)
  PROVE  /\ g \in [Items -> Requests]
         /\ \A x \in Items : g[x].at = flight[x].at /\ g[x].aged = flight[x].aged
<1>1. ASSUME NEW x \in Items
      PROVE  g[x] \in Requests /\ g[x].at = flight[x].at /\ g[x].aged = flight[x].aged
  <2>1. flight[x] \in Requests
    OBVIOUS
  <2>2. g[x] = IF flight[x].at = "sent" THEN [flight[x] EXCEPT !.old = TRUE] ELSE flight[x]
    BY DEF Aging
  <2> QED
    BY <2>1, <2>2 DEF Requests
<1>2. \E h : g = [x \in Items |-> h[x]]
  <2>1. g = [x \in Items |-> g[x]]
    BY DEF Aging
  <2> QED
    BY <2>1
<1> QED
  BY <1>1, <1>2

\* What fits stays so when only this changes.
LEMMA AgedFits ==
  ASSUME NEW k \in Ticks, NEW s, s = Flying(k, Aging(k.flight))
  PROVE  /\ s \in Ticks
         /\ \A d, e : ReaderFits(d, e, k) => ReaderFits(d, e, s)
         /\ \A r, v, x : x \in Items /\ RequestFits(r, k.flight[x], v) => RequestFits(r, s.flight[x], v)
<1>1. k.flight \in [Items -> Requests]
  BY DEF Ticks
<1>2. PICK g : g = Aging(k.flight)
  OBVIOUS
<1>3. g \in [Items -> Requests] /\ \A x \in Items : g[x].at = k.flight[x].at /\ g[x].aged = k.flight[x].aged
  BY <1>1, <1>2, AgingIs
<1>4. s = Flying(k, g)
  BY <1>2
<1>5. /\ s \in Ticks /\ s.phase = k.phase /\ s.flight = g /\ s.epoch = k.epoch /\ s.parts = k.parts
      /\ s.done = k.done
  BY <1>3, <1>4, FlyingIs
<1>6. \A d, e : ReaderFits(d, e, k) => ReaderFits(d, e, s)
  BY <1>5 DEF ReaderFits
<1>7. \A r, v, x : x \in Items /\ RequestFits(r, k.flight[x], v) => RequestFits(r, s.flight[x], v)
  BY <1>3, <1>5 DEF RequestFits
<1> QED
  BY <1>5, <1>6, <1>7

LEMMA RefusalInv ==
  ASSUME IInv, NEW w \in Workers, NEW i, i \in InHand(w), Refusal(w, i)
  PROVE  IInv'
<1>1. /\ i \in Items /\ worker[w].phase = "run" /\ Sound(db) /\ Past(db, era) /\ era \in Eras
      /\ bounds \in Spending
  BY HandIs
<1>2. /\ worker \in [Workers -> Ticks] /\ host \in Hosts /\ Budgets(db.set, host, bounds)
      /\ Requested(db, worker) /\ \A v \in Workers : ReaderFits(db, era, worker[v])
  BY InvParts
<1>3. PICK f : f = worker[w].flight[i]
  OBVIOUS
<1>4. PICK landed : landed = Keeping(Landed(worker[w], i), worker[w].closing)
  OBVIOUS
<1>5. PICK left : left = [worker EXCEPT ![w] = landed]
  OBVIOUS
<1>6. /\ worker' = left \/ worker' = [v \in Workers |-> Flying(left[v], Aging(left[v].flight))]
      /\ f.at = "sent" /\ UNCHANGED <<host, era>> /\ Spends("refusals")
  BY <1>2, <1>3, <1>4, <1>5 DEF Refusal, Answered, Keeping, Flying, Aging
<1>7. PICK reason \in {"rate", "auth"} : db' = Refuse(db, w, i, f, reason)
  BY <1>3 DEF Refusal
<1>8. bounds' \in Spending /\ bounds'.changes = bounds.changes
  BY <1>1, <1>6, SpendsIs
<1>9. Touched(db, db', w, i)
  <2>1. f.key \in {0} \cup Keys
    BY <1>1, <1>2, <1>3 DEF Ticks, Requests
  <2>2. db.item[i].owner = w => db.item[i].used > 0
    BY <1>1, <1>2, <1>3, <1>6 DEF Requested, RequestFits
  <2> QED
    BY <1>1, <1>7, <2>1, <2>2, RefuseTouches
<1>10. Legal(db, db', era, host) /\ KeptBut(db, db', w, i) /\ Sound(db')
  BY <1>1, <1>9, CalmLegal DEF Touched
<1>11. Past(db', era) /\ ReadersStay(db, db', era) /\ Seen(db'.set, host) <= Seen(db.set, host)
  BY <1>10 DEF Legal
<1>12. /\ landed \in Ticks /\ landed.phase # "reconcile"
       /\ \A x \in Items : landed.flight[x].at = "sent" => x # i /\ landed.flight[x] = worker[w].flight[x]
  <2>1. PICK r : r = Landed(worker[w], i)
    OBVIOUS
  <2>2. worker[w] \in Ticks /\ worker[w].closing \in BOOLEAN
    BY <1>2 DEF Ticks
  <2>3. /\ r \in Ticks /\ r.phase # "reconcile"
        /\ \A x \in Items : r.flight[x].at = "sent" => x # i /\ r.flight[x] = worker[w].flight[x]
    BY <1>1, <2>1, <2>2, LandedIs
  <2>4. landed = Keeping(r, worker[w].closing)
    BY <1>4, <2>1
  <2>5. landed \in Ticks /\ landed.phase = r.phase /\ landed.flight = r.flight
    BY <2>2, <2>3, <2>4, KeepingIs
  <2> QED
    BY <2>3, <2>5
<1>13. /\ left \in [Workers -> Ticks] /\ left[w] = landed
       /\ \A v \in Workers : v # w => left[v] = worker[v]
  BY <1>2, <1>5, <1>12
<1>14. ASSUME NEW v \in Workers
       PROVE  ReaderFits(db', era, left[v])
  <2>1. CASE v = w
    BY <1>12, <1>13, <2>1 DEF ReaderFits
  <2>2. CASE v # w
    <3>1. left[v] = worker[v] /\ worker[v] \in Ticks /\ ReaderFits(db, era, worker[v])
      BY <1>2, <1>13, <2>2
    <3> QED
      BY <1>11, <3>1 DEF ReadersStay
  <2> QED
    BY <2>1, <2>2
<1>15. ASSUME NEW v \in Workers, NEW x \in Items
       PROVE  RequestFits(db'.item[x], left[v].flight[x], v)
  <2>1. db.item[x].used \in Int /\ db'.item[x].used \in Int
    BY <1>1, <1>10, RowType
  <2>2. RequestFits(db.item[x], worker[v].flight[x], v)
    BY <1>2 DEF Requested
  <2>3. CASE left[v].flight[x].at # "sent"
    BY <2>3 DEF RequestFits
  <2>4. CASE left[v].flight[x].at = "sent"
    <3>1. (v # w \/ x # i) /\ left[v].flight[x] = worker[v].flight[x]
      BY <1>12, <1>13, <2>4
    <3>2. Stays(db.item[x], db'.item[x], v)
      BY <1>10, <3>1 DEF KeptBut
    <3> QED
      BY <2>1, <2>2, <3>1, <3>2, RequestStays
  <2> QED
    BY <2>3, <2>4
<1>16. /\ worker' \in [Workers -> Ticks] /\ Requested(db', worker')
       /\ \A v \in Workers : ReaderFits(db', era, worker'[v])
  <2>1. CASE worker' = left
    BY <1>13, <1>14, <1>15, <2>1 DEF Requested
  <2>2. CASE worker' = [v \in Workers |-> Flying(left[v], Aging(left[v].flight))]
    <3>1. ASSUME NEW v \in Workers
          PROVE  /\ worker'[v] \in Ticks /\ ReaderFits(db', era, worker'[v])
                 /\ \A x \in Items : RequestFits(db'.item[x], worker'[v].flight[x], v)
      <4>1. PICK k \in Ticks : k = left[v]
        BY <1>13
      <4>2. PICK s : s = Flying(k, Aging(k.flight))
        OBVIOUS
      <4>3. /\ s \in Ticks
            /\ \A d, e : ReaderFits(d, e, k) => ReaderFits(d, e, s)
            /\ \A r, u, x : x \in Items /\ RequestFits(r, k.flight[x], u) => RequestFits(r, s.flight[x], u)
        BY <4>2, AgedFits
      <4>4. worker'[v] = s
        BY <2>2, <4>1, <4>2
      <4>5. ReaderFits(db', era, k) /\ \A x \in Items : RequestFits(db'.item[x], k.flight[x], v)
        BY <1>14, <1>15, <4>1
      <4> QED
        BY <4>3, <4>4, <4>5
    <3> QED
      BY <2>2, <3>1 DEF Requested
  <2> QED
    BY <1>6, <2>1, <2>2
<1>17. Budgets(db'.set, host', bounds')
  <2>1. Seen(db'.set, host) \in Nat /\ Seen(db.set, host) \in Nat
    BY <1>1, <1>10, SeenType
  <2>2. bounds.changes \in Nat
    BY <1>1, Constants DEF Spending
  <2> QED
    BY <1>2, <1>6, <1>8, <1>11, <2>1, <2>2 DEF Budgets
<1>18. host' = host /\ era' = era
  BY <1>6
<1>19. host' \in Hosts /\ era' \in Eras /\ Past(db', era') /\ \A v \in Workers : ReaderFits(db', era', worker'[v])
  BY <1>1, <1>2, <1>11, <1>16, <1>18
<1> QED
  BY <1>8, <1>10, <1>16, <1>17, <1>19, InvPartsNext

-----------------------------------------------------------------------------
(* Users, the host, time and faults. *)

\* A run that completes is remembered with the enablement in force.
LEMMA RunCompletesInv ==
  ASSUME IInv, RunCompletes
  PROVE  IInv'
<1>1. /\ Sound(db) /\ Past(db, era) /\ worker \in [Workers -> Ticks] /\ era \in Eras
      /\ host \in Hosts /\ bounds \in Spending /\ Budgets(db.set, host, bounds)
      /\ Requested(db, worker) /\ \A v \in Workers : ReaderFits(db, era, worker[v])
  BY InvParts
<1>2. PICK top : top = db.top + 1
  OBVIOUS
<1>3. PICK epoch : epoch = IF Enabled(db, db.set.epoch) THEN db.set.epoch ELSE 0
  OBVIOUS
<1>4. /\ db.top < Receipts /\ db' = [db EXCEPT !.top = top] /\ era' = [era EXCEPT ![top] = epoch]
      /\ UNCHANGED <<worker, host, bounds>>
  BY <1>2, <1>3 DEF RunCompletes
<1>5. /\ db.set.epoch \in Epochs /\ db.set.epoch \in Nat \ {0} /\ db.set.boundary \in Nat /\ db.set.cursor \in Nat
      /\ db.top \in Nat /\ Receipts \in Nat /\ db.set.cursor \in 0..Receipts
  BY <1>1, SetTypes
<1>6. top \in 1..Receipts /\ top \in 0..Receipts /\ top > db.top
  BY <1>2, <1>4, <1>5
<1>7. /\ era' \in Eras /\ era'[top] = epoch /\ epoch \in {0, db.set.epoch}
      /\ \A r \in 1..Receipts : r # top => era'[r] = era[r]
  <2>1. epoch \in {0} \cup Epochs /\ epoch \in {0, db.set.epoch}
    BY <1>3, <1>5
  <2> QED
    BY <1>1, <1>4, <1>6, <2>1 DEF Eras
<1>8. PICK e : e = db'
  OBVIOUS
<1>9. /\ Sound(e) /\ SameJobs(db, e) /\ Kept(db, e) /\ e.set = db.set /\ e.top = top /\ e.job = db.job
      /\ e.item = db.item
  <2>1. e = WithHead(db, db.set, db.pause, top)
    BY <1>1, <1>4, <1>8, HeadTypes DEF WithHead, Tables
  <2> QED
    BY <1>1, <1>6, <2>1, HeadTypes, HeadSound
<1>10. EraFits(db, era) /\ AutoFits(db, era) /\ CursorFits(db, era)
  BY <1>1 DEF Past
<1>11. EraFits(e, era')
  <2>1. ASSUME NEW r \in 1..Receipts
        PROVE  era'[r] \in 0..e.set.epoch /\ (r > e.top => era'[r] = 0)
    <3>1. era[r] \in 0..db.set.epoch /\ (r > db.top => era[r] = 0)
      BY <1>10 DEF EraFits
    <3>2. CASE r = top
      BY <1>5, <1>6, <1>7, <1>9, <3>2
    <3>3. CASE r # top
      BY <1>2, <1>5, <1>6, <1>7, <1>9, <3>1, <3>3
    <3> QED
      BY <3>2, <3>3
  <2>2. e.set.boundary <= e.top /\ e.set.cursor <= e.top
    BY <1>5, <1>6, <1>9, <1>10 DEF EraFits
  <2>3. ASSUME e.set.on, ~e.set.suspended, NEW r \in (e.set.boundary + 1)..e.top
        PROVE  era'[r] = e.set.epoch
    <3>1. r \in (db.set.boundary + 1)..db.top \/ r = top
      BY <1>2, <1>5, <1>9
    <3>2. CASE r = top
      BY <1>3, <1>7, <1>9, <2>3, <3>2 DEF Enabled
    <3>3. CASE r # top
      <4>1. era[r] = db.set.epoch /\ r \in 1..Receipts
        BY <1>4, <1>5, <1>9, <1>10, <2>3, <3>1, <3>3 DEF EraFits
      <4> QED
        BY <1>7, <1>9, <3>3, <4>1
    <3> QED
      BY <3>2, <3>3
  <2>4. ASSUME e.set.on, NEW r \in 1..e.set.boundary
        PROVE  era'[r] # e.set.epoch
    <3>1. era[r] # db.set.epoch /\ db.set.boundary <= db.top
      BY <1>9, <1>10, <2>4 DEF EraFits
    <3>2. r \in 1..Receipts /\ r # top
      BY <1>4, <1>5, <1>6, <1>9, <3>1
    <3> QED
      BY <1>7, <1>9, <3>1, <3>2
  <2> QED
    BY <2>1, <2>2, <2>3, <2>4 DEF EraFits
<1>12. AutoFits(e, era')
  <2> SUFFICES ASSUME NEW j \in Autos, e.job[j].state # "none" PROVE era'[j[2]] = j[1]
    BY DEF AutoFits
  <2>1. era[j[2]] = j[1] /\ j[2] \in 1..Receipts /\ j[1] # 0 /\ j[1] \in Epochs
    BY <1>9, <1>10, Constants DEF AutoFits, Autos
  <2>2. j[2] # top
    BY <1>6, <1>10, <2>1 DEF EraFits
  <2> QED
    BY <1>7, <2>1, <2>2
<1>13. \A r \in 1..Receipts, c \in Classes : r <= db.top /\ Judged(db, era, r, c) => Judged(e, era', r, c)
  <2> SUFFICES ASSUME NEW r \in 1..Receipts, NEW c \in Classes, r <= db.top, Judged(db, era, r, c) PROVE Judged(e, era', r, c)
    OBVIOUS
  <2>1. era'[r] = era[r]
    BY <1>5, <1>6, <1>7
  <2> QED
    BY <1>9, <2>1 DEF Judged, Due
<1>14. CursorFits(e, era')
  <2> SUFFICES ASSUME NEW r \in 1..e.set.cursor, NEW c \in Classes PROVE Judged(e, era', r, c)
    BY DEF CursorFits
  <2>1. r \in 1..db.set.cursor /\ db.set.cursor <= db.top
    BY <1>9, <1>10 DEF EraFits
  <2>2. r \in 1..Receipts /\ r <= db.top
    BY <1>4, <1>5, <2>1
  <2>3. Judged(db, era, r, c)
    BY <1>10, <2>1 DEF CursorFits
  <2> QED
    BY <1>13, <2>2, <2>3
<1>15. ASSUME NEW v \in Workers
       PROVE  ReaderFits(e, era', worker[v])
  <2>1. PICK k \in Ticks : k = worker[v]
    BY <1>1
  <2>2. SUFFICES ASSUME k.phase = "reconcile" PROVE ReaderFits(e, era', k)
    BY <2>1 DEF ReaderFits
  <2>3. ReaderFits(db, era, k)
    BY <1>1, <2>1
  <2>4. k.epoch \in 1..db.set.epoch /\ k.done <= db.top /\ \A p \in k.parts : p[1] <= db.top
    BY <2>2, <2>3 DEF ReaderFits
  <2>5. k.done \in Nat /\ \A p \in k.parts : p[1] \in Nat
    BY <1>5 DEF Ticks
  <2>6. k.done <= e.top /\ \A p \in k.parts : p[1] <= e.top
    BY <1>2, <1>5, <1>9, <2>4, <2>5
  <2>7. ASSUME k.epoch = e.set.epoch
        PROVE  /\ e.set.on => \A p \in k.parts : e.set.boundary < p[1]
               /\ \A r \in 1..k.done, c \in Classes : Judged(e, era', r, c)
               /\ \A p \in k.parts : \A r \in 1..p[1], c \in Classes : <<r, c>> \in k.parts \/ Judged(e, era', r, c)
    <3>1. /\ db.set.on => \A p \in k.parts : db.set.boundary < p[1]
          /\ \A r \in 1..k.done, c \in Classes : Judged(db, era, r, c)
          /\ \A p \in k.parts : \A r \in 1..p[1], c \in Classes : <<r, c>> \in k.parts \/ Judged(db, era, r, c)
      BY <1>9, <2>2, <2>3, <2>7 DEF ReaderFits
    <3>2. ASSUME NEW r \in 1..k.done PROVE r \in 1..Receipts /\ r <= db.top
      BY <1>4, <1>5, <2>4, <2>5
    <3>3. ASSUME NEW p \in k.parts, NEW r \in 1..p[1] PROVE r \in 1..Receipts /\ r <= db.top
      <4>1. p[1] <= db.top /\ p[1] \in Nat
        BY <2>4, <2>5
      <4> QED
        BY <1>4, <1>5, <4>1
    <3>4. \A r \in 1..k.done, c \in Classes : Judged(e, era', r, c)
      BY <1>13, <3>1, <3>2
    <3>5. \A p \in k.parts : \A r \in 1..p[1], c \in Classes : <<r, c>> \in k.parts \/ Judged(e, era', r, c)
      BY <1>13, <3>1, <3>3
    <3> QED
      BY <1>9, <3>1, <3>4, <3>5
  <2>8. k.epoch \in 1..e.set.epoch
    BY <1>9, <2>4
  <2> QED
    BY <2>6, <2>7, <2>8 DEF ReaderFits
<1>16. Requested(db', worker')
  <2>1. worker' = worker /\ db'.item = db.item
    BY <1>4, <1>8, <1>9
  <2> QED
    BY <1>1, <2>1 DEF Requested
<1>17. Budgets(db'.set, host', bounds') /\ host' \in Hosts /\ bounds' \in Spending /\ worker' \in [Workers -> Ticks]
  BY <1>1, <1>4, <1>8, <1>9
<1>18. Sound(db') /\ Past(db', era') /\ \A v \in Workers : ReaderFits(db', era', worker'[v])
  BY <1>4, <1>8, <1>9, <1>11, <1>12, <1>14, <1>15 DEF Past
<1> QED
  BY <1>7, <1>16, <1>17, <1>18, InvPartsNext

\* A backfill has its own key.
LEMMA BackfillInv ==
  ASSUME IInv, NEW b \in Backfills, NEW R, Backfill(b, R)
  PROVE  IInv'
<1>1. /\ Sound(db) /\ Past(db, era) /\ worker \in [Workers -> Ticks] /\ era \in Eras
  BY InvParts
<1>2. PICK T, automatic : db' = AdmitJob(db, b, T, automatic)
  BY DEF Backfill
<1>3. UNCHANGED <<worker, host, era, bounds>> /\ host.install = "on"
  BY DEF Backfill
<1>4. b \in Jobs /\ b \notin Autos
  <2>1. Epochs \subseteq Nat /\ 1..Receipts \subseteq Nat /\ Classes \subseteq Nat
    BY Constants
  <2>2. Autos \subseteq Nat \X Nat \X Nat
    <3> HIDE DEF Epochs
    <3> QED
      BY <2>1 DEF Autos
  <2> QED
    BY <2>2, SentimentAssumption DEF Jobs
<1>5. /\ Sound(db') /\ db'.set = db.set /\ db'.top = db.top /\ Kept(db, db')
      /\ db'.job[b].state # "none"
      /\ \A k \in Jobs \ {b} : db'.job[k].state = "none" <=> db.job[k].state = "none"
  BY <1>1, <1>2, <1>4, AdmitSound
<1>6. JobsGrow(db, db') /\ AutoFits(db', era)
  BY <1>1, <1>4, <1>5 DEF JobsGrow, AutoFits, Past, Jobs
<1>7. SetMoves(db, db') /\ db'.set.cursor = db.set.cursor
  BY <1>5 DEF SetMoves
<1>8. Past(db', era) /\ ReadersStay(db, db', era)
  BY <1>1, <1>5, <1>6, <1>7, SetPast
<1>9. Seen(db'.set, host) <= Seen(db.set, host)
  <2>1. Seen(db.set, host) \in Nat
    BY <1>1, SeenType
  <2>2. Seen(db'.set, host) = Seen(db.set, host)
    BY <1>5
  <2>3. \A x \in Nat : x <= x
    OBVIOUS
  <2> QED
    BY <2>1, <2>2, <2>3, Zenon
<1>10. Legal(db, db', era, host)
  BY <1>5, <1>8, <1>9 DEF Legal
<1>11. CASE Workers # {}
  <2>1. PICK w \in Workers : TRUE
    BY <1>11
  <2> QED
    BY <1>3, <1>5, <1>10, StillStep
<1>12. CASE Workers = {}
  BY <1>12 DEF Backfill, Serving
<1> QED
  BY <1>11, <1>12

\* A change of the settings, here or of the host.
LEMMA SettingsStep ==
  ASSUME IInv, Sound(db'), Past(db', era), ReadersStay(db, db', era), Kept(db, db'), UNCHANGED <<worker, era>>,
         host' \in Hosts, bounds' \in Spending, Budgets(db'.set, host', bounds')
  PROVE  IInv'
<1>1. /\ Sound(db) /\ worker \in [Workers -> Ticks] /\ era \in Eras
      /\ Requested(db, worker) /\ \A v \in Workers : ReaderFits(db, era, worker[v])
  BY InvParts
<1>2. ASSUME NEW v \in Workers, NEW x \in Items
      PROVE  RequestFits(db'.item[x], worker[v].flight[x], v)
  <2>1. db.item[x].used \in Int /\ db'.item[x].used \in Int
    BY <1>1, RowType
  <2> QED
    BY <1>1, <2>1, RequestStays DEF Requested, Kept
<1>3. \A v \in Workers : ReaderFits(db', era, worker[v])
  BY <1>1 DEF ReadersStay
<1>4. worker' = worker /\ era' = era
  OBVIOUS
<1>5. Requested(db', worker')
  BY <1>2, <1>4 DEF Requested
<1>6. /\ worker' \in [Workers -> Ticks] /\ era' \in Eras /\ Past(db', era')
      /\ \A v \in Workers : ReaderFits(db', era', worker'[v])
  BY <1>1, <1>3, <1>4
<1> QED
  BY <1>5, <1>6, InvPartsNext

LEMMA ConfigureInv ==
  ASSUME IInv, NEW on \in BOOLEAN, Configure(on)
  PROVE  IInv'
<1>1. /\ Sound(db) /\ Past(db, era) /\ era \in Eras /\ host \in Hosts /\ bounds \in Spending
      /\ Budgets(db.set, host, bounds)
  BY InvParts
<1>2. db.set.on # on /\ (on => host.install = "on") /\ Spends("changes") /\ UNCHANGED <<worker, host, era>>
  BY DEF Configure
<1>3. bounds' \in Spending /\ bounds'.changes = bounds.changes + 1
  BY <1>1, <1>2, SpendsIs
<1>4. /\ db.set.epoch \in Epochs /\ db.set.epoch \in Nat \ {0} /\ db.set.on \in BOOLEAN /\ db.set.suspended \in BOOLEAN
      /\ bounds.changes \in Nat /\ bounds'.changes \in Nat /\ bounds'.changes <= MaxChanges /\ MaxChanges \in Nat
      /\ host.key \in Nat
  <2>1. bounds.changes \in 0..MaxChanges /\ bounds'.changes \in 0..MaxChanges /\ host.key \in Keys
    BY <1>1, <1>3 DEF Spending, Hosts
  <2>2. MaxChanges \in Nat /\ Keys \subseteq Nat
    BY Constants
  <2>3. \A x \in 0..MaxChanges : x \in Nat /\ x <= MaxChanges
    BY <2>2
  <2> QED
    BY <1>1, <2>1, <2>2, <2>3, SetTypes, Zenon
<1>5. host' = host
  BY <1>2
<1>6. CASE on
  <2> DEFINE set == [db.set EXCEPT !.on = TRUE, !.epoch = db.set.epoch + 1, !.boundary = db.top]
  <2>1. ~db.set.on /\ host.install = "on"
    BY <1>2, <1>4, <1>6
  <2>2. db.set.epoch + 1 \in Epochs
    <3>1. 2 * ((db.set.epoch + 1) - 1) <= MaxChanges
      BY <1>1, <1>3, <1>4, <2>1 DEF Budgets, Seen
    <3> QED
      BY <1>4, <3>1, EpochFits
  <2>3. /\ set \in Settings /\ set.epoch = db.set.epoch + 1 /\ set.boundary = db.top /\ set.on
        /\ set.cursor = db.set.cursor /\ set.suspended = db.set.suspended
    <3>1. PICK epoch : epoch = db.set.epoch + 1
      OBVIOUS
    <3>2. epoch \in Epochs
      BY <2>2, <3>1
    <3>3. set = [db.set EXCEPT !.on = TRUE, !.epoch = epoch, !.boundary = db.top]
      BY <3>1
    <3>4. db.set \in Settings /\ db.top \in 0..Receipts
      BY <1>1, HeadTypes
    <3> HIDE DEF set
    <3>5. /\ set \in Settings /\ set.epoch = epoch /\ set.boundary = db.top /\ set.on
          /\ set.cursor = db.set.cursor /\ set.suspended = db.set.suspended
      BY <3>2, <3>3, <3>4 DEF Settings
    <3> QED
      BY <3>1, <3>5
  <2>4. db' = [db EXCEPT !.set = set]
    BY <1>6 DEF Configure
  <2> HIDE DEF set
  <2>5. db' = WithHead(db, set, db.pause, db.top)
    BY <1>1, <2>4, HeadTypes DEF WithHead, Tables
  <2>6. Sound(db') /\ SameJobs(db, db') /\ Kept(db, db') /\ db'.set = set /\ db'.top = db.top
    BY <1>1, <2>3, <2>5, HeadTypes, HeadSound
  <2>7. SetMoves(db, db')
    BY <2>3, <2>6 DEF SetMoves
  <2>8. Past(db', era) /\ ReadersStay(db, db', era)
    BY <1>1, <2>3, <2>6, <2>7, SetPast, SameGrow DEF Past
  <2>9. Budgets(db'.set, host', bounds')
    BY <1>1, <1>3, <1>4, <1>5, <2>1, <2>3, <2>6 DEF Budgets, Seen
  <2>10. host' \in Hosts
    BY <1>1, <1>5
  <2> QED
    BY <1>2, <1>3, <2>6, <2>8, <2>9, <2>10, SettingsStep
<1>7. CASE ~on
  <2> DEFINE set == [db.set EXCEPT !.on = FALSE]
  <2>1. db.set.on
    BY <1>2, <1>4, <1>7
  <2>2. /\ set \in Settings /\ set.epoch = db.set.epoch /\ set.boundary = db.set.boundary /\ ~set.on
        /\ set.cursor = db.set.cursor /\ set.suspended = db.set.suspended
    BY <1>1, HeadTypes DEF Settings
  <2>3. db' = CancelWith(db, set)
    <3>1. PICK c : c = CancelProject(db)
      OBVIOUS
    <3>2. c \in Tables /\ c.set = db.set
      BY <1>1, <3>1, CancelSound, HeadTypes DEF Calm
    <3>3. db' = [c EXCEPT !.set.on = FALSE]
      BY <1>7, <3>1 DEF Configure
    <3> QED
      BY <3>1, <3>2, <3>3 DEF CancelWith, Tables
  <2> HIDE DEF set
  <2>4. Sound(db') /\ SameJobs(db, db') /\ Kept(db, db') /\ db'.set = set /\ db'.top = db.top
    BY <1>1, <2>2, <2>3, CancelHead
  <2>5. SetMoves(db, db')
    BY <2>2, <2>4 DEF SetMoves
  <2>6. Past(db', era) /\ ReadersStay(db, db', era)
    BY <1>1, <2>2, <2>4, <2>5, SetPast, SameGrow DEF Past
  <2>7. Budgets(db'.set, host', bounds')
    BY <1>1, <1>3, <1>4, <1>5, <2>1, <2>2, <2>4 DEF Budgets, Seen
  <2>8. host' \in Hosts
    BY <1>1, <1>5
  <2> QED
    BY <1>2, <1>3, <2>4, <2>6, <2>7, <2>8, SettingsStep
<1> QED
  BY <1>6, <1>7

LEMMA HostSpends ==
  ASSUME IInv, UNCHANGED <<db, worker, era>>, host' \in Hosts, bounds' \in Spending, Budgets(db.set, host', bounds')
  PROVE  IInv'
<1>1. Sound(db) /\ Past(db, era) /\ era \in Eras
  BY InvParts
<1>2. Legal(db, db, era, host) /\ Kept(db, db)
  BY <1>1, CalmSame, CalmLegal
<1>3. db' = db
  OBVIOUS
<1>4. Sound(db') /\ Past(db', era) /\ ReadersStay(db, db', era) /\ Kept(db, db') /\ Budgets(db'.set, host', bounds')
  BY <1>1, <1>2, <1>3 DEF Legal
<1> QED
  BY <1>4, SettingsStep

LEMMA HostInv ==
  ASSUME IInv, HostChanges \/ HostRepaired
  PROVE  IInv'
<1>1. /\ Sound(db) /\ host \in Hosts /\ bounds \in Spending /\ Budgets(db.set, host, bounds)
  BY InvParts
<1>2. /\ db.set.epoch \in Nat \ {0} /\ db.set.on \in BOOLEAN /\ db.set.suspended \in BOOLEAN
      /\ bounds.changes \in Nat /\ MaxChanges \in Nat /\ host.key \in Nat \ {0} /\ host.key \in Keys
      /\ host.install \in {"on", "off", "held"}
  <2>1. bounds.changes \in 0..MaxChanges /\ host.key \in Keys /\ host.install \in {"on", "off", "held"}
    BY <1>1 DEF Spending, Hosts
  <2>2. MaxChanges \in Nat /\ Keys \subseteq Nat \ {0}
    BY Constants
  <2>3. \A x \in 0..MaxChanges : x \in Nat
    BY <2>2
  <2> QED
    BY <1>1, <2>1, <2>2, <2>3, SetTypes, Zenon
<1>3. CASE HostChanges
  <2>1. bounds' \in Spending /\ bounds'.changes = bounds.changes + 1
    BY <1>1, <1>3, SpendsIs DEF HostChanges
  <2>2. bounds'.changes <= MaxChanges
    BY <2>1, Constants DEF Spending
  <2>3. CASE \E x \in {"on", "off", "held"} \ {host.install} : host' = [host EXCEPT !.install = x]
    <3>1. host' \in Hosts /\ host'.key = host.key /\ host'.install \in {"on", "off", "held"}
      BY <1>1, <2>3 DEF Hosts
    <3>2. Budgets(db.set, host', bounds')
      BY <1>1, <1>2, <2>1, <3>1 DEF Budgets, Seen
    <3> QED
      BY <1>3, <2>1, <3>1, <3>2, HostSpends DEF HostChanges
  <2>4. CASE host' = [host EXCEPT !.key = @ + 1]
    <3>1. host.key + 1 \in Keys
      BY <1>1, <1>2, <2>1, <2>2 DEF Budgets, Keys
    <3>2. host' \in Hosts /\ host'.key = host.key + 1 /\ host'.install = host.install
      <4>1. PICK key : key = host.key + 1
        OBVIOUS
      <4>2. key \in Keys /\ host' = [host EXCEPT !.key = key]
        BY <2>4, <3>1, <4>1
      <4>3. host' \in Hosts /\ host'.key = key /\ host'.install = host.install
        BY <1>1, <4>2 DEF Hosts
      <4> QED
        BY <4>1, <4>3
    <3>3. Budgets(db.set, host', bounds')
      BY <1>1, <1>2, <2>1, <3>2 DEF Budgets, Seen
    <3> QED
      BY <1>3, <2>1, <3>2, <3>3, HostSpends DEF HostChanges
  <2> QED
    BY <1>3, <2>3, <2>4 DEF HostChanges
<1>4. CASE HostRepaired
  <2>1. host.install = "held" /\ host' = [host EXCEPT !.install = "on"] /\ UNCHANGED <<db, worker, era, bounds>>
    BY <1>4 DEF HostRepaired
  <2>2. host' \in Hosts /\ host'.key = host.key /\ host'.install = "on"
    BY <1>1, <2>1 DEF Hosts
  <2>3. bounds' = bounds
    BY <2>1
  <2>4. Budgets(db.set, host', bounds')
    BY <1>1, <1>2, <2>1, <2>2, <2>3 DEF Budgets, Seen
  <2> QED
    BY <1>1, <2>1, <2>2, <2>3, <2>4, HostSpends
<1> QED
  BY <1>3, <1>4

\* A lease runs out: of a request that is still out only when its worker overslept.
LEMMA LeaseRunsOutInv ==
  ASSUME IInv, NEW i \in Items, LeaseRunsOut(i)
  PROVE  IInv'
<1>1. /\ Sound(db) /\ Past(db, era) /\ worker \in [Workers -> Ticks] /\ era \in Eras
      /\ host \in Hosts /\ bounds \in Spending /\ Budgets(db.set, host, bounds)
      /\ Requested(db, worker) /\ \A v \in Workers : ReaderFits(db, era, worker[v])
  BY InvParts
<1>2. PICK w : w = db.item[i].owner
  OBVIOUS
<1>3. /\ db' = LeaseEnds(db, i) /\ UNCHANGED <<host, era>>
      /\ \/ Out(i) /\ Spends("faults") /\ worker' = [worker EXCEPT ![w].flight[i].aged = TRUE]
         \/ ~Out(i) /\ UNCHANGED <<worker, bounds>>
  BY <1>2 DEF LeaseRunsOut, LeaseEnds
<1>4. /\ Sound(db') /\ Calm(db, db') /\ db'.item[i].owner = w /\ db'.item[i].used = db.item[i].used
      /\ \A x \in Items : x # i => db'.item[x] = db.item[x]
  <2>1. /\ Sound(LeaseEnds(db, i)) /\ Calm(db, LeaseEnds(db, i))
        /\ \A x \in Items : x # i => LeaseEnds(db, i).item[x] = db.item[x]
        /\ LeaseEnds(db, i).item[i].owner = db.item[i].owner
        /\ LeaseEnds(db, i).item[i].used = db.item[i].used
    BY <1>1, LeaseOver
  <2> QED
    BY <1>2, <1>3, <2>1
<1>5. Past(db', era) /\ ReadersStay(db, db', era) /\ db'.set = db.set
  BY <1>1, <1>4, CalmLegal DEF Legal, Calm
<1>6. bounds' \in Spending /\ bounds'.changes = bounds.changes
  BY <1>1, <1>3, SpendsIs
<1>7. CASE ~Out(i)
  <2>1. worker' = worker
    BY <1>3, <1>7
  <2>2. ASSUME NEW v \in Workers, NEW x \in Items
        PROVE  RequestFits(db'.item[x], worker[v].flight[x], v)
    <3>1. RequestFits(db.item[x], worker[v].flight[x], v)
      BY <1>1 DEF Requested
    <3>2. CASE x = i
      <4>1. db.item[i].owner = v => worker[v].flight[i].at = "none"
        BY <1>7 DEF Out
      <4> QED
        BY <1>2, <1>4, <3>1, <3>2, <4>1 DEF RequestFits
    <3>3. CASE x # i
      BY <1>4, <3>1, <3>3
    <3> QED
      BY <3>2, <3>3
  <2>3. Requested(db', worker')
    BY <2>1, <2>2 DEF Requested
  <2>4. \A v \in Workers : ReaderFits(db', era, worker[v])
    BY <1>1, <1>5 DEF ReadersStay
  <2>5. host' = host /\ era' = era
    BY <1>3
  <2>6. Budgets(db'.set, host', bounds')
    BY <1>1, <1>5, <1>6, <2>5 DEF Budgets
  <2>7. /\ worker' \in [Workers -> Ticks] /\ host' \in Hosts /\ era' \in Eras /\ Past(db', era')
        /\ \A v \in Workers : ReaderFits(db', era', worker'[v])
    BY <1>1, <1>5, <2>1, <2>4, <2>5
  <2> QED
    BY <1>4, <1>6, <2>3, <2>6, <2>7, InvPartsNext
<1>8. CASE Out(i)
  <2>1. w \in Workers
    BY <1>2, <1>8 DEF Out
  <2>2. PICK k \in Ticks : k = worker[w]
    BY <1>1, <2>1
  <2>3. PICK f : f = [k.flight[i] EXCEPT !.aged = TRUE]
    OBVIOUS
  <2>4. f \in Requests /\ f.aged /\ f.at = k.flight[i].at
    <3>1. k.flight[i] \in Requests
      BY DEF Ticks
    <3> QED
      BY <2>3, <3>1 DEF Requests
  <2>5. PICK flight : flight = [k.flight EXCEPT ![i] = f]
    OBVIOUS
  <2>6. flight \in [Items -> Requests] /\ flight[i] = f /\ \A x \in Items : x # i => flight[x] = k.flight[x]
    BY <2>4, <2>5 DEF Ticks
  <2>7. PICK r : r = Flying(k, flight)
    OBVIOUS
  <2>8. /\ r \in Ticks /\ r.phase = k.phase /\ r.flight = flight /\ r.epoch = k.epoch /\ r.parts = k.parts
        /\ r.done = k.done
    BY <2>6, <2>7, FlyingIs
  <2>9. worker' = [worker EXCEPT ![w] = r]
    <3>1. k.flight \in [Items -> Requests]
      BY DEF Ticks
    <3>2. r = [k EXCEPT !.flight[i].aged = TRUE]
      BY <2>3, <2>5, <2>7, <3>1 DEF Flying, Ticks
    <3> QED
      BY <1>1, <1>3, <1>8, <2>1, <2>2, <3>2
  <2>10. ReaderFits(db', era, r)
    <3>1. ReaderFits(db', era, k)
      BY <1>1, <1>5, <2>1, <2>2 DEF ReadersStay
    <3> QED
      BY <2>8, <3>1 DEF ReaderFits
  <2>11. /\ worker' \in [Workers -> Ticks] /\ worker'[w] = r
         /\ \A v \in Workers : v # w => worker'[v] = worker[v]
    BY <1>1, <2>1, <2>8, <2>9
  <2>12. ASSUME NEW v \in Workers, NEW x \in Items
         PROVE  RequestFits(db'.item[x], worker'[v].flight[x], v)
    <3>1. RequestFits(db.item[x], worker[v].flight[x], v)
      BY <1>1 DEF Requested
    <3>2. CASE x # i
      <4>1. worker'[v].flight[x] = worker[v].flight[x] /\ db'.item[x] = db.item[x]
        BY <1>4, <2>2, <2>6, <2>8, <2>11, <3>2
      <4> QED
        BY <3>1, <4>1
    <3>3. CASE x = i /\ v = w
      <4>1. worker'[v].flight[x].at = worker[v].flight[x].at /\ worker'[v].flight[x].aged
        BY <2>2, <2>4, <2>6, <2>8, <2>11, <3>3
      <4> QED
        BY <1>2, <1>4, <3>1, <3>3, <4>1 DEF RequestFits
    <3>4. CASE x = i /\ v # w
      <4>1. worker'[v] = worker[v]
        BY <2>11, <3>4
      <4> QED
        BY <1>2, <1>4, <3>1, <3>4, <4>1 DEF RequestFits
    <3> QED
      BY <3>2, <3>3, <3>4
  <2>13. Requested(db', worker')
    BY <2>12 DEF Requested
  <2>14. ASSUME NEW v \in Workers PROVE ReaderFits(db', era, worker'[v])
    <3>1. CASE v = w
      BY <2>10, <2>11, <3>1
    <3>2. CASE v # w
      BY <1>1, <1>5, <2>11, <3>2 DEF ReadersStay
    <3> QED
      BY <3>1, <3>2
  <2>15. host' = host /\ era' = era
    BY <1>3
  <2>16. Budgets(db'.set, host', bounds')
    BY <1>1, <1>5, <1>6, <2>15 DEF Budgets
  <2>17. host' \in Hosts /\ era' \in Eras /\ Past(db', era') /\ \A v \in Workers : ReaderFits(db', era', worker'[v])
    BY <1>1, <1>5, <2>14, <2>15
  <2> QED
    BY <1>4, <1>6, <2>11, <2>13, <2>16, <2>17, InvPartsNext
<1> QED
  BY <1>7, <1>8

\* Processes begin, end, and learn that they are replaced.
LEMMA ProcessStep ==
  ASSUME IInv, NEW W \in [Workers -> Ticks], worker' = W,
         \A v \in Workers : \/ W[v].phase # "reconcile" /\ \A x \in Items : W[v].flight[x].at = "none"
                            \/ W[v] = worker[v]
                            \/ W[v] = Keeping(worker[v], TRUE),
         UNCHANGED <<db, host, era>>, bounds' \in Spending, bounds'.changes = bounds.changes
  PROVE  IInv'
<1>1. /\ Sound(db) /\ Past(db, era) /\ worker \in [Workers -> Ticks] /\ era \in Eras
      /\ host \in Hosts /\ bounds \in Spending /\ Budgets(db.set, host, bounds)
      /\ Requested(db, worker) /\ \A v \in Workers : ReaderFits(db, era, worker[v])
  BY InvParts
<1>2. ASSUME NEW v \in Workers
      PROVE  ReaderFits(db, era, W[v]) /\ \A x \in Items : RequestFits(db.item[x], W[v].flight[x], v)
  <2>1. CASE W[v].phase # "reconcile" /\ \A x \in Items : W[v].flight[x].at = "none"
    BY <2>1 DEF ReaderFits, RequestFits
  <2>2. CASE W[v] = worker[v]
    BY <1>1, <2>2 DEF Requested
  <2>3. CASE W[v] = Keeping(worker[v], TRUE)
    <3>1. PICK k \in Ticks, c \in BOOLEAN : k = worker[v] /\ c = TRUE
      BY <1>1
    <3>2. PICK s : s = Keeping(k, c)
      OBVIOUS
    <3>3. s.flight = k.flight /\ \A d, e : ReaderFits(d, e, k) => ReaderFits(d, e, s)
      BY <3>2, KeepingIs
    <3>4. W[v] = s
      BY <2>3, <3>1, <3>2
    <3>5. ReaderFits(db, era, k) /\ \A x \in Items : RequestFits(db.item[x], k.flight[x], v)
      BY <1>1, <3>1 DEF Requested
    <3> QED
      BY <3>3, <3>4, <3>5
  <2> QED
    BY <2>1, <2>2, <2>3
<1>3. db' = db /\ host' = host /\ era' = era
  OBVIOUS
<1>4. Requested(db', worker')
  BY <1>2, <1>3 DEF Requested
<1>5. /\ Sound(db') /\ Past(db', era') /\ era' \in Eras /\ host' \in Hosts /\ worker' \in [Workers -> Ticks]
      /\ \A v \in Workers : ReaderFits(db', era', worker'[v])
  BY <1>1, <1>2, <1>3
<1>6. Budgets(db'.set, host', bounds')
  BY <1>1, <1>3 DEF Budgets
<1> QED
  BY <1>4, <1>5, <1>6, InvPartsNext

LEMMA ProcessInv ==
  ASSUME IInv, \/ StartServer
               \/ \E w \in Workers : Crash(w) \/ Replace(w) \/ Close(w)
  PROVE  IInv'
<1>1. worker \in [Workers -> Ticks] /\ bounds \in Spending
  BY InvParts
<1>2. /\ Asleep \in Ticks /\ Down \in Ticks /\ Asleep.phase # "reconcile" /\ Down.phase # "reconcile"
      /\ \A x \in Items : Asleep.flight[x].at = "none" /\ Down.flight[x].at = "none"
  BY AsleepType
<1>3. bounds' \in Spending /\ bounds'.changes = bounds.changes /\ UNCHANGED <<db, host, era>>
  BY <1>1, SpendsIs DEF StartServer, Crash, Replace, Close
<1>4. PICK W : W = worker'
  OBVIOUS
<1>5. ASSUME NEW w, NEW r \in {Asleep, Down}, worker' = [worker EXCEPT ![w] = r]
      PROVE  /\ W \in [Workers -> Ticks]
             /\ \A v \in Workers : \/ W[v].phase # "reconcile" /\ \A x \in Items : W[v].flight[x].at = "none"
                                   \/ W[v] = worker[v]
  BY <1>1, <1>2, <1>4, <1>5
<1>6. ASSUME NEW w \in Workers, Replace(w)
      PROVE  /\ W \in [Workers -> Ticks]
             /\ \A v \in Workers : \/ W[v].phase # "reconcile" /\ \A x \in Items : W[v].flight[x].at = "none"
                                   \/ W[v] = worker[v]
                                   \/ W[v] = Keeping(worker[v], TRUE)
  <2>1. W = [v \in Workers |-> IF v = w THEN Asleep
                               ELSE IF worker[v].phase # "down" THEN Keeping(worker[v], TRUE) ELSE worker[v]]
    BY <1>4, <1>6 DEF Replace, Keeping
  <2>2. ASSUME NEW v \in Workers PROVE Keeping(worker[v], TRUE) \in Ticks
    <3>1. PICK k \in Ticks, c \in BOOLEAN : k = worker[v] /\ c = TRUE
      BY <1>1
    <3>2. PICK s : s = Keeping(k, c)
      OBVIOUS
    <3>3. s \in Ticks
      BY <3>2, KeepingIs
    <3> QED
      BY <3>1, <3>2, <3>3
  <2> QED
    BY <1>1, <1>2, <2>1, <2>2
<1>7. CASE \E w \in Workers : Replace(w)
  BY <1>3, <1>4, <1>6, <1>7, ProcessStep
<1>8. CASE StartServer \/ \E w \in Workers : Crash(w) \/ Close(w)
  <2>1. CASE StartServer
    <3>1. PICK w : w = First
      OBVIOUS
    <3>2. PICK r \in {Asleep, Down} : r = Asleep
      OBVIOUS
    <3>3. worker' = [worker EXCEPT ![w] = r]
      BY <2>1, <3>1, <3>2 DEF StartServer
    <3> QED
      BY <1>3, <1>4, <1>5, <3>3, ProcessStep
  <2>2. CASE \E w \in Workers : Crash(w) \/ Close(w)
    <3>1. PICK w \in Workers : Crash(w) \/ Close(w)
      BY <2>2
    <3>2. PICK r \in {Asleep, Down} : r = Down
      OBVIOUS
    <3>3. worker' = [worker EXCEPT ![w] = r]
      BY <3>1, <3>2 DEF Crash, Close
    <3> QED
      BY <1>3, <1>4, <1>5, <3>3, ProcessStep
  <2> QED
    BY <1>8, <2>1, <2>2
<1> QED
  BY <1>7, <1>8

-----------------------------------------------------------------------------
(* The invariant. *)

LEMMA InvInit == Init => IInv
<1> SUFFICES ASSUME Init PROVE IInv
  OBVIOUS
<1>0. /\ Receipts \in Nat /\ MaxFaults \in Nat /\ MaxChanges \in Nat /\ MaxRefusals \in Nat /\ MaxAttempts \in Nat
      /\ 1 \in Epochs /\ 1 \in Keys
  BY Constants
<1>1. \A i \in Items : db.item[i] = [status |-> "none", owner |-> None, live |-> FALSE, epoch |-> 0, used |-> 0, result |-> FALSE]
  BY DEF Init
<1>2. \A j \in Jobs : /\ db.job[j] = [state |-> "none", count |-> [b \in Buckets |-> 0]]
                      /\ \A i \in Items : db.member[j][i] = "out"
  BY DEF Init
<1>3. /\ db.set = [on |-> TRUE, suspended |-> FALSE, epoch |-> 1, boundary |-> 0, cursor |-> 0]
      /\ db.pause = NoPause /\ db.top = 0
  BY DEF Init
<1>4. db \in Tables
  <2>1. db.item \in [Items -> Rows]
    BY <1>0, <1>1 DEF Init, Rows, ItemStatus
  <2>2. db.job \in [Jobs -> [state : JobStates, count : [Buckets -> Int]]]
    BY DEF Init, JobStates
  <2>3. db.member \in [Jobs -> [Items -> {"out", "in", "canceled"}]]
    BY DEF Init
  <2>4. db.set \in Settings /\ db.pause \in [reason : {"none", "rate", "auth"}, key : {0} \cup Keys] /\ db.top \in 0..Receipts
    BY <1>0, <1>3 DEF Settings, NoPause
  <2>5. db = [item |-> db.item, job |-> db.job, member |-> db.member, set |-> db.set, pause |-> db.pause, top |-> db.top]
    BY DEF Init
  <2> QED
    BY <2>1, <2>2, <2>3, <2>4, <2>5 DEF Tables
<1>5. \A i \in Items : RowFits(db.item[i])
  BY <1>1 DEF RowFits
<1>6. ASSUME NEW j \in Jobs PROVE JobCounts(db, j)
  <2>1. \A b \in Buckets : {i \in Items : db.member[j][i] # "out" /\ MemberBucket(db, j, i) = b} = {}
    BY <1>2
  <2>2. Cardinality({}) = 0
    BY FS_EmptySet
  <2>3. Recounted(db, j) = [b \in Buckets |-> 0]
    BY <2>1, <2>2 DEF Recounted
  <2> QED
    BY <1>2, <2>3 DEF JobCounts
<1>7. /\ worker \in [Workers -> Ticks]
      /\ \A w \in Workers : worker[w].phase # "reconcile" /\ \A x \in Items : worker[w].flight[x].at = "none"
  <2>1. worker = [w \in Workers |-> IF w = First THEN Asleep ELSE Down]
    BY DEF Init
  <2> QED
    BY <2>1, AsleepType
<1>8. Requested(db, worker) /\ \A w \in Workers : ReaderFits(db, era, worker[w])
  BY <1>7 DEF Requested, RequestFits, ReaderFits
<1>9. host = [install |-> "on", key |-> 1] /\ bounds = [faults |-> 0, changes |-> 0, refusals |-> 0]
  BY DEF Init
<1>10. host \in Hosts /\ bounds \in Spending /\ Budgets(db.set, host, bounds)
  BY <1>0, <1>3, <1>9 DEF Hosts, Spending, Budgets, Seen
<1>11. era \in Eras /\ \A r \in 1..Receipts : era[r] = 0
  BY DEF Init, Eras
<1>12. EraFits(db, era)
  BY <1>0, <1>3, <1>11 DEF EraFits
<1>13. AutoFits(db, era)
  BY <1>2 DEF AutoFits, Jobs
<1>14. CursorFits(db, era)
  BY <1>3 DEF CursorFits
<1> QED
  BY <1>4, <1>5, <1>6, <1>7, <1>8, <1>10, <1>11, <1>12, <1>13, <1>14, InvParts DEF Sound, Past

\* Every step keeps it.
LEMMA InvStep == IInv /\ [Next]_vars => IInv'
<1> SUFFICES ASSUME IInv, [Next]_vars PROVE IInv'
  OBVIOUS
<1>1. ASSUME NEW w \in Workers, Step(w)
      PROVE  IInv'
  <2>1. CASE Tick(w)
    BY <2>1, TickInv
  <2>2. CASE Close(w)
    BY <2>2, ProcessInv
  <2>3. CASE AdmitPart(w)
    BY <2>3, AdmitPartInv
  <2>4. CASE EndReconcile(w)
    BY <2>4, EndReconcileInv
  <2>5. CASE ClaimOne(w)
    BY <2>5, ClaimOneInv
  <2>6. CASE EndClaims(w)
    BY <2>6, EndClaimsInv
  <2>7. ASSUME NEW i \in InHand(w),
               \/ SettleUnasked(w, i) \/ PutBack(w, i) \/ CancelStale(w, i) \/ GiveUp(w, i) \/ ReleaseClaim(w, i)
               \/ Send(w, i) \/ Verdict(w, i) \/ Failure(w, i) \/ Refusal(w, i)
        PROVE  IInv'
    <3>1. CASE SettleUnasked(w, i)
      BY <3>1, SettleUnaskedInv
    <3>2. CASE PutBack(w, i)
      BY <3>2, PutBackInv
    <3>3. CASE CancelStale(w, i)
      BY <3>3, CancelStaleInv
    <3>4. CASE GiveUp(w, i)
      BY <3>4, GiveUpInv
    <3>5. CASE ReleaseClaim(w, i)
      BY <3>5, ReleaseClaimInv
    <3>6. CASE Send(w, i)
      BY <3>6, SendInv
    <3>7. CASE Verdict(w, i)
      BY <3>7, VerdictInv
    <3>8. CASE Failure(w, i)
      BY <3>8, FailureInv
    <3>9. CASE Refusal(w, i)
      BY <3>9, RefusalInv
    <3> QED
      BY <2>7, <3>1, <3>2, <3>3, <3>4, <3>5, <3>6, <3>7, <3>8, <3>9
  <2> QED
    BY <1>1, <2>1, <2>2, <2>3, <2>4, <2>5, <2>6, <2>7 DEF Step
<1>2. ASSUME NEW w \in Workers, Crash(w) \/ Replace(w)
      PROVE  IInv'
  BY <1>2, ProcessInv
<1>3. CASE StartServer
  BY <1>3, ProcessInv
<1>4. CASE RunCompletes
  BY <1>4, RunCompletesInv
<1>5. ASSUME NEW b \in Backfills, NEW R \in SUBSET (1..Receipts), Backfill(b, R)
      PROVE  IInv'
  BY <1>5, BackfillInv
<1>6. ASSUME NEW on \in BOOLEAN, Configure(on)
      PROVE  IInv'
  BY <1>6, ConfigureInv
<1>7. CASE HostChanges \/ HostRepaired
  BY <1>7, HostInv
<1>8. ASSUME NEW i \in Items, LeaseRunsOut(i)
      PROVE  IInv'
  BY <1>8, LeaseRunsOutInv
<1>9. CASE UNCHANGED vars
  <2>1. /\ db' = db /\ worker' = worker /\ host' = host /\ era' = era /\ bounds' = bounds
    BY <1>9 DEF vars
  <2>2. /\ Sound(db) /\ Past(db, era) /\ worker \in [Workers -> Ticks] /\ era \in Eras
        /\ host \in Hosts /\ bounds \in Spending /\ Budgets(db.set, host, bounds)
        /\ Requested(db, worker) /\ \A w \in Workers : ReaderFits(db, era, worker[w])
    BY InvParts
  <2>3. /\ Sound(db') /\ Past(db', era') /\ worker' \in [Workers -> Ticks] /\ era' \in Eras
        /\ host' \in Hosts /\ bounds' \in Spending /\ Budgets(db'.set, host', bounds')
        /\ Requested(db', worker') /\ \A w \in Workers : ReaderFits(db', era', worker'[w])
    BY <2>1, <2>2
  <2> QED
    BY <2>3, InvPartsNext
<1> QED
  BY <1>1, <1>2, <1>3, <1>4, <1>5, <1>6, <1>7, <1>8, <1>9 DEF Next

\* The inductive invariant holds of every state.
THEOREM Invariant == Spec => []IInv
BY InvInit, InvStep, PTL DEF Spec

-----------------------------------------------------------------------------
(* What follows. *)

\* The variables are typed, and no job counts less than nothing or more than all items.
THEOREM TypeCorrect == Spec => []TypeOK
<1>1. IInv => TypeOK
  <2> SUFFICES ASSUME IInv PROVE TypeOK
    OBVIOUS
  <2>1. db \in Tables /\ worker \in [Workers -> Ticks] /\ host \in Hosts /\ era \in Eras /\ bounds \in Spending
    BY InvParts DEF Sound
  <2>2. \A j \in Jobs : /\ db.job[j].state \in JobStates
                        /\ db.job[j].count \in [Buckets -> 0..Cardinality(Items)]
                        /\ db.member[j] \in [Items -> {"out", "in", "canceled"}]
    <3> SUFFICES ASSUME NEW j \in Jobs
                 PROVE  /\ db.job[j].state \in JobStates
                        /\ db.job[j].count \in [Buckets -> 0..Cardinality(Items)]
                        /\ db.member[j] \in [Items -> {"out", "in", "canceled"}]
      OBVIOUS
    <3>1. db.job[j] \in [state : JobStates, count : [Buckets -> Int]] /\ db.member[j] \in [Items -> {"out", "in", "canceled"}]
      BY <2>1 DEF Tables
    <3>2. db.job[j].count = Recounted(db, j)
      BY InvParts DEF Sound, JobCounts
    <3> QED
      BY <2>1, <3>1, <3>2, RecountedType
  <2>3. db.item \in [Items -> Rows] /\ db.set \in Settings /\ db.pause \in [reason : {"none", "rate", "auth"}, key : {0} \cup Keys]
        /\ db.top \in 0..Receipts
    BY <2>1 DEF Tables
  <2>4. \A w \in Workers : /\ worker[w].phase \in {"idle", "reconcile", "claim", "run", "down"}
                           /\ worker[w].room \in 0..Concurrency /\ worker[w].done \in 0..Receipts
                           /\ worker[w].parts \subseteq (1..Receipts) \X Classes
                           /\ \A i \in Items : worker[w].flight[i].at \in {"none", "claimed", "sent"}
    <3> SUFFICES ASSUME NEW w \in Workers
                 PROVE  /\ worker[w].phase \in {"idle", "reconcile", "claim", "run", "down"}
                        /\ worker[w].room \in 0..Concurrency /\ worker[w].done \in 0..Receipts
                        /\ worker[w].parts \subseteq (1..Receipts) \X Classes
                        /\ \A i \in Items : worker[w].flight[i].at \in {"none", "claimed", "sent"}
      OBVIOUS
    <3>1. PICK k \in Ticks : k = worker[w]
      BY <2>1
    <3>2. \A i \in Items : k.flight[i].at \in {"none", "claimed", "sent"}
      BY DEF Ticks, Requests
    <3> QED
      BY <3>1, <3>2 DEF Ticks
  <2> QED
    BY <2>1, <2>2, <2>3, <2>4 DEF TypeOK, Rows, JobStates, Settings, Hosts, Spending, Eras
<1> QED
  BY <1>1, Invariant, PTL

\* Jobs count their members (settleJobs, shiftJobs).
THEOREM CountsTrue == Spec => []JobsMatchMembers
<1>1. IInv => JobsMatchMembers
  BY InvParts DEF Sound, JobCounts, JobsMatchMembers
<1> QED
  BY <1>1, Invariant, PTL

\* A work item is with the provider once, unless its process overslept the lease (claim).
THEOREM OneOut == Spec => []OneRequestOut
<1>1. IInv => OneRequestOut
  <2> SUFFICES ASSUME IInv, NEW i \in Items
               PROVE  Cardinality({w \in Workers : worker[w].flight[i].at = "sent" /\ ~worker[w].flight[i].aged}) <= 1
    BY DEF OneRequestOut
  <2>1. PICK S : S = {w \in Workers : worker[w].flight[i].at = "sent" /\ ~worker[w].flight[i].aged}
    OBVIOUS
  <2>2. \A w \in S : db.item[i].owner = w
    BY <2>1, InvParts DEF Requested, RequestFits
  <2>3. S = {} \/ S = {db.item[i].owner}
    BY <2>2
  <2>4. CASE S = {}
    <3>1. Cardinality(S) = 0
      BY <2>4, FS_EmptySet
    <3> QED
      BY <2>1, <3>1
  <2>5. ASSUME NEW w, S = {w} PROVE Cardinality(S) = 1
    BY <2>5, FS_Singleton
  <2>6. CASE S = {db.item[i].owner}
    <3>1. Cardinality(S) = 1
      BY <2>5, <2>6
    <3> QED
      BY <2>1, <3>1
  <2> QED
    BY <2>3, <2>4, <2>6
<1> QED
  BY <1>1, Invariant, PTL

\* The cursor passes nothing unjudged, and nothing is judged under another enablement (reconcile).
THEOREM CursorTrue == Spec => []CursorHonest
<1>1. IInv => CursorHonest
  BY InvParts DEF Past, AutoFits, CursorFits, Judged, Due, CursorHonest
<1> QED
  BY <1>1, Invariant, PTL

\* Only the gate of a tick lifts a pause for a key.
LEMMA DispatchPause ==
  ASSUME NEW w, NEW d, Sound(d), NEW key, Dispatch(w, d, key), d.pause.reason # "none", db'.pause.reason = "none"
  PROVE  d.pause.reason = "auth" /\ d.pause.key # key
BY DEF Dispatch, KeyChanged

LEMMA TickPause ==
  ASSUME IInv, NEW w \in Workers, Tick(w), db.pause.reason # "none", db'.pause.reason = "none"
  PROVE  worker[w].phase = "idle" /\ db.pause.reason = "auth" /\ db.pause.key # host.key
<1>1. /\ Sound(db) /\ Past(db, era) /\ era \in Eras /\ Seen(db.set, host) <= bounds.changes /\ bounds \in Spending
  BY InvParts DEF Budgets
<1>2. worker[w].phase = "idle"
  BY DEF Tick
<1>3. CASE host.install # "on"
  <2>1. db' = Suspended(db)
    BY <1>3 DEF Tick
  <2>2. db'.pause = db.pause
    BY <1>1, <2>1, HoldIs
  <2> QED
    BY <2>2
<1>4. CASE host.install = "on"
  <2>1. PICK d : d = ResumeInstall(db)
    OBVIOUS
  <2>2. Seen(db.set, host) <= MaxChanges
    BY <1>1, SeenType, Constants DEF Spending
  <2>3. Sound(d) /\ d.pause = db.pause
    BY <1>1, <1>4, <2>1, <2>2, ResumeIs DEF Legal
  <2>4. Dispatch(w, d, host.key) \/ db' = d
    BY <1>4, <2>1 DEF Tick
  <2> QED
    BY <1>2, <2>3, <2>4, DispatchPause
<1> QED
  BY <1>3, <1>4

LEMMA EndReconcilePause ==
  ASSUME IInv, NEW w \in Workers, EndReconcile(w), db.pause.reason # "none", db'.pause.reason = "none"
  PROVE  worker[w].phase = "reconcile" /\ db.pause.reason = "auth" /\ db.pause.key # worker[w].key
<1>1. Sound(db) /\ Past(db, era) /\ era \in Eras /\ worker[w] \in Ticks /\ ReaderFits(db, era, worker[w])
  BY InvParts
<1>2. PICK k \in Ticks : k = worker[w]
  BY <1>1
<1>3. PICK d : d = IF k.epoch = db.set.epoch /\ db.set.cursor < k.done THEN [db EXCEPT !.set.cursor = k.done] ELSE db
  OBVIOUS
<1>4. k.phase = "reconcile" /\ (db' = d \/ Dispatch(w, d, k.key))
  BY <1>2, <1>3 DEF EndReconcile
<1>5. Sound(d) /\ d.pause = db.pause
  <2>1. CASE k.epoch = db.set.epoch /\ db.set.cursor < k.done
    <3>1. PICK set : set = [db.set EXCEPT !.cursor = k.done]
      OBVIOUS
    <3>2. d = WithHead(db, set, db.pause, db.top)
      BY <1>1, <1>3, <2>1, <3>1, HeadTypes DEF WithHead, Tables
    <3>3. ReaderFits(db, era, k)
      BY <1>1, <1>2
    <3> QED
      BY <1>1, <1>4, <2>1, <3>1, <3>2, <3>3, CursorIs DEF Legal
  <2>2. CASE ~(k.epoch = db.set.epoch /\ db.set.cursor < k.done)
    BY <1>1, <1>3, <2>2
  <2> QED
    BY <2>1, <2>2
<1> QED
  BY <1>2, <1>4, <1>5, DispatchPause

\* A verdict lifts the pause only when its request is younger.
LEMMA VerdictPause ==
  ASSUME IInv, NEW w \in Workers, NEW i, i \in InHand(w), Verdict(w, i), db.pause.reason # "none", db'.pause.reason = "none"
  PROVE  /\ i \in Items /\ worker[w].flight[i].at = "sent" /\ ~worker[w].flight[i].old
         /\ worker'[w].flight[i].at = "none"
<1>1. i \in Items /\ worker[w].phase = "run" /\ Sound(db)
  BY HandIs
<1>2. worker \in [Workers -> Ticks] /\ worker[w] \in Ticks /\ worker[w].closing \in BOOLEAN
  <2>1. worker \in [Workers -> Ticks]
    BY InvParts
  <2> QED
    BY <2>1 DEF Ticks
<1>3. PICK c : c = CompleteWork(db, w, i)
  OBVIOUS
<1>4. PICK f : f = worker[w].flight[i]
  OBVIOUS
<1>5. db' = ReleasePause(c, f) /\ SetWorker(w, Landed(worker[w], i)) /\ f.at = "sent"
  BY <1>3, <1>4 DEF Verdict, Lands, Answered
<1>6. Sound(c) /\ c.pause = db.pause
  BY <1>1, <1>3, CompleteTouches DEF Touched
<1>7. db'.pause = c.pause \/ ~f.old
  BY <1>5, <1>6, ReleasePauseIs
<1>8. worker'[w].flight[i].at = "none"
  <2>1. PICK r : r = Landed(worker[w], i)
    OBVIOUS
  <2>2. r \in Ticks /\ r.flight[i].at = "none"
    BY <1>1, <1>2, <2>1, LandedIs
  <2>3. PICK s : s = Keeping(r, worker[w].closing)
    OBVIOUS
  <2>4. s.flight = r.flight
    BY <1>2, <2>2, <2>3, KeepingIs
  <2>5. worker'[w] = s
    BY <1>2, <1>5, <2>1, <2>3, SetWorkerIs
  <2> QED
    BY <2>2, <2>4, <2>5
<1> QED
  BY <1>1, <1>4, <1>5, <1>6, <1>7, <1>8

\* Nothing else lifts it.
LEMMA HandPause ==
  ASSUME IInv, NEW w \in Workers, NEW i, i \in InHand(w),
         \/ SettleUnasked(w, i) \/ PutBack(w, i) \/ CancelStale(w, i) \/ GiveUp(w, i) \/ ReleaseClaim(w, i)
         \/ Send(w, i) \/ Failure(w, i) \/ Refusal(w, i)
  PROVE  db'.pause = db.pause \/ db'.pause.reason # "none"
<1>1. i \in Items /\ worker[w].phase = "run" /\ Sound(db) /\ Past(db, era) /\ era \in Eras
  BY HandIs
<1>2. CASE SettleUnasked(w, i)
  <2>1. PICK d : db' = d /\ (d = CompleteWork(db, w, i) \/ d = FailWork(db, w, i, "failed"))
    BY <1>2 DEF SettleUnasked, Lands
  <2>2. CASE d = CompleteWork(db, w, i)
    BY <1>1, <2>1, <2>2, CompleteTouches
  <2>3. CASE d = FailWork(db, w, i, "failed")
    BY <1>1, <2>1, <2>3, FailTouches
  <2> QED
    BY <2>1, <2>2, <2>3
<1>3. CASE PutBack(w, i) \/ Failure(w, i)
  <2>1. PICK c : c = Suspended(db)
    OBVIOUS
  <2>2. PICK to \in {"waiting", "failed"} : db' = FailWork(c, w, i, to)
    <3>1. CASE PutBack(w, i)
      BY <2>1, <3>1 DEF PutBack, Lands
    <3>2. CASE Failure(w, i)
      <4>1. PICK again \in BOOLEAN : db' = FailWork(c, w, i, IF again THEN "waiting" ELSE "failed")
        BY <2>1, <3>2 DEF Failure, Lands
      <4>2. PICK to : to = IF again THEN "waiting" ELSE "failed"
        OBVIOUS
      <4> QED
        BY <4>1, <4>2
    <3> QED
      BY <1>3, <3>1, <3>2
  <2>3. Sound(c) /\ c.pause = db.pause
    BY <1>1, <2>1, HoldIs DEF Legal
  <2>4. db'.pause = c.pause
    BY <1>1, <2>2, <2>3, FailTouches
  <2> QED
    BY <2>3, <2>4
<1>4. CASE CancelStale(w, i)
  <2>1. db' = CancelProject(db)
    BY <1>4 DEF CancelStale, Lands
  <2> QED
    BY <1>1, <2>1, CancelSound
<1>5. CASE GiveUp(w, i)
  <2>1. PICK to \in {"waiting", "failed"} : db' = FailWork(db, w, i, to)
    BY <1>5 DEF GiveUp, Lands
  <2> QED
    BY <1>1, <2>1, FailTouches
<1>6. CASE ReleaseClaim(w, i)
  <2>1. db' = ReleaseWork(db, w, i)
    BY <1>6 DEF ReleaseClaim, Lands
  <2> QED
    BY <1>1, <2>1, ReleaseTouches
<1>7. CASE Send(w, i)
  <2>1. MayStart(db, w, i) /\ db' = Start(db, i)
    BY <1>7 DEF Send
  <2> QED
    BY <1>1, <2>1, StartIs
<1>8. CASE Refusal(w, i)
  <2>1. PICK f : f = worker[w].flight[i]
    OBVIOUS
  <2>2. worker[w] \in Ticks /\ Requested(db, worker)
    BY InvParts
  <2>3. f.at = "sent"
    BY <1>8, <2>1 DEF Refusal, Answered
  <2>4. f.key \in {0} \cup Keys
    BY <1>1, <2>1, <2>2 DEF Ticks, Requests
  <2>5. db.item[i].owner = w => db.item[i].used > 0
    BY <1>1, <2>1, <2>2, <2>3 DEF Requested, RequestFits
  <2>6. PICK reason \in {"rate", "auth"} : db' = Refuse(db, w, i, f, reason)
    BY <1>8, <2>1 DEF Refusal
  <2> QED
    BY <1>1, <2>4, <2>5, <2>6, RefuseTouches
<1> QED
  BY <1>2, <1>3, <1>4, <1>5, <1>6, <1>7, <1>8

LEMMA OtherPause ==
  ASSUME IInv,
         \/ \E w \in Workers : \/ Close(w) \/ AdmitPart(w) \/ ClaimOne(w) \/ EndClaims(w) \/ Crash(w) \/ Replace(w)
         \/ StartServer \/ RunCompletes
         \/ \E b \in Backfills : \E R \in SUBSET (1..Receipts) : Backfill(b, R)
         \/ \E on \in BOOLEAN : Configure(on)
         \/ HostChanges \/ HostRepaired
         \/ \E i \in Items : LeaseRunsOut(i)
         \/ UNCHANGED vars
  PROVE  db'.pause = db.pause
<1>1. Sound(db) /\ Past(db, era) /\ era \in Eras /\ worker \in [Workers -> Ticks]
  BY InvParts
<1>2. db \in Tables
  BY <1>1, HeadTypes
<1>3. CASE db' = db
  BY <1>3
<1>4. ASSUME NEW j, j \in Jobs, NEW T, NEW automatic, db' = AdmitJob(db, j, T, automatic)
      PROVE  db'.pause = db.pause
  BY <1>1, <1>4, AdmitSound
<1>5. ASSUME NEW w \in Workers, AdmitPart(w)
      PROVE  db'.pause = db.pause
  <2>1. PICK k \in Ticks : k = worker[w]
    BY <1>1
  <2>2. PICK p : p = FirstPart(k.parts)
    OBVIOUS
  <2>3. CASE db' = db
    BY <2>3
  <2>4. CASE db' # db
    <3>1. k.parts # {} /\ Enabled(db, k.epoch) /\ db' = AdmitJob(db, <<k.epoch, p[1], p[2]>>, Source[p], TRUE)
      BY <1>5, <2>1, <2>2, <2>4 DEF AdmitPart
    <3>2. k.parts \in SUBSET Parts
      BY DEF Ticks, Parts
    <3>3. p[1] \in 1..Receipts /\ p[2] \in Classes
      <4>1. p \in Parts
        BY <2>2, <3>1, <3>2, FirstPartIs
      <4> QED
        BY <4>1 DEF Parts
    <3>4. PICK j : j = <<k.epoch, p[1], p[2]>>
      OBVIOUS
    <3>5. j \in Jobs
      BY <1>1, <3>1, <3>3, <3>4, SetTypes DEF Jobs, Autos, Enabled
    <3>6. PICK T, automatic : db' = AdmitJob(db, j, T, automatic)
      BY <3>1, <3>4
    <3> QED
      BY <1>4, <3>5, <3>6
  <2> QED
    BY <2>3, <2>4
<1>6. ASSUME NEW w \in Workers, ClaimOne(w)
      PROVE  db'.pause = db.pause
  <2>1. PICK i : i \in Items /\ Claimable(db, i) /\ db' = Claim(db, w, i)
    BY <1>6 DEF ClaimOne, NextUp
  <2> QED
    BY <1>1, <2>1, ClaimTouches
<1>7. ASSUME NEW b \in Backfills, NEW R, Backfill(b, R)
      PROVE  db'.pause = db.pause
  <2>1. PICK T, automatic : db' = AdmitJob(db, b, T, automatic)
    BY <1>7 DEF Backfill
  <2> QED
    BY <1>4, <2>1 DEF Jobs
<1>8. ASSUME NEW on \in BOOLEAN, Configure(on)
      PROVE  db'.pause = db.pause
  <2>1. CASE on
    BY <1>2, <1>8, <2>1 DEF Configure, Tables
  <2>2. CASE ~on
    <3>1. PICK c : c = CancelProject(db)
      OBVIOUS
    <3>2. c \in Tables /\ c.pause = db.pause
      BY <1>1, <3>1, CancelSound, HeadTypes
    <3>3. db' = [c EXCEPT !.set.on = FALSE]
      BY <1>8, <2>2, <3>1 DEF Configure
    <3> QED
      BY <3>2, <3>3 DEF Tables
  <2> QED
    BY <2>1, <2>2
<1>9. ASSUME NEW i \in Items, LeaseRunsOut(i)
      PROVE  db'.pause = db.pause
  BY <1>2, <1>9 DEF LeaseRunsOut, Tables
<1>10. CASE RunCompletes
  BY <1>2, <1>10 DEF RunCompletes, Tables
<1>11. CASE \/ \E w \in Workers : Close(w) \/ EndClaims(w) \/ Crash(w) \/ Replace(w)
            \/ StartServer \/ HostChanges \/ HostRepaired \/ UNCHANGED vars
  BY <1>11 DEF Close, EndClaims, Crash, Replace, StartServer, HostChanges, HostRepaired, vars
<1> QED
  BY <1>5, <1>6, <1>7, <1>8, <1>9, <1>10, <1>11

Lift(w) ==
  \/ \E i \in Items : /\ worker[w].flight[i].at = "sent" /\ ~worker[w].flight[i].old
                      /\ worker'[w].flight[i].at = "none"
  \/ /\ db.pause.reason = "auth" /\ worker[w].phase \in {"idle", "reconcile"}
     /\ db.pause.key # IF worker[w].phase = "idle" THEN host.key ELSE worker[w].key

\* A pause lifts only by a verdict on a younger request or for another key.
THEOREM PauseKept == Spec => PauseStands
<1>1. ASSUME IInv, [Next]_vars, db.pause.reason # "none", db'.pause.reason = "none"
      PROVE  \E w \in Workers : Lift(w)
  <2>1. ASSUME NEW w \in Workers, Tick(w)
        PROVE  Lift(w)
    BY <1>1, <2>1, TickPause DEF Lift
  <2>2. ASSUME NEW w \in Workers, EndReconcile(w)
        PROVE  Lift(w)
    BY <1>1, <2>2, EndReconcilePause DEF Lift
  <2>3. ASSUME NEW w \in Workers, NEW i \in InHand(w), Verdict(w, i)
        PROVE  Lift(w)
    BY <1>1, <2>3, VerdictPause DEF Lift
  <2>4. ASSUME NEW w \in Workers, NEW i \in InHand(w),
               \/ SettleUnasked(w, i) \/ PutBack(w, i) \/ CancelStale(w, i) \/ GiveUp(w, i) \/ ReleaseClaim(w, i)
               \/ Send(w, i) \/ Failure(w, i) \/ Refusal(w, i)
        PROVE  FALSE
    BY <1>1, <2>4, HandPause
  <2>5. CASE \/ \E w \in Workers : \/ Close(w) \/ AdmitPart(w) \/ ClaimOne(w) \/ EndClaims(w) \/ Crash(w) \/ Replace(w)
             \/ StartServer \/ RunCompletes
             \/ \E b \in Backfills : \E R \in SUBSET (1..Receipts) : Backfill(b, R)
             \/ \E on \in BOOLEAN : Configure(on)
             \/ HostChanges \/ HostRepaired
             \/ \E i \in Items : LeaseRunsOut(i)
             \/ UNCHANGED vars
    BY <1>1, <2>5, OtherPause
  <2> QED
    BY <1>1, <2>1, <2>2, <2>3, <2>4, <2>5 DEF Next, Step
<1>2. IInv /\ [Next]_vars => [db.pause.reason # "none" /\ db'.pause.reason = "none" => \E w \in Workers : Lift(w)]_vars
  BY <1>1
<1> QED
  BY <1>2, Invariant, PTL DEF Spec, PauseStands, Lift

=============================================================================
