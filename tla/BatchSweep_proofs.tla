--------------------------- MODULE BatchSweep_proofs ---------------------------
(***************************************************************************)
(* Theorems about BatchSweep, for every manifest, every split into         *)
(* batches, every number of crashes and, where not said otherwise, with    *)
(* database writes that may throw.                                         *)
(***************************************************************************)
EXTENDS BatchSweep, FiniteSetTheorems, TLAPS

\* The slots of a batch are slots of the manifest, and one called provider
\* owns them; their number is a natural number.
LEMMA BatchFacts ==
  ASSUME NEW b \in Batches
  PROVE  /\ LinesOf[b] \in SUBSET Slots
         /\ OwnerOf(b) \in Providers
         /\ OwnerOf(b) \in Called
         /\ \A s \in LinesOf[b] : ProviderOf[s] = OwnerOf(b)
<1>1. LinesOf[b] \in SUBSET Slots
  BY ChunkAssumption
<1>2. PICK p \in Called : \A s \in LinesOf[b] : ProviderOf[s] = p
  BY ChunkAssumption
<1>3. PICK t \in LinesOf[b] : ProviderOf[t] = p
  BY <1>2, ChunkAssumption
<1>4. p \in Providers
  BY DEF Called
<1>5. OwnerOf(b) \in Providers /\ \E s \in LinesOf[b] : ProviderOf[s] = OwnerOf(b)
  BY <1>3, <1>4 DEF OwnerOf
<1>6. OwnerOf(b) = p
  BY <1>2, <1>5
<1> QED
  BY <1>1, <1>2, <1>4, <1>6

\* Slots of one kind can be counted.
LEMMA CountNat ==
  ASSUME NEW S, S \subseteq Slots
  PROVE  Cardinality(S) \in Nat
BY FS_Subset, FS_CardinalityType, ManifestAssumption

LEMMA SizeNat ==
  ASSUME NEW b \in Batches
  PROVE  Size(b) \in Nat
BY BatchFacts, CountNat DEF Size

LEMMA UnitsNat ==
  ASSUME NEW p
  PROVE  Cardinality(Units(p)) \in Nat
BY CountNat DEF Units

\* What a batch gives back is a natural number.
LEMMA UnbilledNat ==
  ASSUME NEW b \in Batches, NEW out, released[b] \in Int
  PROVE  UnbilledNow(b, out) \in Nat
<1>1. Cardinality({s \in LinesOf[b] : out[s] \in Unbilled}) \in Nat
  BY BatchFacts, CountNat
<1>2. Least(Cardinality({s \in LinesOf[b] : out[s] \in Unbilled}), Size(b)) \in Nat
  BY <1>1, SizeNat DEF Least
<1> QED
  BY <1>2 DEF UnbilledNow, AtLeastZero

LEMMA UnsentNat ==
  ASSUME NEW p \in Providers, dispatched[p] \in Int
  PROVE  Unsent(p) \in Nat
BY UnitsNat DEF Unsent, AtLeastZero

-----------------------------------------------------------------------------
(* Type correctness. *)

USE DEF Terminal, RowStatus, Outcomes, Unrecorded, Unbilled

LEMMA TypeInit == Init => TypeOK
<1> SUFFICES ASSUME Init PROVE TypeOK
  OBVIOUS
<1>1. crashes \in 0..MaxCrashes
  BY ManifestAssumption DEF Init
<1>2. /\ outcome \in [Slots -> Outcomes \cup {"none"}]
      /\ chunk \in [Slots -> Outcomes \cup {"none"}]
  BY DEF Init, NoLines
<1>3. /\ snap \in [Slots -> {"missing", "sync", "batch"}]
      /\ call \in [Slots -> {"idle", "flight", "done"}]
      /\ calls \in [Slots -> Nat]
      /\ used \in [Providers -> Int] /\ dispatched \in [Providers -> Int]
  BY DEF Init
<1>4. /\ row \in [Batches -> RowStatus]
      /\ released \in [Batches -> Int]
      /\ sub \in [Batches -> {"todo", "flight", "done"}]
      /\ remote \in [Batches -> {"none", "working", "ended"}]
  BY DEF Init
<1>5. /\ knownId \in [Batches -> BOOLEAN] /\ cancelReq \in [Batches -> BOOLEAN]
      /\ overdue \in [Batches -> BOOLEAN] /\ graceOver \in [Batches -> BOOLEAN]
      /\ stopAsked \in [Batches -> BOOLEAN]
  BY DEF Init
<1> QED
  BY <1>1, <1>2, <1>3, <1>4, <1>5 DEF Init, TypeOK

LEMMA TypeStep == TypeOK /\ [Next]_vars => TypeOK'
<1> SUFFICES ASSUME TypeOK, [Next]_vars PROVE TypeOK'
  OBVIOUS
<1> USE DEF dbVars, sweepVars, pollVars, clockVars, procVars
<1>1. CASE Begin
  <2>1. CASE StartRun
    <3>1. \A p \in Providers :
            used[p] + (IF p \in Called THEN Cardinality(Units(p)) ELSE 0) \in Int
      BY UnitsNat DEF TypeOK
    <3>2. used' \in [Providers -> Int]
      BY <2>1, <3>1 DEF StartRun
    <3> QED BY <2>1, <3>2 DEF TypeOK, StartRun
  <2>2. CASE StartRefused \/ StartCancelled
    BY <2>2 DEF TypeOK, StartRefused, StartCancelled, Report
  <2> QED BY <1>1, <2>1, <2>2 DEF Begin
<1>2. ASSUME NEW b \in Batches, SubmitBatch(b) \/ LedgerFails(b) PROVE TypeOK'
  <2>1. CASE SubmitBatch(b)
    BY <2>1, SizeNat, BatchFacts DEF TypeOK, SubmitBatch
  <2>2. CASE LedgerFails(b)
    BY <2>2, BatchFacts DEF TypeOK, LedgerFails
  <2> QED BY <1>2, <2>1, <2>2
<1>3. ASSUME NEW b \in Batches, SubmitReturns(b) PROVE TypeOK'
  <2>1. CASE SubmitAccepted(b)
    BY <2>1 DEF TypeOK, SubmitAccepted, StopIfLate
  <2>2. CASE SubmitRefused(b)
    BY <2>2, SizeNat, BatchFacts DEF TypeOK, SubmitRefused
  <2>3. CASE SubmitUnknown(b)
    BY <2>3 DEF TypeOK, SubmitUnknown
  <2>4. CASE SubmitWriteFails(b)
    BY <2>4, BatchFacts DEF TypeOK, SubmitWriteFails, Throw
  <2> QED BY <1>3, <2>1, <2>2, <2>3, <2>4 DEF SubmitReturns
<1>4. ASSUME NEW s \in Slots, Dispatch(s) \/ CallAnswered(s) \/ CallFailed(s)
      PROVE TypeOK'
  <2>0. ProviderOf[s] \in Providers
    BY ManifestAssumption
  <2>1. CASE Dispatch(s)
    BY <2>0, <2>1 DEF TypeOK, Dispatch, MayCall
  <2>2. CASE CallAnswered(s)
    BY <2>0, <2>2 DEF TypeOK, CallAnswered, Throw
  <2>3. CASE CallFailed(s)
    BY <2>0, <2>3 DEF TypeOK, CallFailed
  <2> QED BY <1>4, <2>1, <2>2, <2>3
<1>5. CASE SeeCancelled \/ EndWriteFails
  BY <1>5 DEF TypeOK, SeeCancelled, EndWriteFails, Throw
<1> DEFINE Flushed == used' \in [Providers -> Int] /\ reserved' \in BOOLEAN
<1> DEFINE MarkedType == /\ row' \in [Batches -> RowStatus]
                         /\ cancelReq' \in [Batches -> BOOLEAN]
<1>6. FlushProviderUsage => Flushed
  <2> SUFFICES ASSUME FlushProviderUsage PROVE Flushed
    OBVIOUS
  <2>1. \A p \in Providers : used[p] - Unsent(p) \in Int
    BY UnsentNat DEF TypeOK
  <2> QED BY <2>1 DEF FlushProviderUsage
<1>7. ASSUME NEW B, MarkCancelled(B) PROVE MarkedType
  BY <1>7 DEF MarkCancelled, TypeOK
<1>8. ASSUME NEW B, B \subseteq Batches, AskToStop(B) PROVE stopQ' \subseteq Batches
  BY <1>8 DEF AskToStop, TypeOK
<1>9. Marked(Rows) \subseteq Batches
  BY DEF Marked, Rows
<1>10. SweepErrors \subseteq Providers
  BY DEF SweepErrors, TypeOK
<1>11. ASSUME NEW errors, errors \subseteq Providers, WriteBatchOutcome(errors)
       PROVE  /\ status' \in {"queued", "running"} \cup Terminal
              /\ named' \subseteq Providers
              /\ handedOff' \in BOOLEAN /\ pending' \subseteq Providers
  <2>1. BatchRunErrors(errors) \subseteq Providers
    BY <1>11, BatchFacts, ManifestAssumption DEF BatchRunErrors, Missing
  <2> QED BY <1>11, <2>1, ManifestAssumption
          DEF WriteBatchOutcome, RunOutcome, RunError, TypeOK
<1>12. CASE CatchCancel \/ CatchError
  <2>1. Flushed /\ MarkedType /\ stopQ' \subseteq Batches
    BY <1>12, <1>6, <1>7, <1>8, <1>9 DEF CatchCancel, CatchError
  <2> QED BY <1>12, <2>1 DEF TypeOK, CatchCancel, CatchError, Report, FailIfUnfinished
<1>13. CASE FinalizeRun
  BY <1>13, <1>6, <1>10, ManifestAssumption
  DEF TypeOK, FinalizeRun, RunOutcome, RunError, Report
<1>14. CASE HandOff
  BY <1>14, <1>6, <1>10 DEF TypeOK, HandOff
<1>15. CASE HandOffSettled
  BY <1>15, <1>6, <1>10, <1>11 DEF TypeOK, HandOffSettled, Report
<1>16. CASE FinalizeBatchRun
  <2>1. pending \subseteq Providers
    BY DEF TypeOK
  <2> QED BY <1>16, <2>1, <1>11 DEF TypeOK, FinalizeBatchRun, Report
<1>17. ASSUME NEW b \in Batches, Abandon(b) PROVE TypeOK'
  <2>1. MarkedType /\ stopQ' \subseteq Batches
    BY <1>17, <1>7, <1>8 DEF Abandon
  <2> QED BY <1>17, <2>1, SMTT(30) DEF TypeOK, Abandon
<1>18. ASSUME NEW b \in Batches, Advance(b) \/ StopAtProvider(b) PROVE TypeOK'
  <2>1. CASE Advance(b)
    <3>1. at' \in Batches /\ at' # NoBatch /\ polling' \in {"idle", "poll", "ingest"}
      BY <2>1, ChunkAssumption DEF Advance
    <3> QED BY <2>1, <3>1 DEF TypeOK, Advance
  <2>2. CASE StopAtProvider(b)
    BY <2>2 DEF TypeOK, StopAtProvider
  <2> QED BY <1>18, <2>1, <2>2
<1>19. ASSUME NEW s \in Slots, ReadLine(s) PROVE TypeOK'
  BY <1>19 DEF TypeOK, ReadLine
<1>20. CASE PollReturns
  <2>1. ASSUME polling = "poll" PROVE at \in Batches
    BY <2>1 DEF TypeOK
  <2>2. CASE PollEnded
    <3>1. CASE row[at] = "submitted" /\ status = "running"
      BY <2>2, <3>1 DEF TypeOK, PollEnded
    <3>2. CASE ~(row[at] = "submitted" /\ status = "running")
      <4>1. MarkedType
        BY <2>2, <3>2, <1>7 DEF PollEnded
      <4>2. /\ at' = NoBatch /\ polling' = "idle" /\ chunk' = NoLines
            /\ remote' = [remote EXCEPT ![at] = "ended"]
        BY <2>2, <3>2 DEF PollEnded, Idle
      <4>3. UNCHANGED <<status, handedOff, pending, named, snap, knownId, released, outcome,
                        used, sweepVars, clockVars, procVars, stopQ, calls, stopAsked, reports>>
        BY <2>2 DEF PollEnded
      <4>4. /\ remote' \in [Batches -> {"none", "working", "ended"}]
            /\ chunk' \in [Slots -> Outcomes \cup {"none"}] /\ at' \in Batches \cup {NoBatch}
        BY <4>2 DEF TypeOK, NoLines
      <4> QED BY <4>1, <4>2, <4>3, <4>4 DEF TypeOK
    <3> QED BY <3>1, <3>2
  <2>3. CASE PollNotEnded
    <3>1. stopQ' \subseteq Batches
      BY <2>1, <2>3, <1>8 DEF PollNotEnded
    <3>2. row' \in [Batches -> RowStatus] /\ cancelReq' \in [Batches -> BOOLEAN]
      BY <2>1, <2>3 DEF PollNotEnded, TypeOK, Late
    <3> QED BY <2>3, <3>1, <3>2 DEF TypeOK, PollNotEnded, Idle, NoLines
  <2> QED BY <1>20, <2>2, <2>3 DEF PollReturns
<1>21. CASE IngestReturns
  <2>1. ASSUME polling = "ingest" PROVE at \in Batches
    BY <2>1 DEF TypeOK
  <2>2. CASE FlushChunk
    <3>1. /\ snap' \in [Slots -> {"missing", "sync", "batch"}]
          /\ outcome' \in [Slots -> Outcomes \cup {"none"}]
      BY <2>2 DEF FlushChunk, TypeOK
    <3> QED BY <2>2, <3>1 DEF FlushChunk, TypeOK, NoLines
  <2>3. CASE IngestCancelled
    <3>1. MarkedType
      BY <2>3, <1>7 DEF IngestCancelled
    <3> QED BY <2>3, <3>1 DEF TypeOK, IngestCancelled, Idle, NoLines
  <2>4. ASSUME NEW out, polling = "ingest", ReleaseUnbilled(at, out)
        PROVE  used' \in [Providers -> Int] /\ released' \in [Batches -> Int]
    <3>1. at \in Batches /\ released[at] \in Int
      BY <2>1, <2>4 DEF TypeOK
    <3>2. UnbilledNow(at, out) \in Int
      BY <3>1, UnbilledNat
    <3> QED BY <2>4, <3>1, <3>2, BatchFacts DEF TypeOK, ReleaseUnbilled
  <2>5. CASE IngestFails
    <3>1. used' \in [Providers -> Int] /\ released' \in [Batches -> Int]
      BY <2>4, <2>5 DEF IngestFails, TypeOK
    <3>2. row' \in [Batches -> RowStatus]
      BY <2>5 DEF IngestFails, TypeOK
    <3> QED BY <2>5, <3>1, <3>2 DEF TypeOK, IngestFails, Idle, NoLines
  <2>6. CASE CompleteIngest
    <3>1. used' \in [Providers -> Int] /\ released' \in [Batches -> Int]
      BY <2>4, <2>6 DEF CompleteIngest
    <3>2. outcome' \in [Slots -> Outcomes \cup {"none"}]
      BY <2>6 DEF CompleteIngest, ClosedLedger, TypeOK
    <3>3. row' \in [Batches -> RowStatus]
      BY <2>6 DEF CompleteIngest, TypeOK
    <3>4. /\ at' = NoBatch /\ polling' = "idle" /\ chunk' = NoLines
          /\ UNCHANGED <<status, handedOff, pending, named, snap, knownId, cancelReq, sweepVars,
                         clockVars, procVars, stopQ, remote, calls, stopAsked, reports>>
      BY <2>6 DEF CompleteIngest, Idle
    <3> QED BY <3>1, <3>2, <3>3, <3>4 DEF TypeOK, NoLines
  <2> QED BY <1>21, <2>2, <2>3, <2>5, <2>6 DEF IngestReturns
<1>22. CASE CancelRun
  <2>1. MarkedType /\ stopQ' \subseteq Batches
    BY <1>22, <1>7, <1>8, <1>9 DEF CancelRun
  <2> QED BY <1>22, <2>1 DEF TypeOK, CancelRun, Waiting
<1>23. CASE TimePasses
  <2>1. PICK b \in Batches : DeadlinePasses(b) \/ GraceEnds(b)
    BY <1>23 DEF TimePasses
  <2>2. CASE DeadlinePasses(b)
    BY <2>2 DEF TypeOK, DeadlinePasses
  <2>3. CASE GraceEnds(b)
    BY <2>3 DEF TypeOK, GraceEnds
  <2> QED BY <2>1, <2>2, <2>3
<1>24. CASE ProcessDies
  <2>1. ASSUME Die, status' \in {"queued", "running"} \cup Terminal,
               handedOff' \in BOOLEAN, pending' \subseteq Providers,
               UNCHANGED <<named, snap, row, knownId, cancelReq, released, outcome,
                           used, reports>>
        PROVE  TypeOK'
    <3>1. crashes' \in 0..MaxCrashes
      BY <2>1, ManifestAssumption DEF Die, TypeOK
    <3>2. remote' \in [Batches -> {"none", "working", "ended"}]
      BY <2>1 DEF Die, TypeOK
    <3>3. /\ sub' \in [Batches -> {"todo", "flight", "done"}]
          /\ call' \in [Slots -> {"idle", "flight", "done"}]
          /\ dispatched' \in [Providers -> Int]
          /\ chunk' \in [Slots -> Outcomes \cup {"none"}]
      BY <2>1 DEF Die, Idle, NoLines
    <3> QED BY <2>1, <3>1, <3>2, <3>3 DEF Die, Idle, TypeOK
  <2>2. CASE Crash
    BY <2>1, <2>2 DEF Crash, TypeOK
  <2>3. CASE CancelThenCrash
    BY <2>1, <2>3 DEF CancelThenCrash, TypeOK
  <2>4. CASE CatchErrorThenCrash
    BY <2>1, <2>4 DEF CatchErrorThenCrash, FailIfUnfinished, TypeOK
  <2>5. CASE HandOffThenCrash
    BY <2>1, <2>5, <1>10 DEF HandOffThenCrash, TypeOK
  <2> QED BY <1>24, <2>2, <2>3, <2>4, <2>5 DEF ProcessDies
<1>25. CASE Restart
  <2>1. row' \in [Batches -> RowStatus]
    BY <1>25 DEF Restart, TypeOK
  <2>2. pending' \subseteq Providers
    BY <1>25, ManifestAssumption DEF Restart, TypeOK, Missing
  <2>3. status' \in {"queued", "running"} \cup Terminal /\ handedOff' \in BOOLEAN
    BY <1>25 DEF Restart, TypeOK
  <2> QED BY <1>25, <2>1, <2>2, <2>3 DEF Restart, TypeOK
<1>26. CASE UNCHANGED vars
  BY <1>26 DEF TypeOK, vars
<1> QED
  BY <1>1, <1>2, <1>3, <1>4, <1>5, <1>12, <1>13, <1>14, <1>15, <1>16, <1>17, <1>18,
     <1>19, <1>20, <1>21, <1>22, <1>23, <1>24, <1>25, <1>26
  DEF Next, SweepStep, SweepEnd

\* Every reachable state of the runner is well formed.
THEOREM TypeCorrect == Spec => []TypeOK
BY TypeInit, TypeStep, PTL DEF Spec

-----------------------------------------------------------------------------
(* No answer is paid for twice. *)

Past == {"submitted", "ended", "ingested"}

\* Steps that send nothing: a row past its submission was past it before.
LEMMA PaymentKept ==
  ASSUME PaymentInv,
         UNCHANGED <<sub, calls, call, handed>>,
         \A b \in Batches : (row'[b] \in Past) => (row[b] \in Past),
         \A b \in Batches : (remote'[b] = "none") <=> (remote[b] = "none")
  PROVE  PaymentInv'
BY DEF PaymentInv, Past

LEMMA PaymentInit == Init => PaymentInv
BY BatchFacts DEF Init, PaymentInv

LEMMA PaymentSubmit ==
  ASSUME TypeOK, PaymentInv, NEW b \in Batches,
         SubmitBatch(b) \/ LedgerFails(b) \/ SubmitReturns(b)
  PROVE  PaymentInv'
<1> USE DEF TypeOK
<1>0. \A s \in LinesOf[b], c \in Batches : s \in LinesOf[c] => c = b
  BY ChunkAssumption
<1>00. LinesOf[b] \subseteq Slots
  BY BatchFacts
<1>1. CASE SubmitBatch(b)
  BY <1>1 DEF SubmitBatch, MaySubmit, PaymentInv
<1>2. CASE LedgerFails(b)
  BY <1>0, <1>00, <1>2 DEF LedgerFails, MaySubmit, PaymentInv, dbVars
<1>3. CASE SubmitAccepted(b)
  BY <1>0, <1>00, <1>3 DEF SubmitAccepted, PaymentInv
<1>4. CASE SubmitRefused(b)
  BY <1>0, <1>00, <1>4 DEF SubmitRefused, PaymentInv
<1>5. CASE SubmitUnknown(b)
  BY <1>0, <1>00, <1>5 DEF SubmitUnknown, PaymentInv
<1>6. CASE SubmitWriteFails(b)
  BY <1>0, <1>00, <1>6 DEF SubmitWriteFails, PaymentInv, dbVars
<1> QED
  BY <1>1, <1>2, <1>3, <1>4, <1>5, <1>6 DEF SubmitReturns

LEMMA PaymentCall ==
  ASSUME TypeOK, PaymentInv, NEW s \in Slots,
         Dispatch(s) \/ CallAnswered(s) \/ CallFailed(s)
  PROVE  PaymentInv'
<1> USE DEF TypeOK
<1>1. CASE Dispatch(s)
  BY <1>1 DEF Dispatch, MayCall, PaymentInv, dbVars
<1>2. CASE CallAnswered(s)
  BY <1>2 DEF CallAnswered, PaymentInv
<1>3. CASE CallFailed(s)
  BY <1>3 DEF CallFailed, PaymentInv, dbVars
<1> QED
  BY <1>1, <1>2, <1>3

LEMMA PaymentDie ==
  ASSUME TypeOK, PaymentInv, Die, row' = row
  PROVE  PaymentInv'
<1>1. \A b \in Batches : remote'[b] # remote[b] => sub[b] = "flight"
  BY DEF Die, TypeOK
<1>2. \A b \in Batches : remote[b] # "none" => remote'[b] # "none"
  BY DEF Die, TypeOK
<1>3. \A s \in Slots : calls[s] = 1 => \A b \in Batches :
        s \in LinesOf[b] => sub[b] = "done" /\ remote[b] = "none"
  BY DEF PaymentInv
<1> QED
  BY <1>1, <1>2, <1>3 DEF Die, PaymentInv, TypeOK

LEMMA MarkedKeepsPast ==
  ASSUME TypeOK, NEW B, MarkCancelled(B), NEW b \in Batches, row'[b] \in Past
  PROVE  row[b] \in Past
BY DEF MarkCancelled, Past, TypeOK

LEMMA PaymentStep == TypeOK /\ PaymentInv /\ SweepInv /\ [Next]_vars => PaymentInv'
<1> SUFFICES ASSUME TypeOK, PaymentInv, SweepInv, [Next]_vars PROVE PaymentInv'
  OBVIOUS
<1> USE DEF dbVars, sweepVars, pollVars, clockVars, procVars
<1>1. CASE StartRun
  BY <1>1 DEF StartRun, PaymentInv, SweepInv, Batched
<1>2. CASE StartRefused \/ StartCancelled \/ SeeCancelled
  BY <1>2, PaymentKept DEF StartRefused, StartCancelled, SeeCancelled
<1>3. CASE CatchCancel \/ CatchError
  BY <1>3, PaymentKept, MarkedKeepsPast DEF CatchCancel, CatchError
<1>4. CASE FinalizeRun \/ HandOff \/ HandOffSettled \/ EndWriteFails \/ FinalizeBatchRun
  BY <1>4, PaymentKept
  DEF FinalizeRun, HandOff, HandOffSettled, EndWriteFails, FinalizeBatchRun
<1>5. ASSUME NEW b \in Batches, Abandon(b) \/ Advance(b) \/ StopAtProvider(b)
      PROVE  PaymentInv'
  BY <1>5, PaymentKept, MarkedKeepsPast DEF Abandon, Advance, StopAtProvider
<1>6. ASSUME NEW s \in Slots, ReadLine(s) PROVE PaymentInv'
  BY <1>6, PaymentKept DEF ReadLine
<1>7. CASE PollEnded
  <2>1. \A b \in Batches : row'[b] \in Past => row[b] \in Past
    BY <1>7, MarkedKeepsPast DEF PollEnded, TypeOK, Past
  <2>2. \A b \in Batches : (remote'[b] = "none") <=> (remote[b] = "none")
    BY <1>7 DEF PollEnded, TypeOK
  <2> QED BY <1>7, <2>1, <2>2, PaymentKept DEF PollEnded
<1>8. CASE PollNotEnded \/ IngestFails \/ CompleteIngest
  <2>1. \A b \in Batches : row'[b] \in Past => row[b] \in Past
    BY <1>8 DEF PollNotEnded, IngestFails, CompleteIngest, TypeOK, Past
  <2> QED BY <1>8, <2>1, PaymentKept DEF PollNotEnded, IngestFails, CompleteIngest
<1>9. CASE FlushChunk
  BY <1>9, PaymentKept DEF FlushChunk
<1>10. CASE IngestCancelled \/ CancelRun
  BY <1>10, PaymentKept, MarkedKeepsPast DEF IngestCancelled, CancelRun
<1>11. CASE TimePasses
  BY <1>11, PaymentKept DEF TimePasses, DeadlinePasses, GraceEnds
<1>12. CASE ProcessDies
  BY <1>12, PaymentDie
  DEF ProcessDies, Crash, CancelThenCrash, CatchErrorThenCrash, HandOffThenCrash
<1>13. CASE Restart
  <2>1. \A b \in Batches : row'[b] \in Past => row[b] \in Past
    BY <1>13 DEF Restart, TypeOK, Past
  <2> QED BY <1>13, <2>1, PaymentKept DEF Restart
<1>14. CASE UNCHANGED vars
  BY <1>14, PaymentKept DEF vars
<1> QED
  BY <1>1, <1>2, <1>3, <1>4, <1>5, <1>6, <1>7, <1>8, <1>9, <1>10, <1>11, <1>12, <1>13,
     <1>14, PaymentSubmit, PaymentCall
  DEF Next, SweepStep, SweepEnd, Begin, PollReturns, IngestReturns

-----------------------------------------------------------------------------
(* Who may still work for the run. *)

LEMMA SweepInit == Init => SweepInv
BY DEF Init, SweepInv

LEMMA SweepSubmit ==
  ASSUME TypeOK, SweepInv, NEW b \in Batches,
         SubmitBatch(b) \/ LedgerFails(b) \/ SubmitReturns(b)
  PROVE  SweepInv'
<1> USE DEF TypeOK
<1>1. CASE SubmitBatch(b)
  BY <1>1 DEF SubmitBatch, MaySubmit, SweepInv, procVars
<1>2. CASE LedgerFails(b)
  BY <1>2 DEF LedgerFails, MaySubmit, SweepInv, dbVars, procVars
<1>3. CASE SubmitAccepted(b)
  BY <1>3 DEF SubmitAccepted, SweepInv, procVars
<1>4. CASE SubmitRefused(b)
  BY <1>4 DEF SubmitRefused, SweepInv, procVars
<1>5. CASE SubmitUnknown(b)
  BY <1>5 DEF SubmitUnknown, SweepInv, procVars
<1>6. CASE SubmitWriteFails(b)
  BY <1>6 DEF SubmitWriteFails, Throw, Live, SweepInv, dbVars, procVars
<1> QED
  BY <1>1, <1>2, <1>3, <1>4, <1>5, <1>6 DEF SubmitReturns

LEMMA SweepCall ==
  ASSUME TypeOK, SweepInv, NEW s \in Slots,
         Dispatch(s) \/ CallAnswered(s) \/ CallFailed(s)
  PROVE  SweepInv'
<1> USE DEF TypeOK
<1>1. CASE Dispatch(s)
  BY <1>1 DEF Dispatch, MayCall, SweepInv, dbVars, procVars
<1>2. CASE CallAnswered(s)
  BY <1>2 DEF CallAnswered, Throw, Live, SweepInv, procVars
<1>3. CASE CallFailed(s)
  BY <1>3 DEF CallFailed, SweepInv, dbVars, procVars
<1> QED
  BY <1>1, <1>2, <1>3

LEMMA SweepDie ==
  ASSUME TypeOK, SweepInv, ProcessDies
  PROVE  SweepInv'
<1> USE DEF TypeOK, SweepInv
<1>1. CASE Crash
  BY <1>1 DEF Crash, Die, dbVars
<1>2. CASE CancelThenCrash
  BY <1>2 DEF CancelThenCrash, Die, Cancellable
<1>3. CASE CatchErrorThenCrash
  BY <1>3 DEF CatchErrorThenCrash, Die, Live, FailIfUnfinished
<1>4. CASE HandOffThenCrash
  BY <1>4 DEF HandOffThenCrash, Die, SweepDone, Live
<1> QED
  BY <1>1, <1>2, <1>3, <1>4 DEF ProcessDies

LEMMA SweepEnds ==
  ASSUME TypeOK, PaymentInv, SweepInv, SweepEnd
  PROVE  SweepInv'
<1> USE DEF TypeOK, procVars, Live, SweepDone
<1>0. \A s \in Slots : call[s] = "flight" => s \in handed
  BY DEF PaymentInv
<1>1. CASE CatchCancel
  BY <1>1 DEF CatchCancel, SweepInv, FlushProviderUsage, Report
<1>2. CASE CatchError
  BY <1>2 DEF CatchError, SweepInv, FlushProviderUsage, FailIfUnfinished, Report
<1>3. CASE FinalizeRun
  BY <1>0, <1>3 DEF FinalizeRun, SweepInv, FlushProviderUsage, RunOutcome, Report
<1>4. CASE HandOff
  BY <1>0, <1>4 DEF HandOff, SweepInv, FlushProviderUsage
<1>5. CASE HandOffSettled
  BY <1>0, <1>5
  DEF HandOffSettled, WriteBatchOutcome, SweepInv, FlushProviderUsage, RunOutcome, Report
<1>6. CASE EndWriteFails
  BY <1>6 DEF EndWriteFails, Throw, SweepInv, dbVars
<1> QED
  BY <1>1, <1>2, <1>3, <1>4, <1>5, <1>6 DEF SweepEnd

\* Steps that touch nothing the invariant speaks of.
LEMMA SweepKept ==
  ASSUME SweepInv,
         UNCHANGED <<status, handedOff, sweepVars, up, reports>>
  PROVE  SweepInv'
BY DEF SweepInv, sweepVars

LEMMA SweepStepInv == TypeOK /\ PaymentInv /\ SweepInv /\ [Next]_vars => SweepInv'
<1> SUFFICES ASSUME TypeOK, PaymentInv, SweepInv, [Next]_vars PROVE SweepInv'
  OBVIOUS
<1>1. CASE Begin
  <2> USE DEF dbVars, procVars
  <2>1. CASE StartRun
    BY <1>1, <2>1 DEF StartRun, SweepInv, TypeOK
  <2>2. CASE StartRefused
    BY <1>1, <2>2 DEF StartRefused, SweepInv, TypeOK, Report
  <2>3. CASE StartCancelled
    BY <1>1, <2>3 DEF StartCancelled, SweepInv, TypeOK, Report
  <2> QED BY <1>1, <2>1, <2>2, <2>3 DEF Begin
<1>2. CASE SeeCancelled
  BY <1>2 DEF SeeCancelled, Throw, SweepInv, TypeOK, dbVars, procVars
<1>3. ASSUME NEW b \in Batches, Abandon(b) \/ Advance(b) \/ StopAtProvider(b)
      PROVE  SweepInv'
  BY <1>3, SweepKept DEF Abandon, Advance, StopAtProvider, dbVars, procVars
<1>4. ASSUME NEW s \in Slots, ReadLine(s) PROVE SweepInv'
  BY <1>4, SweepKept DEF ReadLine, dbVars, procVars
<1>5. CASE PollReturns \/ IngestReturns
  BY <1>5, SweepKept
  DEF PollReturns, IngestReturns, PollEnded, PollNotEnded, FlushChunk, IngestCancelled,
      IngestFails, CompleteIngest, procVars
<1>6. CASE FinalizeBatchRun
  BY <1>6
  DEF FinalizeBatchRun, WriteBatchOutcome, RunOutcome, Report, SweepInv, TypeOK,
      procVars, sweepVars
<1>7. CASE CancelRun
  BY <1>7 DEF CancelRun, Cancellable, Waiting, SweepInv, TypeOK, procVars, sweepVars
<1>8. CASE TimePasses
  BY <1>8, SweepKept DEF TimePasses, DeadlinePasses, GraceEnds, dbVars, procVars
<1>9. CASE Restart
  BY <1>9 DEF Restart, SweepInv, TypeOK, sweepVars
<1>10. CASE UNCHANGED vars
  BY <1>10, SweepKept DEF vars, dbVars, procVars
<1> QED
  BY <1>1, <1>2, <1>3, <1>4, <1>5, <1>6, <1>7, <1>8, <1>9, <1>10, SweepSubmit,
     SweepCall, SweepDie, SweepEnds
  DEF Next, SweepStep

-----------------------------------------------------------------------------
(* A completed or partial run is settled. *)

\* Steps that end no run with an answer, open no batch, start no call and lose
\* no answer.
LEMMA FinalKept ==
  ASSUME TypeOK, FinalMeansSettled,
         status' = status \/ status' \notin {"completed", "partial"},
         \A b \in Batches : row'[b] \in Holding => row[b] \in Holding,
         \A s \in Slots : call'[s] = "flight" => call[s] = "flight",
         \A s \in Slots : snap[s] # "missing" => snap'[s] # "missing"
  PROVE  FinalMeansSettled'
BY DEF FinalMeansSettled, Missing, Holding

LEMMA MarkedKeepsHolding ==
  ASSUME TypeOK, NEW B, MarkCancelled(B), NEW b \in Batches, row'[b] \in Holding
  PROVE  row[b] \in Holding
BY DEF MarkCancelled, Holding, TypeOK

LEMMA OutcomeIsWhole ==
  ASSUME NEW answered, NEW errors, NEW gaps,
         RunOutcome(answered, errors, gaps) = "completed"
  PROVE  gaps = {}
BY DEF RunOutcome, SomeFailed

LEMMA FinalEnds ==
  ASSUME TypeOK, PaymentInv, SweepInv, FinalMeansSettled, SweepEnd \/ FinalizeBatchRun
  PROVE  FinalMeansSettled'
<1>0. \A s \in Slots : call[s] = "flight" => s \in handed
  BY DEF PaymentInv
<1>1. CASE CatchCancel \/ CatchError
  <2>1. \A b \in Batches : row'[b] \in Holding => row[b] \in Holding
    BY <1>1, MarkedKeepsHolding DEF CatchCancel, CatchError
  <2> QED BY <1>1, <2>1, FinalKept DEF CatchCancel, CatchError, FailIfUnfinished
<1>2. CASE FinalizeRun
  <2>1. Missing' = Missing /\ \A b \in Batches : row'[b] \notin Holding
    BY <1>2 DEF FinalizeRun, Missing, Rows, Holding
  <2>2. \A s \in Slots : call'[s] # "flight"
    BY <1>0, <1>2 DEF FinalizeRun, SweepDone
  <2> QED BY <1>2, <2>1, <2>2, OutcomeIsWhole DEF FinalizeRun, FinalMeansSettled, Holding
<1>3. CASE HandOff \/ EndWriteFails
  BY <1>3, FinalKept DEF HandOff, EndWriteFails, dbVars
<1>4. CASE HandOffSettled \/ FinalizeBatchRun
  <2>1. Missing' = Missing /\ \A b \in Batches : row'[b] \notin Holding
    BY <1>4 DEF HandOffSettled, FinalizeBatchRun, WriteBatchOutcome, HoldingRows, Missing
  <2>2. \A s \in Slots : call'[s] # "flight"
    BY <1>0, <1>4 DEF HandOffSettled, FinalizeBatchRun, SweepDone, SweepInv, sweepVars
  <2>3. status' = "completed" => Missing = {}
    BY <1>4, OutcomeIsWhole DEF HandOffSettled, FinalizeBatchRun, WriteBatchOutcome
  <2> QED BY <2>1, <2>2, <2>3 DEF FinalMeansSettled, Holding
<1> QED
  BY <1>1, <1>2, <1>3, <1>4 DEF SweepEnd

LEMMA FinalStep ==
  TypeOK /\ PaymentInv /\ SweepInv /\ FinalMeansSettled /\ [Next]_vars
    => FinalMeansSettled'
<1> SUFFICES ASSUME TypeOK, PaymentInv, SweepInv, FinalMeansSettled, [Next]_vars
             PROVE  FinalMeansSettled'
  OBVIOUS
<1> USE DEF dbVars, sweepVars
<1>1. CASE Begin \/ SeeCancelled
  BY <1>1, FinalKept DEF Begin, StartRun, StartRefused, StartCancelled, SeeCancelled
<1>2. ASSUME NEW b \in Batches, SubmitBatch(b) \/ LedgerFails(b) PROVE FinalMeansSettled'
  <2>1. status \notin {"completed", "partial"} /\ status' = status
    BY <1>2 DEF SubmitBatch, LedgerFails, MaySubmit, SweepInv
  <2> QED BY <2>1 DEF FinalMeansSettled
<1>3. ASSUME NEW b \in Batches, SubmitReturns(b) PROVE FinalMeansSettled'
  <2>1. \A c \in Batches : row'[c] \in Holding => row[c] \in Holding
    BY <1>3
    DEF SubmitReturns, SubmitAccepted, SubmitRefused, SubmitUnknown, SubmitWriteFails,
        Holding, TypeOK
  <2> QED BY <1>3, <2>1, FinalKept
          DEF SubmitReturns, SubmitAccepted, SubmitRefused, SubmitUnknown,
              SubmitWriteFails
<1>4. ASSUME NEW s \in Slots, Dispatch(s) PROVE FinalMeansSettled'
  BY <1>4 DEF Dispatch, MayCall, SweepInv, FinalMeansSettled
<1>5. ASSUME NEW s \in Slots, CallAnswered(s) \/ CallFailed(s) PROVE FinalMeansSettled'
  BY <1>5, FinalKept DEF CallAnswered, CallFailed, TypeOK
<1>6. ASSUME NEW b \in Batches, Abandon(b) \/ Advance(b) \/ StopAtProvider(b)
      PROVE  FinalMeansSettled'
  BY <1>6, FinalKept, MarkedKeepsHolding DEF Abandon, Advance, StopAtProvider
<1>7. ASSUME NEW s \in Slots, ReadLine(s) PROVE FinalMeansSettled'
  BY <1>7, FinalKept DEF ReadLine
<1>8. CASE PollReturns \/ IngestReturns
  <2>1. \A b \in Batches : row'[b] \in Holding => row[b] \in Holding
    BY <1>8, MarkedKeepsHolding
    DEF PollReturns, IngestReturns, PollEnded, PollNotEnded, FlushChunk,
        IngestCancelled, IngestFails, CompleteIngest, TypeOK, Holding
  <2>2. \A s \in Slots : snap[s] # "missing" => snap'[s] # "missing"
    BY <1>8
    DEF PollReturns, IngestReturns, PollEnded, PollNotEnded, FlushChunk,
        IngestCancelled, IngestFails, CompleteIngest, TypeOK
  <2> QED BY <1>8, <2>1, <2>2, FinalKept
          DEF PollReturns, IngestReturns, PollEnded, PollNotEnded, FlushChunk,
              IngestCancelled, IngestFails, CompleteIngest
<1>9. CASE CancelRun
  BY <1>9, FinalKept, MarkedKeepsHolding DEF CancelRun
<1>10. CASE TimePasses
  BY <1>10, FinalKept DEF TimePasses, DeadlinePasses, GraceEnds
<1>11. CASE ProcessDies
  BY <1>11, FinalKept
  DEF ProcessDies, Crash, CancelThenCrash, CatchErrorThenCrash, HandOffThenCrash, Die,
      FailIfUnfinished
<1>12. CASE Restart
  <2>1. \A b \in Batches : row'[b] \in Holding => row[b] \in Holding
    BY <1>12 DEF Restart, TypeOK, Holding
  <2> QED BY <1>12, <2>1, FinalKept DEF Restart
<1>13. CASE UNCHANGED vars
  BY <1>13, FinalKept DEF vars
<1> QED
  BY <1>1, <1>2, <1>3, <1>4, <1>5, <1>6, <1>7, <1>8, <1>9, <1>10, <1>11, <1>12, <1>13,
     FinalEnds
  DEF Next, SweepStep

-----------------------------------------------------------------------------
(* The ledger and the answers agree, and an answer is never replaced. *)

NotWriting == UNCHANGED <<snap, outcome>>

\* Only three steps write answers or line outcomes.
LEMMA OnlyWriters ==
  ASSUME [Next]_vars
  PROVE  \/ NotWriting \/ FlushChunk \/ CompleteIngest
         \/ \E s \in Slots : CallAnswered(s)
<1> USE DEF dbVars, NotWriting
<1>1. CASE Begin \/ SeeCancelled
  BY <1>1 DEF Begin, StartRun, StartRefused, StartCancelled, SeeCancelled
<1>2. CASE SweepEnd \/ FinalizeBatchRun
  BY <1>2
  DEF SweepEnd, CatchCancel, CatchError, FinalizeRun, HandOff, HandOffSettled,
      EndWriteFails, FinalizeBatchRun
<1>3. ASSUME NEW b \in Batches,
             SubmitBatch(b) \/ LedgerFails(b) \/ SubmitReturns(b) \/ Abandon(b)
               \/ Advance(b) \/ StopAtProvider(b)
      PROVE  NotWriting
  BY <1>3
  DEF SubmitBatch, LedgerFails, SubmitReturns, SubmitAccepted, SubmitRefused,
      SubmitUnknown, SubmitWriteFails, Abandon, Advance, StopAtProvider
<1>4. ASSUME NEW s \in Slots, Dispatch(s) \/ CallFailed(s) \/ ReadLine(s)
      PROVE  NotWriting
  BY <1>4 DEF Dispatch, MayCall, CallFailed, ReadLine
<1>5. CASE PollReturns \/ IngestCancelled \/ IngestFails
  BY <1>5 DEF PollReturns, PollEnded, PollNotEnded, IngestCancelled, IngestFails
<1>6. CASE CancelRun \/ TimePasses \/ ProcessDies \/ Restart
  BY <1>6
  DEF CancelRun, TimePasses, DeadlinePasses, GraceEnds, ProcessDies, Crash,
      CancelThenCrash, CatchErrorThenCrash, HandOffThenCrash, Restart
<1>7. CASE UNCHANGED vars
  BY <1>7 DEF vars
<1> QED
  BY <1>1, <1>2, <1>3, <1>4, <1>5, <1>6, <1>7 DEF Next, SweepStep, IngestReturns

LEMMA LedgerStep ==
  TypeOK /\ LedgerMatchesSnapshots /\ [Next]_vars => LedgerMatchesSnapshots'
<1> SUFFICES ASSUME TypeOK, LedgerMatchesSnapshots, [Next]_vars
             PROVE  LedgerMatchesSnapshots'
  OBVIOUS
<1>0. Batched \subseteq Slots
  BY BatchFacts DEF Batched
<1>1. CASE NotWriting
  BY <1>1 DEF NotWriting, LedgerMatchesSnapshots
<1>2. CASE FlushChunk
  <2> SUFFICES ASSUME NEW s \in Batched
               PROVE  outcome'[s] = "recorded" <=> snap'[s] = "batch"
    BY DEF LedgerMatchesSnapshots
  <2>1. outcome[s] = "recorded" <=> snap[s] = "batch"
    BY DEF LedgerMatchesSnapshots
  <2>2. CASE s \in LinesOf[at] /\ chunk[s] # "none" /\ outcome[s] = "none"
    BY <1>0, <1>2, <2>1, <2>2 DEF FlushChunk, TypeOK
  <2>3. CASE ~(s \in LinesOf[at] /\ chunk[s] # "none" /\ outcome[s] = "none")
    BY <1>0, <1>2, <2>1, <2>3 DEF FlushChunk
  <2> QED BY <2>2, <2>3
<1>3. CASE CompleteIngest
  BY <1>0, <1>3 DEF CompleteIngest, ClosedLedger, LedgerMatchesSnapshots
<1>4. ASSUME NEW s \in Slots, CallAnswered(s) PROVE LedgerMatchesSnapshots'
  BY <1>0, <1>4 DEF CallAnswered, LedgerMatchesSnapshots, TypeOK
<1> QED
  BY <1>1, <1>2, <1>3, <1>4, OnlyWriters

LEMMA PermanentStep ==
  ASSUME TypeOK, LedgerMatchesSnapshots, [Next]_vars, NEW s \in Slots
  PROVE  /\ snap[s] # "missing" => snap'[s] = snap[s]
         /\ outcome[s] # "none" => outcome'[s] = outcome[s]
<1>1. CASE NotWriting
  BY <1>1 DEF NotWriting
<1>2. CASE FlushChunk
  BY <1>2 DEF FlushChunk
<1>3. CASE CompleteIngest
  BY <1>3 DEF CompleteIngest, ClosedLedger
<1>4. ASSUME NEW r \in Slots, CallAnswered(r)
      PROVE  /\ snap[s] # "missing" => snap'[s] = snap[s]
             /\ outcome[s] # "none" => outcome'[s] = outcome[s]
  BY <1>4 DEF CallAnswered, TypeOK
<1> QED
  BY <1>1, <1>2, <1>3, <1>4, OnlyWriters

-----------------------------------------------------------------------------
(* The end of a run is reported at most once. *)

LEMMA ReportedStep ==
  ASSUME TypeOK, SweepInv, ReportedOnce, [Next]_vars
  PROVE  ReportedOnce'
<1> USE DEF dbVars, sweepVars, Report, ReportedOnce
<1>1. CASE Begin \/ SeeCancelled
  BY <1>1 DEF Begin, StartRun, StartRefused, StartCancelled, SeeCancelled, SweepInv
<1>2. CASE SweepEnd \/ FinalizeBatchRun
  BY <1>2
  DEF SweepEnd, CatchCancel, CatchError, FinalizeRun, HandOff, HandOffSettled, Live,
      SweepDone, EndWriteFails, FinalizeBatchRun, SweepInv
<1>3. ASSUME NEW b \in Batches,
             SubmitBatch(b) \/ LedgerFails(b) \/ SubmitReturns(b) \/ Abandon(b)
               \/ Advance(b) \/ StopAtProvider(b)
      PROVE  ReportedOnce'
  BY <1>3
  DEF SubmitBatch, LedgerFails, SubmitReturns, SubmitAccepted, SubmitRefused,
      SubmitUnknown, SubmitWriteFails, Abandon, Advance, StopAtProvider
<1>4. ASSUME NEW s \in Slots,
             Dispatch(s) \/ CallAnswered(s) \/ CallFailed(s) \/ ReadLine(s)
      PROVE  ReportedOnce'
  BY <1>4 DEF Dispatch, MayCall, CallAnswered, CallFailed, ReadLine
<1>5. CASE PollReturns \/ IngestReturns
  BY <1>5
  DEF PollReturns, PollEnded, PollNotEnded, IngestReturns, FlushChunk, IngestCancelled,
      IngestFails, CompleteIngest
<1>6. CASE CancelRun
  BY <1>6 DEF CancelRun, Cancellable, SweepInv
<1>7. CASE TimePasses \/ ProcessDies \/ Restart
  BY <1>7
  DEF TimePasses, DeadlinePasses, GraceEnds, ProcessDies, Crash, CancelThenCrash,
      CatchErrorThenCrash, HandOffThenCrash, Restart
<1>8. CASE UNCHANGED vars
  BY <1>8 DEF vars
<1> QED
  BY <1>1, <1>2, <1>3, <1>4, <1>5, <1>6, <1>7, <1>8 DEF Next, SweepStep

-----------------------------------------------------------------------------
(* Results are read only for a running run. *)

LEMMA IngestStep ==
  ASSUME TypeOK, IngestInv, [Next]_vars
  PROVE  IngestInv'
<1> USE DEF dbVars, pollVars, procVars, IngestInv
<1>1. CASE Begin \/ SeeCancelled
  BY <1>1 DEF Begin, StartRun, StartRefused, StartCancelled, SeeCancelled
<1>2. CASE CatchCancel \/ CatchError
  BY <1>2 DEF CatchCancel, CatchError, FailIfUnfinished, Live, MarkCancelled, Marked,
              Rows, Holding, TypeOK
<1>3. CASE FinalizeRun \/ HandOff \/ HandOffSettled \/ EndWriteFails \/ FinalizeBatchRun
  BY <1>3
  DEF FinalizeRun, HandOff, HandOffSettled, EndWriteFails, FinalizeBatchRun, SweepDone,
      WriteBatchOutcome, RunOutcome, Rows, HoldingRows, Holding, TypeOK
<1>4. ASSUME NEW b \in Batches,
             SubmitBatch(b) \/ LedgerFails(b) \/ SubmitReturns(b) \/ Abandon(b)
               \/ Advance(b) \/ StopAtProvider(b)
      PROVE  IngestInv'
  BY <1>4
  DEF SubmitBatch, LedgerFails, SubmitReturns, SubmitAccepted, SubmitRefused,
      SubmitUnknown, SubmitWriteFails, Abandon, Advance, StopAtProvider, MayLook,
      MarkCancelled, Marked, TypeOK
<1>5. ASSUME NEW s \in Slots,
             Dispatch(s) \/ CallAnswered(s) \/ CallFailed(s) \/ ReadLine(s)
      PROVE  IngestInv'
  BY <1>5 DEF Dispatch, CallAnswered, CallFailed, ReadLine
<1>6. CASE PollReturns \/ IngestReturns
  BY <1>6
  DEF PollReturns, PollEnded, PollNotEnded, IngestReturns, FlushChunk, IngestCancelled,
      IngestFails, CompleteIngest, Idle, TypeOK
<1>7. CASE CancelRun
  BY <1>7 DEF CancelRun, Cancellable, MarkCancelled, Marked, Rows, Holding, TypeOK
<1>8. CASE TimePasses
  BY <1>8 DEF TimePasses, DeadlinePasses, GraceEnds
<1>9. CASE ProcessDies
  BY <1>9
  DEF ProcessDies, Crash, CancelThenCrash, CatchErrorThenCrash, HandOffThenCrash, Die,
      Idle
<1>10. CASE Restart
  BY <1>10 DEF Restart
<1>11. CASE UNCHANGED vars
  BY <1>11 DEF vars
<1> QED
  BY <1>1, <1>2, <1>3, <1>4, <1>5, <1>6, <1>7, <1>8, <1>9, <1>10, <1>11
  DEF Next, SweepStep, SweepEnd

-----------------------------------------------------------------------------
(* The inductive invariant, and what follows from it. *)

LEMMA InvInit == Init => IInv
<1> SUFFICES ASSUME Init PROVE IInv
  OBVIOUS
<1>1. FinalMeansSettled
  BY DEF Init, FinalMeansSettled
<1>2. LedgerMatchesSnapshots
  BY BatchFacts DEF Init, LedgerMatchesSnapshots, Batched, NoLines
<1>3. ReportedOnce
  BY DEF Init, ReportedOnce
<1>4. IngestInv
  BY DEF Init, IngestInv
<1> QED
  BY <1>1, <1>2, <1>3, <1>4, TypeInit, PaymentInit, SweepInit DEF IInv

LEMMA InvStep == IInv /\ [Next]_vars => IInv'
BY TypeStep, PaymentStep, SweepStepInv, IngestStep, FinalStep, LedgerStep, ReportedStep
DEF IInv

\* The invariant holds in every reachable state.
THEOREM Invariant == Spec => []IInv
BY InvInit, InvStep, PTL DEF Spec

\* submitProviderBatch, recoverStaleRuns and the sync fallback never buy an
\* answer twice, whatever is refused, lost, cancelled or crashes.
THEOREM PaidOnce == Spec => []NeverPaidTwice
<1>1. IInv => NeverPaidTwice
  BY DEF IInv, PaymentInv, NeverPaidTwice, TypeOK
<1> QED
  BY <1>1, Invariant, PTL

\* The ledger of a batch and the recorded answers agree in every state.
THEOREM LedgerCorrect == Spec => []LedgerMatchesSnapshots
<1>1. IInv => LedgerMatchesSnapshots
  BY DEF IInv
<1> QED
  BY <1>1, Invariant, PTL

\* A run is completed or partial only once nothing works for it any more.
THEOREM Settled == Spec => []FinalMeansSettled
<1>1. IInv => FinalMeansSettled
  BY DEF IInv
<1> QED
  BY <1>1, Invariant, PTL

\* The sweep, the poller and the cancel route never both report a run's end.
THEOREM Reported == Spec => []ReportedOnce
<1>1. IInv => ReportedOnce
  BY DEF IInv
<1> QED
  BY <1>1, Invariant, PTL

\* No step replaces an answer or a line outcome.
THEOREM Permanent == Spec => AnswersArePermanent
<1>1. IInv /\ [Next]_vars =>
        [\A s \in Slots : /\ snap[s] # "missing" => snap'[s] = snap[s]
                          /\ outcome[s] # "none" => outcome'[s] = outcome[s]]_vars
  BY PermanentStep DEF IInv
<1> QED
  BY <1>1, Invariant, PTL DEF Spec, AnswersArePermanent

\* No step moves a run out of a terminal status: neither a late answer, nor a
\* stale cancel request, nor the catch of a sweep, nor boot recovery.
THEOREM TerminalStays == Spec => TerminalIsFinal
<1>1. IInv /\ [Next]_vars => [(status \in Terminal) => (status' = status)]_vars
  <2> SUFFICES ASSUME IInv, Next, status \in Terminal
               PROVE  status' = status
    OBVIOUS
  <2> USE DEF Terminal, dbVars
  <2>1. CASE Begin \/ SeeCancelled
    BY <2>1 DEF Begin, StartRun, StartRefused, StartCancelled, SeeCancelled
  <2>2. CASE SweepEnd \/ FinalizeBatchRun
    BY <2>2
    DEF SweepEnd, CatchCancel, CatchError, FailIfUnfinished, FinalizeRun, HandOff,
        HandOffSettled, EndWriteFails, FinalizeBatchRun, SweepDone
  <2>3. ASSUME NEW b \in Batches,
               SubmitBatch(b) \/ LedgerFails(b) \/ SubmitReturns(b) \/ Abandon(b)
                 \/ Advance(b) \/ StopAtProvider(b)
        PROVE  status' = status
    BY <2>3
    DEF SubmitBatch, LedgerFails, SubmitReturns, SubmitAccepted, SubmitRefused,
        SubmitUnknown, SubmitWriteFails, Abandon, Advance, StopAtProvider
  <2>4. ASSUME NEW s \in Slots,
               Dispatch(s) \/ CallAnswered(s) \/ CallFailed(s) \/ ReadLine(s)
        PROVE  status' = status
    BY <2>4 DEF Dispatch, CallAnswered, CallFailed, ReadLine
  <2>5. CASE PollReturns \/ IngestReturns
    BY <2>5
    DEF PollReturns, PollEnded, PollNotEnded, IngestReturns, FlushChunk,
        IngestCancelled, IngestFails, CompleteIngest
  <2>6. CASE CancelRun \/ TimePasses
    BY <2>6 DEF CancelRun, Cancellable, TimePasses, DeadlinePasses, GraceEnds
  <2>7. CASE ProcessDies \/ Restart
    BY <2>7
    DEF ProcessDies, Crash, CancelThenCrash, CatchErrorThenCrash, FailIfUnfinished,
        HandOffThenCrash, Cancellable, Restart
  <2> QED
    BY <2>1, <2>2, <2>3, <2>4, <2>5, <2>6, <2>7 DEF Next, SweepStep
<1> QED
  BY <1>1, Invariant, PTL DEF Spec, TerminalIsFinal

\* While the database takes its writes, a run that is over records nothing:
\* neither a late sync answer nor the rest of a batch being read.
THEOREM NothingRecordedLate ==
  StorageErrors = FALSE => (Spec => NothingRecordedOnceOver)
<1> SUFFICES ASSUME StorageErrors = FALSE PROVE Spec => NothingRecordedOnceOver
  OBVIOUS
<1>1. IInv /\ [Next]_vars => [(status \in Terminal) => UNCHANGED <<snap, outcome>>]_vars
  <2> SUFFICES ASSUME IInv, [Next]_vars, status \in Terminal
               PROVE  UNCHANGED <<snap, outcome>>
    OBVIOUS
  <2> USE DEF Terminal
  <2>1. CASE NotWriting
    BY <2>1 DEF NotWriting
  <2>2. CASE FlushChunk \/ CompleteIngest
    BY <2>2 DEF FlushChunk, CompleteIngest, IInv, IngestInv
  <2>3. ASSUME NEW s \in Slots, CallAnswered(s) PROVE UNCHANGED <<snap, outcome>>
    <3>1. status \in {"completed", "partial"} => call[s] # "flight"
      BY DEF IInv, FinalMeansSettled
    <3>2. status = "failed" => call[s] # "flight"
      BY DEF IInv, SweepInv
    <3> QED BY <2>3, <3>1, <3>2 DEF CallAnswered
  <2> QED BY <2>1, <2>2, <2>3, OnlyWriters DEF IInv
<1> QED
  BY <1>1, Invariant, PTL DEF Spec, NothingRecordedOnceOver

\* Only a sync dispatch pays for another call.
LEMMA OnlyBuyer ==
  ASSUME Next
  PROVE  calls' = calls \/ \E s \in Slots : Dispatch(s)
<1>1. CASE Begin \/ SeeCancelled
  BY <1>1 DEF Begin, StartRun, StartRefused, StartCancelled, SeeCancelled
<1>2. CASE SweepEnd \/ FinalizeBatchRun
  BY <1>2
  DEF SweepEnd, CatchCancel, CatchError, FinalizeRun, HandOff, HandOffSettled,
      EndWriteFails, FinalizeBatchRun
<1>3. ASSUME NEW b \in Batches,
             SubmitBatch(b) \/ LedgerFails(b) \/ SubmitReturns(b) \/ Abandon(b)
               \/ Advance(b) \/ StopAtProvider(b)
      PROVE  calls' = calls
  BY <1>3
  DEF SubmitBatch, LedgerFails, SubmitReturns, SubmitAccepted, SubmitRefused,
      SubmitUnknown, SubmitWriteFails, Abandon, Advance, StopAtProvider
<1>4. ASSUME NEW s \in Slots, CallAnswered(s) \/ CallFailed(s) \/ ReadLine(s)
      PROVE  calls' = calls
  BY <1>4 DEF CallAnswered, CallFailed, ReadLine
<1>5. CASE PollReturns \/ IngestReturns
  BY <1>5
  DEF PollReturns, PollEnded, PollNotEnded, IngestReturns, FlushChunk, IngestCancelled,
      IngestFails, CompleteIngest
<1>6. CASE CancelRun \/ TimePasses \/ Restart
  BY <1>6 DEF CancelRun, TimePasses, DeadlinePasses, GraceEnds, Restart
<1>7. CASE ProcessDies
  BY <1>7
  DEF ProcessDies, Crash, CancelThenCrash, CatchErrorThenCrash, HandOffThenCrash, Die
<1> QED
  BY <1>1, <1>2, <1>3, <1>4, <1>5, <1>6, <1>7 DEF Next, SweepStep

\* While the database takes its writes, a run that is over calls no provider.
THEOREM NothingSentLate ==
  StorageErrors = FALSE => (Spec => NothingSentOnceOver)
<1> SUFFICES ASSUME StorageErrors = FALSE PROVE Spec => NothingSentOnceOver
  OBVIOUS
<1>1. IInv /\ [Next]_vars => [(status \in Terminal) => (calls' = calls)]_vars
  <2> SUFFICES ASSUME IInv, Next, status \in Terminal
               PROVE  calls' = calls
    OBVIOUS
  <2>1. ASSUME NEW s \in Slots, Dispatch(s) PROVE FALSE
    <3>1. s \in handed /\ call[s] = "idle" /\ status # "cancelled"
      BY <2>1 DEF Dispatch, MayCall
    <3>2. status \in {"completed", "partial"} \/ sweep = "over"
      BY <3>1 DEF IInv, SweepInv, TypeOK, Terminal
    <3> QED BY <3>1, <3>2 DEF IInv, SweepInv
  <2> QED BY <2>1, OnlyBuyer
<1> QED
  BY <1>1, Invariant, PTL DEF Spec, NothingSentOnceOver

\* Both together: once a run is over, whoever still works for it neither buys
\* nor stores anything more.
THEOREM OverIsOver == StorageErrors = FALSE => (Spec => NothingOnceOver)
  BY NothingSentLate, NothingRecordedLate DEF NothingOnceOver

-----------------------------------------------------------------------------
(* The runner implements RunLifecycle, as long as database writes succeed. *)

BoughtNow == [s \in Slots |-> Bought(s)]

LEMMA BoughtKept ==
  ASSUME calls' = calls,
         \A b \in Batches : (remote'[b] = "none") <=> (remote[b] = "none")
  PROVE  BoughtNow' = BoughtNow
BY DEF BoughtNow, Bought, InBatch

\* Paying for nothing.
LEMMA PayNothing ==
  ASSUME BoughtNow' = BoughtNow
  PROVE  \E S \in SUBSET Slots : Run!Pay(S)
<1>1. Run!Pay({})
  BY DEF BoughtNow, Run!Pay
<1> QED
  BY <1>1

\* Creating batches whose submissions were in flight pays for their slots.
LEMMA PayBatches ==
  ASSUME TypeOK, PaymentInv, NEW D, D \subseteq Batches,
         \A b \in D : sub[b] = "flight",
         calls' = calls,
         \A b \in Batches : remote'[b] = "none" <=> (remote[b] = "none" /\ b \notin D)
  PROVE  \E S \in SUBSET Slots : Run!Pay(S)
<1> DEFINE S == UNION {LinesOf[b] : b \in D}
<1>1. S \subseteq Slots
  BY BatchFacts
<1>2. ASSUME NEW s \in S PROVE Bought(s) = 0 /\ Bought(s)' = 1
  <2>1. PICK b \in D : s \in LinesOf[b]
    OBVIOUS
  <2>2. calls[s] = 0 /\ remote[b] = "none"
    BY <2>1 DEF PaymentInv
  <2>3. \A c \in Batches : s \in LinesOf[c] => c = b
    BY <2>1, ChunkAssumption
  <2>4. ~InBatch(s) /\ InBatch(s)'
    BY <2>1, <2>2, <2>3 DEF InBatch
  <2> QED BY <2>2, <2>4 DEF Bought
<1>3. ASSUME NEW s \in Slots, s \notin S PROVE Bought(s)' = Bought(s)
  BY <1>3 DEF Bought, InBatch
<1>4. \A s \in S : BoughtNow[s] = 0
  BY <1>1, <1>2 DEF BoughtNow
<1>5. BoughtNow' = [s \in Slots |-> IF s \in S THEN 1 ELSE BoughtNow[s]]
  BY <1>1, <1>2, <1>3 DEF BoughtNow
<1> QED
  BY <1>1, <1>4, <1>5 DEF Run!Pay, BoughtNow

\* What a step looks like from outside when it changes nothing there.
LEMMA Unseen ==
  ASSUME UNCHANGED <<status, snap, reports, calls>>,
         \A b \in Batches : (remote'[b] = "none") <=> (remote[b] = "none")
  PROVE  UNCHANGED Run!vars
<1>1. BoughtNow' = BoughtNow
  BY BoughtKept
<1> QED
  BY <1>1 DEF Run!vars, Missing, BoughtNow

\* A run that ends with what it recorded so far ends the way it may.
LEMMA EndsWell ==
  ASSUME TypeOK, SweepInv, status = "running", reports = 0, reports' = 1,
         UNCHANGED <<snap, calls, remote>>,
         NEW errors, status' = RunOutcome(Slots \ Missing, errors, Missing)
  PROVE  Run!Next
<1>1. \E S \in SUBSET Slots : Run!Pay(S)
  BY BoughtKept, PayNothing
<1>2. status' = "completed" => Slots \ Missing = Slots
  BY OutcomeIsWhole
<1>3. status' = "partial" => Slots \ Missing # {}
  BY DEF RunOutcome
<1>4. status' \in {"completed", "partial", "failed"}
  BY DEF RunOutcome
<1>5. Run!Finish(status')
  BY <1>1, <1>2, <1>3, <1>4 DEF Run!Finish, Run!Open, Missing
<1> QED
  BY <1>4, <1>5 DEF Run!Next, Run!Final

\* A run that fails or is cancelled, even with a submission still in flight.
LEMMA EndsBadly ==
  ASSUME status \in {"queued", "running"}, status' \in {"failed", "cancelled"},
         reports = 0, reports' \in {0, 1}, snap' = snap,
         \E S \in SUBSET Slots : Run!Pay(S)
  PROVE  Run!Next
<1>1. Run!Finish(status')
  BY DEF Run!Finish, Run!Open, Missing
<1> QED
  BY <1>1 DEF Run!Next, Run!Final

LEMMA StepBegin ==
  ASSUME IInv, Begin
  PROVE  Run!Next
<1> USE DEF IInv
<1>0. BoughtNow' = BoughtNow
  BY BoughtKept DEF Begin, StartRun, StartRefused, StartCancelled
<1>1. CASE StartRun
  BY <1>0, <1>1 DEF StartRun, Run!Next, Run!Start, Missing, BoughtNow
<1>2. CASE StartRefused
  <2>1. reports = 0 /\ reports' = 1
    BY <1>2 DEF StartRefused, SweepInv, Report
  <2> QED BY <1>0, <1>2, <2>1, EndsBadly, PayNothing DEF StartRefused
<1>3. CASE StartCancelled
  <2>1. reports = 0 /\ reports' = 1 /\ UNCHANGED <<status, snap>>
    BY <1>3 DEF StartCancelled, SweepInv, Report, dbVars
  <2>2. Run!Tell
    BY <1>0, <1>3, <2>1 DEF StartCancelled, Run!Tell, Run!Final, Missing, BoughtNow
  <2> QED BY <2>2 DEF Run!Next
<1> QED
  BY <1>1, <1>2, <1>3 DEF Begin

\* Before it left the queue a run has no submission in flight.
LEMMA FlightIsStarted ==
  ASSUME IInv, StorageErrors = FALSE, NEW b \in Batches, sub[b] = "flight"
  PROVE  status # "queued"
BY DEF IInv, SweepInv, TypeOK

LEMMA StepSubmit ==
  ASSUME IInv, StorageErrors = FALSE, NEW b \in Batches,
         SubmitBatch(b) \/ LedgerFails(b) \/ SubmitReturns(b)
  PROVE  Run!Next \/ UNCHANGED Run!vars
<1> USE DEF IInv
<1>1. CASE SubmitBatch(b) \/ LedgerFails(b)
  BY <1>1, Unseen DEF SubmitBatch, LedgerFails, dbVars
<1>2. CASE SubmitRefused(b)
  BY <1>2, Unseen DEF SubmitRefused
<1>3. CASE SubmitAccepted(b) \/ SubmitUnknown(b)
  <2>1. sub[b] = "flight" /\ UNCHANGED <<status, snap, reports, calls>>
    BY <1>3 DEF SubmitAccepted, SubmitUnknown
  <2>2. remote[b] = "none"
    BY <2>1 DEF PaymentInv
  <2>3. CASE remote'[b] = "none"
    <3>1. \A c \in Batches : remote'[c] = "none" <=> remote[c] = "none"
      BY <1>3, <2>2, <2>3 DEF SubmitAccepted, SubmitUnknown, TypeOK
    <3> QED BY <2>1, <3>1, Unseen
  <2>4. CASE remote'[b] # "none"
    <3>1. \A c \in Batches : remote'[c] = "none" <=> (remote[c] = "none" /\ c \notin {b})
      BY <1>3, <2>2, <2>4 DEF SubmitAccepted, SubmitUnknown, TypeOK
    <3>2. \E S \in SUBSET Slots : Run!Pay(S)
      BY <2>1, <3>1, PayBatches
    <3>3. Run!Buy
      BY <2>1, <3>2, FlightIsStarted DEF Run!Buy, Missing
    <3> QED BY <3>3 DEF Run!Next
  <2> QED BY <2>3, <2>4
<1>4. CASE SubmitWriteFails(b)
  BY <1>4 DEF SubmitWriteFails
<1> QED
  BY <1>1, <1>2, <1>3, <1>4 DEF SubmitReturns

LEMMA StepDispatch ==
  ASSUME IInv, StorageErrors = FALSE, NEW s \in Slots, Dispatch(s)
  PROVE  Run!Next
<1> USE DEF IInv
<1>1. calls[s] = 0 /\ calls'[s] = 1 /\ \A r \in Slots : r # s => calls'[r] = calls[r]
  BY DEF Dispatch, MayCall, PaymentInv, TypeOK
<1>2. ~InBatch(s)
  BY DEF Dispatch, MayCall, PaymentInv, InBatch
<1>3. \A r \in Slots : InBatch(r)' <=> InBatch(r)
  BY DEF Dispatch, MayCall, InBatch
<1>4. Bought(s) = 0 /\ Bought(s)' = 1
  BY <1>1, <1>2, <1>3 DEF Bought
<1>5. \A r \in Slots : r # s => Bought(r)' = Bought(r)
  BY <1>1, <1>3 DEF Bought
<1>6. BoughtNow' = [r \in Slots |-> IF r \in {s} THEN 1 ELSE BoughtNow[r]]
  BY <1>4, <1>5 DEF BoughtNow
<1>7. Run!Pay({s})
  BY <1>4, <1>6 DEF Run!Pay, BoughtNow
<1>8. status # "queued"
  BY DEF Dispatch, MayCall, SweepInv, TypeOK
<1>9. Run!Buy
  BY <1>7, <1>8 DEF Run!Buy, Dispatch, MayCall, dbVars, Missing
<1> QED
  BY <1>9 DEF Run!Next

\* Recording bought answers while the run is running.
LEMMA Records ==
  ASSUME IInv, status = "running", UNCHANGED <<status, reports, calls, remote>>,
         NEW S, S \subseteq Slots, \A s \in S : Bought(s) = 1,
         snap' \in [Slots -> {"missing", "sync", "batch"}],
         \A s \in Slots : (snap'[s] # "missing") <=> (snap[s] # "missing" \/ s \in S)
  PROVE  Run!Next
<1>1. (Slots \ Missing)' = (Slots \ Missing) \cup S
  BY DEF Missing
<1>2. BoughtNow' = BoughtNow
  BY BoughtKept
<1>3. \A s \in S : BoughtNow[s] = 1
  BY DEF BoughtNow
<1>4. Run!Record
  BY <1>1, <1>2, <1>3 DEF Run!Record, BoughtNow
<1> QED
  BY <1>4 DEF Run!Next

LEMMA StepCallReturns ==
  ASSUME IInv, StorageErrors = FALSE, NEW s \in Slots, CallAnswered(s) \/ CallFailed(s)
  PROVE  Run!Next \/ UNCHANGED Run!vars
<1> USE DEF IInv
<1>1. CASE CallFailed(s)
  BY <1>1, Unseen DEF CallFailed, dbVars
<1>2. CASE CallAnswered(s) /\ snap' = snap
  BY <1>2, Unseen DEF CallAnswered
<1>3. CASE CallAnswered(s) /\ snap' # snap
  <2>1. /\ call[s] = "flight" /\ status # "cancelled" /\ snap[s] = "missing"
        /\ snap' = [snap EXCEPT ![s] = "sync"]
        /\ UNCHANGED <<status, reports, calls, remote>>
    BY <1>3 DEF CallAnswered
  <2>2. status = "running"
    BY <2>1 DEF SweepInv
  <2>3. calls[s] = 1 /\ ~InBatch(s)
    BY <2>1 DEF PaymentInv, InBatch
  <2>4. Bought(s) = 1
    BY <2>3 DEF Bought
  <2>5. \A r \in Slots : (snap'[r] # "missing") <=> (snap[r] # "missing" \/ r \in {s})
    BY <2>1 DEF TypeOK
  <2>6. snap' \in [Slots -> {"missing", "sync", "batch"}]
    BY <2>1 DEF TypeOK
  <2> QED BY <2>1, <2>2, <2>4, <2>5, <2>6, Records
<1> QED
  BY <1>1, <1>2, <1>3

LEMMA StepFlush ==
  ASSUME IInv, FlushChunk
  PROVE  Run!Next
<1> USE DEF IInv
<1> DEFINE S == {s \in LinesOf[at] : /\ chunk[s] = "recorded" /\ outcome[s] = "none"
                                     /\ snap[s] = "missing"}
<1>1. at \in Batches /\ LinesOf[at] \subseteq Slots
  BY BatchFacts DEF FlushChunk, TypeOK
<1>2. \A s \in Slots : snap'[s] = IF s \in S THEN "batch" ELSE snap[s]
  BY <1>1 DEF FlushChunk
<1>3. remote[at] # "none"
  BY <1>1 DEF FlushChunk, PaymentInv
<1>4. ASSUME NEW s \in S PROVE Bought(s) = 1
  <2>1. InBatch(s)
    BY <1>1, <1>3 DEF InBatch
  <2>2. s \in LinesOf[at] /\ s \in Slots
    BY <1>1
  <2>3. calls[s] \in Nat /\ calls[s] <= 1
    BY <2>2 DEF PaymentInv, TypeOK
  <2>4. calls[s] # 1
    BY <1>1, <1>3, <2>2 DEF PaymentInv
  <2> QED BY <2>1, <2>3, <2>4 DEF Bought
<1>5. snap' \in [Slots -> {"missing", "sync", "batch"}]
  BY DEF FlushChunk, TypeOK
<1>6. \A s \in Slots : (snap'[s] # "missing") <=> (snap[s] # "missing" \/ s \in S)
  BY <1>2
<1> QED
  BY <1>1, <1>4, <1>5, <1>6, Records DEF FlushChunk

LEMMA StepSweepEnd ==
  ASSUME IInv, StorageErrors = FALSE, SweepEnd \/ FinalizeBatchRun
  PROVE  Run!Next \/ UNCHANGED Run!vars
<1> USE DEF IInv
<1>1. CASE CatchCancel
  <2>1. thrown = "cancel" /\ status = "cancelled" /\ reports = 0
    BY <1>1 DEF CatchCancel, SweepInv, TypeOK, Live
  <2>2. BoughtNow' = BoughtNow
    BY <1>1, BoughtKept DEF CatchCancel
  <2>3. reports' = 1 /\ UNCHANGED <<status, snap>>
    BY <1>1, <2>1 DEF CatchCancel, Report
  <2>4. Run!Tell
    BY <2>1, <2>2, <2>3 DEF Run!Tell, Run!Final, Missing, BoughtNow
  <2> QED BY <2>4 DEF Run!Next
<1>2. CASE CatchError
  BY <1>2 DEF CatchError, SweepInv
<1>3. CASE FinalizeRun
  <2>1. status = "running" /\ reports = 0 /\ reports' = 1
    BY <1>3 DEF FinalizeRun, SweepDone, Live, SweepInv, Report
  <2> QED BY <1>3, <2>1, EndsWell DEF FinalizeRun
<1>4. CASE HandOff
  BY <1>4, Unseen DEF HandOff
<1>5. CASE HandOffSettled
  <2>1. status = "running" /\ reports = 0 /\ reports' = 1
    BY <1>5 DEF HandOffSettled, SweepDone, Live, SweepInv, Report
  <2> QED BY <1>5, <2>1, EndsWell DEF HandOffSettled, WriteBatchOutcome
<1>6. CASE EndWriteFails
  BY <1>6 DEF EndWriteFails
<1>7. CASE FinalizeBatchRun
  <2>1. status = "running" /\ reports = 0 /\ reports' = 1
    BY <1>7 DEF FinalizeBatchRun, SweepInv, Report
  <2> QED BY <1>7, <2>1, EndsWell DEF FinalizeBatchRun, WriteBatchOutcome
<1> QED
  BY <1>1, <1>2, <1>3, <1>4, <1>5, <1>6, <1>7 DEF SweepEnd

\* What the poller, the stop requests and the clock do is not seen outside.
LEMMA StepQuiet ==
  ASSUME IInv,
         \/ SeeCancelled
         \/ \E b \in Batches : Abandon(b) \/ Advance(b) \/ StopAtProvider(b)
         \/ \E s \in Slots : ReadLine(s)
         \/ PollReturns \/ IngestCancelled \/ IngestFails \/ CompleteIngest
         \/ TimePasses
  PROVE  UNCHANGED Run!vars
<1> USE DEF IInv
<1>1. CASE SeeCancelled \/ (\E s \in Slots : ReadLine(s)) \/ TimePasses
  BY <1>1, Unseen DEF SeeCancelled, ReadLine, TimePasses, DeadlinePasses, GraceEnds, dbVars
<1>2. CASE \E b \in Batches : Abandon(b) \/ Advance(b) \/ StopAtProvider(b)
  BY <1>2, Unseen DEF Abandon, Advance, StopAtProvider, dbVars
<1>3. CASE PollNotEnded
  BY <1>3, Unseen DEF PollNotEnded
<1>4. CASE PollEnded
  <2>1. UNCHANGED <<status, snap, reports, calls>>
    BY <1>4 DEF PollEnded
  <2>2. \A b \in Batches : (remote'[b] = "none") <=> (remote[b] = "none")
    BY <1>4 DEF PollEnded, TypeOK
  <2> QED BY <2>1, <2>2, Unseen
<1>5. CASE IngestCancelled \/ IngestFails \/ CompleteIngest
  BY <1>5, Unseen DEF IngestCancelled, IngestFails, CompleteIngest
<1> QED
  BY <1>1, <1>2, <1>3, <1>4, <1>5 DEF PollReturns

LEMMA StepCancel ==
  ASSUME IInv, CancelRun
  PROVE  Run!Next
<1> USE DEF IInv
<1>1. status \in {"queued", "running"} /\ status' = "cancelled" /\ snap' = snap
  BY DEF CancelRun, Cancellable
<1>2. reports = 0 /\ reports' \in {0, 1}
  BY <1>1 DEF CancelRun, SweepInv
<1>3. BoughtNow' = BoughtNow
  BY BoughtKept DEF CancelRun
<1> QED
  BY <1>1, <1>2, <1>3, PayNothing, EndsBadly

\* The process dies, and a submission in flight may have reached the provider.
LEMMA DeathPays ==
  ASSUME IInv, StorageErrors = FALSE, Die
  PROVE  \/ /\ \E b \in Batches : sub[b] = "flight"
            /\ \E S \in SUBSET Slots : Run!Pay(S)
         \/ BoughtNow' = BoughtNow
<1> USE DEF IInv
<1>1. PICK D \in SUBSET {b \in Batches : sub[b] = "flight"} :
        remote' = [b \in Batches |-> IF b \in D THEN "working" ELSE remote[b]]
  BY DEF Die
<1>2. calls' = calls
  BY DEF Die
<1>3. CASE D = {}
  BY <1>1, <1>2, <1>3, BoughtKept
<1>4. CASE D # {}
  <2>1. \A b \in Batches : remote'[b] = "none" <=> (remote[b] = "none" /\ b \notin D)
    BY <1>1
  <2> QED BY <1>1, <1>2, <1>4, <2>1, PayBatches
<1> QED
  BY <1>3, <1>4

LEMMA StepDeath ==
  ASSUME IInv, StorageErrors = FALSE, ProcessDies
  PROVE  Run!Next \/ UNCHANGED Run!vars
<1> USE DEF IInv
<1>1. Die
  BY DEF ProcessDies, Crash, CancelThenCrash, CatchErrorThenCrash, HandOffThenCrash
<1>2. CASE CancelThenCrash
  <2>1. /\ status \in {"queued", "running"} /\ status' = "cancelled"
        /\ UNCHANGED <<snap, reports>>
    BY <1>2 DEF CancelThenCrash, Cancellable
  <2>2. reports = 0
    BY <2>1 DEF SweepInv
  <2> QED BY <1>1, <2>1, <2>2, DeathPays, PayNothing, EndsBadly
<1>3. CASE CatchErrorThenCrash
  BY <1>3 DEF CatchErrorThenCrash, SweepInv
<1>4. CASE Crash \/ HandOffThenCrash
  <2>1. UNCHANGED <<status, snap, reports>>
    BY <1>4 DEF Crash, HandOffThenCrash, dbVars
  <2>2. CASE BoughtNow' = BoughtNow
    BY <2>1, <2>2 DEF Run!vars, Missing, BoughtNow
  <2>3. CASE (\E b \in Batches : sub[b] = "flight") /\ \E S \in SUBSET Slots : Run!Pay(S)
    <3>1. Run!Buy
      BY <2>1, <2>3, FlightIsStarted DEF Run!Buy, Missing
    <3> QED BY <3>1 DEF Run!Next
  <2> QED BY <1>1, <2>2, <2>3, DeathPays
<1> QED
  BY <1>2, <1>3, <1>4 DEF ProcessDies

LEMMA StepRestart ==
  ASSUME IInv, Restart
  PROVE  Run!Next \/ UNCHANGED Run!vars
<1> USE DEF IInv
<1>1. UNCHANGED <<snap, reports, calls, remote>>
  BY DEF Restart
<1>2. CASE status' = status
  BY <1>1, <1>2, Unseen
<1>3. CASE status' # status
  <2>1. status \in {"queued", "running"} /\ status' = "failed"
    BY <1>3 DEF Restart
  <2>2. reports = 0
    BY <2>1 DEF SweepInv
  <2>3. BoughtNow' = BoughtNow
    BY <1>1, BoughtKept
  <2> QED BY <1>1, <2>1, <2>2, <2>3, PayNothing, EndsBadly
<1> QED
  BY <1>2, <1>3

LEMMA Unchanging ==
  ASSUME UNCHANGED vars
  PROVE  UNCHANGED Run!vars
BY Unseen DEF vars, dbVars

\* Every step is a step of RunLifecycle or not seen by it.
LEMMA StepRefines ==
  ASSUME IInv, StorageErrors = FALSE, [Next]_vars
  PROVE  [Run!Next]_(Run!vars)
<1>1. CASE Begin
  BY <1>1, StepBegin
<1>2. CASE \E b \in Batches : SubmitBatch(b) \/ LedgerFails(b) \/ SubmitReturns(b)
  BY <1>2, StepSubmit
<1>3. CASE \E s \in Slots : Dispatch(s) \/ CallAnswered(s) \/ CallFailed(s)
  BY <1>3, StepDispatch, StepCallReturns
<1>4. CASE SweepEnd \/ FinalizeBatchRun
  BY <1>4, StepSweepEnd
<1>5. CASE \/ SeeCancelled
           \/ \E b \in Batches : Abandon(b) \/ Advance(b) \/ StopAtProvider(b)
           \/ \E s \in Slots : ReadLine(s)
           \/ PollReturns \/ IngestCancelled \/ IngestFails \/ CompleteIngest
           \/ TimePasses
  BY <1>5, StepQuiet
<1>6. CASE FlushChunk
  BY <1>6, StepFlush
<1>7. CASE CancelRun
  BY <1>7, StepCancel
<1>8. CASE ProcessDies
  BY <1>8, StepDeath
<1>9. CASE Restart
  BY <1>9, StepRestart
<1>10. CASE UNCHANGED vars
  BY <1>10, Unchanging
<1> QED
  BY <1>1, <1>2, <1>3, <1>4, <1>5, <1>6, <1>7, <1>8, <1>9, <1>10
  DEF Next, SweepStep, IngestReturns

LEMMA InitRefines == Init => Run!Init
BY DEF Init, Run!Init, Missing, Bought, InBatch

\* While the database takes its writes, the runner keeps every promise of
\* RunLifecycle, whatever the providers answer and however often it dies.
THEOREM Refinement == StorageErrors = FALSE => (Spec => ImplementsRunLifecycle)
<1> SUFFICES ASSUME StorageErrors = FALSE PROVE Spec => ImplementsRunLifecycle
  OBVIOUS
<1>1. Init => Run!Init
  BY InitRefines
<1>2. IInv /\ [Next]_vars => [Run!Next]_(Run!vars)
  BY StepRefines
<1>3. Spec => []IInv
  BY Invariant
<1> QED
  BY <1>1, <1>2, <1>3, PTL DEF Spec, ImplementsRunLifecycle, Run!Spec
=============================================================================
