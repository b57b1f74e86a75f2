------------------------ MODULE BatchSweepQuota_proofs ------------------------
(***************************************************************************)
(* What a run of BatchSweep knows of itself: which slots its sweep has     *)
(* sent, whom its error names, and what it holds of the day's quota.       *)
(*                                                                         *)
(* DispatchInv says that providerDispatchCounts counts the set Sent of the *)
(* slots called for or left to a batch, and that every slot the sweep has  *)
(* no answer of is charged to its provider: what finalizeRun decides from. *)
(* ReleaseInv bounds what a batch gives back by its unbilled lines.        *)
(* CounterInv is the balance of the counter; each of its parts is moved by *)
(* few steps, and a step that moves one moves another by as much.          *)
(***************************************************************************)
EXTENDS BatchSweep_proofs, SumTheorems

-----------------------------------------------------------------------------
(* Counting slots and batches. *)

\* There are finitely many batches: each has a slot of its own.
LEMMA BatchesFinite == IsFiniteSet(Batches)
<1> DEFINE First == [b \in Batches |-> CHOOSE s \in LinesOf[b] : TRUE]
<1>1. \A b \in Batches : First[b] \in LinesOf[b] /\ LinesOf[b] \subseteq Slots
  BY ChunkAssumption
<1>2. First \in [Batches -> Slots]
  BY <1>1
<1>3. \A b, c \in Batches : First[b] = First[c] => b = c
  BY <1>1, ChunkAssumption
<1> HIDE DEF First
<1>4. First \in Injection(Batches, Slots)
  BY <1>2, <1>3 DEF Injection, IsInjective
<1> QED
  BY <1>4, FS_Injection, ManifestAssumption

\* The rows of a provider, and what each row holds of the quota.
RowsOf(p) == Rows \cap BatchesOf(p)
Holds == [b \in Batches |-> Size(b) - released[b]]

LEMMA RowsFinite ==
  ASSUME NEW p
  PROVE  IsFiniteSet(RowsOf(p)) /\ RowsOf(p) \subseteq Batches
BY BatchesFinite, FS_Subset DEF RowsOf, Rows

LEMMA HoldsInt ==
  ASSUME TypeOK
  PROVE  \A b \in Batches : Holds[b] \in Int
BY SizeNat DEF Holds, TypeOK

LEMMA StillIs ==
  ASSUME NEW p
  PROVE  StillReserved(p) = SumFunctionOnSet(Holds, RowsOf(p))
BY DEF StillReserved, Holds, RowsOf

LEMMA StillInt ==
  ASSUME TypeOK, NEW p
  PROVE  StillReserved(p) \in Int
BY RowsFinite, HoldsInt, SumInt, StillIs

LEMMA SyncNat ==
  ASSUME NEW p
  PROVE  SyncCalls(p) \in Nat
BY CountNat DEF SyncCalls, Units

\* Steps that write no row and give nothing back.
LEMMA StillSame ==
  ASSUME Rows' = Rows, released' = released, NEW p
  PROVE  StillReserved(p)' = StillReserved(p)
<1>1. Holds' = Holds
  BY DEF Holds, Size
<1>2. RowsOf(p)' = RowsOf(p)
  BY DEF RowsOf, BatchesOf
<1> QED
  BY <1>1, <1>2, StillIs DEF StillReserved, Holds, RowsOf

\* A new row holds its slots.
LEMMA StillAdds ==
  ASSUME TypeOK, NEW b \in Batches, b \notin Rows, released[b] = 0,
         Rows' = Rows \cup {b}, released' = released, NEW p
  PROVE  StillReserved(p)' = StillReserved(p) + (IF OwnerOf(b) = p THEN Size(b) ELSE 0)
<1>1. Holds' = Holds /\ Holds[b] = Size(b)
  BY SizeNat DEF Holds
<1>2. CASE OwnerOf(b) = p
  <2>1. RowsOf(p)' = RowsOf(p) \cup {b} /\ b \notin RowsOf(p)
    BY <1>2 DEF RowsOf, BatchesOf
  <2>2. SumFunctionOnSet(Holds, RowsOf(p) \cup {b})
          = Holds[b] + SumFunctionOnSet(Holds, RowsOf(p))
    BY <2>1, RowsFinite, HoldsInt, SumAdd
  <2>3. StillReserved(p)' = SumFunctionOnSet(Holds, RowsOf(p) \cup {b})
    BY <1>1, <2>1 DEF StillReserved, Holds, RowsOf
  <2> QED
    BY <1>1, <1>2, <2>2, <2>3, StillIs, StillInt, SizeNat
<1>3. CASE OwnerOf(b) # p
  <2>1. RowsOf(p)' = RowsOf(p)
    BY <1>3 DEF RowsOf, BatchesOf
  <2>2. StillReserved(p)' = SumFunctionOnSet(Holds, RowsOf(p))
    BY <1>1, <2>1 DEF StillReserved, Holds, RowsOf
  <2> QED
    BY <1>3, <2>2, StillIs, StillInt
<1> QED
  BY <1>2, <1>3

\* A row that gives something back holds as much less.
LEMMA StillGives ==
  ASSUME TypeOK, TypeOK', NEW b \in Rows, Rows' = Rows,
         \A c \in Batches : c # b => released'[c] = released[c], NEW p
  PROVE  StillReserved(p)'
           = StillReserved(p) - (IF OwnerOf(b) = p THEN released'[b] - released[b] ELSE 0)
<1>1. b \in Batches /\ released[b] \in Int /\ released'[b] \in Int
  BY DEF Rows, TypeOK
<1>2. RowsOf(p)' = RowsOf(p)
  BY DEF RowsOf, BatchesOf
<1>3. PICK h : h = Holds'
  OBVIOUS
<1>4. /\ \A c \in Batches : h[c] = Size(c) - released'[c]
      /\ \A c \in Batches : h[c] \in Int
  BY <1>3, SizeNat DEF Holds, TypeOK
<1>5. \A c \in Batches : c # b => h[c] = Holds[c]
  BY <1>4 DEF Holds
<1>6. StillReserved(p)' = SumFunctionOnSet(h, RowsOf(p))
  BY <1>2, <1>3 DEF StillReserved, Holds, RowsOf
<1>7. CASE OwnerOf(b) = p
  <2>1. b \in RowsOf(p)
    BY <1>1, <1>7 DEF RowsOf, BatchesOf
  <2>2. SumFunctionOnSet(h, RowsOf(p)) = SumFunctionOnSet(Holds, RowsOf(p)) - Holds[b] + h[b]
    BY <1>4, <1>5, <2>1, RowsFinite, HoldsInt, SumChange
  <2>3. Holds[b] = Size(b) - released[b] /\ h[b] = Size(b) - released'[b] /\ Size(b) \in Nat
    BY <1>1, <1>4, SizeNat DEF Holds
  <2> QED
    BY <1>1, <1>6, <1>7, <2>2, <2>3, StillIs, StillInt
<1>8. CASE OwnerOf(b) # p
  <2>1. \A c \in RowsOf(p) : h[c] = Holds[c]
    BY <1>5, <1>8 DEF RowsOf, BatchesOf
  <2>2. SumFunctionOnSet(h, RowsOf(p)) = SumFunctionOnSet(Holds, RowsOf(p))
    BY <2>1, RowsFinite, SumAgrees
  <2> QED
    BY <1>6, <1>8, <2>2, StillIs, StillInt
<1> QED
  BY <1>7, <1>8

-----------------------------------------------------------------------------
(* What the sweep sent, and what it knows. *)

LEMMA SentFinite ==
  ASSUME NEW p
  PROVE  /\ Sent(p) \subseteq Slots /\ IsFiniteSet(Sent(p))
         /\ Cardinality(Sent(p)) \in Nat /\ Cardinality(Sent(p)) <= Cardinality(Units(p))
<1>1. Sent(p) \subseteq Units(p) /\ Units(p) \subseteq Slots
  BY DEF Sent, Units
<1>2. IsFiniteSet(Units(p))
  BY <1>1, FS_Subset, ManifestAssumption
<1> QED
  BY <1>1, <1>2, FS_Subset, CountNat

\* Steps by which the sweep sends and learns nothing.
LEMMA DispatchKept ==
  ASSUME DispatchInv,
         UNCHANGED <<reserved, sweep, sub, call, dispatched, handed, calls, errs>>,
         \A b \in Batches : row'[b] = "absent" <=> row[b] = "absent",
         sweep = "idle" => used' = used,
         \A s \in Slots : snap'[s] = "missing" => snap[s] = "missing",
         status = "cancelled" => status' = "cancelled"
  PROVE  DispatchInv'
<1>1. Rows' = Rows
  BY DEF Rows
<1>2. \A s \in Slots : InRow(s)' = InRow(s)
  BY <1>1 DEF InRow
<1>3. \A p \in Providers : Sent(p)' = Sent(p)
  BY <1>2 DEF Sent, Units
<1>4. \A b \in Batches : SubmissionKnown(b)'
  BY DEF DispatchInv, SubmissionKnown
<1>5. reserved' => \A s \in Slots : SlotKnown(s)'
  BY DEF DispatchInv, SlotKnown, Unanswered
<1>6. (sweep = "idle" => Unstarted)'
  BY DEF DispatchInv, Unstarted
<1>7. (reserved => \A p \in Providers : dispatched[p] = Cardinality(Sent(p)))'
  BY <1>3 DEF DispatchInv
<1>8. (\A s \in handed : ProviderOf[s] \in Called)' /\ (reserved <=> sweep = "running")'
  BY DEF DispatchInv
<1> QED
  BY <1>4, <1>5, <1>6, <1>7, <1>8 DEF DispatchInv

\* Once a sweep is over little has to hold.
LEMMA DispatchOver ==
  ASSUME DispatchInv, sweep' = "over", reserved' = FALSE, handed' \subseteq handed,
         \/ UNCHANGED <<sub, row>>
         \/ \A b \in Batches : sub'[b] = "done"
         \/ sub' = sub /\ \A b \in Batches : row'[b] = "absent" <=> row[b] = "absent"
  PROVE  DispatchInv'
<1>1. \A b \in Batches : SubmissionKnown(b)'
  BY DEF DispatchInv, SubmissionKnown
<1>2. (\A s \in handed : ProviderOf[s] \in Called)'
  BY DEF DispatchInv, Called
<1> QED
  BY <1>1, <1>2 DEF DispatchInv

LEMMA MarkedKeepsAbsent ==
  ASSUME TypeOK, NEW B, MarkCancelled(B), NEW b \in Batches
  PROVE  row'[b] = "absent" <=> row[b] = "absent"
BY DEF MarkCancelled, Marked, Holding, TypeOK

LEMMA DispatchInit == Init => DispatchInv
BY DEF Init, DispatchInv, Unstarted, SubmissionKnown

\* The slots of a provider that is called are handed to its sync calls or left
\* to its batches, and nothing is sent yet.
LEMMA DispatchStart ==
  ASSUME TypeOK, PaymentInv, DispatchInv, StartRun
  PROVE  DispatchInv'
<1>1. Unstarted
  BY DEF StartRun, DispatchInv
<1>2. \A b \in Batches : sub[b] = "todo" /\ row[b] = "absent"
  BY <1>1 DEF Unstarted, DispatchInv, SubmissionKnown
<1>3. \A s \in Slots : call[s] = "idle" /\ calls[s] = 0
  BY <1>1 DEF Unstarted, PaymentInv
<1>4. UNCHANGED <<sub, row, call, calls, dispatched>> /\ reserved' = TRUE /\ sweep' = "running"
  BY DEF StartRun
<1>5. ASSUME NEW p \in Providers PROVE dispatched'[p] = Cardinality(Sent(p)')
  <2>1. Rows' = {}
    BY <1>2, <1>4 DEF Rows
  <2>2. Sent(p)' = {}
    BY <1>3, <1>4, <2>1 DEF Sent, InRow, Units
  <2> QED
    BY <1>1, <1>4, <2>2, FS_EmptySet DEF Unstarted
<1>6. ASSUME NEW s \in Slots PROVE SlotKnown(s)'
  <2>1. ProviderOf[s] \in Called => s \in handed' \cup Batched
    BY DEF StartRun
  <2>2. (ProviderOf[s] \in Called => s \in handed \cup Batched)'
    BY <2>1 DEF Called, Batched
  <2> QED
    BY <1>3, <1>4, <2>2 DEF SlotKnown, Unanswered
<1>7. \A b \in Batches : SubmissionKnown(b)'
  BY <1>2, <1>4 DEF SubmissionKnown
<1>8. (\A s \in handed : ProviderOf[s] \in Called)'
  BY DEF StartRun, Called
<1> QED
  BY <1>4, <1>5, <1>6, <1>7, <1>8 DEF DispatchInv

LEMMA CountDisjoint ==
  ASSUME NEW S, NEW T, S \subseteq Slots, T \subseteq Slots, S \cap T = {}
  PROVE  Cardinality(S \cup T) = Cardinality(S) + Cardinality(T)
<1>1. IsFiniteSet(S) /\ IsFiniteSet(T)
  BY FS_Subset, ManifestAssumption
<1>2. Cardinality(S \cap T) = 0
  BY FS_EmptySet
<1>3. Cardinality(S \cup T) = Cardinality(S) + Cardinality(T) - Cardinality(S \cap T)
  BY <1>1, FS_Union
<1> QED
  BY <1>2, <1>3, CountNat

LEMMA DispatchSubmit ==
  ASSUME TypeOK, PaymentInv, DispatchInv, NEW b \in Batches, SubmitBatch(b)
  PROVE  DispatchInv'
<1>1. /\ reserved /\ sub[b] = "todo" /\ row[b] = "absent" /\ b \notin Rows
      /\ LinesOf[b] \subseteq Slots /\ OwnerOf(b) \in Providers
      /\ \A s \in LinesOf[b] : ProviderOf[s] = OwnerOf(b)
  BY BatchFacts DEF SubmitBatch, MaySubmit, DispatchInv, SubmissionKnown, Rows
<1>2. /\ row' = [row EXCEPT ![b] = "submitting"] /\ sub' = [sub EXCEPT ![b] = "flight"]
      /\ dispatched' = [dispatched EXCEPT ![OwnerOf(b)] = @ + Size(b)]
      /\ UNCHANGED <<reserved, sweep, call, handed, calls, errs, snap, status, used>>
  BY DEF SubmitBatch
<1>3. \A s \in LinesOf[b] : calls[s] = 0 /\ s \notin handed
  BY <1>1 DEF PaymentInv
<1>4. Rows' = Rows \cup {b}
  BY <1>2 DEF Rows, TypeOK
<1>5. \A s \in Slots : InRow(s)' <=> InRow(s) \/ s \in LinesOf[b]
  BY <1>1, <1>4 DEF InRow
<1>6. \A s \in LinesOf[b] : ~InRow(s)
  BY <1>1, ChunkAssumption DEF InRow, Rows
<1>7. ASSUME NEW p \in Providers PROVE dispatched'[p] = Cardinality(Sent(p)')
  <2>1. dispatched[p] = Cardinality(Sent(p)) /\ dispatched[p] \in Int
    BY <1>1 DEF DispatchInv, TypeOK
  <2>2. CASE p = OwnerOf(b)
    <3>1. Sent(p)' = Sent(p) \cup LinesOf[b]
      BY <1>1, <1>2, <1>3, <1>5, <2>2 DEF Sent, Units
    <3>2. Sent(p) \cap LinesOf[b] = {}
      <4> SUFFICES ASSUME NEW s \in Sent(p), s \in LinesOf[b] PROVE FALSE
        OBVIOUS
      <4>1. calls[s] > 0 \/ InRow(s)
        BY DEF Sent
      <4> QED
        BY <1>3, <1>6, <4>1
    <3>3. Cardinality(Sent(p)') = Cardinality(Sent(p)) + Size(b)
      BY <1>1, <3>1, <3>2, SentFinite, CountDisjoint DEF Size
    <3> QED
      BY <1>1, <1>2, <2>1, <2>2, <3>3 DEF TypeOK
  <2>3. CASE p # OwnerOf(b)
    <3>1. Sent(p)' = Sent(p)
      BY <1>1, <1>2, <1>5, <2>3 DEF Sent, Units
    <3>2. dispatched'[p] = dispatched[p]
      BY <1>2, <2>3 DEF TypeOK
    <3> QED
      BY <2>1, <3>1, <3>2
  <2> QED
    BY <2>2, <2>3
<1>8. \A s \in Slots : SlotKnown(s)'
  BY <1>1, <1>2 DEF DispatchInv, SlotKnown, Unanswered
<1>9. \A c \in Batches : SubmissionKnown(c)'
  BY <1>1, <1>2 DEF DispatchInv, SubmissionKnown, TypeOK
<1>10. sweep = "running" /\ (reserved <=> sweep = "running")'
       /\ (\A s \in handed : ProviderOf[s] \in Called)'
  BY <1>1, <1>2 DEF DispatchInv, Called
<1> QED
  BY <1>2, <1>7, <1>8, <1>9, <1>10 DEF DispatchInv

\* A submission that rolled back, or that the provider refused, is the sync
\* calls' now: its slots are not counted as sent.
LEMMA DispatchTakenBack ==
  ASSUME TypeOK, PaymentInv, DispatchInv, NEW b \in Batches, reserved, sub[b] # "done",
         sub' = [sub EXCEPT ![b] = "done"], handed' = handed \cup LinesOf[b],
         \A c \in Batches : row'[c] = "absent" <=> row[c] = "absent",
         dispatched' = [dispatched EXCEPT ![OwnerOf(b)] =
                          @ - IF row[b] = "absent" THEN 0 ELSE Size(b)],
         UNCHANGED <<reserved, sweep, call, calls, errs, snap, status, used>>
  PROVE  DispatchInv'
<1>1. /\ LinesOf[b] \subseteq Slots /\ OwnerOf(b) \in Providers /\ OwnerOf(b) \in Called
      /\ \A s \in LinesOf[b] : ProviderOf[s] = OwnerOf(b)
  BY BatchFacts
<1>2. \A s \in LinesOf[b] : calls[s] = 0 /\ s \notin handed
  BY DEF PaymentInv
<1>3. Rows' = Rows
  BY DEF Rows
<1>4. \A s \in Slots : InRow(s)' <=> InRow(s)
  BY <1>3 DEF InRow
<1>5. \A s \in LinesOf[b] : InRow(s) <=> b \in Rows
  BY <1>1, ChunkAssumption DEF InRow, Rows
<1>6. ASSUME NEW p \in Providers PROVE dispatched'[p] = Cardinality(Sent(p)')
  <2>1. dispatched[p] = Cardinality(Sent(p)) /\ dispatched[p] \in Int
    BY DEF DispatchInv, TypeOK
  <2>2. CASE p = OwnerOf(b) /\ b \in Rows
    <3>1. Sent(p) = Sent(p)' \cup LinesOf[b]
      BY <1>1, <1>2, <1>4, <1>5, <2>2 DEF Sent, Units
    <3>2. Sent(p)' \cap LinesOf[b] = {} /\ Sent(p)' \subseteq Slots
      BY <1>2 DEF Sent, Units
    <3>3. Cardinality(Sent(p)) = Cardinality(Sent(p)') + Size(b)
      BY <1>1, <3>1, <3>2, CountDisjoint DEF Size
    <3>4. Cardinality(Sent(p)') \in Nat /\ Size(b) \in Nat
      BY <3>2, CountNat, SizeNat
    <3>5. dispatched'[p] = dispatched[p] - Size(b)
      BY <2>2 DEF TypeOK, Rows
    <3> QED
      BY <2>1, <3>3, <3>4, <3>5
  <2>3. CASE p # OwnerOf(b) \/ b \notin Rows
    <3>1. Sent(p)' = Sent(p)
      <4>1. CASE p # OwnerOf(b)
        BY <1>1, <1>4, <4>1 DEF Sent, Units
      <4>2. CASE b \notin Rows
        BY <1>1, <1>2, <1>4, <1>5, <4>2 DEF Sent, Units
      <4> QED
        BY <2>3, <4>1, <4>2
    <3>2. dispatched'[p] = dispatched[p]
      BY <2>1, <2>3 DEF TypeOK, Rows
    <3> QED
      BY <2>1, <3>1, <3>2
  <2> QED
    BY <2>2, <2>3
<1>7. \A s \in Slots : SlotKnown(s)'
  BY DEF DispatchInv, SlotKnown, Unanswered
<1>8. \A c \in Batches : SubmissionKnown(c)'
  BY DEF DispatchInv, SubmissionKnown, TypeOK
<1>9. (\A s \in handed : ProviderOf[s] \in Called)'
  BY <1>1 DEF DispatchInv, Called
<1>10. sweep = "running" /\ (reserved <=> sweep = "running")'
  BY DEF DispatchInv
<1> QED
  BY <1>6, <1>7, <1>8, <1>9, <1>10 DEF DispatchInv

\* A submission that was accepted, or may have been, stays sent.
LEMMA DispatchReturned ==
  ASSUME TypeOK, DispatchInv, NEW b \in Batches, sub[b] = "flight",
         sub' = [sub EXCEPT ![b] = "done"],
         \A c \in Batches : row'[c] = "absent" <=> row[c] = "absent",
         UNCHANGED <<reserved, sweep, call, dispatched, handed, calls, errs, snap, status, used>>
  PROVE  DispatchInv'
<1>1. Rows' = Rows /\ row[b] # "absent"
  BY DEF Rows, DispatchInv, SubmissionKnown
<1>2. \A p \in Providers : Sent(p)' = Sent(p)
  BY <1>1 DEF Sent, Units, InRow
<1>3. reserved' => \A s \in Slots : SlotKnown(s)'
  BY DEF DispatchInv, SlotKnown, Unanswered
<1>4. \A c \in Batches : SubmissionKnown(c)'
  BY <1>1 DEF DispatchInv, SubmissionKnown, TypeOK
<1>5. sweep # "idle"
  BY DEF DispatchInv, Unstarted
<1>6. /\ (\A s \in handed : ProviderOf[s] \in Called)' /\ (reserved <=> sweep = "running")'
      /\ (sweep = "idle" => Unstarted)'
  BY <1>5 DEF DispatchInv, Called
<1> QED
  BY <1>2, <1>3, <1>4, <1>6 DEF DispatchInv

LEMMA DispatchReturns ==
  ASSUME TypeOK, PaymentInv, DispatchInv, NEW b \in Batches, SubmitReturns(b)
  PROVE  DispatchInv'
<1>1. sub[b] = "flight" /\ row[b] # "absent"
  BY DEF SubmitReturns, SubmitAccepted, SubmitRefused, SubmitUnknown, SubmitWriteFails,
         DispatchInv, SubmissionKnown
<1>2. \A c \in Batches : row'[c] = "absent" <=> row[c] = "absent"
  BY <1>1 DEF SubmitReturns, SubmitAccepted, SubmitRefused, SubmitUnknown, SubmitWriteFails,
              TypeOK, dbVars
<1>3. CASE SubmitAccepted(b) \/ SubmitUnknown(b) \/ SubmitWriteFails(b)
  BY <1>1, <1>2, <1>3, DispatchReturned
  DEF SubmitAccepted, SubmitUnknown, SubmitWriteFails, dbVars
<1>4. CASE SubmitRefused(b)
  <2>1. CASE reserved
    BY <1>1, <1>2, <1>4, <2>1, DispatchTakenBack DEF SubmitRefused
  <2>2. CASE ~reserved
    <3>1. sweep = "over"
      BY <1>1, <2>2 DEF DispatchInv, Unstarted, TypeOK
    <3> QED
      BY <1>2, <1>4, <2>2, <3>1 DEF SubmitRefused, DispatchInv, SubmissionKnown, Called, TypeOK
  <2> QED
    BY <2>1, <2>2
<1> QED
  BY <1>3, <1>4 DEF SubmitReturns

\* A sync call is sent.
LEMMA DispatchCall ==
  ASSUME TypeOK, PaymentInv, SweepInv, DispatchInv, NEW s \in Slots, Dispatch(s)
  PROVE  DispatchInv'
<1>1. s \in handed /\ call[s] = "idle" /\ calls[s] = 0 /\ ProviderOf[s] \in Providers
  BY ManifestAssumption DEF Dispatch, MayCall, PaymentInv
<1>2. /\ call' = [call EXCEPT ![s] = "flight"] /\ calls' = [calls EXCEPT ![s] = @ + 1]
      /\ dispatched' = [dispatched EXCEPT ![ProviderOf[s]] = @ + 1]
      /\ UNCHANGED <<reserved, sweep, sub, handed, errs, snap, status, used, row>>
  BY DEF Dispatch, dbVars
<1>3. sweep # "idle"
  BY <1>1 DEF SweepInv
<1>4. calls'[s] = 1 /\ \A r \in Slots : r # s => calls'[r] = calls[r]
  BY <1>1, <1>2 DEF TypeOK
<1>5. \A r \in Slots : InRow(r)' <=> InRow(r)
  BY <1>2 DEF InRow, Rows
<1>6. ASSUME reserved, NEW p \in Providers PROVE dispatched'[p] = Cardinality(Sent(p)')
  <2>1. dispatched[p] = Cardinality(Sent(p)) /\ dispatched[p] \in Int
    BY <1>6 DEF DispatchInv, TypeOK
  <2>2. CASE p = ProviderOf[s]
    <3>1. Sent(p)' = Sent(p) \cup {s}
      BY <1>2, <1>4, <1>5, <2>2 DEF Sent, Units
    <3>2. s \notin Sent(p)
      BY <1>1 DEF Sent
    <3>3. Cardinality(Sent(p)') = Cardinality(Sent(p)) + 1
      BY <3>1, <3>2, SentFinite, FS_AddElement
    <3>4. dispatched'[p] = dispatched[p] + 1
      BY <1>1, <1>2, <2>2 DEF TypeOK
    <3> QED
      BY <2>1, <3>3, <3>4
  <2>3. CASE p # ProviderOf[s]
    <3>1. Sent(p)' = Sent(p)
      BY <1>2, <1>4, <1>5, <2>3 DEF Sent, Units
    <3>2. dispatched'[p] = dispatched[p]
      BY <1>2, <2>3 DEF TypeOK
    <3> QED
      BY <2>1, <3>1, <3>2
  <2> QED
    BY <2>2, <2>3
<1>7. ASSUME reserved, NEW r \in Slots PROVE SlotKnown(r)'
  <2>1. SlotKnown(r)
    BY <1>7 DEF DispatchInv
  <2>2. CASE r = s
    BY <1>1, <1>2, <2>1, <2>2 DEF SlotKnown, Unanswered, TypeOK
  <2>3. CASE r # s
    BY <1>2, <1>4, <2>1, <2>3 DEF SlotKnown, Unanswered, TypeOK
  <2> QED
    BY <2>2, <2>3
<1>8. \A b \in Batches : SubmissionKnown(b)'
  BY <1>2 DEF DispatchInv, SubmissionKnown
<1>9. /\ (\A r \in handed : ProviderOf[r] \in Called)' /\ (reserved <=> sweep = "running")'
      /\ (sweep = "idle" => Unstarted)'
  BY <1>2, <1>3 DEF DispatchInv, Called
<1> QED
  BY <1>2, <1>6, <1>7, <1>8, <1>9 DEF DispatchInv

\* A call that returns has its answer stored or its provider charged, unless
\* the run was cancelled.
LEMMA DispatchCallReturns ==
  ASSUME TypeOK, PaymentInv, DispatchInv, NEW s \in Slots, CallAnswered(s) \/ CallFailed(s)
  PROVE  DispatchInv'
<1>1. /\ call[s] = "flight" /\ call' = [call EXCEPT ![s] = "done"] /\ errs \subseteq errs'
      /\ UNCHANGED <<reserved, sweep, sub, dispatched, handed, calls, status, used, row>>
      /\ \A r \in Slots : snap'[r] = "missing" => snap[r] = "missing"
  BY DEF CallAnswered, CallFailed, dbVars, TypeOK
<1>2. snap'[s] = "missing" /\ status' # "cancelled" => ProviderOf[s] \in errs'
  BY DEF CallAnswered, CallFailed, dbVars, TypeOK
<1>3. sweep # "idle"
  BY <1>1 DEF DispatchInv, Unstarted
<1>4. \A p \in Providers : Sent(p)' = Sent(p)
  BY <1>1 DEF Sent, Units, InRow, Rows
<1>5. ASSUME reserved, NEW r \in Slots PROVE SlotKnown(r)'
  <2>1. SlotKnown(r)
    BY <1>5 DEF DispatchInv
  <2>2. CASE r = s
    BY <1>1, <1>2, <2>1, <2>2 DEF SlotKnown, Unanswered, TypeOK
  <2>3. CASE r # s
    BY <1>1, <2>1, <2>3 DEF SlotKnown, Unanswered, TypeOK
  <2> QED
    BY <2>2, <2>3
<1>6. \A b \in Batches : SubmissionKnown(b)'
  BY <1>1 DEF DispatchInv, SubmissionKnown
<1>7. /\ (\A r \in handed : ProviderOf[r] \in Called)' /\ (reserved <=> sweep = "running")'
      /\ (sweep = "idle" => Unstarted)'
  BY <1>1, <1>3 DEF DispatchInv, Called
<1>8. reserved' => reserved
  BY <1>1
<1> QED
  BY <1>1, <1>4, <1>5, <1>6, <1>7, <1>8 DEF DispatchInv

\* A batch the poller looks at was submitted by a sweep that had begun.
LEMMA LookedAtBegan ==
  ASSUME DispatchInv, NEW b \in Batches, row[b] # "absent"
  PROVE  sweep # "idle"
BY DEF DispatchInv, Unstarted, SubmissionKnown

LEMMA DispatchPoll ==
  ASSUME TypeOK, LedgerMatchesSnapshots, DispatchInv, [Next]_vars, PollReturns \/ IngestReturns
  PROVE  DispatchInv'
<1>0. at \in Batches
  BY DEF PollReturns, IngestReturns, PollEnded, PollNotEnded, FlushChunk, IngestCancelled,
         IngestFails, CompleteIngest, TypeOK
<1>1. UNCHANGED <<reserved, sweep, sub, call, dispatched, handed, calls, errs, status>>
  BY DEF PollReturns, IngestReturns, PollEnded, PollNotEnded, FlushChunk, IngestCancelled,
         IngestFails, CompleteIngest, sweepVars
<1>2. \A b \in Batches : row'[b] = "absent" <=> row[b] = "absent"
  <2>1. CASE PollEnded \/ IngestCancelled
    BY <2>1, MarkedKeepsAbsent DEF PollEnded, IngestCancelled, TypeOK
  <2>2. CASE PollNotEnded
    BY <2>2 DEF PollNotEnded, Lost, TypeOK
  <2>3. CASE FlushChunk \/ IngestFails \/ CompleteIngest
    BY <2>3 DEF FlushChunk, IngestFails, CompleteIngest, TypeOK
  <2> QED
    BY <2>1, <2>2, <2>3 DEF PollReturns, IngestReturns
<1>3. sweep = "idle" => used' = used
  <2>1. CASE IngestFails \/ CompleteIngest
    BY <1>0, <2>1, LookedAtBegan DEF IngestFails, CompleteIngest
  <2>2. CASE PollReturns \/ FlushChunk \/ IngestCancelled
    BY <2>2 DEF PollReturns, PollEnded, PollNotEnded, FlushChunk, IngestCancelled
  <2> QED
    BY <2>1, <2>2 DEF IngestReturns
<1>4. \A s \in Slots : snap'[s] = "missing" => snap[s] = "missing"
  BY PermanentStep
<1> QED
  BY <1>1, <1>2, <1>3, <1>4, DispatchKept

\* The sweep ends, or the process dies under it.
LEMMA DispatchEnds ==
  ASSUME TypeOK, SweepInv, DispatchInv,
         \/ StartRefused \/ StartCancelled \/ CatchCancel \/ CatchError \/ FinalizeRun
         \/ HandOff \/ HandOffSettled \/ ProcessDies
  PROVE  DispatchInv'
<1>1. CASE StartRefused \/ StartCancelled
  BY <1>1, DispatchOver DEF StartRefused, StartCancelled, dbVars, DispatchInv, TypeOK
<1>2. CASE CatchCancel \/ CatchError
  <2>1. \A b \in Batches : row'[b] = "absent" <=> row[b] = "absent"
    BY <1>2, MarkedKeepsAbsent DEF CatchCancel, CatchError
  <2> QED
    BY <1>2, <2>1, DispatchOver DEF CatchCancel, CatchError, FlushProviderUsage
<1>3. CASE FinalizeRun \/ HandOff \/ HandOffSettled
  BY <1>3, DispatchOver DEF FinalizeRun, HandOff, HandOffSettled, FlushProviderUsage
<1>4. CASE ProcessDies
  <2>1. Die
    BY <1>4 DEF ProcessDies, Crash, CancelThenCrash, CatchErrorThenCrash, HandOffThenCrash
  <2> QED
    BY <2>1, DispatchOver DEF Die
<1> QED
  BY <1>1, <1>2, <1>3, <1>4

LEMMA DispatchStep ==
  ASSUME IInv, DispatchInv, [Next]_vars
  PROVE  DispatchInv'
<1> USE DEF IInv, dbVars, sweepVars
<1>1. CASE Begin
  BY <1>1, DispatchStart, DispatchEnds DEF Begin
<1>2. CASE SeeCancelled \/ EndWriteFails
  BY <1>2, DispatchKept DEF SeeCancelled, EndWriteFails
<1>3. CASE SweepEnd
  BY <1>2, <1>3, DispatchEnds DEF SweepEnd
<1>4. ASSUME NEW b \in Batches, SubmitBatch(b) \/ LedgerFails(b) \/ SubmitReturns(b)
      PROVE  DispatchInv'
  <2>1. CASE LedgerFails(b)
    <3>1. reserved /\ sub[b] = "todo" /\ row[b] = "absent"
      BY <2>1 DEF LedgerFails, MaySubmit, DispatchInv, SubmissionKnown
    <3>2. dispatched = [dispatched EXCEPT ![OwnerOf(b)] = @ - 0]
      BY BatchFacts DEF TypeOK
    <3> QED
      BY <2>1, <3>1, <3>2, DispatchTakenBack DEF LedgerFails
  <2> QED
    BY <1>4, <2>1, DispatchSubmit, DispatchReturns
<1>5. ASSUME NEW s \in Slots, Dispatch(s) \/ CallAnswered(s) \/ CallFailed(s)
      PROVE  DispatchInv'
  BY <1>5, DispatchCall, DispatchCallReturns
<1>6. CASE FinalizeBatchRun
  BY <1>6, DispatchKept DEF FinalizeBatchRun
<1>7. ASSUME NEW b \in Batches, Abandon(b) \/ Advance(b) \/ StopAtProvider(b)
      PROVE  DispatchInv'
  <2>1. \A c \in Batches : row'[c] = "absent" <=> row[c] = "absent"
    BY <1>7, MarkedKeepsAbsent DEF Abandon, Advance, StopAtProvider
  <2> QED
    BY <1>7, <2>1, DispatchKept DEF Abandon, Advance, StopAtProvider
<1>8. ASSUME NEW s \in Slots, ReadLine(s) PROVE DispatchInv'
  BY <1>8, DispatchKept DEF ReadLine
<1>9. CASE PollReturns \/ IngestReturns
  BY <1>9, DispatchPoll
<1>10. CASE CancelRun
  <2>1. \A c \in Batches : row'[c] = "absent" <=> row[c] = "absent"
    BY <1>10, MarkedKeepsAbsent DEF CancelRun
  <2> QED
    BY <1>10, <2>1, DispatchKept DEF CancelRun
<1>11. CASE TimePasses
  BY <1>11, DispatchKept DEF TimePasses, DeadlinePasses, GraceEnds
<1>12. CASE ProcessDies
  BY <1>12, DispatchEnds
<1>13. CASE Restart
  <2>1. \A c \in Batches : row'[c] = "absent" <=> row[c] = "absent"
    BY <1>13 DEF Restart, TypeOK
  <2> QED
    BY <1>13, <2>1, DispatchKept DEF Restart
<1>14. CASE UNCHANGED vars
  BY <1>14, DispatchKept DEF vars
<1> QED
  BY <1>1, <1>2, <1>3, <1>4, <1>5, <1>6, <1>7, <1>8, <1>9, <1>10, <1>11, <1>12, <1>13, <1>14
  DEF Next, SweepStep

-----------------------------------------------------------------------------
(* Every gap is named. *)

\* A slot without an answer, when the sweep ends and wrote no batch, was called
\* for in vain, or its provider sent less than it was asked for or was skipped.
LEMMA GapIsAnError ==
  ASSUME IInv, DispatchInv, SweepDone, Rows = {}, NEW s \in Missing
  PROVE  ProviderOf[s] \in SweepErrors \cup Skipped
<1> DEFINE p == ProviderOf[s]
<1>1. s \in Slots /\ snap[s] = "missing" /\ p \in Providers
  BY ManifestAssumption DEF Missing
<1>2. reserved /\ SlotKnown(s) /\ dispatched[p] = Cardinality(Sent(p))
  BY <1>1 DEF SweepDone, Live, DispatchInv
<1>3. CASE s \in handed
  <2>1. call[s] = "done" /\ status # "cancelled"
    BY <1>3 DEF SweepDone
  <2> QED
    BY <1>1, <1>2, <2>1 DEF SlotKnown, Unanswered, SweepErrors
<1>4. CASE s \notin handed
  <2>1. s \notin Batched
    <3> SUFFICES ASSUME NEW b \in Batches, s \in LinesOf[b] PROVE FALSE
      BY DEF Batched
    <3>1. sub[b] = "done" /\ row[b] = "absent"
      BY DEF SweepDone, Rows
    <3> QED
      BY <1>2, <1>4, <3>1 DEF DispatchInv, SubmissionKnown
  <2>2. calls[s] # 1 /\ calls[s] \in Nat /\ calls[s] <= 1
    BY <1>1, <1>2, <1>4 DEF SlotKnown, IInv, PaymentInv, TypeOK
  <2>3. s \notin Sent(p) /\ s \in Units(p)
    BY <1>1, <2>1, <2>2 DEF Sent, InRow, Batched, Units, Rows
  <2>4. Cardinality(Sent(p)) < Cardinality(Units(p))
    <3>1. Sent(p) \in SUBSET Units(p) /\ Sent(p) # Units(p) /\ IsFiniteSet(Units(p))
      <4>1. Units(p) \subseteq Slots
        BY DEF Units
      <4> QED
        BY <2>3, <4>1, FS_Subset, ManifestAssumption DEF Sent
    <3> HIDE DEF p
    <3> QED
      BY <3>1, FS_Subset, SentFinite, UnitsNat
  <2> QED
    BY <1>1, <1>2, <2>4 DEF SweepErrors
<1> QED
  BY <1>3, <1>4

\* The error that goes with a partial run.
LEMMA ErrorNamesGaps ==
  ASSUME NEW errors, {ProviderOf[s] : s \in Missing} \subseteq errors \cup Skipped,
         RunOutcome(Slots \ Missing, errors, Missing) = "partial"
  PROVE  {ProviderOf[s] : s \in Missing} \subseteq RunError(errors, Missing)
BY DEF RunOutcome, RunError, SomeFailed

LEMMA NamedKept ==
  ASSUME EveryGapNamed, named' = named, status' = status \/ status' # "partial",
         \A s \in Slots : snap'[s] = "missing" => snap[s] = "missing"
  PROVE  EveryGapNamed'
BY DEF EveryGapNamed, Missing

LEMMA NamedStep ==
  ASSUME IInv, DispatchInv, EveryGapNamed, [Next]_vars
  PROVE  EveryGapNamed'
<1> USE DEF dbVars, sweepVars
<1>0. \A s \in Slots : snap'[s] = "missing" => snap[s] = "missing"
  BY PermanentStep DEF IInv
<1>1. CASE FinalizeRun
  <2>1. {ProviderOf[s] : s \in Missing} \subseteq SweepErrors \cup Skipped
    BY <1>1, GapIsAnError DEF FinalizeRun
  <2>2. Missing' = Missing
    BY <1>1 DEF FinalizeRun, Missing
  <2> QED
    BY <1>1, <2>1, <2>2, ErrorNamesGaps DEF FinalizeRun, EveryGapNamed
<1>2. ASSUME NEW errors, WriteBatchOutcome(errors), snap' = snap PROVE EveryGapNamed'
  <2>1. {ProviderOf[s] : s \in Missing} \subseteq BatchRunErrors(errors) \cup Skipped
    BY DEF BatchRunErrors
  <2>2. Missing' = Missing
    BY <1>2 DEF Missing
  <2> QED
    BY <1>2, <2>1, <2>2, ErrorNamesGaps DEF WriteBatchOutcome, EveryGapNamed
<1>3. CASE HandOffSettled \/ FinalizeBatchRun
  BY <1>2, <1>3 DEF HandOffSettled, FinalizeBatchRun
<1>4. CASE Begin \/ SeeCancelled
  BY <1>0, <1>4, NamedKept DEF Begin, StartRun, StartRefused, StartCancelled, SeeCancelled
<1>5. CASE CatchCancel \/ CatchError \/ HandOff \/ EndWriteFails
  BY <1>0, <1>5, NamedKept DEF CatchCancel, CatchError, FailIfUnfinished, HandOff, EndWriteFails
<1>6. ASSUME NEW b \in Batches,
             SubmitBatch(b) \/ LedgerFails(b) \/ SubmitReturns(b) \/ Abandon(b)
               \/ Advance(b) \/ StopAtProvider(b)
      PROVE  EveryGapNamed'
  BY <1>0, <1>6, NamedKept
  DEF SubmitBatch, LedgerFails, SubmitReturns, SubmitAccepted, SubmitRefused,
      SubmitUnknown, SubmitWriteFails, Abandon, Advance, StopAtProvider
<1>7. ASSUME NEW s \in Slots,
             Dispatch(s) \/ CallAnswered(s) \/ CallFailed(s) \/ ReadLine(s)
      PROVE  EveryGapNamed'
  BY <1>0, <1>7, NamedKept DEF Dispatch, CallAnswered, CallFailed, ReadLine
<1>8. CASE PollReturns \/ IngestReturns
  BY <1>0, <1>8, NamedKept
  DEF PollReturns, PollEnded, PollNotEnded, IngestReturns, FlushChunk, IngestCancelled,
      IngestFails, CompleteIngest
<1>9. CASE CancelRun \/ TimePasses \/ Restart
  BY <1>0, <1>9, NamedKept DEF CancelRun, TimePasses, DeadlinePasses, GraceEnds, Restart
<1>10. CASE ProcessDies
  BY <1>0, <1>10, NamedKept
  DEF ProcessDies, Crash, CancelThenCrash, CatchErrorThenCrash, FailIfUnfinished,
      HandOffThenCrash
<1>11. CASE UNCHANGED vars
  BY <1>0, <1>11, NamedKept DEF vars
<1> QED
  BY <1>1, <1>3, <1>4, <1>5, <1>6, <1>7, <1>8, <1>9, <1>10, <1>11 DEF Next, SweepStep, SweepEnd

\* In every reachable state a sweep at work counts what it sent, and the error
\* of a partial run names its gaps.
THEOREM DispatchKnown == Spec => [](DispatchInv /\ EveryGapNamed)
<1>1. Init => DispatchInv /\ EveryGapNamed
  BY DispatchInit DEF Init, EveryGapNamed
<1>2. IInv /\ DispatchInv /\ EveryGapNamed /\ [Next]_vars => (DispatchInv /\ EveryGapNamed)'
  BY DispatchStep, NamedStep
<1> QED
  BY <1>1, <1>2, Invariant, PTL DEF Spec

\* batchRunProviderErrors and finalizeRun leave no missing answer unnamed:
\* refused batches, rolled-back ledgers, lost lines, failed and unsent calls.
THEOREM GapsNamed == Spec => []EveryGapNamed
BY DispatchKnown, PTL

-----------------------------------------------------------------------------
(* What a batch gives back. *)

Unpaid(b) == {s \in LinesOf[b] : outcome[s] \in Unbilled}

LEMMA UnpaidNat ==
  ASSUME NEW b \in Batches
  PROVE  Cardinality(Unpaid(b)) \in Nat /\ Cardinality(Unpaid(b)) <= Size(b)
<1>1. Unpaid(b) \in SUBSET LinesOf[b] /\ LinesOf[b] \subseteq Slots
  BY BatchFacts DEF Unpaid
<1>2. IsFiniteSet(LinesOf[b])
  BY <1>1, FS_Subset, ManifestAssumption
<1> QED
  BY <1>1, <1>2, FS_Subset, CountNat DEF Size

\* A line outcome is never replaced, so unbilled lines only get more.
LEMMA UnpaidGrows ==
  ASSUME TypeOK, LedgerMatchesSnapshots, [Next]_vars, NEW b \in Batches
  PROVE  /\ Cardinality(Unpaid(b)) \in Nat /\ Cardinality(Unpaid(b)') \in Nat
         /\ Cardinality(Unpaid(b)) <= Cardinality(Unpaid(b)')
<1>1. LinesOf[b] \subseteq Slots
  BY BatchFacts
<1>2. \A s \in Slots : outcome[s] # "none" => outcome'[s] = outcome[s]
  BY PermanentStep
<1>3. Unpaid(b) \subseteq Unpaid(b)' /\ Unpaid(b)' \subseteq Slots
  BY <1>1, <1>2 DEF Unpaid, Unbilled
<1> QED
  BY <1>3, FS_Subset, CountNat, ManifestAssumption

LEMMA GaveBackIs ==
  ASSUME NEW b \in Batches
  PROVE  GaveBack(b) <=>
           /\ released[b] \in 0..Size(b)
           /\ row[b] = "absent" \/ sub[b] = "flight" => released[b] = 0
           /\ row[b] = "absent" => remote[b] = "none"
           /\ remote[b] # "none" => released[b] <= Cardinality(Unpaid(b))
BY DEF GaveBack, Unpaid

\* Steps that give nothing back, create no batch and submit none.
LEMMA GaveBackKept ==
  ASSUME TypeOK, LedgerMatchesSnapshots, [Next]_vars, NEW b \in Batches, GaveBack(b),
         released'[b] = released[b], row'[b] = "absent" => row[b] = "absent",
         sub'[b] = "flight" => sub[b] = "flight",
         remote[b] = "none" => remote'[b] = "none"
  PROVE  GaveBack(b)'
<1>1. /\ Cardinality(Unpaid(b)) \in Nat /\ Cardinality(Unpaid(b)') \in Nat
      /\ Cardinality(Unpaid(b)) <= Cardinality(Unpaid(b)')
  BY UnpaidGrows
<1>2. Size(b)' = Size(b) /\ Size(b) \in Nat
  BY SizeNat DEF Size
<1>3. remote'[b] # "none" => released'[b] <= Cardinality(Unpaid(b)')
  BY <1>1, <1>2, GaveBackIs
<1> QED
  BY <1>2, <1>3 DEF GaveBack, Unpaid

\* A row without what it gave back so far.
LEMMA GaveBackAtFirst ==
  ASSUME NEW b \in Batches, released'[b] = 0, row'[b] # "absent"
  PROVE  GaveBack(b)'
<1>1. Size(b)' = Size(b) /\ Size(b) \in Nat
  BY SizeNat DEF Size
<1>2. Cardinality(Unpaid(b)') \in Nat
  <2>1. Unpaid(b)' \subseteq Slots
    BY BatchFacts DEF Unpaid
  <2> QED
    BY <2>1, CountNat
<1> QED
  BY <1>1, <1>2 DEF GaveBack, Unpaid

\* releaseUnbilledBatchQuota gives back up to the unbilled lines, never less.
LEMMA GaveBackUnbilled ==
  ASSUME TypeOK, PaymentInv, NEW b \in Batches, GaveBack(b), row[b] = "ended",
         ReleaseUnbilled(b, outcome'), row'[b] # "absent", UNCHANGED <<sub, remote>>,
         Cardinality(Unpaid(b)) <= Cardinality(Unpaid(b)')
  PROVE  GaveBack(b)' /\ released'[b] = released[b] + UnbilledNow(b, outcome')
<1>1. Size(b)' = Size(b) /\ Size(b) \in Nat /\ released[b] \in 0..Size(b)
  BY SizeNat DEF Size, GaveBack
<1>2. sub[b] # "flight"
  BY DEF PaymentInv
<1>3. Unpaid(b)' \subseteq Slots /\ Unpaid(b) \subseteq Slots
  BY BatchFacts DEF Unpaid
<1>4. PICK n \in Nat : n = Cardinality(Unpaid(b)')
  BY <1>3, CountNat
<1>5. UnbilledNow(b, outcome') = AtLeastZero(Least(n, Size(b)) - released[b])
  BY <1>4 DEF UnbilledNow, Unpaid
<1>6. released'[b] = released[b] + UnbilledNow(b, outcome')
  BY DEF ReleaseUnbilled, TypeOK
<1>7. remote[b] # "none" => released[b] <= n
  BY <1>1, <1>3, <1>4, CountNat, GaveBackIs
<1>8. released'[b] \in 0..Size(b) /\ (remote[b] # "none" => released'[b] <= n)
  BY <1>1, <1>5, <1>6, <1>7 DEF AtLeastZero, Least
<1>9. GaveBack(b)'
  BY <1>1, <1>2, <1>4, <1>8 DEF GaveBack, Unpaid
<1> QED
  BY <1>6, <1>9

\* What is given back is given back by one batch.
LEMMA ReleasesOne ==
  ASSUME TypeOK, NEW b \in Batches, NEW out, ReleaseUnbilled(b, out)
  PROVE  \A c \in Batches : c # b => released'[c] = released[c]
BY DEF ReleaseUnbilled, TypeOK

LEMMA ReleaseStep ==
  ASSUME IInv, DispatchInv, ReleaseInv, [Next]_vars
  PROVE  ReleaseInv'
<1> USE DEF IInv, dbVars, sweepVars
<1> DEFINE Kept(b) == /\ released'[b] = released[b]
                      /\ row'[b] = "absent" => row[b] = "absent"
                      /\ sub'[b] = "flight" => sub[b] = "flight"
                      /\ remote[b] = "none" => remote'[b] = "none"
<1>0. \A b \in Batches : Kept(b) => GaveBack(b)'
  <2> SUFFICES ASSUME NEW b \in Batches, Kept(b) PROVE GaveBack(b)'
    OBVIOUS
  <2> QED
    BY GaveBackKept DEF ReleaseInv
<1>1. (\A b \in Batches : Kept(b)) => ReleaseInv'
  BY <1>0 DEF ReleaseInv
<1>2. CASE Begin \/ SeeCancelled
  BY <1>1, <1>2 DEF Begin, StartRun, StartRefused, StartCancelled, SeeCancelled
<1>3. CASE SweepEnd \/ FinalizeBatchRun
  <2>1. CASE CatchCancel \/ CatchError
    <3>1. \A b \in Batches : row'[b] = "absent" => row[b] = "absent"
      BY <2>1, MarkedKeepsAbsent DEF CatchCancel, CatchError
    <3> QED
      BY <1>1, <2>1, <3>1 DEF CatchCancel, CatchError
  <2>2. CASE FinalizeRun \/ HandOff \/ HandOffSettled \/ EndWriteFails \/ FinalizeBatchRun
    BY <1>1, <2>2 DEF FinalizeRun, HandOff, HandOffSettled, EndWriteFails, FinalizeBatchRun
  <2> QED
    BY <1>3, <2>1, <2>2 DEF SweepEnd
<1>4. ASSUME NEW b \in Batches, SubmitBatch(b) PROVE ReleaseInv'
  <2>1. released[b] = 0
    BY <1>4 DEF SubmitBatch, MaySubmit, DispatchInv, SubmissionKnown, ReleaseInv, GaveBack
  <2>2. GaveBack(b)'
    BY <1>4, <2>1, GaveBackAtFirst DEF SubmitBatch, TypeOK
  <2>3. \A c \in Batches : c # b => Kept(c)
    BY <1>4 DEF SubmitBatch, TypeOK
  <2> QED
    BY <1>0, <2>2, <2>3 DEF ReleaseInv
<1>5. ASSUME NEW b \in Batches, LedgerFails(b) PROVE ReleaseInv'
  BY <1>1, <1>5 DEF LedgerFails, TypeOK
<1>6. ASSUME NEW b \in Batches, SubmitReturns(b) PROVE ReleaseInv'
  <2>1. /\ sub[b] = "flight" /\ row[b] # "absent" /\ released[b] = 0 /\ remote[b] = "none"
    BY <1>6
    DEF SubmitReturns, SubmitAccepted, SubmitRefused, SubmitUnknown, SubmitWriteFails,
        DispatchInv, SubmissionKnown, ReleaseInv, GaveBack, PaymentInv
  <2>2. \A c \in Batches : c # b => Kept(c)
    BY <1>6
    DEF SubmitReturns, SubmitAccepted, SubmitRefused, SubmitUnknown, SubmitWriteFails, TypeOK
  <2>3. row'[b] # "absent" /\ sub'[b] = "done"
    BY <1>6, <2>1
    DEF SubmitReturns, SubmitAccepted, SubmitRefused, SubmitUnknown, SubmitWriteFails, TypeOK
  <2>4. CASE SubmitAccepted(b) \/ SubmitUnknown(b) \/ SubmitWriteFails(b)
    <3>1. released'[b] = 0
      BY <2>1, <2>4 DEF SubmitAccepted, SubmitUnknown, SubmitWriteFails
    <3> QED
      BY <1>0, <2>2, <2>3, <3>1, GaveBackAtFirst DEF ReleaseInv
  <2>5. CASE SubmitRefused(b)
    <3>1. released'[b] = Size(b) /\ remote'[b] = "none"
      BY <2>1, <2>5 DEF SubmitRefused, TypeOK
    <3>2. Size(b)' = Size(b) /\ Size(b) \in 0..Size(b)
      BY SizeNat DEF Size
    <3>3. GaveBack(b)'
      BY <2>3, <3>1, <3>2 DEF GaveBack
    <3> QED
      BY <1>0, <2>2, <3>3 DEF ReleaseInv
  <2> QED
    BY <1>6, <2>4, <2>5 DEF SubmitReturns
<1>7. ASSUME NEW s \in Slots, Dispatch(s) \/ CallAnswered(s) \/ CallFailed(s) \/ ReadLine(s)
      PROVE  ReleaseInv'
  BY <1>1, <1>7 DEF Dispatch, CallAnswered, CallFailed, ReadLine
<1>8. ASSUME NEW b \in Batches, Abandon(b) \/ Advance(b) \/ StopAtProvider(b)
      PROVE  ReleaseInv'
  <2>1. \A c \in Batches : row'[c] = "absent" => row[c] = "absent"
    BY <1>8, MarkedKeepsAbsent DEF Abandon, Advance, StopAtProvider
  <2> QED
    BY <1>1, <1>8, <2>1 DEF Abandon, Advance, StopAtProvider
<1>9. CASE PollReturns \/ IngestCancelled \/ FlushChunk \/ (IngestFails /\ released' = released)
  <2>1. \A c \in Batches : row'[c] = "absent" => row[c] = "absent"
    <3>1. CASE PollEnded \/ IngestCancelled
      BY <3>1, MarkedKeepsAbsent DEF PollEnded, IngestCancelled, TypeOK
    <3>2. CASE PollNotEnded \/ FlushChunk \/ IngestFails
      BY <3>2 DEF PollNotEnded, FlushChunk, IngestFails, TypeOK
    <3> QED
      BY <1>9, <3>1, <3>2 DEF PollReturns
  <2>2. \A c \in Batches : remote[c] = "none" => remote'[c] = "none"
    BY <1>9 DEF PollReturns, PollEnded, PollNotEnded, IngestCancelled, FlushChunk, IngestFails,
                TypeOK
  <2> QED
    BY <1>1, <1>9, <2>1, <2>2
    DEF PollReturns, PollEnded, PollNotEnded, IngestCancelled, FlushChunk, IngestFails
<1>10. ASSUME ReleaseUnbilled(at, outcome'), polling = "ingest", row[at] = "ended",
              row' \in {[row EXCEPT ![at] = "cancelled"], [row EXCEPT ![at] = "ingested"]},
              UNCHANGED <<sub, remote>>
       PROVE  ReleaseInv'
  <2>1. PICK b \in Batches : b = at
    BY <1>10 DEF TypeOK
  <2>2. Cardinality(Unpaid(b)) <= Cardinality(Unpaid(b)')
    BY <2>1, UnpaidGrows
  <2>3. row'[b] # "absent" /\ \A c \in Batches : c # b => row'[c] = row[c]
    BY <1>10, <2>1 DEF TypeOK
  <2>4. ReleaseUnbilled(b, outcome') /\ row[b] = "ended" /\ GaveBack(b)
    BY <1>10, <2>1 DEF ReleaseInv
  <2>5. GaveBack(b)'
    BY <1>10, <2>2, <2>3, <2>4, GaveBackUnbilled
  <2>6. \A c \in Batches : c # b => Kept(c)
    BY <1>10, <2>3, <2>4, ReleasesOne
  <2> QED
    BY <1>0, <2>5, <2>6 DEF ReleaseInv
<1>11. CASE CompleteIngest \/ (IngestFails /\ released' # released)
  <2>1. CASE CompleteIngest
    BY <1>10, <2>1 DEF CompleteIngest
  <2>2. CASE IngestFails /\ released' # released
    BY <1>10, <2>2 DEF IngestFails
  <2> QED
    BY <1>11, <2>1, <2>2
<1>12. CASE CancelRun
  <2>1. \A c \in Batches : row'[c] = "absent" => row[c] = "absent"
    BY <1>12, MarkedKeepsAbsent DEF CancelRun
  <2> QED
    BY <1>1, <1>12, <2>1 DEF CancelRun
<1>13. CASE TimePasses
  BY <1>1, <1>13 DEF TimePasses, DeadlinePasses, GraceEnds
<1>14. CASE ProcessDies
  <2>1. Die /\ UNCHANGED <<row, released>>
    BY <1>14 DEF ProcessDies, Crash, CancelThenCrash, CatchErrorThenCrash, HandOffThenCrash
  <2>2. \A b \in Batches : remote'[b] = remote[b] \/ sub[b] = "flight"
    BY <2>1 DEF Die, TypeOK
  <2>3. ASSUME NEW b \in Batches PROVE GaveBack(b)'
    <3>1. CASE sub[b] = "flight"
      BY <2>1, <2>3, <3>1, GaveBackAtFirst DEF ReleaseInv, GaveBack, DispatchInv, SubmissionKnown
    <3>2. CASE sub[b] # "flight"
      BY <1>0, <2>1, <2>2, <2>3, <3>2 DEF Die
    <3> QED
      BY <3>1, <3>2
  <2> QED
    BY <2>3 DEF ReleaseInv
<1>15. CASE Restart
  BY <1>1, <1>15 DEF Restart, TypeOK
<1>16. CASE UNCHANGED vars
  BY <1>1, <1>16 DEF vars
<1>17. CASE PollReturns \/ IngestReturns
  BY <1>9, <1>11, <1>17 DEF IngestReturns
<1> QED
  BY <1>2, <1>3, <1>4, <1>5, <1>6, <1>7, <1>8, <1>12, <1>13, <1>14, <1>15, <1>16, <1>17
  DEF Next, SweepStep

-----------------------------------------------------------------------------
(* The balance of the day's counter. *)

\* What the sweep has still to give back is what it has not sent.
LEMMA UnsentIs ==
  ASSUME TypeOK, DispatchInv, NEW p \in Providers
  PROVE  Unsent(p) = IF reserved /\ p \in Called THEN Cardinality(Units(p)) - dispatched[p] ELSE 0
<1>1. reserved => Cardinality(Units(p)) >= dispatched[p]
  BY SentFinite DEF DispatchInv
<1>2. Cardinality(Units(p)) \in Nat /\ dispatched[p] \in Int
  BY UnitsNat DEF TypeOK
<1> QED
  BY <1>1, <1>2 DEF Unsent, AtLeastZero

LEMMA OwedInt ==
  ASSUME TypeOK, NEW p \in Providers
  PROVE  /\ Owed(p) = Unsent(p) + SyncCalls(p) + StillReserved(p)
         /\ Unsent(p) \in Nat /\ SyncCalls(p) \in Nat /\ StillReserved(p) \in Int
         /\ Owed(p) \in Int /\ used[p] \in Int
<1>1. Unsent(p) \in Nat
  BY UnsentNat DEF TypeOK
<1>2. SyncCalls(p) \in Nat /\ StillReserved(p) \in Int
  BY SyncNat, StillInt
<1> QED
  BY <1>1, <1>2 DEF Owed, TypeOK

\* The same facts of the state after a step.
LEMMA UnsentNext ==
  ASSUME TypeOK', DispatchInv', NEW p \in Providers
  PROVE  /\ Unsent(p)' = IF reserved' /\ p \in Called
                         THEN Cardinality(Units(p)) - dispatched'[p] ELSE 0
         /\ Unsent(p)' \in Nat
<1>1. PICK n \in Nat : n = Cardinality(Units(p))
  BY UnitsNat
<1>2. dispatched'[p] \in Int
  BY DEF TypeOK
<1>3. reserved' => n >= dispatched'[p]
  <2> SUFFICES ASSUME reserved' PROVE n >= dispatched'[p]
    OBVIOUS
  <2>1. PICK S : S = Sent(p)'
    OBVIOUS
  <2>2. S \subseteq Units(p) /\ Units(p) \subseteq Slots
    BY <2>1 DEF Sent, Units
  <2>3. IsFiniteSet(Units(p))
    BY <2>2, FS_Subset, ManifestAssumption
  <2>4. Cardinality(S) <= n
    BY <1>1, <2>2, <2>3, FS_Subset
  <2>5. dispatched'[p] = Cardinality(S)
    BY <2>1 DEF DispatchInv
  <2>6. Cardinality(S) \in Nat
    BY <2>2, CountNat
  <2> QED
    BY <1>1, <2>4, <2>5, <2>6
<1>4. Unsent(p)' = IF reserved' /\ p \in Called THEN AtLeastZero(n - dispatched'[p]) ELSE 0
  BY <1>1 DEF Unsent, Units, Called, AtLeastZero
<1> QED
  BY <1>1, <1>2, <1>3, <1>4 DEF AtLeastZero

LEMMA OwedNext ==
  ASSUME TypeOK', DispatchInv', NEW p \in Providers
  PROVE  /\ Owed(p)' = Unsent(p)' + SyncCalls(p)' + StillReserved(p)'
         /\ Unsent(p)' \in Nat /\ SyncCalls(p)' \in Nat /\ StillReserved(p)' \in Int
         /\ Owed(p)' \in Int /\ used'[p] \in Int
<1>1. SyncCalls(p)' \in Nat
  <2>1. {s \in Units(p) : calls'[s] > 0} \subseteq Slots
    BY DEF Units
  <2> QED
    BY <2>1, CountNat DEF SyncCalls, Units
<1>2. StillReserved(p)' \in Int
  <2>1. PICK h : h = Holds'
    OBVIOUS
  <2>2. \A b \in Batches : h[b] = Size(b) - released'[b]
    BY <2>1 DEF Holds, Size
  <2>3. \A b \in Batches : h[b] \in Int
    BY <2>2, SizeNat DEF TypeOK
  <2>4. PICK B : B = RowsOf(p)'
    OBVIOUS
  <2>5. B \subseteq Batches /\ IsFiniteSet(B)
    BY <2>4, BatchesFinite, FS_Subset DEF RowsOf, Rows
  <2>6. SumFunctionOnSet(h, B) \in Int
    BY <2>3, <2>5, SumInt
  <2> QED
    BY <2>1, <2>4, <2>6 DEF StillReserved, Holds, RowsOf
<1>3. Owed(p)' = Unsent(p)' + SyncCalls(p)' + StillReserved(p)'
  BY DEF Owed
<1> QED
  BY <1>1, <1>2, <1>3, UnsentNext DEF TypeOK

\* A step that takes as much from the counter as from what it is owed for.
Balanced(p) == used'[p] - used[p] = Owed(p)' - Owed(p)

LEMMA CounterMoves ==
  ASSUME TypeOK, TypeOK', DispatchInv', CounterInv, crashes' = crashes,
         \A p \in Providers : Balanced(p)
  PROVE  CounterInv'
<1> SUFFICES ASSUME NEW p \in Providers
             PROVE  used'[p] >= Owed(p)' /\ (crashes' = 0 => used'[p] = Owed(p)')
  BY DEF CounterInv
<1>1. used[p] \in Int /\ Owed(p) \in Int /\ used'[p] \in Int /\ Owed(p)' \in Int
  BY OwedInt, OwedNext
<1>2. used[p] >= Owed(p) /\ (crashes = 0 => used[p] = Owed(p))
  BY DEF CounterInv
<1>3. used'[p] - used[p] = Owed(p)' - Owed(p)
  BY DEF Balanced
<1> QED
  BY <1>1, <1>2, <1>3

\* Steps that pay for nothing and give nothing back.
LEMMA CounterKept ==
  ASSUME CounterInv, UNCHANGED <<used, reserved, dispatched, calls, released, crashes>>,
         \A b \in Batches : row'[b] = "absent" <=> row[b] = "absent"
  PROVE  CounterInv'
<1>1. Rows' = Rows
  BY DEF Rows
<1>2. \A p \in Providers : Owed(p)' = Owed(p)
  <2> SUFFICES ASSUME NEW p \in Providers PROVE Owed(p)' = Owed(p)
    OBVIOUS
  <2>1. StillReserved(p)' = StillReserved(p)
    BY <1>1, StillSame
  <2>2. SyncCalls(p)' = SyncCalls(p) /\ Unsent(p)' = Unsent(p)
    BY DEF SyncCalls, Unsent, Units, Called
  <2> QED
    BY <2>1, <2>2 DEF Owed
<1> QED
  BY <1>2 DEF CounterInv

\* flushProviderUsage gives back exactly what was never sent.
LEMMA CounterFlush ==
  ASSUME TypeOK, TypeOK', DispatchInv', CounterInv, FlushProviderUsage,
         UNCHANGED <<dispatched, calls, released, crashes>>,
         \A b \in Batches : row'[b] = "absent" <=> row[b] = "absent"
  PROVE  CounterInv'
<1>1. Rows' = Rows
  BY DEF Rows
<1>2. ASSUME NEW p \in Providers PROVE Balanced(p)
  <2>1. StillReserved(p)' = StillReserved(p)
    BY <1>1, StillSame
  <2>2. SyncCalls(p)' = SyncCalls(p) /\ Unsent(p)' = 0
    BY DEF SyncCalls, Unsent, Units, Called, FlushProviderUsage
  <2>3. used'[p] = used[p] - Unsent(p)
    BY DEF FlushProviderUsage
  <2> QED
    BY <2>1, <2>2, <2>3, OwedInt, OwedNext DEF Balanced
<1> QED
  BY <1>2, CounterMoves

LEMMA CounterStart ==
  ASSUME IInv, TypeOK', DispatchInv, DispatchInv', CounterInv, StartRun
  PROVE  CounterInv'
<1>1. UNCHANGED <<row, released, calls, dispatched, crashes>> /\ reserved' = TRUE
  BY DEF StartRun, procVars
<1>2. Rows' = Rows
  BY <1>1 DEF Rows
<1>3. ASSUME NEW p \in Providers PROVE Balanced(p)
  <2>1. StillReserved(p)' = StillReserved(p) /\ SyncCalls(p)' = SyncCalls(p)
    BY <1>1, <1>2, StillSame DEF SyncCalls, Units
  <2>2. dispatched[p] = 0 /\ ~reserved
    BY DEF StartRun, DispatchInv, Unstarted
  <2>3. Unsent(p) = 0
    BY <2>2 DEF Unsent
  <2>4. Unsent(p)' = IF p \in Called THEN Cardinality(Units(p)) ELSE 0
    BY <1>1, <2>2, UnsentNext, UnitsNat
  <2>5. used'[p] = used[p] + IF p \in Called THEN Cardinality(Units(p)) ELSE 0
    BY DEF StartRun
  <2> QED
    BY <2>1, <2>3, <2>4, <2>5, OwedInt, OwedNext DEF Balanced, IInv
<1> QED
  BY <1>1, <1>3, CounterMoves DEF IInv

\* Lines that are submitted move from what is unsent to what the row holds.
LEMMA CounterSubmit ==
  ASSUME IInv, TypeOK', DispatchInv, DispatchInv', ReleaseInv, CounterInv,
         NEW b \in Batches, SubmitBatch(b)
  PROVE  CounterInv'
<1> USE DEF IInv
<1>1. /\ reserved /\ row[b] = "absent" /\ released[b] = 0 /\ b \notin Rows
      /\ OwnerOf(b) \in Providers /\ OwnerOf(b) \in Called
  BY BatchFacts DEF SubmitBatch, MaySubmit, DispatchInv, SubmissionKnown, Rows, ReleaseInv,
                    GaveBack
<1>2. UNCHANGED <<used, reserved, calls, released, crashes>>
  BY DEF SubmitBatch, procVars
<1>3. Rows' = Rows \cup {b}
  BY DEF Rows, SubmitBatch, TypeOK
<1>4. ASSUME NEW p \in Providers PROVE Balanced(p)
  <2>1. StillReserved(p)' = StillReserved(p) + IF OwnerOf(b) = p THEN Size(b) ELSE 0
    BY <1>1, <1>2, <1>3, StillAdds
  <2>2. SyncCalls(p)' = SyncCalls(p)
    BY <1>2 DEF SyncCalls, Units
  <2>3. dispatched'[p] = dispatched[p] + IF OwnerOf(b) = p THEN Size(b) ELSE 0
    BY <1>1, SizeNat DEF SubmitBatch, TypeOK
  <2>4. Unsent(p) = IF p \in Called THEN Cardinality(Units(p)) - dispatched[p] ELSE 0
    BY <1>1, UnsentIs
  <2>5. Unsent(p)' = IF p \in Called THEN Cardinality(Units(p)) - dispatched'[p] ELSE 0
    BY <1>1, <1>2, UnsentNext
  <2>6. Unsent(p)' = Unsent(p) - IF OwnerOf(b) = p THEN Size(b) ELSE 0
    BY <1>1, <2>3, <2>4, <2>5, UnitsNat, SizeNat DEF TypeOK
  <2>7. Owed(p)' = Owed(p)
    <3>1. PICK k \in Nat : k = IF OwnerOf(b) = p THEN Size(b) ELSE 0
      BY SizeNat
    <3>2. StillReserved(p)' = StillReserved(p) + k /\ Unsent(p)' = Unsent(p) - k
      BY <2>1, <2>6, <3>1
    <3> QED
      BY <2>2, <3>1, <3>2, OwedInt, OwedNext
  <2> QED
    BY <1>2, <2>7, OwedInt DEF Balanced
<1> QED
  BY <1>2, <1>4, CounterMoves

\* A refused submission gives its lines back to a live sweep, or to the counter.
LEMMA CounterRefused ==
  ASSUME IInv, TypeOK', DispatchInv, DispatchInv', ReleaseInv, CounterInv,
         NEW b \in Batches, SubmitRefused(b)
  PROVE  CounterInv'
<1> USE DEF IInv
<1>1. /\ b \in Rows /\ released[b] = 0 /\ row[b] # "absent"
      /\ OwnerOf(b) \in Providers /\ OwnerOf(b) \in Called
  BY BatchFacts DEF SubmitRefused, DispatchInv, SubmissionKnown, Rows, ReleaseInv, GaveBack
<1>2. UNCHANGED <<reserved, calls, crashes>> /\ released' = [released EXCEPT ![b] = Size(b)]
  BY DEF SubmitRefused, procVars
<1>3. Rows' = Rows
  BY <1>1 DEF Rows, SubmitRefused, TypeOK
<1>4. released'[b] = Size(b) /\ \A c \in Batches : c # b => released'[c] = released[c]
  BY <1>2 DEF TypeOK
<1>5. ASSUME NEW p \in Providers PROVE Balanced(p)
  <2>1. StillReserved(p)' = StillReserved(p) - IF OwnerOf(b) = p THEN Size(b) ELSE 0
    <3>1. StillReserved(p)' = StillReserved(p)
            - (IF OwnerOf(b) = p THEN released'[b] - released[b] ELSE 0)
      BY <1>1, <1>3, <1>4, StillGives
    <3> QED
      BY <1>1, <1>4, <3>1, SizeNat
  <2>2. SyncCalls(p)' = SyncCalls(p)
    BY <1>2 DEF SyncCalls, Units
  <2>3. CASE reserved
    <3>1. used' = used
      BY <2>3 DEF SubmitRefused
    <3>2. dispatched'[p] = dispatched[p] - IF OwnerOf(b) = p THEN Size(b) ELSE 0
      BY <2>3, <1>1, SizeNat DEF SubmitRefused, TypeOK
    <3>3. Unsent(p) = IF p \in Called THEN Cardinality(Units(p)) - dispatched[p] ELSE 0
      BY <2>3, UnsentIs
    <3>4. Unsent(p)' = IF p \in Called THEN Cardinality(Units(p)) - dispatched'[p] ELSE 0
      BY <1>2, <2>3, UnsentNext
    <3>5. Unsent(p)' = Unsent(p) + IF OwnerOf(b) = p THEN Size(b) ELSE 0
      BY <1>1, <3>2, <3>3, <3>4, UnitsNat, SizeNat DEF TypeOK
    <3>6. PICK k \in Nat : k = IF OwnerOf(b) = p THEN Size(b) ELSE 0
      BY SizeNat
    <3>7. StillReserved(p)' = StillReserved(p) - k /\ Unsent(p)' = Unsent(p) + k
      BY <2>1, <3>5, <3>6
    <3>8. Owed(p)' = Owed(p)
      BY <2>2, <3>6, <3>7, OwedInt, OwedNext
    <3> QED
      BY <3>1, <3>8, OwedInt DEF Balanced
  <2>4. CASE ~reserved
    <3>1. used'[p] = used[p] - IF OwnerOf(b) = p THEN Size(b) ELSE 0
      BY <1>1, <2>4, SizeNat DEF SubmitRefused, TypeOK
    <3>2. Unsent(p)' = 0 /\ Unsent(p) = 0
      BY <1>2, <2>4 DEF Unsent
    <3>3. PICK k \in Nat : k = IF OwnerOf(b) = p THEN Size(b) ELSE 0
      BY SizeNat
    <3>4. StillReserved(p)' = StillReserved(p) - k /\ used'[p] = used[p] - k
      BY <2>1, <3>1, <3>3
    <3>5. Owed(p)' = Owed(p) - k
      BY <2>2, <3>2, <3>3, <3>4, OwedInt, OwedNext
    <3> QED
      BY <3>3, <3>4, <3>5, OwedInt, OwedNext DEF Balanced
  <2> QED
    BY <2>3, <2>4
<1> QED
  BY <1>2, <1>5, CounterMoves

\* A sync call takes the place of a slot that was reserved and not sent; only
\* a sweep at work makes one while the storage works.
LEMMA CounterCall ==
  ASSUME StorageErrors = FALSE, IInv, TypeOK', DispatchInv, DispatchInv', CounterInv,
         NEW s \in Slots, Dispatch(s)
  PROVE  CounterInv'
<1> USE DEF IInv
<1>1. s \in handed /\ call[s] = "idle" /\ calls[s] = 0 /\ status # "cancelled"
  BY DEF Dispatch, MayCall, PaymentInv
<1>2. reserved
  <2>1. sweep # "idle"
    BY <1>1 DEF SweepInv
  <2>2. sweep # "over"
    BY <1>1 DEF SweepInv
  <2> QED
    BY <2>1, <2>2 DEF DispatchInv, TypeOK
<1>3. UNCHANGED <<used, reserved, row, released, crashes>>
      /\ calls' = [calls EXCEPT ![s] = @ + 1]
      /\ dispatched' = [dispatched EXCEPT ![ProviderOf[s]] = @ + 1]
  BY DEF Dispatch, procVars, dbVars
<1>4. Rows' = Rows
  BY <1>3 DEF Rows
<1>5. ProviderOf[s] \in Called /\ ProviderOf[s] \in Providers
  BY <1>1, ManifestAssumption DEF DispatchInv
<1>6. ASSUME NEW p \in Providers PROVE Balanced(p)
  <2>1. StillReserved(p)' = StillReserved(p)
    BY <1>3, <1>4, StillSame
  <2>2. SyncCalls(p)' = SyncCalls(p) + IF ProviderOf[s] = p THEN 1 ELSE 0
    <3>1. PICK S : S = {t \in Units(p) : calls[t] > 0}
      OBVIOUS
    <3>2. PICK T : T = {t \in Units(p) : calls'[t] > 0}
      OBVIOUS
    <3>3. SyncCalls(p) = Cardinality(S) /\ SyncCalls(p)' = Cardinality(T)
      BY <3>1, <3>2 DEF SyncCalls, Units
    <3>4. S \subseteq Slots /\ IsFiniteSet(S)
      BY <3>1, FS_Subset, ManifestAssumption DEF Units
    <3>5. CASE ProviderOf[s] = p
      <4>1. s \notin S /\ T = S \cup {s}
        BY <1>1, <1>3, <3>1, <3>2, <3>5 DEF Units, TypeOK
      <4>2. Cardinality(S \cup {s}) = Cardinality(S) + 1
        BY <3>4, <4>1, FS_AddElement
      <4> QED
        BY <3>3, <3>5, <4>1, <4>2
    <3>6. CASE ProviderOf[s] # p
      <4>1. T = S
        BY <1>3, <3>1, <3>2, <3>6 DEF Units, TypeOK
      <4> QED
        BY <3>3, <3>4, <3>6, <4>1, CountNat
    <3> QED
      BY <3>5, <3>6
  <2>3. dispatched'[p] = dispatched[p] + IF ProviderOf[s] = p THEN 1 ELSE 0
    BY <1>3, <1>5 DEF TypeOK
  <2>4. Unsent(p) = IF p \in Called THEN Cardinality(Units(p)) - dispatched[p] ELSE 0
    BY <1>2, UnsentIs
  <2>5. Unsent(p)' = IF p \in Called THEN Cardinality(Units(p)) - dispatched'[p] ELSE 0
    BY <1>2, <1>3, UnsentNext
  <2>6. Unsent(p)' = Unsent(p) - IF ProviderOf[s] = p THEN 1 ELSE 0
    BY <1>5, <2>3, <2>4, <2>5, UnitsNat DEF TypeOK
  <2> QED
    BY <1>3, <2>1, <2>2, <2>6, OwedInt, OwedNext DEF Balanced
<1> QED
  BY <1>3, <1>6, CounterMoves

\* What a batch gives back leaves the counter and its row together.
LEMMA CounterGives ==
  ASSUME TypeOK, TypeOK', DispatchInv', CounterInv, NEW b \in Batches, NEW out,
         ReleaseUnbilled(b, out), row[b] = "ended",
         \A c \in Batches : row'[c] = "absent" <=> row[c] = "absent",
         UNCHANGED <<reserved, dispatched, calls, crashes>>
  PROVE  CounterInv'
<1>1. b \in Rows /\ Rows' = Rows
  BY DEF Rows
<1>2. PICK k \in Nat : k = UnbilledNow(b, out)
  BY UnbilledNat DEF TypeOK
<1>3. released'[b] - released[b] = k
  BY <1>2 DEF ReleaseUnbilled, TypeOK
<1>4. ASSUME NEW p \in Providers PROVE Balanced(p)
  <2>1. PICK n \in Nat : n = IF OwnerOf(b) = p THEN k ELSE 0
    BY <1>2
  <2>2. StillReserved(p)' = StillReserved(p)
          - (IF OwnerOf(b) = p THEN released'[b] - released[b] ELSE 0)
    BY <1>1, ReleasesOne, StillGives
  <2>3. StillReserved(p)' = StillReserved(p) - n
    BY <1>3, <2>1, <2>2
  <2>4. used'[p] = used[p] - n
    BY <1>2, <2>1 DEF ReleaseUnbilled, TypeOK
  <2>5. SyncCalls(p)' = SyncCalls(p) /\ Unsent(p)' = Unsent(p)
    BY DEF SyncCalls, Unsent, Units, Called
  <2>6. Owed(p)' = Owed(p) - n
    BY <2>1, <2>3, <2>5, OwedInt, OwedNext
  <2> QED
    BY <2>1, <2>4, <2>6, OwedInt DEF Balanced
<1> QED
  BY <1>4, CounterMoves

\* A process that dies gives nothing back: the counter is left too high.
LEMMA CounterDie ==
  ASSUME TypeOK, TypeOK', DispatchInv', CounterInv, Die,
         UNCHANGED <<used, row, released>>
  PROVE  CounterInv'
<1>1. crashes' = crashes + 1 /\ crashes \in Nat /\ calls' = calls /\ reserved' = FALSE
  BY ManifestAssumption DEF Die, TypeOK
<1>2. Rows' = Rows
  BY DEF Rows
<1>3. ASSUME NEW p \in Providers PROVE used'[p] >= Owed(p)'
  <2>1. StillReserved(p)' = StillReserved(p)
    BY <1>2, StillSame
  <2>2. SyncCalls(p)' = SyncCalls(p) /\ Unsent(p)' = 0
    BY <1>1 DEF SyncCalls, Unsent, Units
  <2>3. Owed(p)' <= Owed(p)
    BY <2>1, <2>2, OwedInt, OwedNext
  <2>4. used[p] >= Owed(p) /\ used'[p] = used[p]
    BY DEF CounterInv
  <2> QED
    BY <2>3, <2>4, OwedInt, OwedNext
<1> QED
  BY <1>1, <1>3 DEF CounterInv

LEMMA CounterStep ==
  ASSUME StorageErrors = FALSE, IInv, TypeOK', DispatchInv, DispatchInv', ReleaseInv,
         CounterInv, [Next]_vars
  PROVE  CounterInv'
<1> USE DEF IInv
<1> DEFINE SameRows == \A b \in Batches : row'[b] = "absent" <=> row[b] = "absent"
           Same == UNCHANGED <<used, reserved, dispatched, calls, released, crashes>>
<1>0. SameRows /\ Same => CounterInv'
  BY CounterKept
<1>2. CASE Begin \/ SeeCancelled
  <2>1. CASE StartRun
    BY <2>1, CounterStart
  <2>2. CASE StartRefused \/ StartCancelled \/ SeeCancelled
    <3>1. SameRows /\ Same
      BY <2>2 DEF StartRefused, StartCancelled, SeeCancelled, dbVars, procVars
    <3> QED
      BY <1>0, <3>1
  <2> QED
    BY <1>2, <2>1, <2>2 DEF Begin
<1>3. CASE SweepEnd \/ FinalizeBatchRun
  <2>1. CASE CatchCancel \/ CatchError
    <3>1. SameRows
      BY <2>1, MarkedKeepsAbsent DEF CatchCancel, CatchError
    <3>2. FlushProviderUsage /\ UNCHANGED <<dispatched, calls, released, crashes>>
      BY <2>1 DEF CatchCancel, CatchError, procVars
    <3> QED
      BY <3>1, <3>2, CounterFlush
  <2>2. CASE FinalizeRun \/ HandOff \/ HandOffSettled
    <3>1. FlushProviderUsage /\ SameRows /\ UNCHANGED <<dispatched, calls, released, crashes>>
      BY <2>2 DEF FinalizeRun, HandOff, HandOffSettled, procVars
    <3> QED
      BY <3>1, CounterFlush
  <2>3. CASE EndWriteFails \/ FinalizeBatchRun
    <3>1. SameRows /\ Same
      BY <2>3 DEF EndWriteFails, FinalizeBatchRun, dbVars, procVars, sweepVars
    <3> QED
      BY <1>0, <3>1
  <2> QED
    BY <1>3, <2>1, <2>2, <2>3 DEF SweepEnd
<1>4. ASSUME NEW b \in Batches, SubmitBatch(b) PROVE CounterInv'
  BY <1>4, CounterSubmit
<1>5. ASSUME NEW b \in Batches, LedgerFails(b) PROVE CounterInv'
  BY <1>5 DEF LedgerFails
<1>6. ASSUME NEW b \in Batches, SubmitReturns(b) PROVE CounterInv'
  <2>1. row[b] # "absent"
    BY <1>6
    DEF SubmitReturns, SubmitAccepted, SubmitRefused, SubmitUnknown, SubmitWriteFails,
        DispatchInv, SubmissionKnown
  <2>2. CASE SubmitAccepted(b) \/ SubmitUnknown(b) \/ SubmitWriteFails(b)
    <3>1. SameRows
      BY <2>1, <2>2 DEF SubmitAccepted, SubmitUnknown, SubmitWriteFails, TypeOK, dbVars
    <3>2. Same
      BY <2>2 DEF SubmitAccepted, SubmitUnknown, SubmitWriteFails, dbVars, procVars
    <3> QED
      BY <1>0, <3>1, <3>2
  <2>3. CASE SubmitRefused(b)
    BY <2>3, CounterRefused
  <2> QED
    BY <1>6, <2>2, <2>3 DEF SubmitReturns
<1>7. ASSUME NEW s \in Slots, Dispatch(s) PROVE CounterInv'
  BY <1>7, CounterCall
<1>8. ASSUME NEW s \in Slots, CallAnswered(s) \/ CallFailed(s) \/ ReadLine(s)
      PROVE  CounterInv'
  <2>1. SameRows /\ Same
    BY <1>8 DEF CallAnswered, CallFailed, ReadLine, dbVars, procVars, sweepVars
  <2> QED
    BY <1>0, <2>1
<1>9. ASSUME NEW b \in Batches, Abandon(b) \/ Advance(b) \/ StopAtProvider(b)
      PROVE  CounterInv'
  <2>1. SameRows
    BY <1>9, MarkedKeepsAbsent DEF Abandon, Advance, StopAtProvider, dbVars
  <2>2. Same
    BY <1>9 DEF Abandon, Advance, StopAtProvider, dbVars, procVars, sweepVars
  <2> QED
    BY <1>0, <2>1, <2>2
<1>11. CASE PollReturns \/ IngestCancelled \/ FlushChunk
            \/ (IngestFails /\ UNCHANGED <<used, released>>)
  <2>1. SameRows
    <3>1. CASE PollEnded \/ IngestCancelled
      BY <3>1, MarkedKeepsAbsent DEF PollEnded, IngestCancelled, TypeOK
    <3>2. CASE PollNotEnded \/ FlushChunk \/ IngestFails
      BY <3>2 DEF PollNotEnded, FlushChunk, IngestFails, Lost, TypeOK
    <3> QED
      BY <1>11, <3>1, <3>2 DEF PollReturns
  <2>2. Same
    BY <1>11 DEF PollReturns, PollEnded, PollNotEnded, IngestCancelled, FlushChunk, IngestFails,
                 sweepVars, procVars
  <2> QED
    BY <1>0, <2>1, <2>2
<1>12. CASE CompleteIngest \/ (IngestFails /\ ~UNCHANGED <<used, released>>)
  <2>1. PICK b \in Batches : b = at
    BY <1>12 DEF CompleteIngest, IngestFails, TypeOK
  <2>2. PICK out : ReleaseUnbilled(b, out)
    BY <1>12, <2>1 DEF CompleteIngest, IngestFails
  <2>3. row[b] = "ended" /\ SameRows
    BY <1>12, <2>1 DEF CompleteIngest, IngestFails, TypeOK
  <2>4. UNCHANGED <<reserved, dispatched, calls, crashes>>
    BY <1>12 DEF CompleteIngest, IngestFails, sweepVars, procVars
  <2> QED
    BY <2>2, <2>3, <2>4, CounterGives
<1>13. CASE CancelRun
  <2>1. SameRows
    BY <1>13, MarkedKeepsAbsent DEF CancelRun
  <2>2. Same
    BY <1>13 DEF CancelRun, sweepVars, procVars
  <2> QED
    BY <1>0, <2>1, <2>2
<1>14. CASE TimePasses
  <2>1. SameRows /\ Same
    BY <1>14 DEF TimePasses, DeadlinePasses, GraceEnds, dbVars, sweepVars, procVars
  <2> QED
    BY <1>0, <2>1
<1>15. CASE ProcessDies
  <2>1. Die /\ UNCHANGED <<used, row, released>>
    BY <1>15
    DEF ProcessDies, Crash, CancelThenCrash, CatchErrorThenCrash, HandOffThenCrash, dbVars
  <2> QED
    BY <2>1, CounterDie
<1>16. CASE Restart
  <2>1. SameRows /\ Same
    BY <1>16 DEF Restart, TypeOK, sweepVars
  <2> QED
    BY <1>0, <2>1
<1>17. CASE UNCHANGED vars
  <2>1. SameRows /\ Same
    BY <1>17 DEF vars, dbVars, sweepVars, procVars
  <2> QED
    BY <1>0, <2>1
<1>18. CASE PollReturns \/ IngestReturns
  BY <1>11, <1>12, <1>18 DEF IngestReturns
<1> QED
  BY <1>2, <1>3, <1>4, <1>5, <1>6, <1>7, <1>8, <1>9, <1>13, <1>14, <1>15, <1>16, <1>17, <1>18
  DEF Next, SweepStep

-----------------------------------------------------------------------------
(* The quota. *)

\* The lines a provider may bill for are held by the rows of its batches.
LEMMA BillableHeld ==
  ASSUME TypeOK, ReleaseInv, NEW p \in Providers
  PROVE  Cardinality(Billable(p)) <= StillReserved(p)
<1> DEFINE Billed == [b \in Batches |-> IF remote[b] = "none" THEN {} ELSE LinesOf[b] \ Unpaid(b)]
<1>1. ASSUME NEW b \in Batches
      PROVE  /\ IsFiniteSet(Billed[b]) /\ Holds[b] \in Int
             /\ Cardinality(Billed[b]) <= Holds[b]
  <2>1. Holds[b] = Size(b) - released[b] /\ Holds[b] \in Int /\ Size(b) \in Nat
    BY HoldsInt, SizeNat DEF Holds
  <2>2. GaveBack(b)
    BY DEF ReleaseInv
  <2>3. released[b] \in 0..Size(b)
    BY <2>2 DEF GaveBack
  <2>4. CASE remote[b] = "none"
    <3>1. Billed[b] = {}
      BY <2>4
    <3>2. IsFiniteSet(Billed[b]) /\ Cardinality(Billed[b]) = 0
      BY <3>1, FS_EmptySet
    <3> QED
      BY <2>1, <2>3, <3>2
  <2>5. CASE remote[b] # "none"
    <3>1. Unpaid(b) \subseteq LinesOf[b] /\ LinesOf[b] \subseteq Slots
      BY BatchFacts DEF Unpaid
    <3>2. Billed[b] = LinesOf[b] \ Unpaid(b)
      BY <2>5
    <3>3. IsFiniteSet(Billed[b])
      BY <3>1, <3>2, FS_Subset, ManifestAssumption
    <3>4. PICK B : B = Billed[b]
      OBVIOUS
    <3>5. Cardinality(Unpaid(b) \cup B) = Cardinality(Unpaid(b)) + Cardinality(B)
      BY <3>1, <3>2, <3>4, CountDisjoint
    <3>6. Unpaid(b) \cup B = LinesOf[b]
      BY <3>1, <3>2, <3>4
    <3>7. Cardinality(Unpaid(b)) \in Nat /\ Cardinality(B) \in Nat
      BY <3>1, <3>2, <3>4, CountNat
    <3>8. released[b] <= Cardinality(Unpaid(b))
      BY <2>2, <2>5 DEF GaveBack, Unpaid
    <3>9. Size(b) = Cardinality(Unpaid(b)) + Cardinality(B)
      BY <3>5, <3>6 DEF Size
    <3>10. Cardinality(B) <= Holds[b]
      BY <2>1, <2>3, <3>7, <3>8, <3>9
    <3> QED
      BY <2>1, <3>3, <3>4, <3>10
  <2> QED
    BY <2>4, <2>5
<1>2. Billable(p) \subseteq UNION {Billed[b] : b \in RowsOf(p)}
  <2> SUFFICES ASSUME NEW s \in Billable(p)
               PROVE  \E b \in RowsOf(p) : s \in Billed[b]
    OBVIOUS
  <2>1. PICK b \in Batches : s \in LinesOf[b] /\ remote[b] # "none" /\ outcome[s] \notin Unbilled
    BY DEF Billable
  <2>2. ProviderOf[s] = p /\ OwnerOf(b) = p
    BY <2>1, BatchFacts DEF Billable, Units
  <2>3. b \in RowsOf(p)
    BY <2>1, <2>2 DEF RowsOf, Rows, BatchesOf, ReleaseInv, GaveBack
  <2>4. s \in Billed[b]
    BY <2>1 DEF Unpaid
  <2> QED
    BY <2>3, <2>4
<1> HIDE DEF Billed
<1>3. \A b \in RowsOf(p) : IsFiniteSet(Billed[b]) /\ Cardinality(Billed[b]) <= Holds[b]
                           /\ Holds[b] \in Int
  BY <1>1, RowsFinite
<1>4. IsFiniteSet(RowsOf(p))
  BY RowsFinite
<1>5. PICK U : U = UNION {Billed[b] : b \in RowsOf(p)}
  OBVIOUS
<1>6. IsFiniteSet(U) /\ Cardinality(U) <= SumFunctionOnSet(Holds, RowsOf(p))
  BY <1>3, <1>4, <1>5, CountUnion
<1>7. Cardinality(Billable(p)) <= Cardinality(U)
  BY <1>2, <1>5, <1>6, FS_Subset
<1>8. Cardinality(Billable(p)) \in Nat /\ Cardinality(U) \in Nat
  BY <1>6, FS_CardinalityType, CountNat DEF Billable, Units
<1> QED
  BY <1>6, <1>7, <1>8, StillIs, StillInt

\* A sweep that ended without a crash flushed its reservation.
LEMMA QuotaFollows ==
  ASSUME TypeOK, DispatchInv, ReleaseInv, CounterInv
  PROVE  QuotaExact
<1> SUFFICES ASSUME NEW p \in Providers
             PROVE  /\ used[p] >= SyncCalls(p) + Cardinality(Billable(p))
                    /\ crashes = 0 /\ sweep = "over" => used[p] = SyncCalls(p) + StillReserved(p)
  BY DEF QuotaExact
<1>1. used[p] >= Owed(p) /\ (crashes = 0 => used[p] = Owed(p))
  BY DEF CounterInv
<1>2. Cardinality(Billable(p)) \in Nat
  BY CountNat DEF Billable, Units
<1>3. used[p] >= SyncCalls(p) + Cardinality(Billable(p))
  BY <1>1, <1>2, BillableHeld, OwedInt
<1>4. ASSUME crashes = 0, sweep = "over" PROVE used[p] = SyncCalls(p) + StillReserved(p)
  <2>1. Unsent(p) = 0
    BY <1>4 DEF DispatchInv, Unsent
  <2> QED
    BY <1>1, <1>4, <2>1, OwedInt
<1> QED
  BY <1>3, <1>4

LEMMA CounterInit == Init => ReleaseInv /\ CounterInv
<1> SUFFICES ASSUME Init PROVE ReleaseInv /\ CounterInv
  OBVIOUS
<1>1. ReleaseInv
  BY SizeNat DEF Init, ReleaseInv, GaveBack
<1>2. TypeOK
  BY TypeInit
<1>3. ASSUME NEW p \in Providers PROVE used[p] = Owed(p) /\ used[p] = 0
  <2>1. SyncCalls(p) = 0
    <3>1. {s \in Units(p) : calls[s] > 0} = {}
      BY DEF Init, Units
    <3> QED
      BY <3>1, FS_EmptySet DEF SyncCalls
  <2>2. StillReserved(p) = 0
    <3>1. RowsOf(p) = {}
      BY DEF Init, RowsOf, Rows
    <3> QED
      BY <3>1, SumEmpty, StillIs
  <2>3. Unsent(p) = 0 /\ used[p] = 0
    BY DEF Init, Unsent
  <2> QED
    BY <2>1, <2>2, <2>3 DEF Owed
<1>4. CounterInv
  BY <1>3 DEF CounterInv
<1> QED
  BY <1>1, <1>4

\* What batches give back is bounded by the lines nobody billed, storage errors
\* and crashes included: no batch returns more quota than it ever held.
THEOREM ReleasesBounded == Spec => []ReleaseInv
<1>1. Init => ReleaseInv
  BY CounterInit
<1>2. IInv /\ DispatchInv /\ ReleaseInv /\ [Next]_vars => ReleaseInv'
  BY ReleaseStep
<1> QED
  BY <1>1, <1>2, Invariant, DispatchKnown, PTL DEF Spec

\* While the storage works, the counter never falls below what the provider may
\* bill, and without a crash nothing that was reserved leaks.
THEOREM QuotaCorrect == StorageErrors = FALSE => (Spec => []QuotaExact)
<1> SUFFICES ASSUME StorageErrors = FALSE PROVE Spec => []QuotaExact
  OBVIOUS
<1>1. Init => CounterInv
  BY CounterInit
<1>2. /\ IInv /\ IInv' /\ DispatchInv /\ DispatchInv' /\ ReleaseInv /\ CounterInv /\ [Next]_vars
      => CounterInv'
  BY CounterStep DEF IInv
<1>3. IInv /\ DispatchInv /\ ReleaseInv /\ CounterInv => QuotaExact
  BY QuotaFollows DEF IInv
<1> QED
  BY <1>1, <1>2, <1>3, Invariant, DispatchKnown, ReleasesBounded, PTL DEF Spec
=============================================================================
