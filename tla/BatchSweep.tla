------------------------------ MODULE BatchSweep ------------------------------
(***************************************************************************)
(* One plan-aware answer-visibility run of the in-process job runner, from *)
(* the queue to its terminal status: the sweep that answers some slots by  *)
(* sync provider calls and hands the others to a provider's batch API, the *)
(* batch poller that polls, cancels and ingests those batches, the cancel  *)
(* route, and boot recovery after the process died.                        *)
(*                                                                         *)
(* The process is single-threaded: an action is what runs between two      *)
(* awaits.  A synchronous stretch made of several database transactions    *)
(* can only be cut by the process dying, which is an action of its own     *)
(* (the ...ThenCrash actions).                                             *)
(***************************************************************************)
EXTENDS Integers, FiniteSets, Functions

CONSTANTS
  Slots,         \* the run's expected slots: one question on one provider
  Providers,
  ProviderOf,    \* the provider the manifest expects to answer a slot
  Batches,       \* the submissions chunkBatchLines splits batched slots into
  LinesOf,       \* the slots of each submission
  Skipped,       \* providers the queue froze as not to be called
  Unserved,      \* manifest providers this instance cannot sweep with
  StorageErrors, \* whether a database write may throw
  MaxCrashes,    \* bound: how often the process may die
  NoBatch        \* the poller is not looking at any batch

Units(p) == {s \in Slots : ProviderOf[s] = p}
Called == Providers \ (Skipped \cup Unserved)
Batched == UNION {LinesOf[b] : b \in Batches}
OwnerOf(b) == CHOOSE p \in Providers : \E s \in LinesOf[b] : ProviderOf[s] = p
BatchesOf(p) == {b \in Batches : OwnerOf(b) = p}

ASSUME ManifestAssumption ==
  /\ IsFiniteSet(Slots)
  /\ ProviderOf \in [Slots -> Providers]
  /\ Skipped \subseteq Providers
  /\ Unserved \subseteq Providers
  /\ StorageErrors \in BOOLEAN
  /\ MaxCrashes \in Nat

ASSUME ChunkAssumption ==
  /\ LinesOf \in [Batches -> SUBSET Slots]
  /\ NoBatch \notin Batches
  /\ \A b \in Batches :
       /\ LinesOf[b] # {}
       /\ \E p \in Called : \A s \in LinesOf[b] : ProviderOf[s] = p
  /\ \A b, c \in Batches : b # c => LinesOf[b] \cap LinesOf[c] = {}

VARIABLES
  \* The database.
  status,        \* runs.status
  handedOff,     \* runs.pending_provider_errors is not null
  pending,       \* the providers named in it
  named,         \* the providers named in runs.error
  snap,          \* query_snapshots: how each slot was answered
  row,           \* provider_batches.status, "absent" before the insert
  knownId,       \* provider_batches.provider_batch_id is not null
  cancelReq,     \* provider_batches.cancel_requested_at is not null
  released,      \* provider_batches.quota_released
  outcome,       \* provider_batch_requests.outcome of each batched slot
  used,          \* what this run holds of usage_counters, per provider
  \* The memory of the process.
  up,
  sweep,         \* the executeRun call: "idle", "running", "over"
  sub,           \* each submission: "todo", "flight", "done"
  handed,        \* the slots to be answered by a sync call
  call,          \* each sync call: "idle", "flight", "done"
  dead,          \* provider workers of the sweep that threw
  thrown,        \* what the sweep's fan-out rejected with
  reserved,      \* providerReservations has not been flushed
  dispatched,    \* providerDispatchCounts
  errs,          \* providerErrors
  polling,       \* where the poller is: "idle", "poll", "ingest"
  at,            \* the batch it is looking at
  chunk,         \* prepared lines not yet written
  stopQ,         \* batches a cancelAtProvider call still has to stop
  \* The providers and the clock.
  remote,        \* the batch at its provider: "none", "working", "ended"
  overdue,       \* the batch's deadline has passed
  graceOver,     \* ... and so has the hour after it
  \* History.
  calls,         \* sync calls paid for, per slot
  stopAsked,     \* the provider was asked to stop the batch
  reports,       \* times the run's end was reported (onRunCompleted)
  crashes

dbVars == <<status, handedOff, pending, named, snap, row, knownId, cancelReq,
            released, outcome, used>>
sweepVars == <<sweep, sub, handed, call, dead, thrown, reserved, dispatched, errs>>
pollVars == <<polling, at, chunk>>
clockVars == <<overdue, graceOver>>
procVars == <<up, crashes>>
vars == <<dbVars, sweepVars, pollVars, clockVars, procVars,
          stopQ, remote, calls, stopAsked, reports>>

Terminal == {"completed", "partial", "failed", "cancelled"}
RowStatus == {"absent", "submitting", "submitted", "ended", "ingested",
              "failed", "unknown", "cancelled"}
HoldingNotEnded == {"submitting", "submitted"}    \* faulty: ended rows forgotten
Holding == {"submitting", "submitted", "ended"}
Unbilled == {"errored"}
Unrecorded == Unbilled \cup {"parse_failed"}
Outcomes == {"recorded", "duplicate"} \cup Unrecorded

Rows == {b \in Batches : row[b] # "absent"}
HoldingRows == {b \in Batches : row[b] \in Holding}
Missing == {s \in Slots : snap[s] = "missing"}
Size(b) == Cardinality(LinesOf[b])
Least(m, n) == IF m < n THEN m ELSE n
AtLeastZero(n) == IF n > 0 THEN n ELSE 0
NoLines == [s \in Slots |-> "none"]

TypeOK ==
  /\ status \in {"queued", "running"} \cup Terminal
  /\ handedOff \in BOOLEAN
  /\ pending \in SUBSET Providers
  /\ named \in SUBSET Providers
  /\ snap \in [Slots -> {"missing", "sync", "batch"}]
  /\ row \in [Batches -> RowStatus]
  /\ knownId \in [Batches -> BOOLEAN]
  /\ cancelReq \in [Batches -> BOOLEAN]
  /\ released \in [Batches -> Int]
  /\ outcome \in [Slots -> Outcomes \cup {"none"}]
  /\ used \in [Providers -> Int]
  /\ up \in BOOLEAN
  /\ sweep \in {"idle", "running", "over"}
  /\ sub \in [Batches -> {"todo", "flight", "done"}]
  /\ handed \in SUBSET Slots
  /\ call \in [Slots -> {"idle", "flight", "done"}]
  /\ dead \in SUBSET Providers
  /\ thrown \in {"no", "cancel", "error"}
  /\ reserved \in BOOLEAN
  /\ dispatched \in [Providers -> Int]
  /\ errs \in SUBSET Providers
  /\ polling \in {"idle", "poll", "ingest"}
  /\ polling # "idle" => at # NoBatch
  /\ at \in Batches \cup {NoBatch}
  /\ chunk \in [Slots -> Outcomes \cup {"none"}]
  /\ stopQ \in SUBSET Batches
  /\ remote \in [Batches -> {"none", "working", "ended"}]
  /\ overdue \in [Batches -> BOOLEAN]
  /\ graceOver \in [Batches -> BOOLEAN]
  /\ calls \in [Slots -> Nat]
  /\ stopAsked \in [Batches -> BOOLEAN]
  /\ reports \in Nat
  /\ crashes \in 0..MaxCrashes

Init ==
  /\ status = "queued" /\ handedOff = FALSE
  /\ pending = {} /\ named = {}
  /\ snap = [s \in Slots |-> "missing"]
  /\ row = [b \in Batches |-> "absent"]
  /\ knownId = [b \in Batches |-> FALSE]
  /\ cancelReq = [b \in Batches |-> FALSE]
  /\ released = [b \in Batches |-> 0]
  /\ outcome = NoLines
  /\ used = [p \in Providers |-> 0]
  /\ up = TRUE
  /\ sweep = "idle"
  /\ sub = [b \in Batches |-> "todo"]
  /\ handed = {}
  /\ call = [s \in Slots |-> "idle"]
  /\ dead = {} /\ thrown = "no" /\ reserved = FALSE
  /\ dispatched = [p \in Providers |-> 0]
  /\ errs = {}
  /\ polling = "idle" /\ at = NoBatch /\ chunk = NoLines
  /\ stopQ = {}
  /\ remote = [b \in Batches |-> "none"]
  /\ overdue = [b \in Batches |-> FALSE]
  /\ graceOver = [b \in Batches |-> FALSE]
  /\ calls = [s \in Slots |-> 0]
  /\ stopAsked = [b \in Batches |-> FALSE]
  /\ reports = 0
  /\ crashes = 0

-----------------------------------------------------------------------------
(* Building blocks shared by several handlers. *)

\* markBatchesCancelled: rows of B that still hold the run open are cancelled.
Marked(B) == {b \in B : row[b] \in Holding}
MarkCancelled(B) ==
  /\ row' = [b \in Batches |-> IF b \in Marked(B) THEN "cancelled" ELSE row[b]]
  /\ cancelReq' = [b \in Batches |-> cancelReq[b] \/ b \in Marked(B)]

\* cancelAtProvider: a row without a provider id is left to its own submit.
AskToStop(B) == stopQ' = stopQ \cup {b \in B : knownId[b]}

\* flushProviderUsage: give back what was reserved and never sent.
UnsentIgnoringBatches(p) ==                       \* faulty: only sync calls count
  IF reserved /\ p \in Called THEN Cardinality({s \in Units(p) : call[s] = "idle"}) ELSE 0
Unsent(p) == IF reserved /\ p \in Called
             THEN AtLeastZero(Cardinality(Units(p)) - dispatched[p])
             ELSE 0
FlushProviderUsage ==
  /\ used' = [p \in Providers |-> used[p] - Unsent(p)]
  /\ reserved' = FALSE

\* releaseUnbilledBatchQuota, for a batch whose ledger will read out.
UnbilledNow(b, out) ==
  AtLeastZero(Least(Cardinality({s \in LinesOf[b] : out[s] \in Unbilled}), Size(b))
              - released[b])
ReleaseUnbilled(b, out) ==
  /\ used' = [used EXCEPT ![OwnerOf(b)] = @ - UnbilledNow(b, out)]
  /\ released' = [released EXCEPT ![b] = @ + UnbilledNow(b, out)]

\* runOutcome: the terminal status of what was recorded and what went wrong.
SomeFailed(errors, gaps) == errors # {} \/ gaps # {} \/ Skipped # {}
RunOutcome(answered, errors, gaps) ==
  IF ~SomeFailed(errors, gaps) THEN "completed"
  ELSE IF answered = {} THEN "failed" ELSE "partial"

\* The run's stored error names the failed providers and the skipped ones.
RunError(errors, gaps) == IF SomeFailed(errors, gaps) THEN errors \cup Skipped ELSE named

\* batchRunProviderErrors: what the sweep persisted, what each batch left
\* behind, and every provider that still has a gap.
BatchRunErrors(fromSweep) ==
  fromSweep
  \cup {OwnerOf(b) : b \in {c \in Batches : row[c] \in {"unknown", "cancelled"}}}
  \cup {OwnerOf(b) : b \in {c \in Batches :
          row[c] = "ingested" /\ \E s \in LinesOf[c] : outcome[s] \in Unrecorded}}
  \cup {ProviderOf[s] : s \in Missing}

\* The write of finalizeBatchRun: it clears the hand-off marker with it.
WriteBatchOutcome(fromSweep) ==
  /\ HoldingRows = {}
  /\ status' = RunOutcome(Slots \ Missing, BatchRunErrors(fromSweep), Missing)
  /\ named' = RunError(BatchRunErrors(fromSweep), Missing)
  /\ handedOff' = FALSE
  /\ pending' = {}

Report == reports' = reports + 1

-----------------------------------------------------------------------------
(* executeRun: the entry and the quota reservation. *)

Live == up /\ sweep = "running"

\* The run leaves the queue and every called provider's slots are reserved.
StartRun ==
  /\ up /\ sweep = "idle" /\ status = "queued"
  /\ status' = "running"
  /\ sweep' = "running"
  /\ reserved' = TRUE
  /\ used' = [p \in Providers |-> used[p] + IF p \in Called THEN Cardinality(Units(p)) ELSE 0]
  /\ handed' = {s \in Slots : ProviderOf[s] \in Called} \ Batched
  /\ UNCHANGED <<handedOff, pending, named, snap, row, knownId, cancelReq, released,
                 outcome, sub, call, dead, thrown, dispatched, errs, pollVars,
                 clockVars, procVars, stopQ, remote, calls, stopAsked, reports>>

\* A daily limit other runs used up (or no provider to call): the run fails
\* before any call, and what was reserved so far is given back.
StartRefused ==
  /\ up /\ sweep = "idle" /\ status = "queued"
  /\ status' = "failed"
  /\ sweep' = "over"
  /\ Report
  /\ UNCHANGED <<handedOff, pending, named, snap, row, knownId, cancelReq, released,
                 outcome, used, sub, handed, call, dead, thrown, reserved, dispatched,
                 errs, pollVars, clockVars, procVars, stopQ, remote, calls, stopAsked>>

\* The run was cancelled in the queue: only its cancellation is reported.
StartCancelled ==
  /\ up /\ sweep = "idle" /\ status = "cancelled"
  /\ sweep' = "over"
  /\ Report
  /\ UNCHANGED <<dbVars, sub, handed, call, dead, thrown, reserved, dispatched, errs,
                 pollVars, clockVars, procVars, stopQ, remote, calls, stopAsked>>

-----------------------------------------------------------------------------
(* submitPlanBatches / submitProviderBatch. *)

\* A provider's submissions go one after the other, and stop when one threw.
MaySubmit(b) ==
  /\ up /\ reserved /\ status # "cancelled"
  /\ sub[b] = "todo"
  /\ OwnerOf(b) \notin dead
  /\ \A c \in BatchesOf(OwnerOf(b)) : sub[c] # "flight"

\* The row and its ledger are written, then the provider is called.
SubmitBatch(b) ==
  /\ MaySubmit(b)
  /\ row' = [row EXCEPT ![b] = "submitting"]
  /\ sub' = [sub EXCEPT ![b] = "flight"]
  /\ dispatched' = [dispatched EXCEPT ![OwnerOf(b)] = @ + Size(b)]
  /\ UNCHANGED <<status, handedOff, pending, named, snap, knownId, cancelReq, released,
                 outcome, used, sweep, handed, call, dead, thrown, reserved, errs,
                 pollVars, clockVars, procVars, stopQ, remote, calls, stopAsked, reports>>

\* The ledger transaction rolled back: these slots are answered sync.
LedgerFails(b) ==
  /\ StorageErrors
  /\ MaySubmit(b)
  /\ sub' = [sub EXCEPT ![b] = "done"]
  /\ handed' = handed \cup LinesOf[b]
  /\ UNCHANGED <<dbVars, sweep, call, dead, thrown, reserved, dispatched, errs, pollVars,
                 clockVars, procVars, stopQ, remote, calls, stopAsked, reports>>

\* A batch accepted for a row that was cancelled meanwhile is stopped.
NeverStopLate(b) == stopQ' = stopQ                \* faulty: it is left running
StopIfLate(b) == stopQ' = IF row[b] = "submitting" THEN stopQ ELSE stopQ \cup {b}

\* The provider created the batch.  A row cancelled meanwhile keeps that
\* status and the new batch is stopped at once.
SubmitAccepted(b) ==
  /\ up /\ sub[b] = "flight"
  /\ remote' = [remote EXCEPT ![b] = "working"]
  /\ sub' = [sub EXCEPT ![b] = "done"]
  /\ knownId' = [knownId EXCEPT ![b] = TRUE]
  /\ row' = [row EXCEPT ![b] = IF @ = "submitting" THEN "submitted" ELSE @]
  /\ StopIfLate(b)
  /\ UNCHANGED <<status, handedOff, pending, named, snap, cancelReq, released, outcome,
                 used, sweep, handed, call, dead, thrown, reserved, dispatched, errs,
                 pollVars, clockVars, procVars, calls, stopAsked, reports>>

\* A definite refusal: nothing was created, so the reservation goes back to a
\* live sweep, which answers the slots sync, or else to the day's quota.
SubmitRefused(b) ==
  /\ up /\ sub[b] = "flight"
  /\ sub' = [sub EXCEPT ![b] = "done"]
  /\ row' = [row EXCEPT ![b] = IF @ = "submitting" THEN "failed" ELSE @]
  /\ released' = [released EXCEPT ![b] = Size(b)]
  /\ IF reserved
     THEN /\ dispatched' = [dispatched EXCEPT ![OwnerOf(b)] = @ - Size(b)]
          /\ handed' = handed \cup LinesOf[b]
          /\ used' = used
     ELSE /\ used' = [used EXCEPT ![OwnerOf(b)] = @ - Size(b)]
          /\ UNCHANGED <<dispatched, handed>>
  /\ UNCHANGED <<status, handedOff, pending, named, snap, knownId, cancelReq, outcome,
                 sweep, call, dead, thrown, reserved, errs, pollVars, clockVars,
                 procVars, stopQ, remote, calls, stopAsked, reports>>

SubmitUnknownResent(b) ==                         \* faulty: answered sync anyway
  /\ up /\ sub[b] = "flight"
  /\ \E r \in {"none", "working"} : remote' = [remote EXCEPT ![b] = r]
  /\ sub' = [sub EXCEPT ![b] = "done"]
  /\ row' = [row EXCEPT ![b] = IF @ = "submitting" THEN "unknown" ELSE @]
  /\ handed' = handed \cup LinesOf[b]
  /\ UNCHANGED <<status, handedOff, pending, named, snap, knownId, cancelReq, released,
                 outcome, used, sweep, call, dead, thrown, reserved, dispatched, errs,
                 pollVars, clockVars, procVars, stopQ, calls, stopAsked, reports>>
\* Any other failure: the provider may hold the batch, so it is never resent.
SubmitUnknown(b) ==
  /\ up /\ sub[b] = "flight"
  /\ \E r \in {"none", "working"} : remote' = [remote EXCEPT ![b] = r]
  /\ sub' = [sub EXCEPT ![b] = "done"]
  /\ row' = [row EXCEPT ![b] = IF @ = "submitting" THEN "unknown" ELSE @]
  /\ UNCHANGED <<status, handedOff, pending, named, snap, knownId, cancelReq, released,
                 outcome, used, sweep, handed, call, dead, thrown, reserved, dispatched,
                 errs, pollVars, clockVars, procVars, stopQ, calls, stopAsked, reports>>

\* What the sweep's fan-out rejects with: its first worker to throw.
Throw(what) == thrown' = IF Live /\ thrown = "no" THEN what ELSE thrown

\* The answer came and could not be written: the provider's worker throws.
SubmitWriteFails(b) ==
  /\ StorageErrors
  /\ up /\ sub[b] = "flight"
  /\ \E r \in {"none", "working"} : remote' = [remote EXCEPT ![b] = r]
  /\ sub' = [sub EXCEPT ![b] = "done"]
  /\ dead' = dead \cup {OwnerOf(b)}
  /\ Throw("error")
  /\ UNCHANGED <<dbVars, sweep, handed, call, reserved, dispatched, errs, pollVars,
                 clockVars, procVars, stopQ, calls, stopAsked, reports>>

-----------------------------------------------------------------------------
(* executePlanSlot / recordSlot: the slots the sweep answers itself. *)

\* The gate lets the slot in: only a cancelled run is not called for.
MayCallAnyway(s) ==                               \* faulty: the run is not read again
  /\ up /\ s \in handed /\ call[s] = "idle"
  /\ \A b \in BatchesOf(ProviderOf[s]) : sub[b] = "done"
  /\ ProviderOf[s] \notin dead
MayCall(s) ==
  /\ up /\ s \in handed /\ call[s] = "idle"
  /\ \A b \in BatchesOf(ProviderOf[s]) : sub[b] = "done"
  /\ ProviderOf[s] \notin dead
  /\ status # "cancelled"

Dispatch(s) ==
  LET p == ProviderOf[s]
  IN /\ MayCall(s)
     /\ call' = [call EXCEPT ![s] = "flight"]
     /\ dispatched' = [dispatched EXCEPT ![p] = @ + 1]
     /\ calls' = [calls EXCEPT ![s] = @ + 1]
     /\ UNCHANGED <<dbVars, sweep, sub, handed, dead, thrown, reserved, errs, pollVars,
                    clockVars, procVars, stopQ, remote, stopAsked, reports>>

\* The answer is recorded unless the run was cancelled meanwhile; the insert
\* of a slot that is already answered fails like any other provider error.
CallAnswered(s) ==
  /\ up /\ call[s] = "flight"
  /\ call' = [call EXCEPT ![s] = "done"]
  /\ IF status = "cancelled"
     THEN Throw("cancel") /\ UNCHANGED <<snap, errs>>
     ELSE /\ UNCHANGED thrown
          /\ IF snap[s] = "missing"
             THEN snap' = [snap EXCEPT ![s] = "sync"] /\ errs' = errs
             ELSE errs' = errs \cup {ProviderOf[s]} /\ snap' = snap
  /\ UNCHANGED <<status, handedOff, pending, named, row, knownId, cancelReq, released,
                 outcome, used, sweep, sub, handed, dead, reserved, dispatched, pollVars,
                 clockVars, procVars, stopQ, remote, calls, stopAsked, reports>>

\* Any failure of the slot, the write included, is charged to its provider.
CallFailed(s) ==
  /\ up /\ call[s] = "flight"
  /\ call' = [call EXCEPT ![s] = "done"]
  /\ errs' = errs \cup {ProviderOf[s]}
  /\ UNCHANGED <<dbVars, sweep, sub, handed, dead, thrown, reserved, dispatched, pollVars,
                 clockVars, procVars, stopQ, remote, calls, stopAsked, reports>>

-----------------------------------------------------------------------------
(* The end of the sweep. *)

\* throwIfRunCancelled: before a submission, a call, or the sweep's own end.
SeeCancelled ==
  /\ Live /\ status = "cancelled" /\ thrown = "no"
  /\ Throw("cancel")
  /\ UNCHANGED <<dbVars, sweep, sub, handed, call, dead, reserved, dispatched, errs,
                 pollVars, clockVars, procVars, stopQ, remote, calls, stopAsked, reports>>

\* The catch of a cancelled sweep: it settles and reports its own end.
CatchCancel ==
  /\ Live /\ thrown # "no" /\ (thrown = "cancel" \/ status = "cancelled")
  /\ FlushProviderUsage
  /\ MarkCancelled(Rows)
  /\ AskToStop(Marked(Rows))
  /\ Report
  /\ sweep' = "over"
  /\ UNCHANGED <<status, handedOff, pending, named, snap, knownId, released, outcome,
                 sub, handed, call, dead, thrown, dispatched, errs, pollVars, clockVars,
                 procVars, remote, calls, stopAsked>>

FailIfUnfinished == status' = IF status \in {"queued", "running"} THEN "failed" ELSE status

\* The catch of a sweep an error escaped from.
CatchError ==
  /\ Live /\ thrown = "error" /\ status # "cancelled"
  /\ FailIfUnfinished
  /\ FlushProviderUsage
  /\ MarkCancelled(Rows)
  /\ AskToStop(Marked(Rows))
  /\ Report
  /\ sweep' = "over"
  /\ UNCHANGED <<handedOff, pending, named, snap, knownId, released, outcome, sub,
                 handed, call, dead, thrown, dispatched, errs, pollVars, clockVars,
                 procVars, remote, calls, stopAsked>>

\* Every worker returned and none threw.
SweepDone ==
  /\ Live /\ thrown = "no" /\ status = "running"
  /\ \A b \in Batches : sub[b] = "done"
  /\ \A s \in handed : call[s] = "done"

\* A called or unserved provider that sent less than its slots is an error too.
SweepErrorsOfCalls == errs                        \* faulty: shortfalls are not errors
SweepErrors ==
  errs \cup {p \in Providers \ Skipped : dispatched[p] < Cardinality(Units(p))}

\* finalizeRun: no batch was written, so the sweep knows every answer.
FinalizeRun ==
  /\ SweepDone /\ Rows = {}
  /\ status' = RunOutcome(Slots \ Missing, SweepErrors, Missing)
  /\ named' = RunError(SweepErrors, Missing)
  /\ FlushProviderUsage
  /\ Report
  /\ sweep' = "over"
  /\ UNCHANGED <<handedOff, pending, snap, row, knownId, cancelReq, released, outcome,
                 sub, handed, call, dead, thrown, dispatched, errs, pollVars, clockVars,
                 procVars, stopQ, remote, calls, stopAsked>>

\* handOffBatchRun while a batch is still out: the poller owns the run now.
HandOff ==
  /\ SweepDone /\ Rows # {} /\ HoldingRows # {}
  /\ handedOff' = TRUE
  /\ pending' = SweepErrors
  /\ FlushProviderUsage
  /\ sweep' = "over"
  /\ UNCHANGED <<status, named, snap, row, knownId, cancelReq, released, outcome, sub,
                 handed, call, dead, thrown, dispatched, errs, pollVars, clockVars,
                 procVars, stopQ, remote, calls, stopAsked, reports>>

\* handOffBatchRun when every batch already settled: it finalizes at once.
HandOffSettled ==
  /\ SweepDone /\ Rows # {}
  /\ WriteBatchOutcome(SweepErrors)
  /\ FlushProviderUsage
  /\ Report
  /\ sweep' = "over"
  /\ UNCHANGED <<snap, row, knownId, cancelReq, released, outcome, sub, handed, call,
                 dead, thrown, dispatched, errs, pollVars, clockVars, procVars, stopQ,
                 remote, calls, stopAsked>>

\* A write of the sweep's end throws before it changed anything.
EndWriteFails ==
  /\ StorageErrors /\ SweepDone
  /\ Throw("error")
  /\ UNCHANGED <<dbVars, sweep, sub, handed, call, dead, reserved, dispatched, errs,
                 pollVars, clockVars, procVars, stopQ, remote, calls, stopAsked, reports>>

\* finalizeBatchRun, by the poller's pass.
FinalizeBatchRun ==
  /\ up /\ polling = "idle" /\ sweep # "running"
  /\ status = "running" /\ handedOff
  /\ WriteBatchOutcome(pending)
  /\ Report
  /\ UNCHANGED <<snap, row, knownId, cancelReq, released, outcome, used, sweepVars,
                 pollVars, clockVars, procVars, stopQ, remote, calls, stopAsked>>

-----------------------------------------------------------------------------
(* The batch poller: one pass at a time, one batch at a time. *)

MayLook(b) == up /\ polling = "idle" /\ row[b] \in {"submitted", "ended"}

\* advance: the run is over, so its batch is cancelled and stopped.
Abandon(b) ==
  /\ MayLook(b) /\ status # "running"
  /\ MarkCancelled({b})
  /\ AskToStop({b})
  /\ UNCHANGED <<status, handedOff, pending, named, snap, knownId, released, outcome,
                 used, sweepVars, pollVars, clockVars, procVars, remote, calls,
                 stopAsked, reports>>

\* advance: ask the provider, or read the results of a batch known to have ended.
Advance(b) ==
  /\ MayLook(b) /\ status = "running"
  /\ polling' = IF row[b] = "ended" THEN "ingest" ELSE "poll"
  /\ at' = b
  /\ UNCHANGED <<dbVars, sweepVars, chunk, clockVars, procVars, stopQ, remote, calls,
                 stopAsked, reports>>

Idle == polling' = "idle" /\ at' = NoBatch /\ chunk' = NoLines

\* The provider says the batch ended: it is read at once, unless its row was
\* cancelled while the poll was out.
PollEnded ==
  /\ up /\ polling = "poll" /\ remote[at] # "none"
  /\ remote' = [remote EXCEPT ![at] = "ended"]
  /\ IF row[at] = "submitted" /\ status = "running"
     THEN /\ row' = [row EXCEPT ![at] = "ended"]
          /\ polling' = "ingest"
          /\ UNCHANGED <<at, chunk, cancelReq>>
     ELSE /\ MarkCancelled(IF row[at] = "submitted" THEN {at} ELSE {})
          /\ Idle
  /\ UNCHANGED <<status, handedOff, pending, named, snap, knownId, released, outcome,
                 used, sweepVars, clockVars, procVars, stopQ, calls, stopAsked, reports>>

\* enforceDeadline: past its deadline a batch is asked once to stop, and is
\* given up when it has not ended an hour after that.
Late(b) == row[b] = "submitted" /\ ~cancelReq[b] /\ overdue[b]
NeverLost(b) == FALSE                             \* faulty: waits for good
Lost(b) == row[b] = "submitted" /\ cancelReq[b] /\ graceOver[b]

\* The batch is still being worked on, or the poll failed.
PollNotEnded ==
  /\ up /\ polling = "poll"
  /\ cancelReq' = [cancelReq EXCEPT ![at] = @ \/ Late(at)]
  /\ row' = [row EXCEPT ![at] = IF Lost(at) THEN "cancelled" ELSE @]
  /\ AskToStop(IF Late(at) THEN {at} ELSE {})
  /\ Idle
  /\ UNCHANGED <<status, handedOff, pending, named, snap, knownId, released, outcome,
                 used, sweepVars, clockVars, procVars, remote, calls, stopAsked, reports>>

Reading(s) ==
  /\ up /\ polling = "ingest" /\ s \in LinesOf[at]
  /\ row[at] = "ended"
  /\ outcome[s] = "none" /\ chunk[s] = "none"

\* A line of the results, prepared and kept for the chunk's transaction.
ReadLine(s) ==
  /\ Reading(s)
  /\ \E o \in {"recorded", "parse_failed", "errored"} : chunk' = [chunk EXCEPT ![s] = o]
  /\ UNCHANGED <<dbVars, sweepVars, polling, at, clockVars, procVars, stopQ, remote,
                 calls, stopAsked, reports>>

\* persistBatchLines: the snapshots and their ledger outcomes, in one
\* transaction that rechecks the batch, the run and each line.
FlushChunk ==
  LET fresh == {s \in LinesOf[at] : chunk[s] # "none" /\ outcome[s] = "none"}
      answers == {s \in fresh : chunk[s] = "recorded"}
      taken == {s \in answers : snap[s] # "missing"}
  IN /\ up /\ polling = "ingest" /\ chunk # NoLines
     /\ row[at] = "ended" /\ status = "running"
     /\ snap' = [s \in Slots |-> IF s \in answers \ taken THEN "batch" ELSE snap[s]]
     /\ outcome' = [s \in Slots |->
          IF s \notin fresh THEN outcome[s]
          ELSE IF s \in taken /\ snap[s] # "batch" THEN "duplicate" ELSE chunk[s]]
     /\ chunk' = NoLines
     /\ UNCHANGED <<status, handedOff, pending, named, row, knownId, cancelReq, released,
                    used, sweepVars, polling, at, clockVars, procVars, stopQ, remote,
                    calls, stopAsked, reports>>

\* The batch was cancelled, or its run ended, while its results were read.
IngestCancelled ==
  /\ up /\ polling = "ingest"
  /\ row[at] # "ended" \/ status # "running"
  /\ MarkCancelled({at})
  /\ Idle
  /\ UNCHANGED <<status, handedOff, pending, named, snap, knownId, released, outcome,
                 used, sweepVars, clockVars, procVars, stopQ, remote, calls, stopAsked,
                 reports>>

\* The stream broke (the prepared tail was flushed first) or a write threw:
\* another pass reads the rest, unless the results are gone or it is too late.
IngestFails ==
  /\ up /\ polling = "ingest" /\ row[at] = "ended"
  /\ chunk = NoLines \/ StorageErrors
  /\ \E expired \in BOOLEAN :
       IF expired \/ graceOver[at]
       THEN /\ row' = [row EXCEPT ![at] = "cancelled"]
            /\ ReleaseUnbilled(at, outcome)
       ELSE UNCHANGED <<row, used, released>>
  /\ Idle
  /\ UNCHANGED <<status, handedOff, pending, named, snap, knownId, cancelReq, outcome,
                 sweepVars, clockVars, procVars, stopQ, remote, calls, stopAsked,
                 reports>>

\* The stream is complete: a line nothing answered is errored.
ClosedLedgerOverwritten(b) ==                     \* faulty: answered lines too
  [s \in Slots |-> IF s \in LinesOf[b] THEN "errored" ELSE outcome[s]]
ClosedLedger(b) ==
  [s \in Slots |-> IF s \in LinesOf[b] /\ outcome[s] = "none" THEN "errored" ELSE outcome[s]]

\* completeBatchIngest: the lines the provider did not bill give their
\* reservation back.
CompleteIngest ==
  /\ up /\ polling = "ingest" /\ row[at] = "ended" /\ chunk = NoLines
  /\ outcome' = ClosedLedger(at)
  /\ ReleaseUnbilled(at, ClosedLedger(at))
  /\ row' = [row EXCEPT ![at] = "ingested"]
  /\ Idle
  /\ UNCHANGED <<status, handedOff, pending, named, snap, knownId, cancelReq, sweepVars,
                 clockVars, procVars, stopQ, remote, calls, stopAsked, reports>>

-----------------------------------------------------------------------------
(* The cancel route, the stop requests and the clock. *)

Cancellable == status \in {"queued", "running"}

\* A run whose sweep is over but still waits for batches: clearing its
\* hand-off marker is the claim to report it.
WaitingWithoutClaim == sweep # "running"          \* faulty: no claim
WaitingNever == FALSE                             \* faulty: left to the sweep
Waiting == sweep # "running" /\ handedOff

\* POST /runs/:id/cancel and cancelRunBatches; a live sweep reports its own end.
CancelRun ==
  /\ up /\ Cancellable
  /\ status' = "cancelled"
  /\ MarkCancelled(Rows)
  /\ AskToStop(Marked(Rows))
  /\ handedOff' = (handedOff /\ ~Waiting)
  /\ pending' = IF Waiting THEN {} ELSE pending
  /\ reports' = IF Waiting THEN reports + 1 ELSE reports
  /\ UNCHANGED <<named, snap, knownId, released, outcome, used, sweepVars, pollVars,
                 clockVars, procVars, remote, calls, stopAsked>>

\* cancelAtProvider: one cancel call per batch, best effort.
StopAtProvider(b) ==
  /\ up /\ b \in stopQ
  /\ stopQ' = stopQ \ {b}
  /\ stopAsked' = [stopAsked EXCEPT ![b] = TRUE]
  /\ UNCHANGED <<dbVars, sweepVars, pollVars, clockVars, procVars, remote, calls, reports>>

DeadlinePasses(b) ==
  /\ row[b] \in {"submitted", "ended"} /\ ~overdue[b]
  /\ overdue' = [overdue EXCEPT ![b] = TRUE]
  /\ UNCHANGED <<dbVars, sweepVars, pollVars, graceOver, procVars, stopQ, remote, calls,
                 stopAsked, reports>>

\* An hour after the cancel request, or after the deadline of an ended batch.
GraceEnds(b) ==
  /\ overdue[b] /\ ~graceOver[b]
  /\ row[b] = "ended" \/ (row[b] = "submitted" /\ cancelReq[b])
  /\ graceOver' = [graceOver EXCEPT ![b] = TRUE]
  /\ UNCHANGED <<dbVars, sweepVars, pollVars, overdue, procVars, stopQ, remote, calls,
                 stopAsked, reports>>

-----------------------------------------------------------------------------
(* The process dies, and boots again. *)

\* What dies with the process; a submission it was waiting for may have
\* reached the provider.
Die ==
  /\ up /\ crashes < MaxCrashes
  /\ crashes' = crashes + 1
  /\ up' = FALSE
  /\ sweep' = "over"
  /\ sub' = [b \in Batches |-> "done"]
  /\ \E created \in SUBSET {b \in Batches : sub[b] = "flight"} :
       remote' = [b \in Batches |-> IF b \in created THEN "working" ELSE remote[b]]
  /\ call' = [s \in Slots |-> "done"]
  /\ handed' = {} /\ dead' = {} /\ thrown' = "no" /\ reserved' = FALSE
  /\ dispatched' = [p \in Providers |-> 0] /\ errs' = {}
  /\ Idle
  /\ stopQ' = {}
  /\ UNCHANGED <<clockVars, calls, stopAsked>>

Crash == Die /\ UNCHANGED <<dbVars, reports>>

\* The process dies right after a status write, before the work that follows.
CancelThenCrash ==
  /\ Die
  /\ Cancellable
  /\ status' = "cancelled"
  /\ UNCHANGED <<handedOff, pending, named, snap, row, knownId, cancelReq, released,
                 outcome, used, reports>>

CatchErrorThenCrash ==
  /\ Die
  /\ Live /\ thrown = "error" /\ status # "cancelled"
  /\ FailIfUnfinished
  /\ UNCHANGED <<handedOff, pending, named, snap, row, knownId, cancelReq, released,
                 outcome, used, reports>>

HandOffThenCrash ==
  /\ Die
  /\ SweepDone /\ Rows # {}
  /\ handedOff' = TRUE
  /\ pending' = SweepErrors
  /\ UNCHANGED <<status, named, snap, row, knownId, cancelReq, released, outcome, used,
                 reports>>

\* recoverStaleRuns: a submission in flight is never resent; a run that
\* reached a batch goes on, with a reason for every slot its sweep still owed.
Restart ==
  LET rowNow == [b \in Batches |-> IF row[b] = "submitting" THEN "unknown" ELSE row[b]]
      owned == UNION {LinesOf[b] : b \in {c \in Rows : rowNow[c] # "failed"}}
      resumes == status = "running" /\ Rows # {}
  IN /\ ~up
     /\ up' = TRUE
     /\ row' = rowNow
     /\ status' = IF status \in {"queued", "running"} /\ ~resumes THEN "failed" ELSE status
     /\ handedOff' = (handedOff \/ resumes)
     /\ pending' = IF resumes
                   THEN pending \cup {ProviderOf[s] : s \in Missing \ owned}
                   ELSE pending
     /\ UNCHANGED <<named, snap, knownId, cancelReq, released, outcome, used, sweepVars,
                    pollVars, clockVars, crashes, stopQ, remote, calls, stopAsked, reports>>

-----------------------------------------------------------------------------
Begin == StartRun \/ StartRefused \/ StartCancelled
SubmitReturns(b) ==
  SubmitAccepted(b) \/ SubmitRefused(b) \/ SubmitUnknown(b) \/ SubmitWriteFails(b)
SweepEnd ==
  \/ CatchCancel \/ CatchError \/ FinalizeRun \/ HandOff \/ HandOffSettled \/ EndWriteFails
SweepStep ==
  \/ Begin \/ SeeCancelled \/ SweepEnd
  \/ \E b \in Batches : SubmitBatch(b) \/ LedgerFails(b) \/ SubmitReturns(b)
  \/ \E s \in Slots : Dispatch(s) \/ CallAnswered(s) \/ CallFailed(s)
PollReturns == PollEnded \/ PollNotEnded
IngestReturns == FlushChunk \/ IngestCancelled \/ IngestFails \/ CompleteIngest
TimePasses == \E b \in Batches : DeadlinePasses(b) \/ GraceEnds(b)
ProcessDies == Crash \/ CancelThenCrash \/ CatchErrorThenCrash \/ HandOffThenCrash

Next ==
  \/ SweepStep
  \/ \E b \in Batches : Abandon(b) \/ Advance(b) \/ StopAtProvider(b)
  \/ \E s \in Slots : ReadLine(s)
  \/ PollReturns \/ IngestReturns \/ FinalizeBatchRun
  \/ CancelRun \/ TimePasses \/ ProcessDies \/ Restart

\* Every await of the process returns (calls time out), its timers fire and a
\* supervisor boots it again.  Providers promise nothing: a batch may never
\* end and its results may never be readable.
Fairness ==
  /\ WF_vars(SweepStep)
  /\ \A b \in Batches : SF_vars(Abandon(b) \/ Advance(b))
  /\ WF_vars(PollReturns) /\ WF_vars(IngestReturns) /\ SF_vars(FinalizeBatchRun)
  /\ WF_vars(\E b \in Batches : StopAtProvider(b))
  /\ WF_vars(TimePasses)
  /\ WF_vars(Restart)

Spec == Init /\ [][Next]_vars
FairSpec == Spec /\ Fairness

-----------------------------------------------------------------------------
(* What must hold. *)

\* No question is paid for twice: not called twice, and not called when its
\* batch may exist at the provider (submitProviderBatch, recoverStaleRuns).
NeverPaidTwice ==
  \A s \in Slots :
    /\ calls[s] <= 1
    /\ calls[s] = 1 => \A b \in Batches : s \in LinesOf[b] => remote[b] = "none"

\* A batch line is marked recorded exactly when the run holds its answer from
\* that batch, whatever pass or crash wrote them (persistBatchLines).
LedgerMatchesSnapshots ==
  \A s \in Batched : outcome[s] = "recorded" <=> snap[s] = "batch"

\* A run is completed or partial only when nothing still works for it: no
\* batch open, no call out, and (completed) no answer missing.
FinalMeansSettled ==
  status \in {"completed", "partial"} =>
    /\ \A b \in Batches : row[b] \notin {"submitting", "submitted", "ended"}
    /\ \A s \in Slots : call[s] # "flight"
    /\ status = "completed" => Missing = {}

\* The error of a partial run names the provider of every missing answer
\* (batchRunProviderErrors: "so no missing slot goes unnamed").
EveryGapNamed == status = "partial" => {ProviderOf[s] : s \in Missing} \subseteq named

\* Billed and sent: sync calls, and lines of existing batches not read unbilled.
SyncCalls(p) == Cardinality({s \in Units(p) : calls[s] > 0})
Billable(p) == {s \in Units(p) : \E b \in Batches :
                  s \in LinesOf[b] /\ remote[b] # "none" /\ outcome[s] \notin Unbilled}

StillReserved(p) ==
  SumFunctionOnSet([b \in Batches |-> Size(b) - released[b]],
                    Rows \cap BatchesOf(p))

\* The day's counter never falls below what the provider may bill for the run,
\* through refusals, aborts, crashes and partial ingests; and, without a crash,
\* nothing reserved leaks: once the sweep and its submissions returned, the
\* counter holds the sync calls and what batch rows still hold.
QuotaExact ==
  \A p \in Providers :
    /\ used[p] >= SyncCalls(p) + Cardinality(Billable(p))
    /\ crashes = 0 /\ sweep = "over" /\ (\A b \in Batches : sub[b] # "flight") =>
         used[p] = SyncCalls(p) + StillReserved(p)

\* The end of a run is reported at most once, whichever of the sweep, the
\* poller and the cancel route reaches it.
ReportedOnce == reports <= 1

\* No step moves a run out of a terminal status.
TerminalIsFinal == [][(status \in Terminal) => (status' = status)]_vars

\* A run that is over calls no provider for another answer.
NothingSentOnceOver == [][(status \in Terminal) => (calls' = calls)]_vars

\* No answer and no line outcome is recorded into a run that is over.
NothingRecordedOnceOver == [][(status \in Terminal) => UNCHANGED <<snap, outcome>>]_vars

\* Nothing is bought for a run that is over, and nothing more is stored for it,
\* whichever calls, submissions and reads were under way when it ended.
NothingOnceOver == NothingSentOnceOver /\ NothingRecordedOnceOver

\* An answer or a line outcome, once written, is never replaced.
AnswersArePermanent ==
  [][\A s \in Slots : /\ snap[s] # "missing" => snap'[s] = snap[s]
                      /\ outcome[s] # "none" => outcome'[s] = outcome[s]]_vars

\* Every run reaches a terminal status, though batches may never end and
\* their results may never be readable (the deadline and grace hour).
RunTerminates == <>(status \in Terminal)

\* Without a crash, every end of a run is reported.
EndIsReported ==
  (status \in Terminal /\ crashes = 0) ~> (reports > 0 \/ crashes > 0)

\* Without a crash, a batch left working for a run that is over is stopped.
OrphanIsStopped ==
  \A b \in Batches :
    (status \in Terminal /\ remote[b] = "working" /\ knownId[b] /\ crashes = 0)
      ~> (stopAsked[b] \/ remote[b] = "ended" \/ crashes > 0)

-----------------------------------------------------------------------------
(* The inductive invariant behind the proofs. *)

\* A slot its sweep may call for, or called for, has no batch that exists or
\* may still be created; a batch row past its submission has its batch.
PaymentInv ==
  /\ \A b \in Batches :
       /\ sub[b] # "done" =>
            remote[b] = "none" /\ \A s \in LinesOf[b] : calls[s] = 0 /\ s \notin handed
       /\ row[b] \in {"submitted", "ended", "ingested"} => remote[b] # "none"
  /\ \A s \in Slots :
       /\ call[s] = "idle" => calls[s] = 0
       /\ call[s] = "flight" => calls[s] = 1 /\ s \in handed
       /\ calls[s] <= 1
       /\ s \in handed \/ calls[s] = 1 =>
            \A b \in Batches : s \in LinesOf[b] => sub[b] = "done" /\ remote[b] = "none"

\* Who may still work for the run, and in which statuses.
SweepInv ==
  /\ sweep = "running" => status \in {"running", "cancelled"}
  /\ sweep = "idle" => status \in {"queued", "cancelled"} /\ handed = {}
  /\ sweep = "idle" => \A b \in Batches : sub[b] # "flight"
  /\ reserved => sweep = "running"
  /\ handedOff => sweep = "over"
  /\ ~up => sweep = "over" /\ handed = {} /\ \A b \in Batches : sub[b] = "done"
  /\ thrown = "cancel" => status = "cancelled"
  /\ thrown = "error" => StorageErrors
  /\ \A s \in Slots :
       call[s] = "flight" => sweep = "running" \/ status = "cancelled" \/ StorageErrors
  /\ \/ handedOff \/ status \in {"completed", "partial"}
     \/ sweep = "over" /\ status # "cancelled" /\ ~StorageErrors
     =>
       /\ \A s \in handed : call[s] = "done"
       /\ \A b \in Batches : sub[b] # "flight"
  /\ status \in {"queued", "running"} \/ sweep # "over" => reports = 0

\* Results are only read for a run that is running, or of a batch that was
\* already taken away from the poller.
IngestInv ==
  /\ polling # "idle" => up /\ status # "queued"
  /\ polling = "ingest" /\ row[at] = "ended" => status = "running"

IInv ==
  /\ TypeOK /\ PaymentInv /\ SweepInv /\ IngestInv
  /\ FinalMeansSettled /\ LedgerMatchesSnapshots /\ ReportedOnce

\* What the sweep has sent: a slot it called for, or left to a batch row it
\* wrote and did not take back.
InRow(s) == \E b \in Rows : s \in LinesOf[b]
Sent(p) == {s \in Units(p) : calls[s] > 0 \/ (s \notin handed /\ InRow(s))}
Unanswered(s) == call[s] = "done" /\ snap[s] = "missing"

\* What a sweep at work knows: whose slots it has to answer, how many it sent,
\* and which providers failed to answer.
SlotKnown(s) ==
  /\ calls[s] = 1 => s \in handed
  /\ ProviderOf[s] \in Called => s \in handed \cup Batched
  /\ Unanswered(s) /\ status # "cancelled" => ProviderOf[s] \in errs
SubmissionKnown(b) ==
  /\ sub[b] = "todo" => row[b] = "absent"
  /\ sub[b] = "flight" => row[b] # "absent"
  /\ sub[b] = "done" /\ row[b] = "absent" /\ reserved => LinesOf[b] \subseteq handed
Unstarted ==
  /\ \A b \in Batches : sub[b] = "todo"
  /\ \A s \in Slots : call[s] = "idle"
  /\ \A p \in Providers : dispatched[p] = 0 /\ used[p] = 0
DispatchInv ==
  /\ reserved <=> sweep = "running"
  /\ sweep = "idle" => Unstarted
  /\ \A b \in Batches : SubmissionKnown(b)
  /\ \A s \in handed : ProviderOf[s] \in Called
  /\ reserved => \A s \in Slots : SlotKnown(s)
  /\ reserved => \A p \in Providers : dispatched[p] = Cardinality(Sent(p))

\* What a batch gave back: nothing before its submission returned, and once it
\* exists no more than its unbilled lines.
GaveBack(b) ==
  /\ released[b] \in 0..Size(b)
  /\ row[b] = "absent" \/ sub[b] = "flight" => released[b] = 0
  /\ row[b] = "absent" => remote[b] = "none"
  /\ remote[b] # "none" =>
       released[b] <= Cardinality({s \in LinesOf[b] : outcome[s] \in Unbilled})
ReleaseInv == \A b \in Batches : GaveBack(b)

\* The day's counter holds what the sweep has still to give back, its calls and
\* what batch rows still hold; a process that died gave nothing back.
Owed(p) == Unsent(p) + SyncCalls(p) + StillReserved(p)
CounterInv ==
  \A p \in Providers : used[p] >= Owed(p) /\ (crashes = 0 => used[p] = Owed(p))

-----------------------------------------------------------------------------
(* The run, as RunLifecycle describes it. *)

InBatch(s) == \E b \in Batches : s \in LinesOf[b] /\ remote[b] # "none"
Bought(s) == calls[s] + IF InBatch(s) THEN 1 ELSE 0

Run == INSTANCE RunLifecycle WITH
         bought <- [s \in Slots |-> Bought(s)],
         answered <- Slots \ Missing,
         told <- reports

\* The runner keeps the promises of RunLifecycle, crashes included.
ImplementsRunLifecycle == Run!Spec
=============================================================================
