------------------------------- MODULE RunFill -------------------------------
(***************************************************************************)
(* Completing a partial run in place.  A fill asks the providers for the   *)
(* run's missing answers only, under the run's own id, while newer sweeps  *)
(* of the project may be queued at any moment; the fill yields to them.    *)
(*                                                                         *)
(* The process is single-threaded: an action is what runs between two      *)
(* awaits.  Admission, claim and setup of a fill are one such stretch; the *)
(* process may die inside it (AdmitThenCrash).                             *)
(***************************************************************************)
EXTENDS Integers, FiniteSets

CONSTANTS
  Slots,         \* the run's expected slots: one question on one provider
  Providers,
  ProviderOf,
  Concurrency,   \* calls a fill has out at one provider at a time
  Breaker,       \* RUN_FILL_PROVIDER_BREAKER
  Fills,         \* the attempts: how many fills are asked for is bounded
  StorageErrors, \* whether a database access may throw
  MaxCrashes     \* bound: how often the process may die

ASSUME FillAssumption ==
  /\ IsFiniteSet(Slots)
  /\ ProviderOf \in [Slots -> Providers]
  /\ Concurrency \in [Providers -> Nat \ {0}]
  /\ Breaker \in Nat \ {0}
  /\ StorageErrors \in BOOLEAN
  /\ MaxCrashes \in Nat

VARIABLES
  \* The database.
  status,     \* runs.status of the run: "partial" or "completed"
  named,      \* the providers its error names
  snap,       \* the slots with a snapshot
  fill,       \* run_fills.status of each attempt, "none" before the insert
  held,       \* what the fills hold of usage_counters, per provider
  active,     \* the project's active run: "none", a full "sweep", a "spot" check
  overtaken,  \* a newer full sweep that is over recorded answers
  closed,     \* too old to fill, or its plan was republished
  \* The memory of the process, per attempt.
  phase,      \* of each slot: one of Phases
  reserved,   \* providerReservations
  sent,       \* providerDispatchCounts
  fails,      \* consecutiveFailures
  stopped,    \* providers the breaker stopped
  filled,     \* answers inserted
  superseded, \* the latch of newerSweepExists
  cut,        \* a worker threw
  up,
  \* History.
  calls,      \* calls made by fills, per provider
  bought,     \* calls made for a slot: each may have to be paid
  lost,       \* those that came to nothing
  reports,    \* times the completion was reported (onRunCompleted)
  late,       \* the attempt recorded an answer behind a newer sweep
  excused,    \* its stored error says no answers were added behind one
  crashes

runVars == <<status, named, snap>>
sweepVars == <<active, overtaken, closed>>
workVars == <<phase, reserved, sent, fails, stopped, filled, superseded, cut>>
procVars == <<up, crashes>>
historyVars == <<calls, bought, lost, reports, late, excused>>
vars == <<runVars, fill, held, sweepVars, workVars, procVars, historyVars>>

Missing == Slots \ snap
Gaps == {ProviderOf[s] : s \in Missing}
Units(p) == {s \in Slots : ProviderOf[s] = p}
\* Not asked for, still to be pulled, waiting at the provider's gate, called, the
\* answer in memory while its evidence is resolved, over.
Phases == {"idle", "todo", "gate", "flight", "answer", "done"}
InHand(f, p) == {s \in Units(p) : phase[f][s] \in {"gate", "flight", "answer"}}
Unrecorded(f, s) == phase[f][s] \in {"flight", "answer"}
ActiveFills == {f \in Fills : fill[f] \in {"queued", "running"}}
FillStatus == {"none", "queued", "running", "completed", "partial", "failed"}
Zero == [p \in Providers |-> 0]

TypeOK ==
  /\ status \in {"partial", "completed"}
  /\ named \in SUBSET Providers
  /\ snap \in SUBSET Slots
  /\ fill \in [Fills -> FillStatus]
  /\ held \in [Providers -> Int]
  /\ active \in {"none", "sweep", "spot"}
  /\ overtaken \in BOOLEAN /\ closed \in BOOLEAN
  /\ phase \in [Fills -> [Slots -> Phases]]
  /\ reserved \in [Fills -> [Providers -> Nat]]
  /\ sent \in [Fills -> [Providers -> Nat]]
  /\ fails \in [Fills -> [Providers -> Nat]]
  /\ stopped \in [Fills -> SUBSET Providers]
  /\ filled \in [Fills -> Nat]
  /\ superseded \in [Fills -> BOOLEAN]
  /\ cut \in [Fills -> BOOLEAN]
  /\ up \in BOOLEAN
  /\ calls \in [Providers -> Nat]
  /\ bought \in [Slots -> Nat] /\ lost \in [Slots -> Nat]
  /\ reports \in Nat
  /\ late \in [Fills -> BOOLEAN] /\ excused \in [Fills -> BOOLEAN]
  /\ crashes \in 0..MaxCrashes

\* A run its sweep left partial: some answers, and every gap named.
Init ==
  /\ status = "partial"
  /\ snap \in SUBSET Slots \ {{}}
  /\ named \in SUBSET Providers \ {{}} /\ Gaps \subseteq named
  /\ fill = [f \in Fills |-> "none"]
  /\ held = Zero
  /\ active = "none" /\ overtaken = FALSE /\ closed = FALSE
  /\ phase = [f \in Fills |-> [s \in Slots |-> "idle"]]
  /\ reserved = [f \in Fills |-> Zero]
  /\ sent = [f \in Fills |-> Zero]
  /\ fails = [f \in Fills |-> Zero]
  /\ stopped = [f \in Fills |-> {}]
  /\ filled = [f \in Fills |-> 0]
  /\ superseded = [f \in Fills |-> FALSE]
  /\ cut = [f \in Fills |-> FALSE]
  /\ up = TRUE
  /\ calls = Zero
  /\ bought = [s \in Slots |-> IF s \in snap THEN 1 ELSE 0]
  /\ lost = [s \in Slots |-> 0]
  /\ reports = 0
  /\ late = [f \in Fills |-> FALSE] /\ excused = [f \in Fills |-> FALSE]
  /\ crashes = 0

-----------------------------------------------------------------------------
(* The newer sweeps a fill yields to. *)

\* newerFullSweep: an active newer sweep, or one that is over and measured
\* something.
NewerFullSweep == active = "sweep" \/ overtaken

SweepQueued ==
  /\ up /\ active = "none"
  /\ active' \in {"sweep", "spot"}
  /\ UNCHANGED <<runVars, fill, held, overtaken, closed, workVars, procVars, historyVars>>

\* A sweep that fails or is cancelled may have measured nothing.
SweepOver ==
  /\ active # "none"
  /\ active' = "none"
  /\ overtaken' \in {overtaken, overtaken \/ active = "sweep"}

SweepEnds ==
  /\ up /\ SweepOver
  /\ UNCHANGED <<runVars, fill, held, closed, workVars, procVars, historyVars>>

Closes ==
  /\ ~closed /\ closed' = TRUE
  /\ UNCHANGED <<runVars, fill, held, active, overtaken, workVars, procVars, historyVars>>

-----------------------------------------------------------------------------
(* queueRunFill, executeRunFill: admission, claim and setup. *)

Refused == status # "partial" \/ closed \/ NewerFullSweep

\* The providers asked for all have gaps; by default all that have are asked.
\* A run with no gap left is filled too: that only completes it.
BusyWithSweep == active # "none"                  \* faulty: fills do not exclude
Busy == ActiveFills # {} \/ active # "none"
Admissible(f, asked) ==
  /\ up /\ fill[f] = "none"
  /\ ~Refused /\ ~Busy
  /\ asked \subseteq Gaps
  /\ asked = {} => Gaps = {}

\* What is missing now, never the run's whole manifest.
ToAsk(asked) == {s \in Missing : ProviderOf[s] \in asked}
Needed(p, asked) == Cardinality({s \in ToAsk(asked) : ProviderOf[s] = p})

\* The day's quota of a provider may turn out too small for it; a read of the
\* setup may throw, with some of the quota reserved.
AdmitFill(f, asked) ==
  /\ Admissible(f, asked)
  /\ \E served \in SUBSET asked :
       LET reserve == [p \in Providers |-> IF p \in served THEN Needed(p, asked) ELSE 0]
       IN /\ reserved' = [reserved EXCEPT ![f] = reserve]
          /\ held' = [p \in Providers |-> held[p] + reserve[p]]
          /\ \E threw \in {FALSE, StorageErrors} :
              /\ cut' = [cut EXCEPT ![f] = threw]
              /\ phase' = [phase EXCEPT ![f] =
                   [s \in Slots |->
                      IF s \in ToAsk(served) /\ ~threw THEN "todo" ELSE "idle"]]
  /\ fill' = [fill EXCEPT ![f] = "running"]
  /\ UNCHANGED <<runVars, sweepVars, sent, fails, stopped, filled, superseded,
                 procVars, historyVars>>

-----------------------------------------------------------------------------
(* runClaimedFill: the workers, through executePlanSlot. *)

\* shouldSkip: before the slot joins the provider's queue, and again when its
\* turn comes, before the call is paid for.
AttemptRemoved(f) == fill[f] # "running"
Stopped(f, s) == ProviderOf[s] \in stopped[f] \/ AttemptRemoved(f)
NewerSweepExists(f) == superseded[f] \/ NewerFullSweep
ShouldSkipUnlessStopped(f, s) ==                  \* faulty: the breaker does nothing
  AttemptRemoved(f) \/ NewerSweepExists(f) \/ s \in snap
ShouldSkip(f, s) == Stopped(f, s) \/ NewerSweepExists(f) \/ s \in snap

\* A worker pulls the slot: the provider's other workers have their own.
Pulls(f, s) ==
  /\ up /\ phase[f][s] = "todo"
  /\ Cardinality(InHand(f, ProviderOf[s])) < Concurrency[ProviderOf[s]]
ItsTurn(f, s) == up /\ phase[f][s] = "gate"

SkipSlot(f, s) ==
  /\ Pulls(f, s) \/ ItsTurn(f, s)
  /\ ShouldSkip(f, s)
  /\ phase' = [phase EXCEPT ![f][s] = "done"]
  /\ superseded' = [superseded EXCEPT ![f] = @ \/ (~Stopped(f, s) /\ NewerFullSweep)]
  /\ UNCHANGED <<runVars, fill, held, sweepVars, reserved, sent, fails, stopped, filled,
                 cut, procVars, historyVars>>

JoinGate(f, s) ==
  /\ Pulls(f, s) /\ ~ShouldSkip(f, s)
  /\ phase' = [phase EXCEPT ![f][s] = "gate"]
  /\ UNCHANGED <<runVars, fill, held, sweepVars, reserved, sent, fails, stopped, filled,
                 superseded, cut, procVars, historyVars>>

CallUnchecked(f, s) == ItsTurn(f, s)              \* faulty: only checked when pulled
MayCall(f, s) == ItsTurn(f, s) /\ ~ShouldSkip(f, s)
CallProvider(f, s) ==
  /\ MayCall(f, s)
  /\ phase' = [phase EXCEPT ![f][s] = "flight"]
  /\ sent' = [sent EXCEPT ![f][ProviderOf[s]] = @ + 1]
  /\ calls' = [calls EXCEPT ![ProviderOf[s]] = @ + 1]
  /\ bought' = [bought EXCEPT ![s] = @ + 1]
  /\ UNCHANGED <<runVars, fill, held, sweepVars, reserved, fails, stopped, filled,
                 superseded, cut, procVars, lost, reports, late, excused>>

\* prepareSlot awaits captureCitedUrls: the answer is paid for, and nowhere but in
\* memory.
AnswerArrives(f, s) ==
  /\ up /\ phase[f][s] = "flight"
  /\ phase' = [phase EXCEPT ![f][s] = "answer"]
  /\ UNCHANGED <<runVars, fill, held, sweepVars, reserved, sent, fails, stopped, filled,
                 superseded, cut, procVars, historyVars>>

\* recordSlot: an answer for a slot somebody else recorded changes nothing.
RecordSlot(f, s) ==
  /\ up /\ phase[f][s] = "answer"
  /\ phase' = [phase EXCEPT ![f][s] = "done"]
  /\ snap' = snap \cup {s}
  /\ filled' = [filled EXCEPT ![f] = @ + IF s \in snap THEN 0 ELSE 1]
  /\ fails' = [fails EXCEPT ![f][ProviderOf[s]] = 0]
  /\ late' = [late EXCEPT ![f] = @ \/ (NewerFullSweep /\ s \notin snap)]
  /\ UNCHANGED <<status, named, fill, held, sweepVars, reserved, sent, stopped,
                 superseded, cut, procVars, calls, bought, lost, reports, excused>>

\* onOutcome(false): the provider failed, its answer could not be read or stored,
\* or a read at its turn threw.
CallFailed(f, s) ==
  LET p == ProviderOf[s]
  IN /\ up
     /\ Unrecorded(f, s) \/ (StorageErrors /\ ItsTurn(f, s))
     /\ phase' = [phase EXCEPT ![f][s] = "done"]
     /\ fails' = [fails EXCEPT ![f][p] = @ + 1]
     /\ stopped' = [stopped EXCEPT ![f] = IF fails'[f][p] >= Breaker THEN @ \cup {p} ELSE @]
     /\ lost' = [lost EXCEPT ![s] = IF Unrecorded(f, s) THEN @ + 1 ELSE @]
     /\ UNCHANGED <<runVars, fill, held, sweepVars, reserved, sent, filled, superseded,
                    cut, procVars, calls, bought, reports, late, excused>>

\* A read before the queue throws: Promise.all rejects, its siblings go on.
WorkerThrows(f, s) ==
  /\ StorageErrors /\ Pulls(f, s) /\ ProviderOf[s] \notin stopped[f]
  /\ phase' = [phase EXCEPT ![f][s] = "done"]
  /\ cut' = [cut EXCEPT ![f] = TRUE]
  /\ UNCHANGED <<runVars, fill, held, sweepVars, reserved, sent, fails, stopped, filled,
                 superseded, procVars, historyVars>>

-----------------------------------------------------------------------------
(* The end of an attempt. *)

FillOver(f) ==
  /\ up /\ fill[f] = "running"
  /\ cut[f] \/ \A s \in Slots : phase[f][s] \in {"idle", "done"}

\* flushProviderUsage: give back what was reserved and never sent.
UnsentAll(f, p) == reserved[f][p]                 \* faulty: calls are free
Unsent(f, p) == reserved[f][p] - sent[f][p]
Flush(f, P) ==
  /\ held' = [p \in Providers |-> held[p] - IF p \in P THEN Unsent(f, p) ELSE 0]
  /\ reserved' = [reserved EXCEPT ![f] = Zero]

\* measurementRunSlotState has nothing missing.
CompleteUnlessLate(f) ==                          \* faulty: left partial
  Missing = {} /\ ~NewerFullSweep
Complete(f) == Missing = {}

\* Checked again at the end: a sweep may have been queued since the last call.
Superseded(f) == superseded[f] \/ NewerFullSweep

\* The run's error names the providers that still have gaps.
ErrorOfAttempt(f) ==                              \* faulty: only this fill's failures
  {p \in Gaps : \E s \in Units(p) : phase[f][s] # "idle"}
ErrorNow(f) == Gaps

EndOf(f) ==
  IF Complete(f) THEN "completed" ELSE IF filled[f] > 0 THEN "partial" ELSE "failed"

\* The transaction of finalizeRunFill.
WriteOutcome(f) ==
  /\ status' = IF Complete(f) THEN "completed" ELSE status
  /\ named' = IF Complete(f) THEN {} ELSE IF cut[f] THEN named ELSE ErrorNow(f)
  /\ fill' = [fill EXCEPT ![f] = EndOf(f)]
  /\ excused' = [excused EXCEPT ![f] = ~Complete(f) /\ ~cut[f] /\ Superseded(f)]

\* A completion that was not overtaken runs the rest of the post-run pipeline.
FinalizeRunFill(f) ==
  /\ FillOver(f)
  /\ Flush(f, Providers)
  /\ WriteOutcome(f)
  /\ reports' = reports + IF Complete(f) /\ ~Superseded(f) THEN 1 ELSE 0
  /\ UNCHANGED <<snap, sweepVars, phase, sent, fails, stopped, filled, superseded, cut,
                 procVars, calls, bought, lost, late>>

\* A write of the end throws: the attempt is failed, the run left as it is.
FillAborted(f) ==
  /\ StorageErrors /\ FillOver(f)
  /\ \E P \in SUBSET Providers : Flush(f, P)
  /\ fill' = [fill EXCEPT ![f] = "failed"]
  /\ UNCHANGED <<runVars, sweepVars, phase, sent, fails, stopped, filled, superseded, cut,
                 procVars, historyVars>>

-----------------------------------------------------------------------------
(* The process dies, and boots again. *)

\* Memory is gone, and with it what was called for and is not recorded.
Die ==
  /\ up /\ crashes < MaxCrashes
  /\ up' = FALSE
  /\ crashes' = crashes + 1
  /\ phase' = [f \in Fills |-> [s \in Slots |-> "done"]]
  /\ reserved' = [f \in Fills |-> Zero]
  /\ sent' = [f \in Fills |-> Zero]
  /\ fails' = [f \in Fills |-> Zero]
  /\ stopped' = [f \in Fills |-> {}]
  /\ filled' = [f \in Fills |-> 0]
  /\ superseded' = [f \in Fills |-> FALSE]
  /\ cut' = [f \in Fills |-> FALSE]
  /\ lost' = [s \in Slots |-> IF \E f \in Fills : Unrecorded(f, s) THEN lost[s] + 1 ELSE lost[s]]
  /\ UNCHANGED <<snap, sweepVars, calls, bought, reports, late>>

Crash == Die /\ UNCHANGED <<status, named, fill, held, excused>>

AdmitThenCrash(f, asked) ==
  /\ Die
  /\ Admissible(f, asked)
  /\ \E now \in {"queued", "running"} : fill' = [fill EXCEPT ![f] = now]
  /\ \E served \in SUBSET asked :
       /\ fill'[f] = "queued" => served = {}
       /\ held' = [p \in Providers |->
            held[p] + IF p \in served THEN Needed(p, asked) ELSE 0]
  /\ UNCHANGED <<status, named, excused>>

\* At the end of a fill: some of the quota given back, the outcome written, but
\* the completion not reported.
EndThenCrash(f) ==
  /\ Die
  /\ FillOver(f)
  /\ \E P \in SUBSET Providers :
       /\ held' = [p \in Providers |-> held[p] - IF p \in P THEN Unsent(f, p) ELSE 0]
       /\ \/ P = Providers /\ WriteOutcome(f)
          \/ UNCHANGED <<status, named, fill, excused>>

\* recoverStaleRuns: a fill the process died under is failed, nothing else; an
\* active sweep fails too, or resumes with its batches.
RecoveredForgotten(now) == now                    \* faulty: left as it was
Recovered(now) == IF now \in {"queued", "running"} THEN "failed" ELSE now
Restart ==
  /\ ~up /\ up' = TRUE
  /\ fill' = [f \in Fills |-> Recovered(fill[f])]
  /\ SweepOver \/ UNCHANGED <<active, overtaken>>
  /\ UNCHANGED <<runVars, held, closed, workVars, crashes, historyVars>>

-----------------------------------------------------------------------------
CallReturns(f) ==
  \E s \in Slots : AnswerArrives(f, s) \/ RecordSlot(f, s) \/ CallFailed(f, s)
Pull(f) == \E s \in Slots : \/ SkipSlot(f, s) \/ JoinGate(f, s)
                            \/ CallProvider(f, s) \/ WorkerThrows(f, s)
EndFill(f) == FinalizeRunFill(f) \/ FillAborted(f)

Next ==
  \/ SweepQueued \/ SweepEnds \/ Closes
  \/ \E f \in Fills, asked \in SUBSET Providers :
       AdmitFill(f, asked) \/ AdmitThenCrash(f, asked)
  \/ \E f \in Fills : Pull(f) \/ CallReturns(f) \/ EndFill(f) \/ EndThenCrash(f)
  \/ Crash \/ Restart

\* Provider calls time out, workers go on and a supervisor boots the process.
Fairness ==
  /\ \A f \in Fills : WF_vars(Pull(f)) /\ WF_vars(CallReturns(f)) /\ WF_vars(EndFill(f))
  /\ WF_vars(Restart)

Spec == Init /\ [][Next]_vars
FairSpec == Spec /\ Fairness

-----------------------------------------------------------------------------
(* What must hold. *)

\* A slot is called for again only after a call for it came to nothing: it failed,
\* its answer could not be read or stored, or the process died before storing it.
\* An answer that is stored, on its way or in memory is never bought again, by no
\* later attempt (runClaimedFill decides what is missing when it starts,
\* slotRecorded before it pays).
OnlyLostIsRebought == \A s \in Slots : bought[s] <= 1 + lost[s]

\* A run is completed by its fill only when no provider has a gap left, and its
\* error goes with its gaps (finalizeRunFill).
CompletedIsWhole == status = "completed" => Missing = {} /\ named = {}

\* The error of a partial run still names every provider with a gap.
GapsStayNamed == status = "partial" => Gaps \subseteq named

\* What a reader is told of a run agrees with what it holds: whole and without
\* an error, or partial with every gap named, also after fills that were asked
\* for one provider only, or cut short by a database access that threw.
StatusAndErrorAgree == CompletedIsWhole /\ GapsStayNamed

\* A provider that keeps failing fails at most the breaker's number of times in
\* a row, and once more for every other slot its workers had in hand then
\* (RUN_FILL_PROVIDER_BREAKER).
FailuresBounded ==
  \A f \in Fills, p \in Providers : fails[f][p] <= Breaker - 1 + Concurrency[p]

\* The day's counter covers the calls fills made, and when no fill is at work
\* and the process never died it covers nothing else.
QuotaMatchesCalls ==
  \A p \in Providers :
    /\ held[p] >= calls[p]
    /\ ActiveFills = {} /\ crashes = 0 /\ ~StorageErrors => held[p] = calls[p]

\* A run with gaps that a fill closed is completed once no fill is at work.
WholeRunIsCompleted ==
  (\E f \in Fills : filled[f] > 0) /\ Missing = {} /\ ActiveFills = {}
    /\ crashes = 0 /\ ~StorageErrors => status = "completed"

\* Behind a newer sweep no provider is called and no completion reported.
YieldsToNewerSweep ==
  [][NewerFullSweep => UNCHANGED <<calls, reports>>]_vars

\* Every fill ends, or boot recovery ends it: a fill at work blocks the next.
FillEnds == \A f \in Fills : f \in ActiveFills ~> f \notin ActiveFills

\* The stored error of a fill that yielded: "no answers were added behind it".
NoneAddedBehind == \A f \in Fills : excused[f] => ~late[f]

-----------------------------------------------------------------------------
(* The inductive invariant behind the proofs. *)

\* Until the breaker stops a provider it failed less than that in a row; after
\* that, only the slots its workers had in hand then can still fail.
BreakerInv ==
  \A f \in Fills, p \in Providers :
    /\ Cardinality(InHand(f, p)) <= Concurrency[p]
    /\ p \notin stopped[f] => fails[f][p] < Breaker
    /\ p \in stopped[f] =>
         fails[f][p] + Cardinality(InHand(f, p)) <= Breaker - 1 + Concurrency[p]

\* One fill is at work, and a process that is down has no calls out.
OneFill == \A f, g \in ActiveFills : f = g
DownInv == ~up => crashes > 0 /\ \A f \in Fills, s \in Slots : phase[f][s] = "done"

\* While database accesses succeed, only the fill at work has calls out, and
\* only for gaps of the run; a gap nobody has out was lost as often as bought.
InWork(f, s) == phase[f][s] \in {"todo", "gate", "flight", "answer"}
AskInv ==
  ~StorageErrors =>
    /\ \A f \in Fills : ~cut[f]
    /\ \A f \in Fills, s \in Slots :
         /\ InWork(f, s) => fill[f] = "running"
         /\ Unrecorded(f, s) => s \notin snap
    /\ \A s \in Missing :
         (\A f \in Fills : ~Unrecorded(f, s)) => bought[s] <= lost[s]
    /\ OnlyLostIsRebought

IInv ==
  /\ TypeOK /\ BreakerInv
  /\ OneFill /\ DownInv /\ AskInv
  /\ CompletedIsWhole /\ GapsStayNamed

\* The fill at work reserved a unit for every slot it may still call for, and
\* the counter holds what it has left to send with the calls that were made.
AtWork == {f \in Fills : up /\ fill[f] = "running"}
Waiting(f, p) == {s \in Units(p) : phase[f][s] \in {"todo", "gate"}}
ReserveInv ==
  /\ \A f \in Fills : fill[f] = "none" => sent[f] = Zero
  /\ \A f \in AtWork, p \in Providers : Cardinality(Waiting(f, p)) <= Unsent(f, p)
HeldInv ==
  \A p \in Providers :
    /\ held[p] >= calls[p]
    /\ \A f \in AtWork : held[p] >= calls[p] + Unsent(f, p)
    /\ crashes = 0 /\ ~StorageErrors =>
         /\ ActiveFills = {} => held[p] = calls[p]
         /\ \A f \in AtWork : held[p] = calls[p] + Unsent(f, p)
=============================================================================
