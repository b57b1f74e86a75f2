# Verification of Canonry's run engine, paid searches, sentiment queue and review alerts

Canonry tracks how AI answer engines mention and cite a site. Its server is one
Node process over a SQLite database. The part of it that spends money, runs for
hours, survives restarts and is driven by several actors at once is the *run
engine*: the executor that sweeps a project's questions over answer providers,
the provider-batch poller, the fills that complete a partial run, the request
gate and the daily quota they all share. Two more parts buy things from
providers through queues of their own: the paid SEO searches, under budgets of
money, and the sentiment queue, which has stored answers classified. A last one
owes something to people outside: the negative Google reviews it forwards to
webhooks, some of which cannot tell a resend from a new message. This directory
models these parts in TLA+, checks them with TLC and proves the results that
matter most with TLAPS.

Paths below are relative to the repository root as `src/` presents it;
`job-runner.ts` stands for `src/packages/canonry/src/job-runner.ts` and so on.

## Inventory

| Component | State it keeps | Operations | Hard part |
|---|---|---|---|
| Answer sweep (`job-runner.ts` `executeRun`) | `runs`, `query_snapshots`, quota reservation and counts in memory | reserve, submit batches, call providers, record, finalize or hand off | provider workers interleave, any await may see the run cancelled, a write may throw |
| Batch poller (`provider-batch-poller.ts`, ingest half of `job-runner.ts`) | `provider_batches`, `provider_batch_requests` | poll, cancel at the deadline, ingest a stream in chunks, close, finalize | days of waiting, broken streams, expired results, restarts |
| Cancel route (`runs.ts`), boot recovery (`recoverStaleRuns`) | the same rows | cancel, stop at the provider, settle what a dead process left | race every step of the two above |
| Run fill (`run-fill.ts`, `executeRunFill`) | fill runs, the parent run's snapshots and status | admit, claim, answer the missing slots, finalize both runs | writes into a finished run while newer runs start |
| Request gate (`provider-execution-gate.ts`) | window of dispatches, waiters, timer, calls in flight | run, cancel, finish, update policy, timer | a lost wake-up stops every run on a provider |
| Daily quota (`usage-quota.ts`) | `usage_counters` | reserve, release | given back twice or never |
| Run queue (`run-queue.ts`), scheduler (`scheduler.ts`) | `runs`, `schedules` | queue if idle, claim a due slot, catch up | two triggers at once, downtime |
| Run coordinator (`run-coordinator.ts`) | insights, notifications, agent wake-ups | after a run is reported | one step of several failing |
| Paid SEO refresh (`seo-repository.ts`, `seo-runtime.ts`) | `seo_jobs`, `seo_tasks`, `seo_budgets`, the run of each job; receipts not yet stored, in memory | admit, claim and post, settle, retry, cancel, recover, reconcile by hand | a paid search whose receipt is lost, reservations carried over midnight, two processes around a restart |
| Sentiment queue (`sentiment-repository.ts`, `sentiment-worker.ts`) | settings, receipts, jobs, shared work items, the install's pause | record a completion, reconcile, claim, ask, store, cancel, take up again | requests that are out while their work is cancelled and queued again, counts kept by differences |
| Research, discovery (`research-runner.ts`, `discovery-run.ts`) | their own run rows | claim, call, record | retries, cancellation |
| Review alerts (`gbp-reviews.ts`, `notifier.ts`, `review-webhook-delivery.ts`) | `gbp_reviews.alert_state`, `review_webhook_deliveries`, the pass in memory | observe, dispatch, drain what is due, deliver, acknowledge | a resend of what appeared, settings that change while a name is resolved, a death while a request is out |
| Other notifications (`notifier.ts`) | dedup keys | render, send | not modelled |
| Agent sessions (`agent/session-registry.ts`) | live sessions in memory, transcript in the database | prompt, follow-up, drain, evict | memory and database disagree |
| Measurement drafts, ads activation | versioned documents, approvals | compare-and-set edits, activate | stale approvals |
| Everything else | — | reads, imports, rendering | not modelled (see PROJECT.json) |

What makes each correct is listed with its module below. `PROJECT.json` lists
every component with its status and every hazard with the properties that cover
it.

## Plan

1. `BatchSweep` (done): a plan-aware run from the queue to its terminal status,
   with batches, the poller, the cancel route and crashes; `RunLifecycle`, the
   abstract promise it implements; its proofs.
2. `RunFill` (done): the fill of a partial run, against newer sweeps and
   crashes, with the breaker; its proofs.
3. `ExecutionGate` (done): the request gate with its rolling minute; its proofs.
4. `ReviewAlerts` (done): alert states, dispatch, retries and acknowledgement of
   negative reviews, against edits, settings and crashes; its proofs.
5. `SeoRefresh` (done): paid searches under budgets, lost receipts, restarts; its
   proofs.
6. `SentimentQueue` (done): receipts, jobs, claims and the pause; its proofs.
7. `DailyQuota` and `RunQueue`: reservations by several runs of one day and the
   admission of runs (one active run per project, dispatch modes frozen).
8. `Scheduler`: due slots, claims, catch-up and the batch-pending hold, composed
   with the queue.
9. `RunCoordinator`, `SessionRegistry`, then drafts and ads activation, one
   module each.
10. `RunFill` shown to implement an abstract "answers only grow, status follows"
    specification shared with `RunLifecycle`.

Every module keeps its parameters as CONSTANTS with named assumptions, one
action per operation, and no RECURSIVE operator, so that it can be proved about.

## Modules

### BatchSweep

One run with a measurement manifest. Node runs one handler at a time, so an
action is what runs between two awaits. Where one synchronous stretch makes
several database transactions, the process can die between them: those cuts are
the actions `CancelThenCrash`, `CatchErrorThenCrash`, `HandOffThenCrash`.

State: the database columns of the run, its batches, their ledger and what the
run holds of the daily counter; the memory of the process (the sweep's
workers and counts, the poller's position, the prepared chunk, stop requests);
the providers' view of each batch and the clock (`overdue`, `graceOver`); and
four history variables (`calls`, `stopAsked`, `reports`, `crashes`).

| Actions | Code |
|---|---|
| `StartRun`, `StartRefused`, `StartCancelled` | entry of `executeRun`, quota reservation |
| `SubmitBatch`, `LedgerFails`, `SubmitAccepted`, `SubmitRefused`, `SubmitUnknown`, `SubmitWriteFails` | `submitPlanBatches`, `submitProviderBatch` |
| `Dispatch`, `CallAnswered`, `CallFailed`, `SeeCancelled` | `executePlanSlot`, `recordSlot`, `throwIfRunCancelled` |
| `FinalizeRun`, `HandOff`, `HandOffSettled`, `CatchCancel`, `CatchError`, `EndWriteFails` | the ends of `executeRun` |
| `Abandon`, `Advance`, `PollEnded`, `PollNotEnded` | `ProviderBatchPoller.advance`, `enforceDeadline` |
| `ReadLine`, `FlushChunk`, `IngestCancelled`, `IngestFails`, `CompleteIngest` | `ingestProviderBatch`, `persistBatchLines`, `completeBatchIngest`, `abandonUnreadableProviderBatch` |
| `FinalizeBatchRun` | `finalizeBatchRun` |
| `CancelRun`, `StopAtProvider` | the cancel route, `cancelRunBatches`, `cancelAtProvider` |
| `DeadlinePasses`, `GraceEnds` | the wall clock as `enforceDeadline` reads it |
| `Crash` and the three cuts, `Restart` | process death, `recoverStaleRuns` |

Abstractions. A slot is one question on one provider; prompts, answers and
prices are left out. A batch line ends recorded, duplicate, errored (which
stands for errored, expired and canceled: all three are unbilled) or
parse_failed. The poll backoff is a poll at any time; the request gate and the
fan-out cap are left out (they only delay calls). A database write throws, when
`StorageErrors`, at named points: the batch ledger, a submission's result row,
a recorded answer, a chunk, the end of the sweep. Planless runs, browser
providers, project deletion and two processes on one database are not modelled.

Properties, besides `TypeOK`:

- `NeverPaidTwice`: no slot is called twice, and none is called whose batch may
  exist at the provider.
- `QuotaExact`: the day's counter covers what may be billed at every moment,
  and without a crash ends at exactly that. It is stated for a database that
  takes its writes: a sweep that a failing write has ended has released its
  reservation while its workers may still send (the first finding below).
- `LedgerMatchesSnapshots`, `AnswersArePermanent` (proved only): batch ledger
  and recorded answers agree, and neither is ever replaced.
- `FinalMeansSettled`, `EveryGapNamed`: what completed and partial mean.
- `NothingOnceOver` (nothing sent, `NothingSentOnceOver`, and nothing stored,
  `NothingRecordedOnceOver`), `ReportedOnce`, `TerminalIsFinal` (proved only): a
  run that is over.
- `RunTerminates`, `EndIsReported`, `OrphanIsStopped`: liveness.

### RunLifecycle

The abstract specification: start, buy an unbought answer, record bought
answers while running, finish once, tell once. `BatchSweep` implements it with
`bought` = sync calls plus membership in an existing batch, `answered` = the
slots with a snapshot, `told` = the reports.

### RunFill

Completing a partial run in place: several attempts (`Fills`) at one run, while
full sweeps and spot checks of the project are queued and end around them.
Admission, claim and setup (`queueRunFill`, the claim of `executeRunFill` and
`runClaimedFill` up to its workers) have no await between them, so they are one
action; the process may die inside it (`AdmitThenCrash`).

State: the run's status, the providers its error names and its snapshots; the
status of each attempt; what the fills hold of the daily counter; the project's
active run and whether a newer full sweep that is over measured something; per
attempt the phase of each slot, the reservation and counts, the breaker's
consecutive failures and the latches of `runClaimedFill`.

| Actions | Code |
|---|---|
| `AdmitFill` | `evaluateRunFill`, `queueRunFill`, `executeRunFill`, setup of `runClaimedFill` |
| `SkipSlot`, `JoinGate`, `CallProvider` | the two `shouldSkip` checks of `executePlanSlot`, before the provider's queue and at its turn |
| `AnswerArrives` | the call returns, `prepareSlot` awaits `captureCitedUrls` |
| `RecordSlot`, `CallFailed` | the insert of `recordSlot`, `onOutcome` |
| `WorkerThrows` | a read of `shouldSkip` rejects the workers; siblings go on |
| `FinalizeRunFill`, `FillAborted` | the `finally` of `runClaimedFill`, `finalizeRunFill`, the catch of `executeRunFill` |
| `SweepQueued`, `SweepEnds`, `Closes` | `queueRunIfProjectIdle`, `finalizeRun` of the other runs; age and republication |
| `Crash`, `AdmitThenCrash`, `EndThenCrash`, `Restart` | process death, `recoverStaleRuns` |

Abstractions. The order in which a provider's slots are pulled is arbitrary (the
code's is one of them), and the fan-out cap over providers is left out. The
quota of a provider may be refused at any admission; the counter of other runs
is not in the model. Wording of the run's error is left out: `named` is its set
of providers. Identity reconciliation of answers is data. A database access
throws, when `StorageErrors`, in the setup, in a worker's checks, when an answer
is stored and at the end of an attempt; that the write which records an abort
throws too (the attempt then stays active until the next boot) is not modelled.

- `OnlyLostIsRebought`: a slot is called for again only after a call for it came
  to nothing (`bought` counts the calls of a slot when they are made, `lost` those
  that failed, that could not be read or stored, or that were out or in memory
  when the process died). So a death costs a slot at most one more call: an
  answer paid for and lost before its insert is bought again by the next fill,
  and nothing in the code prevents that. An answer that is stored, on
  its way or in memory is never bought again, by no later attempt. It is stated
  for a database that takes its writes: with an attempt cut short by a read that
  threw, its siblings' calls may still be out when the next attempt decides what
  is missing.
- `StatusAndErrorAgree` (`CompletedIsWhole` and `GapsStayNamed`),
  `WholeRunIsCompleted`: status, error and snapshots of the run agree.
- `FailuresBounded`: the breaker under concurrent calls.
- `QuotaMatchesCalls`: the counter covers the calls at every moment and ends at
  exactly their number. Its run has no failing accesses; that the counter covers
  the calls when a worker's read throws is proved (`QuotaCovers`), not run.
- `YieldsToNewerSweep`: behind a newer sweep nothing is paid for or reported.
- `FillEnds`: liveness.

The model also shows that a run refused as superseded becomes fillable again
when the newer sweep ends without an answer (`NewerFullSweep` turns false),
though `contracts/src/run-fill.ts` calls every refusal but the quota's permanent;
the refusal is recomputed on every request, so this is a matter of wording.

### ExecutionGate

`ProviderExecutionGate`: one shared queue per provider, a cap on the calls out
and one on the calls started in any rolling minute. `Dispatch` is the loop of
`dispatchQueued` in closed form: it starts `Startable` waiters from the head of
the queue and re-arms the timer if the rate holds the next one back. Every
operation (`Run`, `Cancel`, `Finish`, `UpdatePolicy`, `TimerFires`) ends in it.
Time is ticks, `Minute` of them to the minute; the timestamps of the window are
the ages of the started requests. The 50 ms the code adds to its timer are the
tick that makes the oldest start older than a minute. The clock goes forward.

- `StartsInTurn`: both caps at every start, over every closed minute, also after
  a reload, and nobody overtakes.
- `NoLostWakeup`: no waiter stands before a free slot without a timer that fires
  when the rate allows the next start.
- `EveryoneServed`: liveness.

### ReviewAlerts

The negative reviews of one project and their deliveries. A sync writes the
alert state of a review (`Observe`); a dispatch after it sends what is pending
to every webhook subscribed at that moment, one delivery per review revision and
webhook; then, and on a minute timer, a drain takes up the rows that are due.
A dispatch and a drain exclude each other per project, so there is one pass; it
waits twice in each delivery, for the resolver and for the answer, and
everything else may happen meanwhile.

State: the columns of the review rows (`alert`, `rev`, `rated`) and of the
delivery rows (`state`, `target`, `attempts`; `waiting` is a `retryAt` ahead,
`fresh` an attempt younger than a minute); the settings; the pass (`phase`,
`todo`, `audience`, `failed`, `left`, `stage`, `at`); what the receiver did
(`got`); and the histories `appeared`, `accepted`, `told`.

| Actions | Code |
|---|---|
| `Observe` | `persistReviewObservation`, `reviewAlertState` |
| `Dispatch`, `TimerFires`, `ReadDue`, `PassEnds` | `dispatchReviewAlerts`, `drainDueReviewDeliveries`, `dueReviewDeliveryProjects` |
| `Refuse`, `AlreadySettled`, `Unrenderable`, `StillAttempting`, `Interrupted`, `NotYet`, `Try` | `deliverReviewEvent` up to the resolver |
| `Unresolved`, `Revoked`, `ClaimLost`, `Claim` | the resolver's answer, the second check, the conditional claim |
| `ReceiverActs`, `Accepted`, `Declined`, `Retryable`, `Unanswered` | the request and its result |
| `SetThreshold`, `Withhold`, `Cover`, `Subscribe`, `ChangeUrl`, `Remove` | settings; `syncNotificationSet` |
| `Ages`, `RetryFallsDue`, `AttemptGoesStale`, `Restart` | the clock, process death |

Each action that ends a delivery also ends its turn in the dispatch (`Returns`),
which acknowledges the review when it was the last and all of them accepted.

Abstractions. Instants are what they are compared with. A receiver acts on a
request or does not, and one that answers with an error did not; this is what
the code relies on when it retries a chat webhook after a 429 or a 5xx. Ratings
are low, mid (negative unless the threshold is strict) and high. Rating drops,
the audit log, the cap of a hundred rows in a drain, the order of deliveries in
a pass, the removal of a review, and webhooks from before there were signing
secrets are left out.

- `AttemptsAreTrue`: no chat message appears twice and no settled row lies about
  whether it appeared (`ChatRecordIsTrue`); attempts are bounded by the maximum
  plus one for each process death (`RetriesBounded`).
- `AckIsEarned`: an alert counts as sent only when every webhook found
  subscribed accepted the revision the row holds. The docs ask for less: "sent:
  delivered to at least one subscribed webhook" (`contracts/src/gbp.ts`), "only
  after a destination accepted it" (`notifier.ts`). Nothing contradicts the
  code, which keeps the alert pending until the last webhook accepts.
- `SettledIsFinal`, `RevokedIsNotSent`: what no step may do to a settled row,
  and to one whose authority is gone.
- `DebtSettles`: liveness. Its exception is the code's: an interrupted attempt
  that may no longer be sent is put off a retry at a time, to keep its evidence,
  until it may be sent again or its webhook is deleted.

### SeoRefresh

A refresh is one job of a project with a task for each search (a capability on a
target), each paid. Every task has its price reserved in three budgets
(account and day, account and month, project and month) and may be repeated once
(`queueRetry`). `db` is the database, and an operator `d |-> d'` on it is what
one transaction of `seo-repository.ts` writes, so that a handler is a
composition of them (`Settle` releases, spends, retries and finishes). `proc` is
the memory of each process: where its dispatch loop is, the task it has posted
and the receipt it holds until it is stored. Two processes are alive when one is
started while the other still shuts down or was suspended.

| Actions | Code |
|---|---|
| `Admit`, `CancelRequested`, `DeleteProject`, `Reconcile` | `admit`, `cancel`, the cascade of a project, `reconcile` |
| `Wake`, `EndPass`, `Paused`, `Visit`, `Withdraw` | `wake` and the loop of `drain`: recovery, the pass over open jobs, limits and connections checked again |
| `Post` | `claim` and the request that follows it without an await |
| `Answer`, `StoreReceipt`, `StopRefresh` | `execute`, the two halves of `flushSettlements` |
| `Renew`, `LeaseRunsOut` | heartbeats and the 120 s lease |
| `StorageFails`, `Crash`, `StartServer`, `DayTurns`, `HostChanges`, `HostRepaired` | faults, the clock, the settings of the host |

Abstractions. Money is in units; a price is what the task reserved. Periods are
days and months by number. An adapter answers with an outcome, a cost or none,
and whether a retry makes sense; a cost above the reservation sends the task to
the operator, as in `settle`. Profiles, scopes, intents and their signatures are
left out: a replay of an accepted request changes nothing.

- `LedgerBalanced`: what budgets hold is what the tasks hold, period by period,
  and what they spent is what receipts and operators reported.
- `WithinBudget`: no period of a budget and no run pays more than its limit,
  apart from what a provider charged above its reservation.
- `PostedOnce`, `OneAtATime`: no search is posted twice; on an account one is
  out, or none while an operator has to judge one. A post is one
  `adapter.execute`: the client below it sends a request again that the provider
  throttled and explicitly did not accept, which costs nothing. `OneAtATime` is
  about the rows; a call an operator has judged may still be on its way.
- `StatusIsHonest`, `ReceiptsStand`: what jobs, runs and tasks say.
- `RefreshEnds`: liveness; its exception is the account that waits for the
  operator.

### SentimentQueue

The sentiment of one project. Every completed run leaves a receipt; a tick of
the worker admits the answers of new receipts as jobs, one per query class,
claims a few work items under a lease, asks the classifier once for each and
stores what came back. Jobs share work items and only count them.

State: `db` (work items; jobs with their counts; which job follows which item;
the project's settings with enablement epoch, boundary and cursor; the pause of
the install; the number of receipts), `worker` (the tick each process is in and
the requests it has out), `host` (the install's configuration), `era` (history:
the enablement in force when a receipt was recorded) and `bounds` (what the
faults, changes and refusals have used of their bounds).

| Actions | Code |
|---|---|
| `RunCompletes`, `Backfill`, `Configure` | `recordSentimentCompletion`, `submit`, `configure` |
| `Tick`, `AdmitPart`, `EndReconcile` | `tick`, `reconcile`, `markReconciled`, `dispatchGate` |
| `ClaimOne`, `EndClaims` | the claim loop of `tick` |
| `SettleUnasked`, `PutBack`, `CancelStale`, `GiveUp`, `ReleaseClaim`, `Send` | `execute` up to its request, one action per way out |
| `Verdict`, `Failure`, `Refusal` | `execute` after it: `completeWork`, `failWork`, `recordProviderRefusal`, `releaseDispatchPause` |
| `LeaseRunsOut`, `Crash`, `StartServer`, `Replace`, `Close`, `HostChanges`, `HostRepaired` | clock, processes, `config.yaml` |

A tick is one synchronous stretch from its start to its last request, so requests
of users to the same process come before or after it (`Serving`); another process
may come between. Receipts, admissions, claims and executions are still
actions of their own: each is a transaction, and the process may die between two.

Abstractions. Waits (retry delays, the length of a pause, the minute's budget)
are over when a tick finds them over: an item that waits can be claimed at any
time, a tick under a pause is the one that sends the probe, and the ticks that
find a gate closed change nothing. Of a lease the model knows whether it is over;
it outlives a request (60 s against 120 s) unless the process was suspended, which
is a fault. Of a request it knows whether it was sent before the pause in force.
An item that is refused for the minute's budget counts against the bound on
refusals. A new evaluator definition, several projects and their turns, token
estimates, usage receipts and an access to the database that throws inside
`execute` are left out.

- `JobsMatchMembers`: counts kept by differences (`shiftJobs`) are what counting
  again would give, after any cancellation, replay and late answer, and the
  state of a job follows from them.
- `OneRequestOut`: an item is with the classifier at most once, though it is
  cancelled, taken up again by a backfill and claimable by the next server while
  its request is out.
- `CursorHonest`: the cursor passes only receipts whose answers were admitted,
  and no completion is judged under another enablement than its own.
- `PauseStands`: only a verdict on a request sent after a refusal, or a key other
  than the one stored with the pause, lifts it. The stored key is that of the
  last refusal, which may have come late, from a request under a replaced key.
- `Settles`: liveness.

Three things the model makes visible, none of which a doc contradicts.
`cancelProject` also turns jobs that had settled as partial into canceled ones. A
claim of an earlier enablement that executes after the project was enabled again
cancels the work of the new enablement (`execute` calls `cancelProject`). And
when a canceled item that got its result while canceled is taken up again,
`admitJob` completes it at once without the callback that applies a verdict to
the snapshot.

## Runs

| Run | Instance | Shows |
|---|---|---|
| `batch_sweep` | 2 batched slots and a sync one, 2 crashes, fair | money and quota, terminal runs, every run ends, its end is reported, an orphaned batch is told to stop; `BatchSweep` implements `RunLifecycle` |
| `batch_sweep_storage` | the batched slots in two submissions, 4 providers (batched, sync, skipped, unserved), failing writes, 1 crash | ledger, reports, settlement and named gaps survive a write that throws anywhere, also where batches of one run race each other |
| `batch_sweep_over` (violation) | failing writes | a run that failed by a write goes on calling providers |
| `run_fill` | 2 attempts, 3 slots on 2 providers, 1 crash, fair | purchases, quota, completion, yielding, and every attempt ends |
| `run_fill_storage` | 4 slots of one provider, 2 at a time, breaker 2, one slot of another, failing accesses | the breaker's bound; status, error and gaps agree |
| `run_fill_behind` (violation) | 1 attempt | a stored message that says more than the code does |
| `execution_gate` | 4 requests, 2 policies, a minute of 2 ticks, fair | budgets, order, no lost wake-up, everyone served |
| `review_alerts` | 1 review edited twice, a chat and a signed webhook, 2 attempts | acknowledgement, settled rows |
| `review_alerts_settings` | 2 reviews (one that chat cannot show), 1 webhook, 1 change of settings, 1 crash, fair | the log of attempts, nothing revoked is sent, every debt settles or is held |
| `seo_refresh` | 2 refreshes with 3 searches of one account, 2 days of one month, limits they cannot both use up, 1 change of the host's settings, one project deleted | types, the ledger, the limits |
| `seo_refresh_crash` | 1 refresh of 2 searches, 2 processes, 1 crash or failed transaction, fair | posts, statuses, receipts, every refresh ends |
| `sentiment_queue` | 1 sweep in 2 classes that share an answer, 1 backfill, 2 processes, 2 attempts; at most 1 fault, 2 changes and 1 refusal, 3 of them in all; fair | types, counts, single requests, the cursor, the pause, everything settles |

Why the bounds are enough. Two slots on the batched provider make a batch that
is partly recorded and partly not, and two batches that race; a second provider
lets one end while the other has calls out. Two crashes let the process die
during the recovery of a first death. Two attempts let a fill meet the leftovers
of another; a breaker of two with two calls out and four slots lets failures and
answers arrive after it tripped. Four requests under caps of one and two fill
both budgets and leave waiters behind each, and two ticks tell a start within
the closed minute from one that left it. `run_fill_storage` has one attempt: what
a second one meets is proved (`CompletedWhole`, `GapsNamed`, `BreakerBounds`,
`QuotaCovers`) for any number. Two revisions and two webhooks make an edit meet
a pass in which one webhook has accepted and the other has not; two attempts
tell a retry from the last one; one change of settings at any moment falls on
either side of the resolver's answer, and one death on either side of the
receiver's act. What the two runs of `ReviewAlerts` do not combine (edits with
deaths and changes) is proved for any number of each. Two refreshes on one
account compete for its budgets, the second day falls between any two steps of
both, and the limits let one search too many be noticed in each kind of budget;
with two processes a late receipt meets the recovery by the other. In
`sentiment_queue` two changes switch the project or the install off and on
again, the fault puts a second server beside the one whose request is still out,
and a shared answer belongs to up to three jobs in two enablements. `MaxTrouble`
bounds faults, changes and refusals together; three is what the longest of these
stories needs (replaced, off, on). Symmetry is used only in `run_fill_storage`,
which has no liveness property, over slots no definition tells apart.

Runs of `BatchSweep`, `RunFill` and `SeoRefresh` switch deadlock checking off:
when everything is over and nothing is left to poll, they stop. The liveness
runs show that they stop nowhere else. `ExecutionGate`, `ReviewAlerts` and
`SentimentQueue` are checked for deadlock.

The inductive invariants of the proofs (`IInv` of every module but `RunLifecycle`;
`DispatchInv`, `ReleaseInv` and `CounterInv` of `BatchSweep`; `ReserveInv` and
`HeldInv` of `RunFill`) were checked as invariants of the same instances before
they were proved; the runs list what they are for.

## Fairness

- *Awaits return.* Every provider call, submission, poll and stream ends: the
  adapters set timeouts, and a stream that breaks fails its ingest.
- *Workers and timers go on.* Node takes every ready callback; the poller's
  interval, the gate's rate timer and the review timer fire.
- *Somebody restarts a dead process* (a service manager, as the docs advise).
- *The clock passes a deadline that nothing else ends*, a lease included.
- *An operator repairs settings that cannot be read* (`SeoRefresh`,
  `SentimentQueue`: accepted work waits for that, as the code says).

All are weak fairness of the action that stands for the callback.
`SentimentQueue` assumes less: as long as a poll, an answer, the end of an unused
lease, a restart or a repair is due, some one of these comes. No fairness is
assumed of providers finishing a batch, of a read succeeding, of a sweep being
queued or ended, of a cancel, of a reload, of a receiver, of a sync, of a change
of settings or of a crash.

## Proofs

Every invariant and every action property of the passing runs is a theorem, and
`BatchSweep` is proved to implement `RunLifecycle`. The theorems hold for any
slots, providers, batches or attempts, any requests, policies and length of a
minute, any reviews, edits, webhooks and changes of settings, any searches,
prices, days and limits, any items, classes, receipts and processes, any
concurrency, breaker and maximum of attempts and any number of crashes, under
the named assumptions of their modules: slots, requests, searches, items and
backfills are finite sets, and each slot belongs to a provider; a batch holds
slots of one provider and no slot is in two; caps are positive; each webhook
points at an address; a job of a refresh has a search, a price is positive, and
only a failed answer with a known cost asks for a retry; a backfill is not
identified like a job of the reconciler.

`BatchSweep_proofs`. The invariant `IInv` says, besides the types, who may still
pay for a slot (a slot is called only when no batch that may exist holds it, and
submitted only once), who may still work for the run in each status (the sweep,
the poller, nobody), how the ledger and the answers of a batch agree and when
its results are read. One lemma per action group shows that it is preserved;
`PaidOnce`, `LedgerCorrect`, `Settled`, `Reported` follow from it at once, and
`Permanent`, `TerminalStays`, `NothingRecordedLate`, `NothingSentLate` from it
by one look at each action. `Refinement` maps every step to a step of
`RunLifecycle` or to a stutter. `OverIsOver` joins the two `Late` theorems;
these and `Refinement` assume `StorageErrors = FALSE`; `batch_sweep_over` shows why
`NothingSentLate` must.

`BatchSweepQuota_proofs` carries the numbers. `DispatchInv`: while a sweep has
its reservation, what it counted as dispatched at a provider (`dispatched`) is
the number of its slots that were called or went into a batch it did not take
back (`Sent`), and a slot without an answer is charged to its provider, which is
what `finalizeRun` decides from; `EveryGapNamed` follows (`GapsNamed`), also with
failing writes.
`ReleaseInv`: a batch gives back nothing before its submission returned and,
once it exists, no more than its unbilled lines. `CounterInv`: the counter is at
least what the sweep has still to give back, its calls, and what batch rows
hold, and exactly that as long as no process died. Each step that moves one of
these parts moves the counter or another part by as much (`CounterMoves`,
`CounterStep`); a death forgets what the sweep would have given back, which
leaves the counter too high, never too low. For `QuotaCorrect` what may be billed
is a union of the lines that batch rows still hold and the calls, so that it is
counted by a sum over batches (`CountUnion`); it assumes `StorageErrors = FALSE`.

`RunFill_proofs`. Alone `FailuresBounded` is not inductive: what bounds the
failures after the breaker tripped is the number of slots its workers had in
hand then. `BreakerInv` adds this: before a stop fewer failures than the breaker
allows, after it failures plus slots in hand within the bound; a slot that fails
moves from the second summand to the first. For `OnlyLostIsRebought`, `OneFill`
and `AskInv` say that one attempt is at work, that only it has slots in hand,
that a slot that is out has no snapshot, and that a gap nobody has out was lost
as often as it was bought; `DownInv` that a dead process has nothing out.
`CompletedIsWhole` and `GapsStayNamed` are inductive with the types
(`OutcomeHonest` joins them). `Yields` looks at each action.
`WholeRunIsCompleted` is inductive given all this. For the quota, `ReserveInv`
says that a fill at work has reserved a unit for every slot it may still call
for, and `HeldInv` that the counter holds what it has left to send with the
calls that were made; a call moves a unit from the first to the second, the end
of an attempt gives back the first. `QuotaCovers` is read off them. Only
`OnlyLostRebought` assumes `StorageErrors = FALSE`; `WholeRunIsCompleted` and the
exact half of `QuotaMatchesCalls` name that condition themselves.

`ExecutionGate_proofs`. An aborted waiter is removed by its index, which needs
that nobody waits twice (part of `TypeOK`); `CancelQueue` says that what is left
are the others in their order. `TimerInv` is the reason no
wake-up is lost: where a waiter stands before a free slot the timer is set, and
until it fires the window holds as many starts as the rate allows, none of which
leaves the window before it fires. `DispatchTimer` shows that the loop of
`dispatchQueued` establishes this from any queue, window and policy, `TickStep`
that the clock keeps it. `DispatchBudgets` and `DispatchOrder` are both caps and
the order for one dispatch.

`SeoRefresh_proofs`. A transaction is an operator on the database, so most of
the argument is about operators. `Sound` says that tasks fit, that each budget
holds and has spent what its tasks say, and that the limits hold with what is
held counted in (`BudgetsHold`, `RunsHold`: `WithinBudget` alone is not inductive,
a receipt may turn everything held into spending). Every handler is a composition
of steps that withdraw tasks, queue one again, pay for one, or move one between
states of the same cost (`SoundWithdraw`, `SoundQueue`, `SoundPay`, `SoundMove`);
sums over tasks move by the price of the one that moved. `AllFit`, what a job and
its run say of its tasks, is shown for whole transactions. `Calm` says what no
transaction but a claim does (post, overwrite a cost, leave a final status),
which gives `PostedOnce`, `OneAtATime` and `ReceiptsStand`. The memory of the
processes enters little: a receipt in hand is for a task (`ProcsFit`); that a
late one is stored only while its task waits for it is the guard `MaySettle`.

`SentimentQueue_proofs`. `JobsMatchMembers` rests on the counting lemmas
(`ShiftCounts`, `RecountCounts`): a job's differences are those of its members,
because an item changes from one bucket to one other. `RequestFits` gives
`OneRequestOut`: a request that is out is charged to its item, whose live lease is
its worker's unless the worker overslept it. `CursorHonest` alone is not
inductive: `ReaderFits` says of a worker between its read of the receipts and
its write of the cursor that everything up to the receipts it has finished, and
everything before a part it still has, is judged, provided that the enablement it
read is still in force; `EraFits` that a receipt after the boundary was recorded
under the enablement in force; `Seen` pays for every epoch and key with a change
of settings, which types them. `PauseStands` is shown action by action.

`ReviewAlerts_proofs`. `ChatRecordIsTrue` alone is not inductive. `RowsAreHonest`
adds that a row still to be made has nothing behind it and that, while the
request is out, the message has appeared exactly when the receiver acted;
`PassIsPlaced` that only a claimed row has a request out; `AttemptsArePaid` that
an open row has an attempt left, and that an attempt nobody waits for was paid
by a death. `AcksAreEarned` carries the dispatch: each webhook of its audience
is still to be looked at, has accepted, or made the review fail. The many
actions of a delivery are first sorted into looks, tries, claims and answers
(`Kinds`, `LookMoves`, `AnswerMoves`), each of which moves the one row in a few
ways, so that every part is proved once per kind. `LogCorrect` joins
`ChatCorrect` and `RetriesCorrect`. `SettledCorrect` rests on the
condition of the claim, `RevokedCorrect` on the second check.

`SumTheorems`. Sums over finite sets, as the community modules define them, and
the least element of a set of numbers. The library's induction theorems take an
operator and cannot be cited; `MinimalSet` (a non-empty set of subsets of a
finite set has a smallest member) takes a set, and gives induction over finite
sets (`SetInduction`) in the form these sums need.

Model-checked only: liveness, which depends on ENABLED and on fairness and is out
of the prover's reach (`RunTerminates`, `EndIsReported`, `OrphanIsStopped`,
`FillEnds`, `EveryoneServed`, `DebtSettles`, `RefreshEnds`, `Settles`). The
properties of the two violation runs are refuted by them.

## Findings

- `batch_sweep_over`: a sweep whose run was failed by a database write goes on
  calling providers, outside the day's counter (`throwIfRunCancelled` looks only
  for a cancelled run), against the comment "A run that is over answers nothing
  more."
- `run_fill_behind`: a call that is out when a newer sweep is queued still
  records its answer; the attempt's stored error says that no answers were added
  behind it.

## Not modelled

Reads and reports, imports from Google, Bing, GA and WordPress, site audits, the
web application, CLI and MCP, migrations and provider adapters: I/O and
rendering around single-step writes. The planless sweep and browser providers
share the executor but not its batches; they are part of a later extension, as
are the components of steps 7 to 9 of the plan. Two processes on one database are
modelled where the code guards against them with leases and claims (`SeoRefresh`,
`SentimentQueue`) and left out where it does not (`BatchSweep`, `RunFill`).
