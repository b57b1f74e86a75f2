----------------------------- MODULE SeoRefresh -----------------------------
(***************************************************************************)
(* Paid SEO refreshes.  A refresh (job) is a set of searches, each one     *)
(* task with its price reserved in three budgets, and a second task if the *)
(* search engine's error earns it a retry.  A process claims a task in one *)
(* transaction before it posts the search, keeps the receipt in memory     *)
(* until it is stored, and never posts a task again: what it cannot learn  *)
(* an operator has to judge.                                               *)
(*                                                                         *)
(* db is the database; an operator d |-> d' on it is what one transaction  *)
(* writes.  proc is the memory of each process; two of them are alive when *)
(* one is restarted while the other is still shutting down or suspended.   *)
(* Time is the current day and, of each lease, whether it ran out.         *)
(***************************************************************************)
EXTENDS Integers, FiniteSets, Functions

CONSTANTS
  Jobs,
  AccountOf, ProjectOf,  \* of each job
  Searches,
  JobOf, Reserve,        \* of each search: its job, the price it reserves
  Days, MonthOf,         \* the days, and the month each falls in
  Limit,                 \* of each kind of budget: SeoPolicy
  RunCeiling,            \* maxRunCostMicros
  Answers,               \* what an adapter may return
  JudgedCosts,           \* what an operator may find was charged
  Procs,
  Deletable,             \* bound: the projects that may be deleted
  MaxFaults,             \* bound: crashes and failed transactions
  MaxHostChanges,        \* bound: changes of the host's configuration
  None

Kinds == {"account-day", "account-month", "project-month"}
Outcomes == {"completed", "partial", "failed", "unknown"}

ASSUME SeoAssumption ==
  /\ IsFiniteSet(Searches) /\ IsFiniteSet(Jobs) /\ Jobs # {} /\ Procs # {}
  /\ JobOf \in [Searches -> Jobs] /\ \A j \in Jobs : \E s \in Searches : JobOf[s] = j
  /\ Reserve \in [Searches -> Nat \ {0}]
  /\ Days \in Nat \ {0} /\ MonthOf \in [1..Days -> Nat]
  /\ Limit \in [Kinds -> Nat] /\ RunCeiling \in Nat
  /\ None \notin Nat \cup Procs
  /\ \A a \in Answers : /\ a \in [outcome : Outcomes, cost : Nat \cup {None}, retryable : BOOLEAN]
                        /\ a.retryable => a.outcome = "failed" /\ a.cost # None
  /\ JudgedCosts \subseteq Nat
  /\ MaxFaults \in Nat /\ MaxHostChanges \in Nat

VARIABLES
  db,       \* [task, job, held, spent]: seo_tasks, seo_jobs and runs, seo_budgets
  proc,     \* the SeoRuntime of each process
  now,      \* the day
  host,     \* the SEO settings: in force, unreadable, or with lowered limits
  posts,    \* history: how often each task was posted
  faults, changes

vars == <<db, proc, now, host, posts, faults, changes>>

Tasks == Searches \X {1, 2}        \* <<s, 2>> is the retry of <<s, 1>> (retryOf)
Retry(t) == <<t[1], 2>>
Job(t) == JobOf[t[1]]
Price(t) == Reserve[t[1]]
TasksOf(j) == {t \in Tasks : Job(t) = j}

Scope(j, k) == <<k, IF k = "project-month" THEN ProjectOf[j] ELSE AccountOf[j]>>
Scopes == {Scope(j, k) : j \in Jobs, k \in Kinds}
Period(k, day) == IF k = "account-day" THEN day ELSE MonthOf[day]
Periods == (1..Days) \cup Range(MonthOf)
Today == [k \in Kinds |-> Period(k, now)]

TaskStates == {"none", "queued", "running", "completed", "partial", "failed",
               "cancelled", "reconciliation-required"}
Active == {"queued", "running", "reconciliation-required"}
Final == {"completed", "partial", "failed", "cancelled"}

ReadyProc == [up |-> TRUE, phase |-> "idle", draining |-> FALSE, todo |-> {}, progressed |-> FALSE,
              task |-> None, answer |-> None, settled |-> FALSE]
DeadProc == [ReadyProc EXCEPT !.up = FALSE]

Init ==
  /\ db = [task |-> [t \in Tasks |-> [status |-> "none", owner |-> None, stale |-> FALSE,
                                      outcome |-> None, actual |-> None, judged |-> FALSE]],
           job |-> [j \in Jobs |-> [status |-> "none", run |-> "none", cancel |-> FALSE, linked |-> TRUE,
                                    period |-> [k \in Kinds |-> Period(k, 1)]]],
           held |-> [s \in Scopes |-> [q \in Periods |-> 0]],
           spent |-> [s \in Scopes |-> [q \in Periods |-> 0]]]
  /\ \E p \in Procs : proc = [q \in Procs |-> IF q = p THEN ReadyProc ELSE DeadProc]
  /\ now = 1 /\ host = "ok"
  /\ posts = [t \in Tasks |-> 0]
  /\ faults = 0 /\ changes = 0

(***************************************************************************)
(* Reading the database.                                                   *)
(***************************************************************************)
Status(d, t) == d.task[t].status

\* A retry replaces the attempt it repeats, unless it never ran.
CurrentTasks(d, j) ==
  {t \in TasksOf(j) : IF t[2] = 2 THEN Status(d, t) \notin {"none", "cancelled"}
                      ELSE Status(d, Retry(t)) \in {"none", "cancelled"}}

Cost(d, t) == IF d.task[t].actual # None THEN d.task[t].actual ELSE Price(t)
RunCost(d, j) == SumFunction([t \in {u \in TasksOf(j) : Status(d, u) # "none"} |-> Cost(d, t)])

\* Does a task's money sit in this period of this budget?
In(d, t, s, q) == \E k \in Kinds : s = Scope(Job(t), k) /\ q = d.job[Job(t)].period[k]
PriceIn(d, T, s, q) == SumFunction([t \in {u \in T : In(d, u, s, q)} |-> Price(t)])

Limits(k) == IF host = "lowered" THEN 0 ELSE Limit[k]

\* Reservations of every period count against the limit.
FitsToday(d, j, period, extra) ==   \* fault: those of today only
  \A k \in Kinds : d.spent[Scope(j, k)][period[k]] + d.held[Scope(j, k)][Period(k, now)] + extra <= Limits(k)
Fits(d, j, period, extra) ==
  \A k \in Kinds : d.spent[Scope(j, k)][period[k]] + SumFunction(d.held[Scope(j, k)]) + extra <= Limits(k)

\* An account has one search out, or none while the operator has to judge one.
BusyCalling(d, a) == \E t \in Tasks : AccountOf[Job(t)] = a /\ Status(d, t) = "running"   \* fault: not judged
Busy(d, a) == \E t \in Tasks : AccountOf[Job(t)] = a /\ Status(d, t) \in {"running", "reconciliation-required"}

(***************************************************************************)
(* What a transaction writes.                                              *)
(***************************************************************************)
Hold(d, T) == [d EXCEPT !.held = [s \in Scopes |-> [q \in Periods |-> @[s][q] + PriceIn(d, T, s, q)]]]
Release(d, T) == [d EXCEPT !.held = [s \in Scopes |-> [q \in Periods |-> @[s][q] - PriceIn(d, T, s, q)]]]
Spend(d, t, c) ==
  [d EXCEPT !.spent = [s \in Scopes |-> [q \in Periods |-> @[s][q] + IF In(d, t, s, q) THEN c ELSE 0]]]

\* finish: the job and its run say what the current tasks say.
CurrentStates(d, j) == {Status(d, t) : t \in CurrentTasks(d, j)}
JobStatus(d, j) ==
  LET S == CurrentStates(d, j)
  IN  IF "reconciliation-required" \in S THEN "reconciliation-required"
      ELSE IF S \cap {"queued", "running"} # {} THEN "running"
      ELSE IF S = {"completed"} THEN "completed"
      ELSE IF S \cap {"completed", "partial"} # {} THEN "partial"
      ELSE IF d.job[j].cancel THEN "cancelled" ELSE "failed"
RunStatus(d, j) ==
  LET S == CurrentStates(d, j)
  IN  IF S \cap {"queued", "running"} # {} THEN "running"
      ELSE IF "reconciliation-required" \notin S THEN JobStatus(d, j)
      ELSE IF S \cap {"completed", "partial"} # {} THEN "partial" ELSE "failed"
Finished(d, j) ==
  [d.job[j] EXCEPT !.status = JobStatus(d, j), !.run = IF d.job[j].linked THEN RunStatus(d, j) ELSE d.job[j].run]
Finish(d, J) == [d EXCEPT !.job = [j \in Jobs |-> IF j \in J THEN Finished(d, j) ELSE @[j]]]

\* cancel: queued tasks are withdrawn, tasks in flight settle normally.
Cancel(d, J) ==
  LET C == {j \in J : d.job[j].status \in Active}
      T == {t \in Tasks : Job(t) \in C /\ Status(d, t) = "queued"}
  IN  Finish([Release(d, T) EXCEPT
                !.task = [t \in Tasks |-> IF t \in T THEN [@[t] EXCEPT !.status = "cancelled", !.actual = 0] ELSE @[t]],
                !.job = [j \in Jobs |-> IF j \in C THEN [@[j] EXCEPT !.cancel = TRUE] ELSE @[j]]], C)

\* recover: what ran out is for the operator, and its refresh stops.
Stale(d) == {t \in Tasks : Status(d, t) = "running" /\ d.task[t].stale}
Orphans(d) == {j \in Jobs : d.job[j].status \in {"queued", "running"} /\ ~d.job[j].linked}
AbandonToQueue(d, T) ==                       \* fault: tried again
  [d EXCEPT !.task = [t \in Tasks |-> IF t \in T THEN [@[t] EXCEPT !.status = "queued"] ELSE @[t]]]
Abandon(d, T) ==
  [d EXCEPT !.task = [t \in Tasks |-> IF t \in T THEN [@[t] EXCEPT !.status = "reconciliation-required"] ELSE @[t]]]
RecoverOrphans(d) == Cancel(d, Orphans(d))    \* fault: leases never run out
RecoverTasks(d) == Abandon(d, Stale(d))       \* fault: the refresh goes on
Recover(d) == Cancel(Abandon(d, Stale(d)), {Job(t) : t \in Stale(d)} \cup Orphans(d))

\* queueRetry: one more attempt, reserved like the first and within the same limits.
MayRetry(d, t) ==
  /\ t[2] = 1 /\ Status(d, Retry(t)) = "none" /\ ~d.job[Job(t)].cancel
  /\ RunCost(d, Job(t)) + Price(t) <= RunCeiling
  /\ Fits(d, Job(t), d.job[Job(t)].period, Price(t))
QueueRetry(d, t) == Hold([d EXCEPT !.task[Retry(t)] = [@ EXCEPT !.status = "queued", !.actual = None]], {Retry(t)})

\* settle: store the receipt of a task its owner posted.
Known(a) == a.cost # None /\ a.outcome # "unknown"
Settled(a, t) ==
  IF ~Known(a) \/ a.cost > Price(t) THEN "reconciliation-required"
  ELSE IF a.outcome \in {"completed", "partial"} THEN a.outcome ELSE "failed"
MaySettleOver(d, p, t) == d.task[t].owner = p \* fault: over what the operator judged
MaySettle(d, p, t) ==
  /\ d.task[t].owner = p /\ ~d.task[t].judged
  /\ Status(d, t) \in {"running", "reconciliation-required"}
Settle(d, p, t, a) ==
  LET e == IF Known(a) THEN Spend(Release(d, {t}), t, a.cost) ELSE d
      f == [e EXCEPT !.task[t] = [@ EXCEPT !.status = Settled(a, t), !.outcome = a.outcome, !.owner = None,
                                           !.actual = IF Known(a) THEN a.cost ELSE None]]
      g == IF Settled(a, t) = "failed" /\ a.retryable /\ host # "unreadable" /\ MayRetry(f, t)
           THEN QueueRetry(f, t) ELSE f
  IN  Finish(g, {Job(t)})

\* claim: the reservations move to today, one task is leased.
Queued(d, j) == {t \in TasksOf(j) : Status(d, t) = "queued"}
Claimable(d, j) == LET first == {t \in Queued(d, j) : t[2] = 1} IN IF first # {} THEN first ELSE Queued(d, j)
Moved(d, j, T) == Hold([Release(d, T) EXCEPT !.job[j] = [@ EXCEPT !.period = Today]], T)
MovesOne(d, j, t) == Moved(d, j, {t})        \* fault: only the task claimed
MovesAll(d, j, t) == Moved(d, j, Queued(d, j))
Claim(d, p, j, t) ==
  [MovesAll(d, j, t) EXCEPT !.task[t] = [@ EXCEPT !.status = "running", !.owner = p, !.stale = FALSE],
                            !.job[j] = [@ EXCEPT !.status = "running", !.run = "running"]]

(***************************************************************************)
(* Requests: admission, cancellation, the operator's judgement, deletion   *)
(* of the project.  A replay of an accepted request changes nothing.       *)
(***************************************************************************)
Volatile == <<proc, now, host, posts, faults, changes>>

\* admit, for the first time: all budgets or none.
Admit(j) ==
  /\ db.job[j].status = "none" /\ host # "unreadable"
  /\ \A i \in Jobs : AccountOf[i] = AccountOf[j] => db.job[i].status # "reconciliation-required"
  /\ LET T == {t \in TasksOf(j) : t[2] = 1}
         total == SumFunction([t \in T |-> Price(t)])
     IN  /\ total <= RunCeiling
         /\ Fits(db, j, Today, total)
         /\ db' = Hold([db EXCEPT !.task = [t \in Tasks |-> IF t \in T THEN [@[t] EXCEPT !.status = "queued"] ELSE @[t]],
                                  !.job[j] = [@ EXCEPT !.status = "queued", !.run = "queued", !.period = Today]], T)
  /\ UNCHANGED Volatile

CancelRequested(j) ==
  /\ db.job[j].status \in Active /\ db.job[j].linked
  /\ db' = Cancel(db, {j})
  /\ UNCHANGED Volatile

\* The project is deleted: jobs and tasks stay, their run goes.
DeleteProject(j) ==
  /\ ProjectOf[j] \in Deletable /\ db.job[j].status # "none" /\ db.job[j].linked
  /\ db' = [db EXCEPT !.job = [i \in Jobs |-> IF ProjectOf[i] = ProjectOf[j] THEN [@[i] EXCEPT !.linked = FALSE] ELSE @[i]]]
  /\ UNCHANGED Volatile

\* reconcile: the operator found what the search cost and whether it failed.
Judged(o, failed) == IF ~failed /\ o \in {"completed", "partial"} THEN o ELSE "failed"
Reconcile(t, c, failed) ==
  /\ Status(db, t) = "reconciliation-required" /\ ~db.task[t].judged
  /\ db.task[t].actual \in {None, c}
  /\ LET d == IF db.task[t].actual = None THEN Spend(Release(db, {t}), t, c) ELSE db
     IN  db' = Finish([d EXCEPT !.task[t] = [@ EXCEPT !.status = Judged(db.task[t].outcome, failed), !.actual = c, !.judged = TRUE]],
                      {Job(t)})
  /\ UNCHANGED Volatile

(***************************************************************************)
(* The dispatch loop of a process.  wake: store the receipt in hand,       *)
(* recover, then pass over the open jobs until a pass posts nothing.       *)
(***************************************************************************)
Others == <<now, host, faults, changes>>
At(p, ph) == proc[p].up /\ proc[p].phase = ph
Becomes(p, r) == proc' = [proc EXCEPT ![p] = r]
Idle(p) == [proc[p] EXCEPT !.phase = "idle", !.draining = FALSE, !.todo = {}, !.progressed = FALSE]
OpenJobs(d) == {j \in Jobs : d.job[j].status \in {"queued", "running"}}

\* A receipt in hand goes first.
Wake(p) ==
  /\ At(p, "idle")
  /\ IF proc[p].answer # None THEN db' = db /\ Becomes(p, [proc[p] EXCEPT !.phase = "flush"])
     ELSE /\ db' = Recover(db)
          /\ Becomes(p, [proc[p] EXCEPT !.phase = "visit", !.draining = TRUE, !.todo = OpenJobs(db')])
  /\ UNCHANGED posts /\ UNCHANGED Others

EndPass(p) ==
  /\ At(p, "visit") /\ proc[p].todo = {}
  /\ Becomes(p, IF proc[p].progressed THEN [proc[p] EXCEPT !.todo = OpenJobs(db), !.progressed = FALSE] ELSE Idle(p))
  /\ UNCHANGED <<db, posts>> /\ UNCHANGED Others

\* The settings cannot be read: accepted work waits.
Paused(p) ==
  /\ At(p, "visit") /\ proc[p].todo # {} /\ host = "unreadable"
  /\ Becomes(p, Idle(p))
  /\ UNCHANGED <<db, posts>> /\ UNCHANGED Others

Visited(p, j) == [proc[p] EXCEPT !.todo = @ \ {j}]

\* The connection is gone, or a queued search now costs more than it reserved.
Withdraw(p, j) ==
  /\ At(p, "visit") /\ j \in proc[p].todo /\ host # "unreadable"
  /\ db' = Cancel(db, {j})
  /\ Becomes(p, Visited(p, j))
  /\ UNCHANGED posts /\ UNCHANGED Others

Dispatchable(j) == db.job[j].linked /\ ~db.job[j].cancel
WithinLimits(d, j) == RunCost(d, j) <= (IF host = "lowered" THEN 0 ELSE RunCeiling) /\ Fits(d, j, Today, 0)

Visit(p, j) ==
  /\ At(p, "visit") /\ j \in proc[p].todo /\ host # "unreadable"
  /\ IF ~Dispatchable(j) THEN db' = Cancel(db, {j})
     ELSE IF Busy(db, AccountOf[j]) \/ Queued(db, j) = {} THEN db' = db
     ELSE ~WithinLimits(db, j) /\ db' = Cancel(db, {j})
  /\ Becomes(p, Visited(p, j))
  /\ UNCHANGED posts /\ UNCHANGED Others

\* claim, and the post that follows it without a pause.
Post(p, j, t) ==
  /\ At(p, "visit") /\ j \in proc[p].todo /\ host # "unreadable"
  /\ Dispatchable(j) /\ ~Busy(db, AccountOf[j]) /\ WithinLimits(db, j)
  /\ t \in Claimable(db, j)
  /\ db' = Claim(db, p, j, t)
  /\ Becomes(p, [Visited(p, j) EXCEPT !.phase = "call", !.progressed = TRUE, !.task = t])
  /\ posts' = [posts EXCEPT ![t] = @ + 1]
  /\ UNCHANGED Others

\* The adapter answers, times out or is aborted by stop.
Answer(p, a) ==
  /\ At(p, "call")
  /\ Becomes(p, [proc[p] EXCEPT !.phase = "flush", !.answer = a])
  /\ UNCHANGED <<db, posts>> /\ UNCHANGED Others

\* flushSettlements, first half: the receipt is stored, or it came too late.
Flushed(p) ==
  [proc[p] EXCEPT !.phase = IF proc[p].draining THEN "visit" ELSE "idle",
                  !.task = None, !.answer = None, !.settled = FALSE]
StoreReceipt(p) ==
  /\ At(p, "flush") /\ ~proc[p].settled
  /\ LET t == proc[p].task
     IN  IF MaySettle(db, p, t)
         THEN db' = Settle(db, p, t, proc[p].answer) /\ Becomes(p, [proc[p] EXCEPT !.settled = TRUE])
         ELSE db' = db /\ Becomes(p, Flushed(p))
  /\ UNCHANGED posts /\ UNCHANGED Others

\* flushSettlements, second half: an outcome nobody knows stops the refresh.
Uncertain(p) ==
  \/ ~Known(proc[p].answer)
  \/ Status(db, proc[p].task) = "reconciliation-required"
StopRefresh(p) ==
  /\ At(p, "flush") /\ proc[p].settled
  /\ db' = IF Uncertain(p) THEN Cancel(db, {Job(proc[p].task)}) ELSE db
  /\ Becomes(p, Flushed(p))
  /\ UNCHANGED posts /\ UNCHANGED Others

\* Heartbeats: renewed, or not for 120 seconds (the owner is dead, suspended or cannot write).
Renew(p) ==
  /\ proc[p].up /\ proc[p].task # None
  /\ db.task[proc[p].task].owner = p /\ Status(db, proc[p].task) = "running" /\ db.task[proc[p].task].stale
  /\ db' = [db EXCEPT !.task[proc[p].task].stale = FALSE]
  /\ UNCHANGED <<proc, posts>> /\ UNCHANGED Others
LeaseRunsOut(t) ==
  /\ Status(db, t) = "running" /\ ~db.task[t].stale
  /\ \E p \in Procs : proc[p].up /\ proc[p].task # t   \* a process is there to notice
  /\ db' = [db EXCEPT !.task[t].stale = TRUE]
  /\ UNCHANGED <<proc, posts>> /\ UNCHANGED Others

(***************************************************************************)
(* Faults and the world outside.                                           *)
(***************************************************************************)
\* A transaction throws: the pass is over, a receipt in hand stays in hand.
StorageFails(p) ==
  /\ faults < MaxFaults /\ proc[p].up /\ proc[p].phase \in {"flush", "visit"}
  /\ Becomes(p, Idle(p))
  /\ faults' = faults + 1
  /\ UNCHANGED <<db, now, host, posts, changes>>

Crash(p) ==
  /\ faults < MaxFaults /\ proc[p].up
  /\ Becomes(p, DeadProc)
  /\ faults' = faults + 1
  /\ UNCHANGED <<db, now, host, posts, changes>>

StartServer(p) ==
  /\ ~proc[p].up
  /\ Becomes(p, ReadyProc)
  /\ UNCHANGED <<db, posts>> /\ UNCHANGED Others

DayTurns ==
  /\ now < Days /\ now' = now + 1
  /\ UNCHANGED <<db, proc, host, posts, faults, changes>>

HostChanges ==
  /\ changes < MaxHostChanges /\ changes' = changes + 1
  /\ host' \in {"ok", "unreadable", "lowered"} \ {host}
  /\ UNCHANGED <<db, proc, now, posts, faults>>
HostRepaired ==
  /\ host = "unreadable" /\ host' = "ok"
  /\ UNCHANGED <<db, proc, now, posts, faults, changes>>

Step(p) ==
  \/ Wake(p) \/ EndPass(p) \/ Paused(p)
  \/ \E j \in Jobs : Visit(p, j) \/ Withdraw(p, j) \/ \E t \in Tasks : Post(p, j, t)
  \/ \E a \in Answers : Answer(p, a)
  \/ StoreReceipt(p) \/ StopRefresh(p)

Next ==
  \/ \E j \in Jobs : Admit(j) \/ CancelRequested(j) \/ DeleteProject(j)
  \/ \E t \in Tasks, c \in JudgedCosts, failed \in BOOLEAN : Reconcile(t, c, failed)
  \/ \E p \in Procs : Step(p) \/ Renew(p) \/ StorageFails(p) \/ Crash(p) \/ StartServer(p)
  \/ \E t \in Tasks : LeaseRunsOut(t)
  \/ DayTurns \/ HostChanges \/ HostRepaired

\* Timers fire, calls end (the 90 s timeout), leases run out, a supervisor restarts the server and
\* unreadable settings are repaired.  Nothing is assumed of users and operators.
Fairness ==
  /\ \A p \in Procs : WF_vars(Step(p))
  /\ WF_vars(\E p \in Procs : (\A q \in Procs : ~proc[q].up) /\ StartServer(p))
  /\ \A t \in Tasks : WF_vars(LeaseRunsOut(t))
  /\ WF_vars(HostRepaired)

Spec == Init /\ [][Next]_vars
FairSpec == Spec /\ Fairness

(***************************************************************************)
(* Properties.                                                             *)
(***************************************************************************)
TaskRecords ==
  [status : TaskStates, owner : Procs \cup {None}, stale : BOOLEAN,
   outcome : Outcomes \cup {None}, actual : Nat \cup {None}, judged : BOOLEAN]
JobRecords ==
  [status : TaskStates, run : TaskStates, cancel : BOOLEAN, linked : BOOLEAN, period : [Kinds -> Periods]]
Databases ==
  [task : [Tasks -> TaskRecords], job : [Jobs -> JobRecords],
   held : [Scopes -> [Periods -> Nat]], spent : [Scopes -> [Periods -> Nat]]]
Runtimes ==
  [up : BOOLEAN, phase : {"idle", "flush", "visit", "call"}, draining : BOOLEAN, todo : SUBSET Jobs,
   progressed : BOOLEAN, task : Tasks \cup {None}, answer : Answers \cup {None}, settled : BOOLEAN]
TypeOK ==
  /\ db \in Databases /\ proc \in [Procs -> Runtimes]
  /\ now \in 1..Days /\ host \in {"ok", "unreadable", "lowered"}
  /\ posts \in [Tasks -> Nat] /\ faults \in 0..MaxFaults /\ changes \in 0..MaxHostChanges

\* Money held in a budget period is exactly the price of the tasks that are queued, out or of
\* unknown cost, also after reservations moved to another day, and money spent is exactly what
\* receipts and operators reported (admit, claim, settle, queueRetry, cancel, reconcile).
Holds(d, t) ==
  \/ Status(d, t) \in {"queued", "running"}
  \/ Status(d, t) = "reconciliation-required" /\ d.task[t].actual = None
Holding(d) == {t \in Tasks : Holds(d, t)}
Paid(d, t) == IF d.task[t].actual = None THEN 0 ELSE d.task[t].actual
InScope(s) == {t \in Tasks : \E k \in Kinds : Scope(Job(t), k) = s}
HeldBalanced(d) == \A s \in Scopes, q \in Periods : d.held[s][q] = PriceIn(d, Holding(d), s, q)
SpentBalanced(d) == \A s \in Scopes : SumFunction(d.spent[s]) = SumFunction([t \in InScope(s) |-> Paid(d, t)])
LedgerBalanced == HeldBalanced(db) /\ SpentBalanced(db)

\* Whatever is admitted, retried and carried over midnight by any process, no period of a budget
\* and no run pays more than its limit, except for what the provider charged above a reservation.
Over(d, t) == IF Paid(d, t) > Price(t) THEN Paid(d, t) - Price(t) ELSE 0
Overcharge(d, T) == SumFunction([t \in T |-> Over(d, t)])
WithinBudget ==
  /\ \A s \in Scopes, q \in Periods : db.spent[s][q] <= Limit[s[1]] + Overcharge(db, InScope(s))
  /\ \A j \in Jobs : SumFunction([t \in TasksOf(j) |-> Paid(db, t)]) <= RunCeiling + Overcharge(db, TasksOf(j))

\* A search is posted once and retried at most once, across crashes, lost receipts and leases
\* that ran out; what was withdrawn was never posted.
PostedOnce ==
  \A t \in Tasks : posts[t] = IF Status(db, t) \in {"none", "queued", "cancelled"} THEN 0 ELSE 1

\* A job and its run never claim more than the tasks: a refresh is over only when nothing of it
\* is queued, out or unknown, and complete only when the last attempt at each search is.
LastAttempt(s) == IF posts[<<s, 2>>] > 0 THEN <<s, 2>> ELSE <<s, 1>>
StatusIsHonest ==
  \A j \in Jobs : LET J == db.job[j] IN
    /\ J.status \in Final => \A t \in TasksOf(j) : Status(db, t) \in Final \cup {"none"}
    /\ J.status = "reconciliation-required" <=> \E t \in TasksOf(j) : Status(db, t) = "reconciliation-required"
    /\ J.status = "completed" => \A s \in Searches : JobOf[s] = j => Status(db, LastAttempt(s)) = "completed"
    /\ J.linked => /\ J.run \in {"queued", "running"} <=> \E t \in TasksOf(j) : Status(db, t) \in {"queued", "running"}
                   /\ J.run = "completed" <=> J.status = "completed"

\* While one paid search of an account is out or its cost is unknown, no other is posted on it.
OneAtATime ==
  [][\A t, u \in Tasks : /\ AccountOf[Job(t)] = AccountOf[Job(u)] /\ t # u
                         /\ posts'[t] > posts[t] /\ posts[u] > 0
                         => db.task[u].actual # None /\ Status(db, u) \in Final]_vars

\* A stored cost, a final status and an operator's judgement are never overwritten, neither by a
\* late receipt nor by a second judgement.
ReceiptsStand ==
  [][\A t \in Tasks : /\ db.task[t].actual # None => db'.task[t].actual = db.task[t].actual
                      /\ Status(db, t) \in Final => Status(db', t) = Status(db, t)
                      /\ db.task[t].judged => db'.task[t].judged]_vars

\* Every refresh ends, or its account waits for the operator, whatever crashes.
RefreshEnds ==
  \A j \in Jobs : db.job[j].status # "none" ~>
    \/ db.job[j].status \in Final
    \/ \E t \in Tasks : AccountOf[Job(t)] = AccountOf[j] /\ Status(db, t) = "reconciliation-required"

(***************************************************************************)
(* The inductive invariant.                                                *)
(***************************************************************************)
\* What is not settled has no cost yet, and a second attempt follows a failed first one.
TasksFit(d) ==
  /\ \A t \in Tasks :
       /\ Status(d, t) \in {"none", "queued", "running"} => d.task[t].actual = None
       /\ Status(d, t) = "reconciliation-required" /\ d.task[t].owner # None => d.task[t].actual = None
       /\ Status(d, t) \in Final => d.task[t].actual # None
  /\ \A s \in Searches : Status(d, <<s, 2>>) # "none" => Status(d, <<s, 1>>) = "failed"

\* A job says what its tasks say from its first claim on.
JobFits(d, j) == LET J == d.job[j] IN
  /\ J.status = "none" => J.run = "none" /\ \A t \in TasksOf(j) : Status(d, t) = "none"
  /\ J.status = "queued" =>
       /\ J.linked => J.run = "queued"
       /\ \A t \in TasksOf(j) : Status(d, t) = IF t[2] = 1 THEN "queued" ELSE "none"
  /\ J.status \notin {"none", "queued"} =>
       /\ J.status = JobStatus(d, j)
       /\ J.linked => J.run = RunStatus(d, j)

\* What is paid and what is still held stay within the limits together.
BudgetsHold(d) ==
  \A s \in Scopes, q \in Periods : d.spent[s][q] + d.held[s][q] <= Limit[s[1]] + Overcharge(d, InScope(s))
RunsHold(d) == \A j \in Jobs : RunCost(d, j) <= RunCeiling + Overcharge(d, TasksOf(j))

\* A receipt in hand, or to come, is for a task.
ProcsFit ==
  \A p \in Procs :
    /\ proc[p].phase = "call" \/ proc[p].answer # None => proc[p].task \in Tasks
    /\ proc[p].phase = "flush" => proc[p].task \in Tasks /\ proc[p].answer \in Answers

IInv ==
  /\ TypeOK /\ ProcsFit /\ PostedOnce
  /\ TasksFit(db) /\ \A j \in Jobs : JobFits(db, j)
  /\ HeldBalanced(db) /\ SpentBalanced(db) /\ BudgetsHold(db) /\ RunsHold(db)
===========================================================================
