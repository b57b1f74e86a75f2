--------------------------- MODULE SentimentQueue ---------------------------
(***************************************************************************)
(* The sentiment queue of a project.  Every completed run leaves a         *)
(* receipt; a tick admits the answers of new receipts as jobs, claims a    *)
(* few work items under a lease, sends each to the classifier once and     *)
(* stores what came back.  Jobs share work items and only count them; a    *)
(* disabled project or install cancels what is waiting, and an explicit    *)
(* backfill may take it up again, while requests are still out.            *)
(*                                                                         *)
(* db is the database; an operator d |-> d' on it is one transaction.      *)
(* worker is the SentimentWorker of each process: two of them are alive    *)
(* while one server replaces another.  Of time only this is known: which   *)
(* leases are over, and which requests are older than the pause.  Waits    *)
(* end when a tick finds them over; the ticks before that do nothing.      *)
(***************************************************************************)
EXTENDS Integers, FiniteSets, FiniteSetsExt

CONSTANTS
  Items,          \* assessments: an answer judged for a subject
  Receipts,       \* the most completions of runs and fills
  Classes,        \* query classes, admitted one after the other
  Source,         \* of each receipt and class: the assessments it selects
  Backfills,      \* explicit requests
  ClassOf,        \* of each of them: the query class it asks for
  Workers,
  Concurrency,    \* maxConcurrency
  MaxAttempts,
  MaxFaults,      \* bound: crashes, suspended processes, failed transactions
  MaxChanges,     \* bound: changes of the project's and the host's settings
  MaxRefusals,    \* bound: refusals of the provider, and minutes used up
  MaxTrouble,     \* bound: all of these together
  None

ASSUME SentimentAssumption ==
  /\ IsFiniteSet(Items) /\ IsFiniteSet(Backfills)
  /\ Receipts \in Nat /\ IsFiniteSet(Classes) /\ Classes \subseteq Nat
  /\ Source \in [(1..Receipts) \X Classes -> SUBSET Items]
  /\ ClassOf \in [Backfills -> Classes] /\ None \notin Workers
  /\ Backfills \cap (Nat \X Nat \X Nat) = {}      \* their keys are not the reconciler's
  /\ Concurrency \in Nat \ {0} /\ MaxAttempts \in Nat \ {0}
  /\ {MaxFaults, MaxChanges, MaxRefusals, MaxTrouble} \subseteq Nat

VARIABLES
  db,       \* [item, job, member, set, pause, top]: the sentiment tables
  worker,   \* the SentimentWorker of each process and the tick it is in
  host,     \* the install's configuration: on, off or unusable, and its key
  era,      \* history: the epoch a receipt was recorded in, 0 if switched off
  bounds    \* faults, changes and refusals so far

vars == <<db, worker, host, era, bounds>>

Epochs == 1..(1 + MaxChanges \div 2)           \* two changes make a new enablement
Keys == 1..(1 + MaxChanges)
Autos == Epochs \X (1..Receipts) \X Classes    \* idempotency keys of the reconciler
Jobs == Autos \cup Backfills
ItemStatus == {"none", "pending", "running", "waiting", "completed", "failed", "canceled"}
Active == {"pending", "running", "waiting"}
Buckets == {"pending", "running", "completed", "failed", "canceled"}
Bucket(s) == IF s = "waiting" THEN "pending" ELSE s

NoPause == [reason |-> "none", key |-> 0]
NoFlight == [at |-> "none", epoch |-> 0, used |-> 0, key |-> 0, old |-> FALSE, aged |-> FALSE]
Asleep == [phase |-> "idle", closing |-> FALSE, key |-> 0, epoch |-> 0, parts |-> {}, done |-> 0, failed |-> FALSE, room |-> 0,
           flight |-> [i \in Items |-> NoFlight]]
First == CHOOSE w \in Workers : TRUE
Down == [Asleep EXCEPT !.phase = "down"]

Init ==
  /\ db = [item |-> [i \in Items |-> [status |-> "none", owner |-> None, live |-> FALSE, epoch |-> 0, used |-> 0,
                                      result |-> FALSE]],
           job |-> [j \in Jobs |-> [state |-> "none", count |-> [b \in Buckets |-> 0]]],
           member |-> [j \in Jobs |-> [i \in Items |-> "out"]],
           set |-> [on |-> TRUE, suspended |-> FALSE, epoch |-> 1, boundary |-> 0, cursor |-> 0],
           pause |-> NoPause, top |-> 0]
  /\ worker = [w \in Workers |-> IF w = First THEN Asleep ELSE Down]
  /\ host = [install |-> "on", key |-> 1]
  /\ era = [r \in 1..Receipts |-> 0]
  /\ bounds = [faults |-> 0, changes |-> 0, refusals |-> 0]

Limits == [faults |-> MaxFaults, changes |-> MaxChanges, refusals |-> MaxRefusals]
Spends(kind) ==
  /\ bounds[kind] < Limits[kind] /\ bounds.faults + bounds.changes + bounds.refusals < MaxTrouble
  /\ bounds' = [bounds EXCEPT ![kind] = @ + 1]

(***************************************************************************)
(* Jobs count their members: a transition of a work item moves it between  *)
(* two counts, an admission or a cancellation counts again.                *)
(***************************************************************************)
FollowsAny(d, j, i) == d.job[j].state # "none"       \* fault: members or not
FollowsEver(d, j, i) == d.member[j][i] # "out"       \* fault: canceled members too
Follows(d, j, i) == d.member[j][i] = "in"

StateOf(c) ==
  LET total == c["pending"] + c["running"] + c["completed"] + c["failed"] + c["canceled"]
  IN  CASE c["completed"] = total -> "complete"
        [] OTHER -> IF c["running"] > 0 THEN "running"
                    ELSE IF c["pending"] > 0 THEN "pending"
                    ELSE IF c["canceled"] = total THEN "canceled"
                    ELSE IF c["failed"] = total THEN "failed" ELSE "partial"
\* settleJobs: a canceled job stays canceled.
Counted(job, c) == [count |-> c, state |-> IF job.state = "canceled" THEN "canceled" ELSE StateOf(c)]

\* shiftJobs, for the work items that `item` changes.
ShiftedCount(d, j, item, b) ==
  d.job[j].count[b]
    + Cardinality({i \in Items : Follows(d, j, i) /\ Bucket(item[i].status) = b})
    - Cardinality({i \in Items : Follows(d, j, i) /\ Bucket(d.item[i].status) = b})
Shift(d, item) ==
  [d EXCEPT !.item = item,
            !.job = [j \in Jobs |->
              IF \E i \in Items : Follows(d, j, i) /\ item[i].status # d.item[i].status
              THEN Counted(@[j], [b \in Buckets |-> ShiftedCount(d, j, item, b)]) ELSE @[j]]]
Write(d, i, row) == Shift(d, [d.item EXCEPT ![i] = row])

MemberBucket(d, j, i) == IF d.member[j][i] = "canceled" THEN "canceled" ELSE Bucket(d.item[i].status)
Recounted(d, j) ==
  [b \in Buckets |-> Cardinality({i \in Items : d.member[j][i] # "out" /\ MemberBucket(d, j, i) = b})]
Recount(d, J) ==
  [d EXCEPT !.job = [j \in Jobs |-> IF j \in J THEN Counted(@[j], Recounted(d, j)) ELSE @[j]]]

\* cancelProject: requests that are out keep their owner, so that their answer is stored.
CancelProject(d) ==
  LET A == {i \in Items : d.item[i].status \in Active}
      J == {j \in Jobs : \E i \in A : Follows(d, j, i)}
  IN  Recount([d EXCEPT
        !.item = [i \in Items |-> IF i \in A THEN [@[i] EXCEPT !.status = "canceled"] ELSE @[i]],
        !.member = [j \in Jobs |-> [i \in Items |-> IF i \in A /\ @[j][i] = "in" THEN "canceled" ELSE @[j][i]]],
        !.job = [j \in Jobs |-> IF @[j].state \in {"pending", "running", "partial"}
                                THEN [@[j] EXCEPT !.state = "canceled"] ELSE @[j]]], J)

(***************************************************************************)
(* Settings, admission.                                                    *)
(***************************************************************************)
Enabled(d, epoch) == d.set.on /\ ~d.set.suspended /\ d.set.epoch = epoch

SuspendInstall(d) ==
  IF d.set.suspended THEN d ELSE [CancelProject(d) EXCEPT !.set.suspended = TRUE]
ResumeInstall(d) ==
  IF ~d.set.suspended THEN d
  ELSE [d EXCEPT !.set = [@ EXCEPT !.suspended = FALSE, !.boundary = d.top,
                                   !.epoch = d.set.epoch + IF d.set.on THEN 1 ELSE 0]]

\* admitJob of the items T: new ones are queued, and a backfill takes up what was canceled or
\* failed, unless the request is still out.
NeverLeased(row) == FALSE                            \* fault: out or not
StillLeased(row) == ~row.result /\ row.owner # None /\ row.live
Queued(row, epoch) ==
  LET leased == StillLeased(row)
  IN  [row EXCEPT !.status = IF row.result THEN "completed" ELSE IF leased THEN "running" ELSE "pending",
                  !.epoch = epoch,
                  !.owner = IF leased THEN @ ELSE None, !.live = leased,
                  !.used = IF row.result \/ leased THEN @ ELSE 0]
Admitted(row, epoch, automatic) ==
  IF row.status = "none" THEN [row EXCEPT !.status = "pending", !.epoch = epoch]
  ELSE IF row.result \/ (~automatic /\ row.status \in {"canceled", "failed"}) THEN Queued(row, epoch)
  ELSE row
AdmitJob(d, j, T, automatic) ==
  LET item == [i \in Items |-> IF i \in T THEN Admitted(d.item[i], d.set.epoch, automatic) ELSE d.item[i]]
  IN  Recount([Shift(d, item) EXCEPT
        !.job[j].state = "pending",
        !.member[j] = [i \in Items |-> IF i \notin T THEN "out"
                                       ELSE IF item[i].status = "canceled" THEN "canceled" ELSE "in"]], {j})

(***************************************************************************)
(* The queue.                                                              *)
(***************************************************************************)
ClaimableUnlessLeft(d, i) ==                         \* fault: what a dead worker left stays left
  /\ Enabled(d, d.item[i].epoch)
  /\ \/ d.item[i].status = "pending"
     \/ d.item[i].status = "waiting"
Claimable(d, i) ==
  /\ Enabled(d, d.item[i].epoch)
  /\ \/ d.item[i].status \in {"pending", "running"} /\ ~d.item[i].live
     \/ d.item[i].status = "waiting"
\* Work that some receipt asked for goes first.
Urgent(d, i) == \E j \in Autos : d.member[j][i] # "out"
NextUp(d) ==
  LET C == {i \in Items : Claimable(d, i)}
      U == {i \in C : Urgent(d, i)}
  IN  IF U # {} THEN U ELSE C
LeasesFree(d) == Cardinality({i \in Items : d.item[i].owner # None /\ d.item[i].live}) < Concurrency
Claim(d, w, i) == Write(d, i, [d.item[i] EXCEPT !.status = "running", !.owner = w, !.live = TRUE])

Owns(d, w, i) == d.item[i].owner = w /\ d.item[i].status = "running"
Free(row) == [row EXCEPT !.owner = None, !.live = FALSE]
MayStart(d, w, i) ==
  /\ Owns(d, w, i) /\ d.item[i].live
  /\ Enabled(d, d.item[i].epoch)
  /\ d.item[i].used < MaxAttempts
Start(d, i) == [d EXCEPT !.item[i].used = @ + 1]
ReleaseWork(d, w, i) == IF Owns(d, w, i) THEN Write(d, i, [Free(d.item[i]) EXCEPT !.status = "pending"]) ELSE d
FailWork(d, w, i, to) ==
  IF Owns(d, w, i) THEN Write(d, i, [Free(d.item[i]) EXCEPT !.status = to]) ELSE d
\* completeWork: also for work that was canceled while its request was out.
CompleteWork(d, w, i) ==
  IF d.item[i].owner = w /\ d.item[i].status \in {"running", "canceled"}
  THEN Write(d, i, [Free(d.item[i]) EXCEPT !.status = IF @ = "canceled" THEN @ ELSE "completed", !.result = TRUE])
  ELSE d

(***************************************************************************)
(* The pause of the whole install after a refusal.                         *)
(***************************************************************************)
\* recordProviderRefusal.  The refused request is not charged to its item.
Fresh(d, f) == d.pause.reason = "none" \/ ~f.old
Refuse(d, w, i, f, reason) ==
  LET e == [d EXCEPT !.pause = [reason |-> IF @.reason = "auth" THEN "auth" ELSE reason,
                                key |-> IF reason = "auth" THEN f.key ELSE @.key]]
  IN  IF Owns(d, w, i)
      THEN Write(e, i, [Free(d.item[i]) EXCEPT !.status = "waiting", !.used = @ - 1])
      ELSE e
\* A decision on a request sent after the pause began lifts it.
ReleaseOnAny(d, f) == d.pause.reason # "none"        \* fault: sent before it too
Releases(d, f) == d.pause.reason # "none" /\ ~f.old
ReleasePause(d, f) == IF Releases(d, f) THEN [d EXCEPT !.pause = NoPause] ELSE d
\* dispatchGate: a new key lifts the pause of a refused one.
KeyChanged(d, key) == d.pause.reason = "auth" /\ d.pause.key # key
LiftForKey(d) == [d EXCEPT !.pause = NoPause]

(***************************************************************************)
(* A tick of worker w.                                                     *)
(***************************************************************************)
SetWorker(w, r) == worker' = [worker EXCEPT ![w] = [r EXCEPT !.closing = worker[w].closing]]
Suspended(d) == IF host.install = "off" THEN SuspendInstall(d) ELSE d       \* holdUnlessReady
NewParts(d) ==
  {p \in (1..Receipts) \X Classes : d.set.on /\ Max({d.set.boundary, d.set.cursor}) < p[1] /\ p[1] <= d.top}

\* The gate: while a pause stands the tick that finds it over sends one request, and the ticks
\* before that one do nothing; neither do those that find the minute used up.
Dispatch(w, d, key) ==
  LET lifted == IF KeyChanged(d, key) THEN LiftForKey(d) ELSE d
      room == IF lifted.pause.reason = "none" THEN Concurrency ELSE 1
  IN  /\ db' = lifted
      /\ SetWorker(w, IF ~LeasesFree(d) \/ NextUp(d) = {} THEN Asleep
                      ELSE [Asleep EXCEPT !.phase = "claim", !.room = room])

Tick(w) ==
  /\ worker[w].phase = "idle" /\ ~worker[w].closing
  /\ LET d == ResumeInstall(db)
     IN  IF host.install # "on" THEN db' = Suspended(db) /\ UNCHANGED worker
         ELSE IF NewParts(d) = {} THEN Dispatch(w, d, host.key)
         ELSE /\ db' = d
              /\ SetWorker(w, [Asleep EXCEPT !.phase = "reconcile", !.key = host.key,
                                             !.epoch = d.set.epoch, !.parts = NewParts(d)])
  /\ UNCHANGED <<host, era, bounds>>

\* One class of one receipt; the receipt is done with its last class, unless one failed.
DoneAnyway(r, rest, ok, done) == IF \E c \in Classes : <<r, c>> \in rest THEN done ELSE r    \* fault: failed or not
Done(r, rest, ok, done) == IF ~ok \/ \E c \in Classes : <<r, c>> \in rest THEN done ELSE r
FirstPart(P) == CHOOSE p \in P : \A q \in P : p[1] < q[1] \/ (p[1] = q[1] /\ p[2] <= q[2])

AdmitPart(w) ==
  LET k == worker[w]
      p == FirstPart(k.parts)
      j == <<k.epoch, p[1], p[2]>>
      settled == Source[p] = {} \/ db.job[j].state # "none"
      rest == k.parts \ {p}
      Goes(ok) == SetWorker(w, [k EXCEPT !.parts = IF ok THEN rest ELSE {}, !.failed = ~ok,
                                         !.done = Done(p[1], rest, ok, @)])
  IN  /\ k.phase = "reconcile" /\ k.parts # {}
      /\ \/ settled /\ Goes(TRUE) /\ UNCHANGED <<db, bounds>>
         \/ ~settled /\ Enabled(db, k.epoch) /\ Goes(TRUE)
            /\ db' = AdmitJob(db, j, Source[p], TRUE) /\ UNCHANGED bounds
         \/ ~settled /\ ~Enabled(db, k.epoch) /\ Goes(FALSE) /\ UNCHANGED <<db, bounds>>
         \/ Spends("faults") /\ Goes(FALSE) /\ UNCHANGED db
      /\ UNCHANGED <<host, era>>

\* markReconciled; a failed admission ends the tick.
EndReconcile(w) ==
  LET k == worker[w]
      d == IF k.epoch = db.set.epoch /\ db.set.cursor < k.done THEN [db EXCEPT !.set.cursor = k.done] ELSE db
  IN  /\ k.phase = "reconcile" /\ k.parts = {}
      /\ IF k.failed THEN db' = d /\ SetWorker(w, Asleep) ELSE Dispatch(w, d, k.key)
      /\ UNCHANGED <<host, era, bounds>>

ClaimOne(w) ==
  LET k == worker[w]
  IN  /\ k.phase = "claim" /\ k.room > 0 /\ LeasesFree(db)
      /\ \E i \in NextUp(db) :
           /\ db' = Claim(db, w, i)
           /\ SetWorker(w, [k EXCEPT !.room = @ - 1,
                !.flight[i] = [NoFlight EXCEPT !.at = "claimed", !.epoch = db.item[i].epoch, !.used = db.item[i].used]])
      /\ UNCHANGED <<host, era, bounds>>
EndClaims(w) ==
  LET k == worker[w]
  IN  /\ k.phase = "claim" /\ (k.room = 0 \/ ~LeasesFree(db) \/ NextUp(db) = {})
      /\ SetWorker(w, IF \E i \in Items : k.flight[i].at # "none" THEN [k EXCEPT !.phase = "run", !.room = 0] ELSE Asleep)
      /\ UNCHANGED <<db, host, era, bounds>>

\* The tick ends with its last request.
Landed(k, i) ==
  IF \E x \in Items \ {i} : k.flight[x].at # "none" THEN [k EXCEPT !.flight[i] = NoFlight] ELSE Asleep
Lands(w, i, d) == db' = d /\ SetWorker(w, Landed(worker[w], i))

InHand(w) == {i \in Items : worker[w].phase = "run" /\ worker[w].flight[i].at # "none"}

\* execute, up to the request.  An input nothing can be asked about is settled at once.
Claimed(w, i) == worker[w].phase = "run" /\ worker[w].flight[i].at = "claimed"
Current(f) == db.set.on /\ db.set.epoch = f.epoch
Askable(w, i) == Claimed(w, i) /\ host.install = "on" /\ Current(worker[w].flight[i])
Spent(w, i) == worker[w].flight[i].used >= MaxAttempts

SettleUnasked(w, i) ==
  /\ Claimed(w, i)
  /\ Lands(w, i, CompleteWork(db, w, i)) \/ Lands(w, i, FailWork(db, w, i, "failed"))
  /\ UNCHANGED <<host, era, bounds>>
PutBack(w, i) ==
  /\ \/ Claimed(w, i) /\ host.install # "on"
     \/ Askable(w, i) /\ ~Spent(w, i) /\ ~MayStart(db, w, i)
  /\ Lands(w, i, FailWork(Suspended(db), w, i, "waiting"))
  /\ UNCHANGED <<host, era, bounds>>
CancelStale(w, i) ==
  /\ Claimed(w, i) /\ host.install = "on" /\ ~Current(worker[w].flight[i])
  /\ Lands(w, i, CancelProject(db))
  /\ UNCHANGED <<host, era, bounds>>
GiveUp(w, i) ==
  /\ Askable(w, i) /\ Spent(w, i)
  /\ Lands(w, i, FailWork(db, w, i, "failed"))
  /\ UNCHANGED <<host, era, bounds>>
\* The minute is used up.
ReleaseClaim(w, i) ==
  /\ Askable(w, i) /\ ~Spent(w, i) /\ Spends("refusals")
  /\ Lands(w, i, ReleaseWork(db, w, i))
  /\ UNCHANGED <<host, era>>
Send(w, i) ==
  /\ Askable(w, i) /\ ~Spent(w, i) /\ MayStart(db, w, i)
  /\ db' = Start(db, i)
  /\ SetWorker(w, [worker[w] EXCEPT !.flight[i].at = "sent", !.flight[i].key = host.key])
  /\ UNCHANGED <<host, era, bounds>>

Answered(w, i) ==
  /\ worker[w].phase = "run" /\ worker[w].flight[i].at = "sent"
  /\ \A x \in Items : worker[w].flight[x].at # "claimed"
Verdict(w, i) ==
  /\ Answered(w, i)
  /\ Lands(w, i, ReleasePause(CompleteWork(db, w, i), worker[w].flight[i]))
  /\ UNCHANGED <<host, era, bounds>>
Failure(w, i) ==
  /\ Answered(w, i)
  /\ \E retryable \in BOOLEAN :
       LET again == retryable /\ (host.install # "on" \/ worker[w].flight[i].used + 1 < MaxAttempts)
       IN  Lands(w, i, FailWork(Suspended(db), w, i, IF again THEN "waiting" ELSE "failed"))
  /\ UNCHANGED <<host, era, bounds>>
\* A refusal: every request out now is older than the pause that begins.
Refusal(w, i) ==
  LET f == worker[w].flight[i]
      Aged(k) == [k EXCEPT !.flight = [x \in Items |-> IF @[x].at = "sent" THEN [@[x] EXCEPT !.old = TRUE] ELSE @[x]]]
      left == [worker EXCEPT ![w] = [Landed(@, i) EXCEPT !.closing = worker[w].closing]]
  IN  /\ Answered(w, i) /\ host.install = "on" /\ Spends("refusals")
      /\ \E reason \in {"rate", "auth"} : db' = Refuse(db, w, i, f, reason)
      /\ worker' = IF Fresh(db, f) THEN [v \in Workers |-> Aged(left[v])] ELSE left
      /\ UNCHANGED <<host, era>>

(***************************************************************************)
(* Users, the host, time and faults.                                       *)
(***************************************************************************)
\* A tick is one stretch of JavaScript up to its requests: nothing else of its process interrupts it.
Serving ==
  \E w \in Workers : worker[w].phase \in {"idle", "run"} /\ \A i \in Items : worker[w].flight[i].at # "claimed"

RunCompletes ==
  /\ db.top < Receipts /\ Serving
  /\ db' = [db EXCEPT !.top = @ + 1]
  /\ era' = [era EXCEPT ![db.top + 1] = IF Enabled(db, db.set.epoch) THEN db.set.epoch ELSE 0]
  /\ UNCHANGED <<worker, host, bounds>>
\* submit: the answers of one class of the runs R.
Backfill(b, R) ==
  /\ R # {} /\ R \subseteq 1..db.top
  /\ db.job[b].state = "none" /\ Serving
  /\ host.install = "on" /\ db.pause.reason # "auth" /\ Enabled(db, db.set.epoch)
  /\ LET T == UNION {Source[<<r, ClassOf[b]>>] : r \in R} IN T # {} /\ db' = AdmitJob(db, b, T, FALSE)
  /\ UNCHANGED <<worker, host, era, bounds>>

Configure(on) ==
  /\ db.set.on # on /\ (on => host.install = "on") /\ Serving /\ Spends("changes")
  /\ db' = IF on THEN [db EXCEPT !.set = [@ EXCEPT !.on = TRUE, !.epoch = db.set.epoch + 1, !.boundary = db.top]]
           ELSE [CancelProject(db) EXCEPT !.set.on = FALSE]
  /\ UNCHANGED <<worker, host, era>>
HostChanges ==
  /\ Spends("changes")
  /\ \/ \E x \in {"on", "off", "held"} \ {host.install} : host' = [host EXCEPT !.install = x]
     \/ host' = [host EXCEPT !.key = @ + 1]
  /\ UNCHANGED <<db, worker, era>>
HostRepaired ==
  /\ host.install = "held" /\ host' = [host EXCEPT !.install = "on"]
  /\ UNCHANGED <<db, worker, era, bounds>>

\* A request is given up before its lease is over, unless its process was suspended.
Out(i) == \E w \in Workers : db.item[i].owner = w /\ worker[w].flight[i].at # "none"
LeaseRunsOut(i) ==
  LET w == db.item[i].owner
  IN  /\ db.item[i].live
      /\ db' = [db EXCEPT !.item[i].live = FALSE]
      /\ IF Out(i)
         THEN /\ Spends("faults")
              /\ worker' = [worker EXCEPT ![w].flight[i].aged = TRUE]
         ELSE UNCHANGED <<worker, bounds>>
      /\ UNCHANGED <<host, era>>

Crash(w) ==
  /\ worker[w].phase # "down" /\ Spends("faults")
  /\ worker' = [worker EXCEPT ![w] = Down]
  /\ UNCHANGED <<db, host, era>>
\* A supervisor starts the server when none runs, a deployment beside the one it replaces.
StartServer ==
  /\ \A w \in Workers : worker[w].phase = "down"
  /\ worker' = [worker EXCEPT ![First] = Asleep]
  /\ UNCHANGED <<db, host, era, bounds>>
Replace(w) ==
  /\ worker[w].phase = "down" /\ \E v \in Workers : worker[v].phase # "down" /\ Spends("faults")
  /\ worker' = [v \in Workers |-> IF v = w THEN Asleep
                                 ELSE IF worker[v].phase # "down" THEN [worker[v] EXCEPT !.closing = TRUE] ELSE worker[v]]
  /\ UNCHANGED <<db, host, era>>
\* The poller stops, and the process with it, when its tick is over.
Close(w) ==
  /\ worker[w].closing /\ worker[w].phase = "idle"
  /\ worker' = [worker EXCEPT ![w] = Down]
  /\ UNCHANGED <<db, host, era, bounds>>

Step(w) ==
  \/ Tick(w) \/ Close(w) \/ AdmitPart(w) \/ EndReconcile(w) \/ ClaimOne(w) \/ EndClaims(w)
  \/ \E i \in InHand(w) :
       \/ SettleUnasked(w, i) \/ PutBack(w, i) \/ CancelStale(w, i) \/ GiveUp(w, i) \/ ReleaseClaim(w, i)
       \/ Send(w, i) \/ Verdict(w, i) \/ Failure(w, i) \/ Refusal(w, i)
Next ==
  \/ \E w \in Workers : Step(w) \/ Crash(w) \/ Replace(w)
  \/ StartServer
  \/ RunCompletes
  \/ \E b \in Backfills : \E R \in SUBSET (1..Receipts) : Backfill(b, R)
  \/ \E on \in BOOLEAN : Configure(on)
  \/ HostChanges \/ HostRepaired
  \/ \E i \in Items : LeaseRunsOut(i)

Spec == Init /\ [][Next]_vars

\* Polls come, calls end, time passes, a supervisor restarts the server and an operator repairs
\* an install that cannot be used: as long as any of these is due, one of them comes.
Progress ==
  \/ \E w \in Workers : Step(w)
  \/ StartServer \/ HostRepaired
  \/ \E i \in Items : ~Out(i) /\ LeaseRunsOut(i)
Fairness == WF_vars(Progress)

FairSpec == Spec /\ Fairness

(***************************************************************************)
(* Properties.                                                             *)
(***************************************************************************)
\* The types of the variables; no job ever counts less than nothing or more than its members.
TypeOK ==
  /\ db.item \in [Items -> [status : ItemStatus, owner : Workers \cup {None}, live : BOOLEAN, epoch : {0} \cup Epochs,
                            used : 0..MaxAttempts, result : BOOLEAN]]
  /\ \A j \in Jobs : /\ db.job[j].state \in {"none", "pending", "running", "complete", "canceled", "failed", "partial"}
                     /\ db.job[j].count \in [Buckets -> 0..Cardinality(Items)]
                     /\ db.member[j] \in [Items -> {"out", "in", "canceled"}]
  /\ db.set \in [on : BOOLEAN, suspended : BOOLEAN, epoch : Epochs, boundary : 0..Receipts, cursor : 0..Receipts]
  /\ db.pause \in [reason : {"none", "rate", "auth"}, key : {0} \cup Keys]
  /\ db.top \in 0..Receipts
  /\ \A w \in Workers : /\ worker[w].phase \in {"idle", "reconcile", "claim", "run", "down"}
                        /\ worker[w].room \in 0..Concurrency /\ worker[w].done \in 0..Receipts
                        /\ worker[w].parts \subseteq (1..Receipts) \X Classes
                        /\ \A i \in Items : worker[w].flight[i].at \in {"none", "claimed", "sent"}
  /\ host \in [install : {"on", "off", "held"}, key : Keys]
  /\ era \in [1..Receipts -> {0} \cup Epochs]
  /\ bounds \in [faults : 0..MaxFaults, changes : 0..MaxChanges, refusals : 0..MaxRefusals]

\* Counts are kept by moving each work item between two of them in every job that follows it
\* (shiftJobs), never by counting again: after any cancellation, replay and late answer they are
\* still the members' own states, and the state of the job is the one its counts give.
JobsMatchMembers ==
  \A j \in Jobs : db.job[j].state # "none" =>
    /\ db.job[j].count = Recounted(db, j)
    /\ db.job[j].state \in {"canceled", StateOf(db.job[j].count)}

\* A work item is with the provider at most once, whatever is cancelled and taken up again
\* meanwhile, unless its process overslept the lease (claim, admitJob).
OneRequestOut ==
  \A i \in Items :
    Cardinality({w \in Workers : worker[w].flight[i].at = "sent" /\ ~worker[w].flight[i].aged}) <= 1

\* The cursor has passed only receipts whose answers were admitted, and no completion is judged
\* automatically under another enablement than the one it happened in (reconcile, resumeInstall).
CursorHonest ==
  /\ \A j \in Autos : db.job[j].state # "none" => era[j[2]] = j[1]
  /\ \A r \in 1..db.set.cursor, c \in Classes :
       era[r] = db.set.epoch /\ Source[<<r, c>>] # {} => db.job[<<era[r], r, c>>].state # "none"

\* A pause of the install lifts only by a verdict on a request sent after it began, or because
\* the refused key is no longer in use (releaseDispatchPause, dispatchGate).
PauseStands ==
  [][db.pause.reason # "none" /\ db'.pause.reason = "none" =>
       \E w \in Workers :
         \/ \E i \in Items : /\ worker[w].flight[i].at = "sent" /\ ~worker[w].flight[i].old
                             /\ worker'[w].flight[i].at = "none"
         \/ /\ db.pause.reason = "auth" /\ worker[w].phase \in {"idle", "reconcile"}
            /\ db.pause.key # IF worker[w].phase = "idle" THEN host.key ELSE worker[w].key]_vars

\* Once nothing more is asked for, every job settles and every completion of the enablement in
\* force is admitted, whatever a dead worker claimed, a refused key or an exhausted minute held
\* up, or a failed tick left out (claim, tick).
Settles ==
  <>[](/\ \A j \in Jobs : db.job[j].state \notin {"pending", "running"}
       /\ \A r \in 1..Receipts, c \in Classes :
            Enabled(db, era[r]) /\ Source[<<r, c>>] # {} => db.job[<<era[r], r, c>>].state # "none")

(***************************************************************************)
(* The inductive invariant, from which the safety properties follow.       *)
(***************************************************************************)
Rows == [status : ItemStatus, owner : Workers \cup {None}, live : BOOLEAN, epoch : {0} \cup Epochs,
         used : 0..MaxAttempts, result : BOOLEAN]
JobStates == {"none", "pending", "running", "complete", "canceled", "failed", "partial"}
Settings == [on : BOOLEAN, suspended : BOOLEAN, epoch : Epochs, boundary : 0..Receipts, cursor : 0..Receipts]
Tables ==
  [item : [Items -> Rows], job : [Jobs -> [state : JobStates, count : [Buckets -> Int]]],
   member : [Jobs -> [Items -> {"out", "in", "canceled"}]], set : Settings,
   pause : [reason : {"none", "rate", "auth"}, key : {0} \cup Keys], top : 0..Receipts]
Requests ==
  [at : {"none", "claimed", "sent"}, epoch : {0} \cup Epochs, used : 0..MaxAttempts, key : {0} \cup Keys,
   old : BOOLEAN, aged : BOOLEAN]
Ticks ==
  [phase : {"idle", "reconcile", "claim", "run", "down"}, closing : BOOLEAN, key : {0} \cup Keys,
   epoch : {0} \cup Epochs, parts : SUBSET ((1..Receipts) \X Classes), done : 0..Receipts, failed : BOOLEAN,
   room : 0..Concurrency, flight : [Items -> Requests]]
Hosts == [install : {"on", "off", "held"}, key : Keys]
Spending == [faults : 0..MaxFaults, changes : 0..MaxChanges, refusals : 0..MaxRefusals]

\* Who has a lease works on the item, or did until it was canceled; what has a result has no lease.
RowFits(r) ==
  /\ r.owner # None => r.status \in {"running", "canceled"} /\ ~r.result
  /\ r.result => r.status \in {"completed", "canceled"}

\* Jobs that nobody submitted have no members, the others count theirs.
JobCounts(d, j) ==
  /\ d.job[j].count = Recounted(d, j)
  /\ d.job[j].state = "none" => \A i \in Items : d.member[j][i] = "out"
  /\ d.job[j].state # "none" => d.job[j].state \in {"canceled", StateOf(d.job[j].count)}

\* A request that is out is charged to the item as long as the lease is its worker's, and the lease
\* is, unless the worker overslept it.
RequestFits(r, f, w) ==
  f.at = "sent" => /\ r.owner = w => r.used > 0
                   /\ ~f.aged => r.owner = w /\ r.live

\* The changes that the settings and the host need to have seen.
Seen(set, h) ==
  2 * (set.epoch - 1) + (IF set.on THEN 0 ELSE 1)
    + (IF set.suspended THEN IF h.install = "off" THEN 1 ELSE 2 ELSE IF h.install = "off" THEN 1 ELSE 0)

\* What came after the boundary came while the project was on, and nothing before it did.
EraFits(d, e) ==
  /\ \A r \in 1..Receipts : e[r] \in 0..d.set.epoch /\ (r > d.top => e[r] = 0)
  /\ d.set.boundary <= d.top /\ d.set.cursor <= d.top
  /\ d.set.on /\ ~d.set.suspended => \A r \in (d.set.boundary + 1)..d.top : e[r] = d.set.epoch
  /\ d.set.on => \A r \in 1..d.set.boundary : e[r] # d.set.epoch

Due(d, e, r, c) == e[r] = d.set.epoch /\ Source[<<r, c>>] # {}
Judged(d, e, r, c) == Due(d, e, r, c) => d.job[<<e[r], r, c>>].state # "none"
AutoFits(d, e) == \A j \in Autos : d.job[j].state # "none" => e[j[2]] = j[1]
CursorFits(d, e) == \A r \in 1..d.set.cursor, c \in Classes : Judged(d, e, r, c)

\* Before the parts that a reconciling worker has left, everything is judged.
ReaderFits(d, e, k) ==
  k.phase = "reconcile" =>
    /\ k.epoch \in 1..d.set.epoch /\ k.done <= d.top /\ \A p \in k.parts : p[1] <= d.top
    /\ k.epoch = d.set.epoch =>
         /\ d.set.on => \A p \in k.parts : d.set.boundary < p[1]
         /\ \A r \in 1..k.done, c \in Classes : Judged(d, e, r, c)
         /\ \A p \in k.parts : \A r \in 1..p[1], c \in Classes : <<r, c>> \in k.parts \/ Judged(d, e, r, c)

IInv ==
  /\ db \in Tables /\ worker \in [Workers -> Ticks] /\ host \in Hosts
  /\ era \in [1..Receipts -> {0} \cup Epochs] /\ bounds \in Spending
  /\ host.key <= 1 + bounds.changes /\ Seen(db.set, host) <= bounds.changes
  /\ \A i \in Items : RowFits(db.item[i])
  /\ \A j \in Jobs : JobCounts(db, j)
  /\ \A w \in Workers, i \in Items : RequestFits(db.item[i], worker[w].flight[i], w)
  /\ EraFits(db, era) /\ AutoFits(db, era) /\ CursorFits(db, era)
  /\ \A w \in Workers : ReaderFits(db, era, worker[w])
=============================================================================
