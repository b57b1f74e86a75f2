---------------------------- MODULE ReviewAlerts ----------------------------
(***************************************************************************)
(* Negative Google reviews sent to a project's webhooks: the alert state a *)
(* sync writes (gbp-reviews.ts), the dispatch that follows it and the      *)
(* timer that drains what is due (notifier.ts), and one delivery per       *)
(* review revision and destination (review-webhook-delivery.ts).           *)
(*                                                                         *)
(* A pass is exclusive per project; between its awaits (the resolver, the  *)
(* request) syncs find edits, operators change settings and the process    *)
(* may die.  A receiver acts on a request or does not; one that answers    *)
(* with an error did not act.  Chat receivers cannot deduplicate, signed   *)
(* ones do.  Instants are abstracted to what they are compared with: a     *)
(* retry still ahead, an attempt younger than a minute, an event that left *)
(* the alert window.  A request nobody answered may be acted on later: the *)
(* record is the same as if it had been before the pass gave up.  Rating   *)
(* drops, the audit log, the bound of a hundred rows a pass, the order of  *)
(* the deliveries within a pass, the removal of reviews and webhooks from  *)
(* before there were signing secrets are left out.                         *)
(***************************************************************************)
EXTENDS Integers, FiniteSets

CONSTANTS Reviews,       \* reviews of one project
          MaxRevision,   \* how often a review is edited (bound)
          Destinations,  \* its webhooks
          Urls,          \* addresses a webhook may be pointed at
          ChatUrls,      \* those that are Discord or Slack
          FirstUrl,      \* where each webhook points at first
          Linkless,      \* reviews without a Google link, which chat needs
          Ratings,       \* ratings reviews get (bound)
          MaxAttempts,   \* REVIEW_DELIVERY_MAX_ATTEMPTS
          ChatSends,     \* REVIEW_CHAT_SENDS_PER_PASS
          MaxCrashes,    \* process deaths (bound)
          MaxChanges,    \* changes of settings (bound)
          None           \* no delivery

ASSUME ParametersAssumption ==
  /\ ChatUrls \subseteq Urls
  /\ FirstUrl \in [Destinations -> Urls]
  /\ Ratings \subseteq {"low", "mid", "high"} /\ MaxRevision \in Nat
  /\ MaxAttempts \in Nat \ {0}
  /\ ChatSends \in Nat
  /\ None \notin Reviews \X (1..MaxRevision) \X Destinations

VARIABLES
  alert,      \* gbpReviews.alertState
  rev,        \* the revision the row holds, 0 for the baseline
  rated,      \* the rating of each revision
  old,        \* events that left the alert window
  strict,     \* the project's threshold leaves middling ratings alone
  withheld,   \* reviews whose location or project lost its authority
  covered,    \* Places reviews Business Profile now covers
  notif,      \* webhooks: subscribed, unsubscribed or deleted
  url,        \* where each webhook points
  state,      \* reviewWebhookDeliveries.state, "none" without a row
  target,     \* the address a row was made for
  attempts,   \* its provider attempts
  waiting,    \* rows whose retryAt is ahead
  fresh,      \* rows attempted less than a minute ago
  phase,      \* the pass: none, new alerts, due rows
  todo,       \* deliveries it still has to look at
  audience,   \* webhooks it found subscribed
  failed,     \* reviews one of them did not accept
  left,       \* chat sends left
  stage, at,  \* the await it is in, and for which delivery
  got,        \* the receiver took in the request that is out
  appeared,   \* how often a chat message appeared          (history)
  accepted,   \* deliveries answered with a 2xx              (history)
  told,       \* who accepted a review's alert               (history)
  crashes,    \* process deaths                              (history)
  changes     \* changes of settings                         (history)

newsVars == <<rev, rated, old>>
settingVars == <<strict, withheld, covered, notif, url, changes>>
rowVars == <<state, target, attempts, waiting, fresh>>
passVars == <<phase, todo, audience, failed, left, stage, at, got>>
vars == <<alert, newsVars, settingVars, rowVars, passVars, appeared, accepted, told,
          crashes>>

Revisions == 1..MaxRevision
Events == Reviews \X Revisions
Deliveries == Reviews \X Revisions \X Destinations
AlertStates ==
  {"none", "baseline", "stale", "pending", "sent", "skipped", "suppressed"}
States ==
  {"none", "pending", "attempting", "sent", "uncertain", "failed", "canceled"}
Settled == {"sent", "uncertain", "failed", "canceled"}

TypeOK ==
  /\ alert \in [Reviews -> AlertStates]
  /\ rev \in [Reviews -> 0..MaxRevision]
  /\ rated \in [Reviews \X (0..MaxRevision) -> {"low", "mid", "high"}]
  /\ old \subseteq Events
  /\ strict \in BOOLEAN
  /\ withheld \subseteq Reviews /\ covered \subseteq Reviews
  /\ notif \in [Destinations -> {"on", "off", "gone"}]
  /\ url \in [Destinations -> Urls]
  /\ state \in [Deliveries -> States]
  /\ target \in [Deliveries -> Urls]
  /\ attempts \in [Deliveries -> Nat]
  /\ waiting \subseteq Deliveries /\ fresh \subseteq Deliveries
  /\ phase \in {"idle", "alerts", "drain"}
  /\ todo \subseteq Deliveries
  /\ audience \subseteq Destinations
  /\ failed \subseteq Reviews
  /\ left \in [ChatUrls -> 0..ChatSends]
  /\ stage \in {"none", "resolving", "sending"}
  /\ at \in Deliveries \cup {None}
  /\ got \in BOOLEAN
  /\ appeared \in [Deliveries -> Nat]
  /\ accepted \subseteq Deliveries
  /\ told \in [Reviews -> SUBSET Destinations]
  /\ crashes \in Nat /\ changes \in Nat

Init ==
  /\ alert = [r \in Reviews |-> "baseline"]
  /\ rev = [r \in Reviews |-> 0]
  /\ rated = [e \in Reviews \X (0..MaxRevision) |-> "high"]
  /\ old = {} /\ strict = FALSE /\ withheld = {} /\ covered = {}
  /\ notif = [n \in Destinations |-> "on"]
  /\ url = FirstUrl
  /\ state = [d \in Deliveries |-> "none"]
  /\ target = [d \in Deliveries |-> FirstUrl[d[3]]]
  /\ attempts = [d \in Deliveries |-> 0]
  /\ waiting = {} /\ fresh = {}
  /\ phase = "idle" /\ todo = {} /\ audience = {} /\ failed = {}
  /\ left = [u \in ChatUrls |-> ChatSends]
  /\ stage = "none" /\ at = None /\ got = FALSE
  /\ appeared = [d \in Deliveries |-> 0]
  /\ accepted = {} /\ told = [r \in Reviews |-> {}]
  /\ crashes = 0 /\ changes = 0

-----------------------------------------------------------------------------
(* What may still be sent. *)

\* isNegativeReviewRating against the project's threshold.
Negative(x) == x = "low" \/ (x = "mid" /\ ~strict)

Silent == {"baseline", "skipped", "suppressed", "stale", "none"}

\* reviewEventRefusal: destination, authority, window, both ratings, alert
\* state and coverage, as they are now.
Refused(d) ==
  LET r == d[1] IN
  \/ notif[d[3]] # "on"
  \/ state[d] # "none" /\ target[d] # url[d[3]]
  \/ r \in withheld
  \/ <<r, d[2]>> \in old \/ <<r, rev[r]>> \in old
  \/ ~Negative(rated[<<r, rev[r]>>]) \/ ~Negative(rated[<<r, d[2]>>])
  \/ alert[r] \in Silent
  \/ r \in covered

DueNeverInterrupted ==                            \* faulty: pending rows only
  {d \in Deliveries : d \notin waiting /\ state[d] = "pending"}
\* The rows a drain reads: pending and due, or left attempting by a process
\* that died.
Due ==
  {d \in Deliveries : d \notin waiting /\
     (state[d] = "pending" \/ (state[d] = "attempting" /\ d \notin fresh))}

-----------------------------------------------------------------------------
(* The project: what syncs find, what operators change. *)

\* persistReviewObservation: a new or edited review, judged by reviewAlertState
\* against today's threshold.
Observe(r, x) ==
  /\ rev[r] < MaxRevision
  /\ rev' = [rev EXCEPT ![r] = @ + 1]
  /\ rated' = [rated EXCEPT ![<<r, rev[r] + 1>>] = x]
  /\ \/ old' = old
     \/ /\ \A v \in 1..rev[r] : <<r, v>> \in old
        /\ old' = old \cup {<<r, rev[r] + 1>>}
  /\ alert' = [alert EXCEPT ![r] =
       IF ~Negative(x) THEN "none"
       ELSE IF <<r, rev[r] + 1>> \in old' THEN "stale" ELSE "pending"]
  /\ told' = [told EXCEPT ![r] = {}]
  /\ UNCHANGED <<settingVars, rowVars, passVars, appeared, accepted, crashes>>

\* Thirty days pass over an event; earlier revisions are older.
Ages(e) ==
  /\ e[2] <= rev[e[1]] /\ e \notin old
  /\ \A v \in 1..(e[2] - 1) : <<e[1], v>> \in old
  /\ old' = old \cup {e}
  /\ UNCHANGED <<alert, rev, rated, settingVars, rowVars, passVars, appeared, accepted,
                 told, crashes>>

Toggled(x, S) == IF x \in S THEN S \ {x} ELSE S \cup {x}

ChangesSetting ==
  /\ changes < MaxChanges /\ changes' = changes + 1
  /\ UNCHANGED <<alert, newsVars, passVars, appeared, accepted, told, crashes>>

SetThreshold ==
  /\ ChangesSetting
  /\ strict' = ~strict
  /\ UNCHANGED <<withheld, covered, notif, url, rowVars>>

\* The location is deselected or the project renamed, or they come back.
Withhold(r) ==
  /\ ChangesSetting
  /\ withheld' = Toggled(r, withheld)
  /\ UNCHANGED <<strict, covered, notif, url, rowVars>>

\* Business Profile reviews of a Places location become reachable, or stop.
Cover(r) ==
  /\ ChangesSetting
  /\ covered' = Toggled(r, covered)
  /\ UNCHANGED <<strict, withheld, notif, url, rowVars>>

Subscribe(n) ==
  /\ ChangesSetting
  /\ notif[n] # "gone"
  /\ notif' = [notif EXCEPT ![n] = IF @ = "on" THEN "off" ELSE "on"]
  /\ UNCHANGED <<strict, withheld, covered, url, rowVars>>

\* syncNotificationSet keeps the row and its deliveries.
ChangeUrl(n, u) ==
  /\ ChangesSetting
  /\ notif[n] # "gone" /\ url[n] # u
  /\ url' = [url EXCEPT ![n] = u]
  /\ UNCHANGED <<strict, withheld, covered, notif, rowVars>>

\* Deleting a webhook deletes its deliveries with it.
Remove(n) ==
  /\ ChangesSetting
  /\ notif[n] # "gone"
  /\ notif' = [notif EXCEPT ![n] = "gone"]
  /\ state' = [d \in Deliveries |-> IF d[3] = n THEN "none" ELSE state[d]]
  /\ waiting' = {d \in waiting : d[3] # n} /\ fresh' = {d \in fresh : d[3] # n}
  /\ UNCHANGED <<strict, withheld, covered, url, target, attempts>>

\* The clock reaches a retryAt; an attempt is a minute old, which nobody asks
\* while the pass waits for its answer.
RetryFallsDue(d) ==
  /\ d \in waiting
  /\ waiting' = waiting \ {d}
  /\ UNCHANGED <<alert, newsVars, settingVars, state, target, attempts, fresh,
                 passVars, appeared, accepted, told, crashes>>

AttemptGoesStale(d) ==
  /\ d \in fresh /\ at # d
  /\ fresh' = fresh \ {d}
  /\ UNCHANGED <<alert, newsVars, settingVars, state, target, attempts, waiting,
                 passVars, appeared, accepted, told, crashes>>

-----------------------------------------------------------------------------
(* The passes. *)

NoPass ==
  /\ phase' = "idle" /\ todo' = {} /\ audience' = {} /\ failed' = {}
  /\ left' = [u \in ChatUrls |-> ChatSends]
  /\ stage' = "none" /\ at' = None /\ got' = FALSE

\* What is left to say of a pending alert, with today's settings.
Verdict(r) == IF r \in covered THEN "suppressed"
              ELSE IF <<r, rev[r]>> \in old THEN "stale"
              ELSE IF ~Negative(rated[<<r, rev[r]>>]) THEN "none" ELSE "send"
Pending == {r \in Reviews : alert[r] = "pending"}
ToSend == {r \in Pending : Verdict(r) = "send"}
Subscribed == {n \in Destinations : notif[n] = "on"}

\* dispatchReviewAlerts, unless a pass holds the lock: pending alerts that no
\* longer qualify are closed, the rest go to every webhook subscribed now.
Dispatch ==
  /\ phase = "idle"
  /\ alert' = [r \in Reviews |->
       IF r \in ToSend THEN (IF Subscribed = {} THEN "skipped" ELSE "pending")
       ELSE IF r \in Pending THEN Verdict(r) ELSE alert[r]]
  /\ todo' = {d \in Deliveries :
                d[1] \in ToSend /\ d[2] = rev[d[1]] /\ d[3] \in Subscribed}
  /\ phase' = "alerts" /\ audience' = Subscribed
  /\ UNCHANGED <<newsVars, settingVars, rowVars, failed, left, stage, at, got, appeared,
                 accepted, told, crashes>>

\* dueReviewDeliveryProjects: unlike Due, an attempt put off still counts.
SomethingDue ==
  \E d \in Deliveries : \/ state[d] = "pending" /\ d \notin waiting
                        \/ state[d] = "attempting" /\ d \notin fresh

\* drainDueReviewDeliveries on the minute timer.
TimerFires ==
  /\ phase = "idle" /\ SomethingDue
  /\ phase' = "drain" /\ todo' = Due
  /\ UNCHANGED <<alert, newsVars, settingVars, rowVars, audience, failed, left, stage,
                 at, got, appeared, accepted, told, crashes>>

\* A dispatch goes on to drain, with the chat sends it has left.
ReadDue ==
  /\ phase = "alerts" /\ todo = {}
  /\ phase' = "drain" /\ todo' = Due /\ audience' = {} /\ failed' = {}
  /\ UNCHANGED <<alert, newsVars, settingVars, rowVars, left, stage, at, got, appeared,
                 accepted, told, crashes>>

PassEnds ==
  /\ phase = "drain" /\ todo = {}
  /\ NoPass
  /\ UNCHANGED <<alert, newsVars, settingVars, rowVars, appeared, accepted, told,
                 crashes>>

\* The process dies and comes back: rows stay, the pass is gone.
Restart ==
  /\ phase # "idle" /\ crashes < MaxCrashes
  /\ crashes' = crashes + 1
  /\ NoPass
  /\ UNCHANGED <<alert, newsVars, settingVars, rowVars, appeared, accepted, told>>

-----------------------------------------------------------------------------
(* One delivery.  d = <<review, revision, webhook>>. *)

AcknowledgesAny(d, ok) ==                         \* faulty: one webhook is enough
  LET r == d[1] IN
  /\ phase = "alerts" /\ ok /\ alert[r] = "pending" /\ rev[r] = d[2]
Acknowledges(d, ok) ==
  LET r == d[1] IN
  /\ phase = "alerts" /\ ok /\ r \notin failed
  /\ \A e \in todo \ {d} : e[1] # r
  /\ alert[r] = "pending" /\ rev[r] = d[2]

\* deliverReviewEvent returns; the last delivery of a review may acknowledge it.
Returns(d, ok) ==
  /\ todo' = todo \ {d} /\ stage' = "none" /\ at' = None /\ got' = FALSE
  /\ failed' = IF phase = "alerts" /\ ~ok THEN failed \cup {d[1]} ELSE failed
  /\ IF Acknowledges(d, ok)
       THEN /\ alert' = [alert EXCEPT ![d[1]] = "sent"]
            /\ told' = [told EXCEPT ![d[1]] = audience]
       ELSE UNCHANGED <<alert, told>>
  /\ UNCHANGED <<newsVars, settingVars, phase, audience, crashes>>

\* No request is out for d, and none of its evidence changes.
Quietly == UNCHANGED <<attempts, fresh, appeared, accepted>>

IsChat(d) == url[d[3]] \in ChatUrls

\* cancelReviewDelivery for a pending row, deferReviewDelivery for an attempt.
Refuse(d) ==
  /\ d \in todo /\ at = None /\ Refused(d)
  /\ state' = [state EXCEPT ![d] = IF @ = "pending" THEN "canceled" ELSE @]
  /\ waiting' = IF state[d] = "attempting" THEN waiting \cup {d} ELSE waiting \ {d}
  /\ UNCHANGED <<target, left>> /\ Quietly /\ Returns(d, FALSE)

Admitted(d) == d \in todo /\ at = None /\ ~Refused(d)

AlreadySettled(d) ==
  /\ Admitted(d) /\ state[d] \in {"sent", "uncertain", "canceled"}
  /\ UNCHANGED <<state, target, waiting, left>> /\ Quietly
  /\ Returns(d, state[d] = "sent")

\* The row a first look inserts; an attempt to a signed webhook is resumed.
Opened(d) ==
  /\ state' = [state EXCEPT ![d] = IF @ = "failed" THEN @ ELSE "pending"]
  /\ target' = [target EXCEPT ![d] = url[d[3]]]

\* A chat message needs a Google link.
Unrenderable(d) ==
  /\ Admitted(d) /\ state[d] \in {"none", "pending"}
  /\ IsChat(d) /\ d[1] \in Linkless
  /\ Opened(d) /\ waiting' = waiting \cup {d}
  /\ UNCHANGED left /\ Quietly /\ Returns(d, FALSE)

StillAttempting(d) ==
  /\ Admitted(d) /\ state[d] = "attempting" /\ d \in fresh
  /\ UNCHANGED <<state, target, waiting, left>> /\ Quietly /\ Returns(d, FALSE)

InterruptedResends(d) ==                          \* faulty: chat resumes like signed
  /\ Admitted(d) /\ state[d] = "attempting" /\ d \notin fresh /\ IsChat(d)
  /\ state' = [state EXCEPT ![d] = "pending"] /\ waiting' = waiting \ {d}
  /\ UNCHANGED <<target, left>> /\ Quietly /\ Returns(d, FALSE)
\* Nobody knows whether an interrupted chat request landed.
Interrupted(d) ==
  /\ Admitted(d) /\ state[d] = "attempting" /\ d \notin fresh /\ IsChat(d)
  /\ state' = [state EXCEPT ![d] = "uncertain"] /\ waiting' = waiting \ {d}
  /\ UNCHANGED <<target, left>> /\ Quietly /\ Returns(d, FALSE)

Resumable(d) ==
  /\ Admitted(d)
  /\ \/ state[d] \in {"none", "pending", "failed"} /\ ~(IsChat(d) /\ d[1] \in Linkless)
     \/ state[d] = "attempting" /\ d \notin fresh /\ ~IsChat(d)

\* Its retry is ahead, or its chat address had its sends of this pass.
NotYet(d) ==
  /\ Resumable(d)
  /\ d \in waiting \/ (IsChat(d) /\ left[url[d[3]]] = 0)
  /\ Opened(d)
  /\ UNCHANGED <<waiting, left>> /\ Quietly /\ Returns(d, FALSE)

\* The pass waits for resolveWebhookTarget.
Try(d) ==
  /\ Resumable(d) /\ d \notin waiting
  /\ IsChat(d) => left[url[d[3]]] > 0
  /\ Opened(d) /\ Quietly
  /\ left' = IF IsChat(d) THEN [left EXCEPT ![url[d[3]]] = @ - 1] ELSE left
  /\ stage' = "resolving" /\ at' = d
  /\ UNCHANGED <<alert, newsVars, settingVars, waiting, phase, todo, audience, failed,
                 got, told, crashes>>

-----------------------------------------------------------------------------
(* The answers the pass waits for. *)

Resolving(d) == at = d /\ stage = "resolving"
Sending(d) == at = d /\ stage = "sending"

Unresolved(d) ==
  /\ Resolving(d)
  /\ waiting' = IF state[d] = "pending" THEN waiting \cup {d} ELSE waiting
  /\ UNCHANGED <<state, target, left>> /\ Quietly /\ Returns(d, FALSE)

\* Refused by what changed while the address was being resolved.
Revoked(d) ==
  /\ Resolving(d) /\ Refused(d)
  /\ state' = [state EXCEPT ![d] = IF @ = "pending" THEN "canceled" ELSE @]
  /\ UNCHANGED <<target, waiting, left>> /\ Quietly /\ Returns(d, FALSE)

\* Only a pending row can be claimed.
ClaimLost(d) ==
  /\ Resolving(d) /\ ~Refused(d) /\ state[d] # "pending"
  /\ UNCHANGED <<state, target, waiting, left>> /\ Quietly /\ Returns(d, FALSE)

Claimed(d) ==
  /\ state' = [state EXCEPT ![d] = "attempting"]
  /\ attempts' = [attempts EXCEPT ![d] = @ + 1]
  /\ fresh' = fresh \cup {d} /\ stage' = "sending"
  /\ UNCHANGED <<alert, newsVars, settingVars, target, waiting, phase, todo, audience,
                 failed, left, at, got, appeared, accepted, told, crashes>>
ClaimUnchecked(d) ==                              \* faulty: no recheck after DNS
  Resolving(d) /\ state[d] = "pending" /\ Claimed(d)
ClaimAny(d) ==                                    \* faulty: no state in the claim
  Resolving(d) /\ ~Refused(d) /\ Claimed(d)
Claim(d) == Resolving(d) /\ ~Refused(d) /\ state[d] = "pending" /\ Claimed(d)

\* The request is taken in: a chat message appears, a signed event is handed
\* to a receiver that knows its id.
ReceiverActs(d) ==
  /\ Sending(d) /\ ~got
  /\ got' = TRUE
  /\ appeared' = [appeared EXCEPT ![d] = IF target[d] \in ChatUrls THEN @ + 1 ELSE @]
  /\ UNCHANGED <<alert, newsVars, settingVars, rowVars, phase, todo, audience, failed,
                 left, stage, at, accepted, told, crashes>>

\* The last update of deliverReviewEvent, when the row is still there.
Settle(d, s) ==
  /\ state' = [state EXCEPT ![d] = IF @ = "attempting" THEN s ELSE @]
  /\ waiting' = IF s = "pending" /\ state[d] = "attempting" THEN waiting \cup {d}
                ELSE waiting \ {d}
  /\ fresh' = fresh \ {d}
  /\ UNCHANGED <<target, left, attempts, appeared>>

Accepted(d) ==
  /\ Sending(d) /\ got
  /\ Settle(d, "sent") /\ accepted' = accepted \cup {d} /\ Returns(d, TRUE)

\* A 4xx other than 408, 425 and 429.
Declined(d) ==
  /\ Sending(d) /\ ~got
  /\ Settle(d, "failed") /\ UNCHANGED accepted /\ Returns(d, FALSE)

Again(d) == IF attempts[d] >= MaxAttempts THEN "failed" ELSE "pending"

\* Another error, or a request that never left whole.
Retryable(d) ==
  /\ Sending(d) /\ ~got
  /\ Settle(d, Again(d)) /\ UNCHANGED accepted /\ Returns(d, FALSE)

Unanswered(d) ==
  /\ Sending(d)
  /\ Settle(d, IF target[d] \in ChatUrls THEN "uncertain" ELSE Again(d))
  /\ UNCHANGED accepted /\ Returns(d, FALSE)

-----------------------------------------------------------------------------
Delivers(d) ==
  \/ Refuse(d) \/ AlreadySettled(d) \/ Unrenderable(d) \/ StillAttempting(d)
  \/ Interrupted(d) \/ NotYet(d) \/ Try(d)
  \/ Revoked(d) \/ ClaimLost(d) \/ Claim(d)

Answered(d) ==
  \/ Unresolved(d) \/ Accepted(d) \/ Declined(d) \/ Retryable(d) \/ Unanswered(d)

Project ==
  \/ \E r \in Reviews : (\E x \in Ratings : Observe(r, x)) \/ Withhold(r) \/ Cover(r)
  \/ SetThreshold
  \/ \E n \in Destinations :
       Subscribe(n) \/ Remove(n) \/ \E u \in Urls : ChangeUrl(n, u)

Clock ==
  \/ \E e \in Events : Ages(e)
  \/ \E d \in Deliveries : RetryFallsDue(d) \/ AttemptGoesStale(d)

Passes == TimerFires \/ ReadDue \/ PassEnds

Next ==
  \/ Project \/ Clock \/ Dispatch \/ Passes \/ Restart
  \/ \E d \in Deliveries : Delivers(d) \/ Answered(d) \/ ReceiverActs(d)

\* The engine runs what is ready and its timer fires; resolvers and requests
\* time out; the clock advances.  Syncs, operators, receivers and deaths are
\* not assumed.
Fairness ==
  /\ WF_vars(Passes)
  /\ WF_vars(\E d \in Deliveries : Delivers(d) \/ Answered(d))
  /\ \A e \in Events : WF_vars(Ages(e))
  /\ \A d \in Deliveries : WF_vars(RetryFallsDue(d)) /\ WF_vars(AttemptGoesStale(d))

Spec == Init /\ [][Next]_vars /\ Fairness

-----------------------------------------------------------------------------
(* Properties. *)

\* A row that may still be made.
Fresh(d) == state[d] = "none" /\ notif[d[3]] # "gone"

\* Where the pass is: one request at most is out, for a row it claimed.
PassIsPlaced ==
  /\ stage = "none" <=> at = None
  /\ got => stage = "sending"
  /\ at # None => at \in todo
  /\ phase = "idle" => todo = {}
  /\ stage = "resolving" => state[at] # "attempting"
  /\ stage = "sending" => state[at] \in {"attempting", "none"} /\ ~Fresh(at)

\* What an open or settled row may have behind it.
RowsAreHonest ==
  \A d \in Deliveries :
    /\ Fresh(d) => appeared[d] = 0 /\ attempts[d] = 0
    /\ target[d] \in ChatUrls =>
         /\ appeared[d] <= 1
         /\ state[d] = "sent" => appeared[d] = 1
         /\ state[d] \in {"pending", "failed", "canceled"} => appeared[d] = 0
         /\ (at = d /\ stage = "sending") => appeared[d] = IF got THEN 1 ELSE 0

\* An attempt the pass does not wait for was interrupted by a death.
AttemptsArePaid ==
  \A d \in Deliveries :
    /\ attempts[d] <= MaxAttempts + crashes
    /\ (state[d] = "pending" \/ (state[d] = "attempting" /\ at # d)) =>
         attempts[d] < MaxAttempts + crashes

\* What a dispatch knows of its reviews, before and after it acknowledges.
AcksAreEarned ==
  /\ \A d \in Deliveries : state[d] = "sent" => d \in accepted
  /\ \A r \in Reviews : alert[r] = "sent" =>
       told[r] # {} /\ \A n \in told[r] : <<r, rev[r], n>> \in accepted
  /\ phase = "alerts" =>
       \A d \in todo :
         /\ d[3] \in audience
         /\ \A n \in audience :
              \/ <<d[1], d[2], n>> \in todo \cup accepted
              \/ d[1] \in failed

\* The inductive invariant: what the code keeps true between any two steps of
\* a pass, its answers, the settings and the clock.
IInv == TypeOK /\ PassIsPlaced /\ RowsAreHonest /\ AttemptsArePaid /\ AcksAreEarned

\* A chat delivery's row never lies about the message: sent means it appeared
\* once, pending, failed and canceled that it did not, and no chat receiver
\* ever gets an event twice, whatever died in between
\* (review-webhook-delivery.ts 299-301, 386-391: chat is never resent).
ChatRecordIsTrue ==
  \A d \in Deliveries : target[d] \in ChatUrls =>
    /\ appeared[d] <= 1
    /\ state[d] = "sent" => appeared[d] = 1
    /\ state[d] \in {"pending", "failed", "canceled"} => appeared[d] = 0

\* An alert is acknowledged only when every webhook found subscribed accepted
\* the revision the row holds: one receiver cannot settle another's debt, nor
\* an older send hide a newer edit (notifier.ts 1194-1231).
AckIsEarned ==
  \A r \in Reviews : alert[r] = "sent" =>
    told[r] # {} /\ \A n \in told[r] : <<r, rev[r], n>> \in accepted

\* Retries are bounded: ten answered attempts, and at most one more for each
\* process that died in an attempt (review-webhook-delivery.ts 384-394).
RetriesBounded == \A d \in Deliveries : attempts[d] <= MaxAttempts + crashes

\* What the log of a delivery claims is what happened to it, over every retry
\* and every death in an attempt: how often it was tried and whether it appeared.
AttemptsAreTrue == ChatRecordIsTrue /\ RetriesBounded

\* A settled row stays as it is until its webhook is deleted, and nothing more
\* is sent for it: a failed or canceled delivery is not revived by a later
\* pass that looks at the same event (review-webhook-delivery.ts 285, 349-365).
SettledIsFinal ==
  [][\A d \in Deliveries : state[d] \in Settled =>
       /\ state'[d] \in {state[d], "none"}
       /\ attempts'[d] = attempts[d]]_vars

\* No request goes out for what has been revoked meanwhile, even when it was
\* allowed before the address was resolved (review-webhook-delivery.ts 336-348).
RevokedIsNotSent ==
  [][\A d \in Deliveries : attempts'[d] # attempts[d] => ~Refused(d)]_vars

\* Debt does not linger: every open delivery is taken up until it settles,
\* except an interrupted attempt that may no longer be sent, which is put off
\* again and again to keep its evidence
\* (review-webhook-delivery.ts 211-231, 258-262).
DebtSettles ==
  \A d \in Deliveries :
    state[d] \in {"pending", "attempting"} ~>
      \/ state[d] \notin {"pending", "attempting"}
      \/ state[d] = "attempting" /\ d \in waiting
=============================================================================
