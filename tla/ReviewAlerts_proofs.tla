------------------------- MODULE ReviewAlerts_proofs -------------------------
(***************************************************************************)
(* Theorems about ReviewAlerts, for every set of reviews and webhooks,     *)
(* every bound on attempts and chat sends, and any number of edits,        *)
(* changes of settings and process deaths.                                 *)
(***************************************************************************)
EXTENDS ReviewAlerts, TLAPS

\* The three parts of a delivery.
LEMMA Parts ==
  ASSUME NEW d \in Deliveries
  PROVE  /\ d[1] \in Reviews /\ d[2] \in Revisions /\ d[3] \in Destinations
         /\ d # None
BY ParametersAssumption DEF Deliveries, Revisions

LEMMA Parameters ==
  /\ MaxRevision \in Nat /\ MaxAttempts \in Nat /\ MaxAttempts > 0 /\ ChatSends \in Nat
  /\ ChatUrls \subseteq Urls /\ FirstUrl \in [Destinations -> Urls]
  /\ Ratings \subseteq {"low", "mid", "high"}
BY ParametersAssumption

-----------------------------------------------------------------------------
(* Type correctness. *)

LEMMA TypeInit == Init => TypeOK
<1> SUFFICES ASSUME Init PROVE TypeOK
  OBVIOUS
<1>1. target \in [Deliveries -> Urls]
  BY Parameters, Parts DEF Init
<1>2. /\ left \in [ChatUrls -> 0..ChatSends] /\ url \in [Destinations -> Urls]
      /\ rev \in [Reviews -> 0..MaxRevision]
  BY Parameters DEF Init
<1> QED BY <1>1, <1>2 DEF Init, TypeOK, AlertStates, States

LEMMA TypeProject ==
  ASSUME TypeOK, Project \/ Clock
  PROVE  TypeOK'
<1> USE Parameters DEF newsVars, settingVars, rowVars, passVars
<1>1. ASSUME NEW r \in Reviews, NEW x \in Ratings, Observe(r, x) PROVE TypeOK'
  <2>1. rev[r] + 1 \in Revisions /\ rev[r] + 1 \in 0..MaxRevision
    BY <1>1 DEF Observe, TypeOK, Revisions
  <2>2. old' \subseteq Events
    BY <1>1, <2>1 DEF Observe, TypeOK, Events
  <2>3. rev' \in [Reviews -> 0..MaxRevision] /\ told' \in [Reviews -> SUBSET Destinations]
    BY <1>1, <2>1 DEF Observe, TypeOK
  <2>4. alert' \in [Reviews -> AlertStates]
    BY <1>1 DEF Observe, TypeOK, AlertStates
  <2>5. rated' \in [Reviews \X (0..MaxRevision) -> {"low", "mid", "high"}]
    BY <1>1, <2>1 DEF Observe, TypeOK
  <2> QED BY <1>1, <2>2, <2>3, <2>4, <2>5 DEF Observe, TypeOK
<1>2. ASSUME NEW r \in Reviews, Withhold(r) \/ Cover(r) PROVE TypeOK'
  BY <1>2 DEF Withhold, Cover, ChangesSetting, Toggled, TypeOK
<1>3. ASSUME SetThreshold PROVE TypeOK'
  BY <1>3 DEF SetThreshold, ChangesSetting, TypeOK
<1>4. ASSUME NEW n \in Destinations, Subscribe(n) PROVE TypeOK'
  BY <1>4 DEF Subscribe, ChangesSetting, TypeOK
<1>5. ASSUME NEW n \in Destinations, Remove(n) PROVE TypeOK'
  BY <1>5 DEF Remove, ChangesSetting, TypeOK, States
<1>6. ASSUME NEW n \in Destinations, NEW u \in Urls, ChangeUrl(n, u) PROVE TypeOK'
  BY <1>6 DEF ChangeUrl, ChangesSetting, TypeOK
<1>7. ASSUME NEW e \in Events, Ages(e) PROVE TypeOK'
  BY <1>7 DEF Ages, TypeOK
<1>8. ASSUME NEW d \in Deliveries, RetryFallsDue(d) \/ AttemptGoesStale(d) PROVE TypeOK'
  BY <1>8 DEF RetryFallsDue, AttemptGoesStale, TypeOK
<1> QED
  BY <1>1, <1>2, <1>3, <1>4, <1>5, <1>6, <1>7, <1>8 DEF Project, Clock

LEMMA TypePass ==
  ASSUME TypeOK, Dispatch \/ Passes \/ Restart
  PROVE  TypeOK'
<1> USE Parameters DEF newsVars, settingVars, rowVars, passVars
<1>1. CASE Dispatch
  <2>1. todo' \subseteq Deliveries /\ audience' \subseteq Destinations
    BY <1>1 DEF Dispatch, Subscribed
  <2>2. alert' \in [Reviews -> AlertStates]
    BY <1>1 DEF Dispatch, TypeOK, AlertStates, ToSend, Verdict
  <2> QED BY <1>1, <2>1, <2>2 DEF Dispatch, TypeOK
<1>2. CASE TimerFires \/ ReadDue
  BY <1>2 DEF TimerFires, ReadDue, Due, TypeOK
<1>3. CASE PassEnds \/ Restart
  <2>1. left' \in [ChatUrls -> 0..ChatSends]
    BY <1>3 DEF PassEnds, Restart, NoPass
  <2>2. crashes' \in Nat
    BY <1>3 DEF PassEnds, Restart, TypeOK
  <2> QED BY <1>3, <2>1, <2>2 DEF PassEnds, Restart, NoPass, TypeOK
<1> QED BY <1>1, <1>2, <1>3 DEF Passes

LEMMA TypeReturns ==
  ASSUME TypeOK, NEW d \in Deliveries, NEW ok \in BOOLEAN, Returns(d, ok)
  PROVE  /\ todo' \subseteq Deliveries /\ failed' \subseteq Reviews
         /\ stage' = "none" /\ at' = None /\ got' = FALSE
         /\ alert' \in [Reviews -> AlertStates]
         /\ told' \in [Reviews -> SUBSET Destinations]
         /\ UNCHANGED <<newsVars, settingVars, phase, audience, crashes>>
<1>1. d[1] \in Reviews
  BY Parts
<1> QED BY <1>1 DEF Returns, TypeOK, AlertStates

LEMMA TypeDelivers ==
  ASSUME TypeOK, NEW d \in Deliveries, Delivers(d) \/ Answered(d) \/ ReceiverActs(d)
  PROVE  TypeOK'
<1> USE Parameters, Parts DEF newsVars, settingVars, rowVars, passVars
<1>1. CASE \/ Refuse(d) \/ AlreadySettled(d) \/ StillAttempting(d) \/ Interrupted(d)
           \/ Revoked(d) \/ ClaimLost(d) \/ Unresolved(d)
  <2>1. Returns(d, FALSE) \/ Returns(d, TRUE)
    BY <1>1 DEF Refuse, AlreadySettled, StillAttempting, Interrupted, Revoked, ClaimLost,
      Unresolved
  <2>2. /\ todo' \subseteq Deliveries /\ failed' \subseteq Reviews
        /\ stage' = "none" /\ at' = None /\ got' = FALSE
        /\ alert' \in [Reviews -> AlertStates]
        /\ told' \in [Reviews -> SUBSET Destinations]
        /\ UNCHANGED <<newsVars, settingVars, phase, audience, crashes>>
    BY <2>1, TypeReturns
  <2>3. /\ state' \in [Deliveries -> States] /\ waiting' \subseteq Deliveries
        /\ UNCHANGED <<target, left, attempts, fresh, appeared, accepted>>
    BY <1>1 DEF Refuse, AlreadySettled, StillAttempting, Interrupted, Revoked, ClaimLost,
      Unresolved, Quietly, TypeOK, States
  <2> QED BY <2>2, <2>3 DEF TypeOK
<1>2. CASE Unrenderable(d) \/ NotYet(d) \/ Try(d)
  <2>1. /\ state' \in [Deliveries -> States] /\ target' \in [Deliveries -> Urls]
        /\ UNCHANGED <<attempts, fresh, appeared, accepted>>
    <3>1. Opened(d) /\ Quietly
      BY <1>2 DEF Unrenderable, NotYet, Try
    <3> QED BY <3>1 DEF Opened, Quietly, TypeOK, States
  <2>2. CASE Unrenderable(d) \/ NotYet(d)
    <3>1. /\ Returns(d, FALSE) /\ waiting' \subseteq Deliveries /\ UNCHANGED left
      BY <2>2 DEF Unrenderable, NotYet, TypeOK
    <3>2. /\ todo' \subseteq Deliveries /\ failed' \subseteq Reviews
          /\ stage' = "none" /\ at' = None /\ got' = FALSE
          /\ alert' \in [Reviews -> AlertStates]
          /\ told' \in [Reviews -> SUBSET Destinations]
          /\ UNCHANGED <<newsVars, settingVars, phase, audience, crashes>>
      BY <3>1, TypeReturns
    <3> QED BY <2>1, <3>1, <3>2 DEF TypeOK
  <2>3. CASE Try(d)
    <3>1. left' \in [ChatUrls -> 0..ChatSends]
      BY <2>3 DEF Try, TypeOK, IsChat
    <3> QED BY <2>1, <2>3, <3>1 DEF Try, TypeOK
  <2> QED BY <1>2, <2>2, <2>3
<1>3. CASE Claim(d)
  BY <1>3 DEF Claim, Claimed, Resolving, TypeOK, States
<1>4. CASE ReceiverActs(d)
  BY <1>4 DEF ReceiverActs, Sending, TypeOK
<1>5. CASE Accepted(d) \/ Declined(d) \/ Retryable(d) \/ Unanswered(d)
  <2>1. PICK s \in States : Settle(d, s)
    BY <1>5 DEF Accepted, Declined, Retryable, Unanswered, Again, States
  <2>2. /\ state' \in [Deliveries -> States] /\ waiting' \subseteq Deliveries
        /\ fresh' \subseteq Deliveries /\ UNCHANGED <<target, left, attempts, appeared>>
    BY <2>1 DEF Settle, TypeOK
  <2>3. (Returns(d, FALSE) \/ Returns(d, TRUE)) /\ accepted' \subseteq Deliveries
    BY <1>5 DEF Accepted, Declined, Retryable, Unanswered, TypeOK
  <2>4. /\ todo' \subseteq Deliveries /\ failed' \subseteq Reviews
        /\ stage' = "none" /\ at' = None /\ got' = FALSE
        /\ alert' \in [Reviews -> AlertStates]
        /\ told' \in [Reviews -> SUBSET Destinations]
        /\ UNCHANGED <<newsVars, settingVars, phase, audience, crashes>>
    BY <2>3, TypeReturns
  <2> QED BY <2>2, <2>3, <2>4 DEF TypeOK
<1> QED
  BY <1>1, <1>2, <1>3, <1>4, <1>5 DEF Delivers, Answered

LEMMA TypeNext == TypeOK /\ [Next]_vars => TypeOK'
<1> SUFFICES ASSUME TypeOK, [Next]_vars PROVE TypeOK'
  OBVIOUS
<1>1. CASE UNCHANGED vars
  BY <1>1 DEF vars, newsVars, settingVars, rowVars, passVars, TypeOK
<1> QED
  BY <1>1, TypeProject, TypePass, TypeDelivers DEF Next

\* Every variable keeps its type: no step of a pass, a sync, an operator or the
\* clock leaves the states the code declares.
THEOREM TypeCorrect == Spec => []TypeOK
BY TypeInit, TypeNext, PTL DEF Spec

-----------------------------------------------------------------------------
(* What the steps of a delivery do to its row. *)

Looks(d) ==
  \/ Refuse(d) \/ AlreadySettled(d) \/ Unrenderable(d) \/ StillAttempting(d)
  \/ Interrupted(d) \/ NotYet(d) \/ Revoked(d) \/ ClaimLost(d) \/ Unresolved(d)

Answers(d) == Accepted(d) \/ Declined(d) \/ Retryable(d) \/ Unanswered(d)

LEMMA Kinds ==
  ASSUME NEW d \in Deliveries, Delivers(d) \/ Answered(d) \/ ReceiverActs(d)
  PROVE  Looks(d) \/ Try(d) \/ Claim(d) \/ ReceiverActs(d) \/ Answers(d)
BY DEF Delivers, Answered, Looks, Answers

\* A look ends the delivery without a request.
LEMMA LookReturns ==
  ASSUME NEW d \in Deliveries, Looks(d)
  PROVE  /\ Quietly
         /\ Returns(d, FALSE) \/ (Returns(d, TRUE) /\ state[d] = "sent")
BY DEF Looks, Refuse, AlreadySettled, Unrenderable, StillAttempting, Interrupted, NotYet,
  Revoked, ClaimLost, Unresolved

\* A look or the start of a try moves one row, in one of four ways.
LEMMA LookMoves ==
  ASSUME TypeOK, NEW d \in Deliveries, Looks(d) \/ Try(d)
  PROVE  /\ \A e \in Deliveries \ {d} : state'[e] = state[e] /\ target'[e] = target[e]
         /\ \/ state'[d] = state[d] /\ target'[d] = target[d]
            \/ state[d] = "pending" /\ state'[d] = "canceled" /\ target'[d] = target[d]
            \/ state[d] = "attempting" /\ state'[d] = "uncertain" /\ target'[d] = target[d]
            \/ Fresh(d) /\ state'[d] = "pending"
            \/ /\ state[d] = "attempting" /\ state'[d] = "pending"
               /\ target[d] \notin ChatUrls /\ target'[d] = target[d]
<1> USE Parts DEF TypeOK
<1>1. CASE \/ Refuse(d) \/ AlreadySettled(d) \/ StillAttempting(d) \/ Interrupted(d)
           \/ Revoked(d) \/ ClaimLost(d) \/ Unresolved(d)
  BY <1>1 DEF Refuse, AlreadySettled, StillAttempting, Interrupted, Revoked, ClaimLost,
    Unresolved
<1>2. CASE Unrenderable(d) \/ NotYet(d) \/ Try(d)
  <2>1. /\ Opened(d) /\ Admitted(d)
        /\ \/ state[d] \in {"none", "pending", "failed"}
           \/ state[d] = "attempting" /\ ~IsChat(d)
    BY <1>2 DEF Unrenderable, NotYet, Try, Resumable
  <2>2. /\ \A e \in Deliveries \ {d} : state'[e] = state[e] /\ target'[e] = target[e]
        /\ state'[d] = (IF state[d] = "failed" THEN "failed" ELSE "pending")
        /\ target'[d] = url[d[3]]
    BY <2>1 DEF Opened
  <2>3. notif[d[3]] = "on" /\ (state[d] # "none" => target[d] = url[d[3]])
    BY <2>1 DEF Admitted, Refused
  <2> QED BY <2>1, <2>2, <2>3 DEF Fresh, IsChat
<1> QED BY <1>1, <1>2 DEF Looks

\* An answer settles the row it was awaited for, if the row is still there.
LEMMA AnswerMoves ==
  ASSUME TypeOK, PassIsPlaced, NEW d \in Deliveries, Answers(d)
  PROVE  /\ at = d /\ stage = "sending" /\ state[d] \in {"attempting", "none"}
         /\ Returns(d, FALSE) \/ (Returns(d, TRUE) /\ d \in accepted')
         /\ \A e \in Deliveries \ {d} : state'[e] = state[e]
         /\ state[d] = "none" => state'[d] = "none"
         /\ accepted \subseteq accepted'
         /\ UNCHANGED <<target, attempts, appeared>>
         /\ state[d] = "attempting" =>
              \/ state'[d] = "sent" /\ got /\ d \in accepted'
              \/ state'[d] = "failed" /\ (got => target[d] \notin ChatUrls)
              \/ /\ state'[d] = "pending" /\ (got => target[d] \notin ChatUrls)
                 /\ attempts[d] < MaxAttempts
              \/ state'[d] = "uncertain"
<1> USE Parts, Parameters DEF TypeOK
<1>1. at = d /\ stage = "sending"
  BY DEF Answers, Accepted, Declined, Retryable, Unanswered, Sending
<1>2. state[d] \in {"attempting", "none"}
  BY <1>1 DEF PassIsPlaced
<1>3. ASSUME NEW s, Settle(d, s)
      PROVE  /\ \A e \in Deliveries \ {d} : state'[e] = state[e]
             /\ state'[d] = IF state[d] = "attempting" THEN s ELSE state[d]
             /\ UNCHANGED <<target, attempts, appeared>>
  BY <1>3 DEF Settle
<1>4. /\ Again(d) \in {"failed", "pending"}
      /\ Again(d) = "pending" => attempts[d] < MaxAttempts
  BY DEF Again
<1>5. CASE Accepted(d) \/ Declined(d)
  BY <1>1, <1>2, <1>3, <1>5 DEF Accepted, Declined, Sending
<1>6. CASE Retryable(d)
  BY <1>1, <1>2, <1>3, <1>4, <1>6 DEF Retryable
<1>7. CASE Unanswered(d)
  <2>1. CASE target[d] \in ChatUrls
    BY <1>1, <1>2, <1>3, <1>7, <2>1 DEF Unanswered
  <2>2. CASE target[d] \notin ChatUrls
    BY <1>1, <1>2, <1>3, <1>4, <1>7, <2>2 DEF Unanswered
  <2> QED BY <2>1, <2>2
<1> QED BY <1>5, <1>6, <1>7 DEF Answers

\* Neither syncs nor settings nor the clock touch what a delivery did; only the
\* removal of a webhook touches its rows.
LEMMA ProjectFrame ==
  ASSUME TypeOK, Project \/ Clock
  PROVE  /\ UNCHANGED <<passVars, target, attempts, appeared, accepted, crashes>>
         /\ \A d \in Deliveries :
              \/ state'[d] = state[d] /\ (notif[d[3]] = "gone" <=> notif'[d[3]] = "gone")
              \/ state'[d] = "none" /\ notif'[d[3]] = "gone"
<1> USE Parts DEF TypeOK, newsVars, settingVars, rowVars
<1>1. ASSUME NEW r \in Reviews, NEW x \in Ratings, Observe(r, x) PROVE UNCHANGED
        <<passVars, target, attempts, appeared, accepted, crashes, state, notif>>
  BY <1>1 DEF Observe
<1>2. ASSUME NEW r \in Reviews, Withhold(r) \/ Cover(r) \/ SetThreshold PROVE UNCHANGED
        <<passVars, target, attempts, appeared, accepted, crashes, state, notif>>
  BY <1>2 DEF Withhold, Cover, SetThreshold, ChangesSetting
<1>3. ASSUME NEW n \in Destinations, NEW u \in Urls, ChangeUrl(n, u) PROVE UNCHANGED
        <<passVars, target, attempts, appeared, accepted, crashes, state, notif>>
  BY <1>3 DEF ChangeUrl, ChangesSetting
<1>4. ASSUME NEW n \in Destinations, Subscribe(n)
      PROVE  /\ UNCHANGED <<passVars, target, attempts, appeared, accepted, crashes, state>>
             /\ \A d \in Deliveries : notif[d[3]] = "gone" <=> notif'[d[3]] = "gone"
  BY <1>4 DEF Subscribe, ChangesSetting
<1>5. ASSUME NEW n \in Destinations, Remove(n)
      PROVE  /\ UNCHANGED <<passVars, target, attempts, appeared, accepted, crashes>>
             /\ \A d \in Deliveries :
                  \/ state'[d] = state[d] /\ notif'[d[3]] = notif[d[3]]
                  \/ state'[d] = "none" /\ notif'[d[3]] = "gone"
  BY <1>5 DEF Remove, ChangesSetting
<1>6. ASSUME NEW e \in Events, Ages(e) PROVE UNCHANGED
        <<passVars, target, attempts, appeared, accepted, crashes, state, notif>>
  BY <1>6 DEF Ages
<1>7. ASSUME NEW d \in Deliveries, RetryFallsDue(d) \/ AttemptGoesStale(d) PROVE UNCHANGED
        <<passVars, target, attempts, appeared, accepted, crashes, state, notif>>
  BY <1>7 DEF RetryFallsDue, AttemptGoesStale
<1>8. SetThreshold => UNCHANGED
        <<passVars, target, attempts, appeared, accepted, crashes, state, notif>>
  BY DEF SetThreshold, ChangesSetting
<1> QED BY <1>1, <1>2, <1>3, <1>4, <1>5, <1>6, <1>7, <1>8 DEF Project, Clock

-----------------------------------------------------------------------------
(* The pass, its rows and its attempts. *)

LEMMA PlacedNext ==
  ASSUME TypeOK, PassIsPlaced, [Next]_vars
  PROVE  PassIsPlaced'
<1> USE DEF settingVars, rowVars, passVars
<1>1. CASE UNCHANGED vars
  BY <1>1 DEF vars, PassIsPlaced, Fresh
<1>2. CASE Project \/ Clock
  <2>1. at # None => at \in Deliveries
    BY DEF TypeOK
  <2>2. UNCHANGED passVars
    BY <1>2, ProjectFrame
  <2>3. \A d \in Deliveries : /\ state'[d] \in {state[d], "none"}
                              /\ ~Fresh(d) => ~Fresh(d)'
    BY <1>2, ProjectFrame DEF Fresh
  <2> QED BY <2>1, <2>2, <2>3 DEF PassIsPlaced
<1>3. CASE Dispatch \/ Passes \/ Restart
  <2>1. at' = None /\ stage' = "none" /\ got' = FALSE
    BY <1>3 DEF Dispatch, Passes, TimerFires, ReadDue, PassEnds, Restart, NoPass,
      PassIsPlaced
  <2>2. phase' = "idle" => todo' = {}
    BY <1>3 DEF Dispatch, Passes, TimerFires, ReadDue, PassEnds, Restart, NoPass
  <2> QED BY <2>1, <2>2 DEF PassIsPlaced
<1>4. ASSUME NEW d \in Deliveries, Delivers(d) \/ Answered(d) \/ ReceiverActs(d)
      PROVE  PassIsPlaced'
  <2>1. d # None
    BY Parts
  <2>2. CASE Looks(d) \/ Answers(d)
    <3>1. /\ stage' = "none" /\ at' = None /\ got' = FALSE
          /\ phase' = phase /\ todo' = todo \ {d}
      BY <2>2, LookReturns, AnswerMoves DEF Returns
    <3> QED BY <3>1 DEF PassIsPlaced
  <2>3. CASE Try(d)
    <3>1. /\ at' = d /\ stage' = "resolving" /\ got' = got /\ at = None
          /\ d \in todo /\ todo' = todo /\ phase' = phase
      BY <2>3 DEF Try, Resumable, Admitted
    <3>2. state'[d] # "attempting"
      BY <2>3 DEF Try, Opened, TypeOK
    <3> QED BY <2>1, <3>1, <3>2 DEF PassIsPlaced
  <2>4. CASE Claim(d)
    <3>1. /\ at = d /\ at' = d /\ stage' = "sending" /\ todo' = todo /\ phase' = phase
      BY <2>4 DEF Claim, Claimed, Resolving
    <3>2. state'[d] = "attempting"
      BY <2>4 DEF Claim, Claimed, TypeOK
    <3> QED BY <2>1, <3>1, <3>2 DEF PassIsPlaced, Fresh
  <2>5. CASE ReceiverActs(d)
    <3>1. /\ at = d /\ stage = "sending"
          /\ UNCHANGED <<at, stage, todo, phase, state, notif>>
      BY <2>5 DEF ReceiverActs, Sending
    <3> QED BY <2>1, <3>1 DEF PassIsPlaced, Fresh
  <2> QED BY <1>4, Kinds, <2>2, <2>3, <2>4, <2>5
<1> QED BY <1>1, <1>2, <1>3, <1>4 DEF Next

\* One row against the chat record, now and in the next state.
LEMMA HonestNext ==
  ASSUME TypeOK, PassIsPlaced, RowsAreHonest, [Next]_vars
  PROVE  RowsAreHonest'
<1>1. CASE UNCHANGED vars
  BY <1>1 DEF vars, settingVars, rowVars, passVars, RowsAreHonest, Fresh
<1>2. CASE Project \/ Clock
  <2>1. UNCHANGED <<at, stage, got, target, attempts, appeared>>
    BY <1>2, ProjectFrame DEF passVars
  <2>2. \A d \in Deliveries : /\ state'[d] \in {state[d], "none"}
                              /\ Fresh(d)' => Fresh(d)
    BY <1>2, ProjectFrame DEF Fresh
  <2> QED BY <2>1, <2>2 DEF RowsAreHonest
<1>3. CASE Dispatch \/ Passes
  BY <1>3 DEF Dispatch, Passes, TimerFires, ReadDue, PassEnds, NoPass, rowVars, settingVars,
    RowsAreHonest, Fresh
<1>4. CASE Restart
  BY <1>4 DEF Restart, NoPass, rowVars, settingVars, RowsAreHonest, Fresh
<1>5. ASSUME NEW d \in Deliveries, Delivers(d) \/ Answered(d) \/ ReceiverActs(d)
      PROVE  RowsAreHonest'
  <2> USE DEF RowsAreHonest, Fresh
  <2>1. notif' = notif
    BY <1>5, Kinds, LookReturns, AnswerMoves
      DEF Returns, Try, Claim, Claimed, ReceiverActs, settingVars
  <2>2. CASE Looks(d) \/ Try(d)
    <3>1. UNCHANGED <<attempts, appeared>>
      BY <2>2, LookReturns DEF Try, Quietly
    <3>2. stage' # "sending"
      BY <2>2, LookReturns DEF Try, Returns
    <3> QED BY <2>1, <2>2, <3>1, <3>2, LookMoves
  <2>3. CASE Claim(d)
    BY <2>1, <2>3 DEF Claim, Claimed, Resolving, PassIsPlaced, TypeOK
  <2>4. CASE ReceiverActs(d)
    BY <2>1, <2>4 DEF ReceiverActs, Sending, PassIsPlaced, rowVars, TypeOK
  <2>5. CASE Answers(d)
    <3>1. stage' = "none" /\ UNCHANGED <<target, attempts, appeared>>
      BY <2>5, AnswerMoves DEF Returns
    <3> QED BY <2>1, <2>5, <3>1, AnswerMoves
  <2> QED BY <1>5, Kinds, <2>2, <2>3, <2>4, <2>5
<1> QED BY <1>1, <1>2, <1>3, <1>4, <1>5 DEF Next

LEMMA PaidNext ==
  ASSUME TypeOK, PassIsPlaced, RowsAreHonest, AttemptsArePaid, [Next]_vars
  PROVE  AttemptsArePaid'
<1> USE Parameters DEF AttemptsArePaid
<1>0. \A d \in Deliveries : attempts[d] \in Nat /\ crashes \in Nat
  BY DEF TypeOK
<1>1. CASE UNCHANGED vars
  BY <1>1 DEF vars, rowVars, passVars
<1>2. CASE Project \/ Clock
  BY <1>2, ProjectFrame DEF passVars
<1>3. CASE Dispatch \/ Passes
  BY <1>3 DEF Dispatch, Passes, TimerFires, ReadDue, PassEnds, NoPass, rowVars, PassIsPlaced
<1>4. CASE Restart
  BY <1>0, <1>4 DEF Restart, NoPass, rowVars
<1>5. ASSUME NEW d \in Deliveries, Delivers(d) \/ Answered(d) \/ ReceiverActs(d)
      PROVE  AttemptsArePaid'
  <2>1. CASE Looks(d) \/ Try(d)
    <3>1. UNCHANGED <<attempts, crashes>>
      BY <2>1, LookReturns DEF Try, Quietly, Returns
    <3>2. Fresh(d) => attempts[d] = 0
      BY DEF RowsAreHonest
    <3>3. at = None \/ (at = d /\ stage # "sending")
      BY <2>1 DEF PassIsPlaced, Looks, Refuse, AlreadySettled, Unrenderable, StillAttempting,
        Interrupted, NotYet, Revoked, ClaimLost, Unresolved, Try, Resumable, Admitted,
        Resolving
    <3>4. at' = None \/ (at' = d /\ state'[d] # "attempting")
      BY <2>1, LookReturns DEF Try, Returns, Opened, TypeOK
    <3>5. \A e \in Deliveries \ {d} : state'[e] = state[e] /\ at # e
      BY <3>3, LookMoves, <2>1, Parts
    <3>6. \/ state'[d] \notin {"pending", "attempting"}
          \/ state[d] \in {"pending", "attempting"} /\ (state[d] = "attempting" => at # d)
          \/ Fresh(d)
      <4>1. state[d] = "attempting" => at # d
        BY <3>3, Parts DEF PassIsPlaced, TypeOK
      <4> QED BY <2>1, <4>1, LookMoves
    <3> QED BY <1>0, <3>1, <3>2, <3>4, <3>5, <3>6
  <2>2. CASE Claim(d)
    BY <1>0, <2>2 DEF Claim, Claimed, Resolving, TypeOK
  <2>3. CASE ReceiverActs(d)
    BY <2>3 DEF ReceiverActs, rowVars
  <2>4. CASE Answers(d)
    <3>1. UNCHANGED <<attempts, crashes>> /\ at = d
      BY <2>4, AnswerMoves DEF Returns
    <3>2. \A e \in Deliveries \ {d} : state'[e] = state[e] /\ at # e
      BY <2>4, <3>1, AnswerMoves
    <3>3. /\ state'[d] # "attempting"
          /\ state'[d] = "pending" => attempts[d] < MaxAttempts
      BY <2>4, AnswerMoves
    <3> QED BY <1>0, <3>1, <3>2, <3>3
  <2> QED BY <1>5, Kinds, <2>1, <2>2, <2>3, <2>4
<1> QED BY <1>1, <1>2, <1>3, <1>4, <1>5 DEF Next

-----------------------------------------------------------------------------
(* Acknowledgement. *)

\* Returning keeps what a dispatch knows, and acknowledges only what it may.
LEMMA ReturnsEarns ==
  ASSUME TypeOK, AcksAreEarned, NEW d \in Deliveries, NEW ok \in BOOLEAN, Returns(d, ok),
         d \in todo, accepted \subseteq accepted', ok => d \in accepted'
  PROVE  /\ \A r \in Reviews : alert'[r] = "sent" =>
              told'[r] # {} /\ \A n \in told'[r] : <<r, rev'[r], n>> \in accepted'
         /\ phase' = "alerts" =>
              \A e \in todo' : /\ e[3] \in audience'
                               /\ \A n \in audience' :
                                    \/ <<e[1], e[2], n>> \in todo' \cup accepted'
                                    \/ e[1] \in failed'
<1> USE Parts DEF AcksAreEarned
<1>1. /\ todo' = todo \ {d} /\ phase' = phase /\ audience' = audience /\ rev' = rev
      /\ failed' = IF phase = "alerts" /\ ~ok THEN failed \cup {d[1]} ELSE failed
  BY DEF Returns, newsVars
<1>2. d = <<d[1], d[2], d[3]>>
  BY DEF Deliveries
<1>3. ASSUME phase = "alerts", NEW e \in todo'
      PROVE  /\ e[3] \in audience'
             /\ \A n \in audience' : \/ <<e[1], e[2], n>> \in todo' \cup accepted'
                                     \/ e[1] \in failed'
  <2>1. e \in todo
    BY <1>1
  <2>2. SUFFICES ASSUME NEW n \in audience
                 PROVE  <<e[1], e[2], n>> \in todo' \cup accepted' \/ e[1] \in failed'
    BY <1>1, <1>3, <2>1
  <2>3. <<e[1], e[2], n>> \in todo \cup accepted \/ e[1] \in failed
    BY <1>3, <2>1, <2>2
  <2>4. <<e[1], e[2], n>> = d => e[1] = d[1]
    BY <1>2
  <2> QED BY <1>1, <1>3, <2>3, <2>4
<1>4. ASSUME NEW r \in Reviews, alert'[r] = "sent"
      PROVE  told'[r] # {} /\ \A n \in told'[r] : <<r, rev'[r], n>> \in accepted'
  <2>1. CASE ~Acknowledges(d, ok) \/ r # d[1]
    <3>1. alert'[r] = alert[r] /\ told'[r] = told[r]
      BY <2>1 DEF Returns, TypeOK
    <3> QED BY <1>1, <1>4, <3>1
  <2>2. CASE Acknowledges(d, ok) /\ r = d[1]
    <3>1. told'[r] = audience
      BY <2>2 DEF Returns, TypeOK
    <3>2. /\ phase = "alerts" /\ ok /\ d[1] \notin failed /\ rev[d[1]] = d[2]
          /\ \A e \in todo \ {d} : e[1] # d[1]
      BY <2>2 DEF Acknowledges
    <3>3. \A n \in audience : <<d[1], d[2], n>> \in todo \cup accepted
      BY <3>2
    <3>4. \A n : <<d[1], d[2], n>>[1] = d[1]
      OBVIOUS
    <3>5. \A n \in audience : <<d[1], d[2], n>> = d \/ <<d[1], d[2], n>> \in accepted
      BY <3>2, <3>3, <3>4
    <3>6. d[3] \in audience
      BY <3>2
    <3> QED BY <1>1, <2>2, <3>1, <3>2, <3>5, <3>6
  <2> QED BY <2>1, <2>2
<1> QED BY <1>1, <1>3, <1>4

LEMMA EarnedNext ==
  ASSUME TypeOK, PassIsPlaced, AcksAreEarned, [Next]_vars
  PROVE  AcksAreEarned'
<1> USE DEF newsVars, settingVars, rowVars, passVars
<1>1. CASE UNCHANGED vars
  BY <1>1 DEF vars, AcksAreEarned
<1>2. CASE Project \/ Clock
  <2>1. /\ UNCHANGED <<passVars, accepted>>
        /\ \A d \in Deliveries : state'[d] \in {state[d], "none"}
    BY <1>2, ProjectFrame
  <2>2. \A r \in Reviews : alert'[r] = "sent" =>
          alert[r] = "sent" /\ told'[r] = told[r] /\ rev'[r] = rev[r]
    <3>1. ASSUME NEW q \in Reviews, NEW x \in Ratings, Observe(q, x), NEW r \in Reviews,
                 alert'[r] = "sent"
          PROVE  alert[r] = "sent" /\ told'[r] = told[r] /\ rev'[r] = rev[r]
      <4>1. alert'[q] # "sent"
        BY <3>1 DEF Observe, TypeOK
      <4> QED BY <3>1, <4>1 DEF Observe, TypeOK
    <3>2. CASE UNCHANGED <<alert, told, rev>>
      BY <3>2
    <3> QED BY <1>2, <3>1, <3>2 DEF Project, Clock, Withhold, Cover, SetThreshold,
          Subscribe, Remove, ChangeUrl, ChangesSetting, Ages, RetryFallsDue,
          AttemptGoesStale
  <2> QED BY <2>1, <2>2 DEF AcksAreEarned
<1>3. CASE Dispatch
  <2>1. \A r \in Reviews : alert'[r] = "sent" => alert[r] = "sent"
    BY <1>3 DEF Dispatch, Pending, Verdict
  <2>2. \A d \in todo' : /\ d[3] \in audience'
                         /\ \A n \in audience' : <<d[1], d[2], n>> \in todo'
    <3>1. ASSUME NEW d \in todo', NEW n \in Subscribed
          PROVE  <<d[1], d[2], n>> \in todo'
      <4>1. d \in Deliveries /\ d[1] \in ToSend /\ d[2] = rev[d[1]]
        BY <1>3, <3>1 DEF Dispatch
      <4>2. <<d[1], d[2], n>> \in Deliveries
        BY <4>1, Parts DEF Deliveries, Subscribed
      <4> QED BY <1>3, <4>1, <4>2 DEF Dispatch
    <3> QED BY <1>3, <3>1 DEF Dispatch
  <2> QED BY <1>3, <2>1, <2>2 DEF Dispatch, AcksAreEarned
<1>4. CASE Passes \/ Restart
  BY <1>4 DEF Passes, TimerFires, ReadDue, PassEnds, Restart, NoPass, AcksAreEarned
<1>5. ASSUME NEW d \in Deliveries, Delivers(d) \/ Answered(d) \/ ReceiverActs(d)
      PROVE  AcksAreEarned'
  <2>1. CASE Looks(d) \/ Answers(d)
    <3>1. PICK ok \in BOOLEAN : Returns(d, ok) /\ (ok => d \in accepted')
      BY <2>1, LookReturns, AnswerMoves DEF Quietly, AcksAreEarned
    <3>2. accepted \subseteq accepted'
      BY <2>1, LookReturns, AnswerMoves DEF Quietly
    <3>3. \A e \in Deliveries : state'[e] = "sent" => e \in accepted'
      <4>1. CASE Looks(d)
        <5>1. \A e \in Deliveries : state'[e] = "sent" => state[e] = "sent"
          BY <4>1, LookMoves
        <5> QED BY <3>2, <5>1 DEF AcksAreEarned
      <4>2. CASE Answers(d)
        BY <3>2, <4>2, AnswerMoves DEF AcksAreEarned
      <4> QED BY <2>1, <4>1, <4>2
    <3>4. d \in todo
      BY <2>1, Parts DEF Looks, Refuse, AlreadySettled, Unrenderable, StillAttempting,
        Interrupted, NotYet, Revoked, ClaimLost, Unresolved, Resumable, Admitted,
        Resolving, Answers, Accepted, Declined, Retryable, Unanswered, Sending,
        PassIsPlaced
    <3> QED BY <3>1, <3>2, <3>3, <3>4, ReturnsEarns DEF AcksAreEarned
  <2>2. CASE Try(d)
    <3>1. \A e \in Deliveries : state'[e] = "sent" => state[e] = "sent"
      BY <2>2, LookMoves
    <3> QED BY <2>2, <3>1 DEF Try, Quietly, AcksAreEarned
  <2>3. CASE Claim(d)
    BY <2>3 DEF Claim, Claimed, AcksAreEarned, TypeOK
  <2>4. CASE ReceiverActs(d)
    BY <2>4 DEF ReceiverActs, AcksAreEarned
  <2> QED BY <1>5, Kinds, <2>1, <2>2, <2>3, <2>4
<1> QED BY <1>1, <1>2, <1>3, <1>4, <1>5 DEF Next

-----------------------------------------------------------------------------
(* The theorems. *)

LEMMA Inductive == IInv /\ [Next]_vars => IInv'
BY TypeNext, PlacedNext, HonestNext, PaidNext, EarnedNext DEF IInv

LEMMA InvInit == Init => IInv
<1> SUFFICES ASSUME Init PROVE IInv
  OBVIOUS
<1> USE DEF Init
<1>1. PassIsPlaced
  BY DEF PassIsPlaced
<1>2. RowsAreHonest /\ AttemptsArePaid
  BY Parameters DEF RowsAreHonest, AttemptsArePaid
<1>3. AcksAreEarned
  BY DEF AcksAreEarned
<1> QED BY <1>1, <1>2, <1>3, TypeInit DEF IInv

\* The inductive invariant holds of every behaviour.
THEOREM Invariant == Spec => []IInv
BY InvInit, Inductive, PTL DEF Spec

\* A chat row never lies about its message, and no message appears twice,
\* whatever is edited, changed or killed in between.
THEOREM ChatCorrect == Spec => []ChatRecordIsTrue
<1>1. IInv => ChatRecordIsTrue
  BY DEF IInv, RowsAreHonest, ChatRecordIsTrue
<1> QED BY <1>1, Invariant, PTL

\* An acknowledged alert was accepted, at the revision the row holds, by every
\* webhook the dispatch found subscribed.
THEOREM AckCorrect == Spec => []AckIsEarned
<1>1. IInv => AckIsEarned
  BY DEF IInv, AcksAreEarned, AckIsEarned
<1> QED BY <1>1, Invariant, PTL

\* A delivery is attempted at most MaxAttempts times and once more for each
\* process that died.
THEOREM RetriesCorrect == Spec => []RetriesBounded
<1>1. IInv => RetriesBounded
  BY DEF IInv, AttemptsArePaid, RetriesBounded
<1> QED BY <1>1, Invariant, PTL

\* The log of a delivery is true: no chat message twice or misrecorded, and no
\* more attempts than the maximum and one for each death.
THEOREM LogCorrect == Spec => []AttemptsAreTrue
<1>1. ChatRecordIsTrue /\ RetriesBounded => AttemptsAreTrue
  BY DEF AttemptsAreTrue
<1> QED BY <1>1, ChatCorrect, RetriesCorrect, PTL

\* A settled row stays settled until its webhook is deleted, and no request is
\* made for it again.
THEOREM SettledCorrect == Spec => SettledIsFinal
<1>1. ASSUME IInv, [Next]_vars
      PROVE  [\A d \in Deliveries : state[d] \in Settled =>
                /\ state'[d] \in {state[d], "none"}
                /\ attempts'[d] = attempts[d]]_vars
  <2> SUFFICES ASSUME NEW d \in Deliveries, state[d] \in Settled
               PROVE  state'[d] \in {state[d], "none"} /\ attempts'[d] = attempts[d]
    OBVIOUS
  <2> USE DEF Settled
  <2>1. CASE UNCHANGED vars
    BY <2>1 DEF vars, rowVars
  <2>2. CASE Project \/ Clock
    BY <1>1, <2>2, ProjectFrame DEF IInv
  <2>3. CASE Dispatch \/ Passes \/ Restart
    BY <2>3 DEF Dispatch, Passes, TimerFires, ReadDue, PassEnds, Restart, rowVars
  <2>4. ASSUME NEW e \in Deliveries, Delivers(e) \/ Answered(e) \/ ReceiverActs(e)
        PROVE  state'[d] \in {state[d], "none"} /\ attempts'[d] = attempts[d]
    <3>1. CASE Looks(e) \/ Try(e)
      <4>1. attempts' = attempts
        BY <3>1, LookReturns DEF Try, Quietly
      <4> QED BY <1>1, <3>1, <4>1, LookMoves DEF IInv, Fresh
    <3>2. CASE Claim(e)
      BY <1>1, <3>2 DEF Claim, Claimed, IInv, TypeOK
    <3>3. CASE ReceiverActs(e)
      BY <3>3 DEF ReceiverActs, rowVars
    <3>4. CASE Answers(e)
      BY <1>1, <3>4, AnswerMoves DEF IInv
    <3> QED BY <2>4, Kinds, <3>1, <3>2, <3>3, <3>4
  <2> QED BY <1>1, <2>1, <2>2, <2>3, <2>4 DEF Next
<1> QED BY <1>1, Invariant, PTL DEF Spec, SettledIsFinal

\* No attempt is made on what may no longer be sent.
THEOREM RevokedCorrect == Spec => RevokedIsNotSent
<1>1. ASSUME IInv, [Next]_vars
      PROVE  [\A d \in Deliveries : attempts'[d] # attempts[d] => ~Refused(d)]_vars
  <2> SUFFICES ASSUME NEW d \in Deliveries, attempts'[d] # attempts[d]
               PROVE  ~Refused(d)
    OBVIOUS
  <2>1. CASE UNCHANGED vars
    BY <2>1 DEF vars, rowVars
  <2>2. CASE Project \/ Clock
    BY <1>1, <2>2, ProjectFrame DEF IInv
  <2>3. CASE Dispatch \/ Passes \/ Restart
    BY <2>3 DEF Dispatch, Passes, TimerFires, ReadDue, PassEnds, Restart, rowVars
  <2>4. ASSUME NEW e \in Deliveries, Delivers(e) \/ Answered(e) \/ ReceiverActs(e)
        PROVE  ~Refused(d)
    <3>1. CASE Looks(e) \/ Try(e) \/ ReceiverActs(e) \/ Answers(e)
      BY <1>1, <3>1, LookReturns, AnswerMoves DEF Try, Quietly, ReceiverActs, rowVars, IInv
    <3>2. CASE Claim(e)
      BY <1>1, <3>2 DEF Claim, Claimed, IInv, TypeOK
    <3> QED BY <2>4, Kinds, <3>1, <3>2
  <2> QED BY <1>1, <2>1, <2>2, <2>3, <2>4 DEF Next
<1> QED BY <1>1, Invariant, PTL DEF Spec, RevokedIsNotSent
=============================================================================
