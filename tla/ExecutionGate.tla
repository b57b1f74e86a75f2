---------------------------- MODULE ExecutionGate ----------------------------
(***************************************************************************)
(* The gate every call to a provider goes through, shared by all sweeps    *)
(* and fills of the process: a cap on the calls out at a time and one on   *)
(* the calls started in any rolling minute.  Requests wait in order; a     *)
(* request that waits may be aborted, and a reload may change both caps.   *)
(*                                                                         *)
(* Time passes in ticks of which Minute make a minute.  The window of the  *)
(* code is the requests whose age is at most Minute: entries it has not    *)
(* pruned yet are never counted.                                           *)
(***************************************************************************)
EXTENDS Integers, FiniteSets, Sequences, SequencesExt, FiniteSetsExt

CONSTANTS
  Requests,   \* each asks for the gate once
  Minute,
  Policies    \* the caps a registration may set: records of cap and rate

ASSUME GateAssumption ==
  /\ IsFiniteSet(Requests)
  /\ Minute \in Nat \ {0}
  /\ Policies # {} /\ Policies \subseteq [cap : Nat \ {0}, rate : Nat \ {0}]

VARIABLES
  policy,     \* maxConcurrency, maxPerMinute
  waiters,    \* in the order of their requests
  running,    \* the requests whose task is out: inFlight counts them
  age,        \* ticks since a request was started, up to Minute + 1; -1 before
  timer,      \* rateTimer: ticks until it is due, or NoTimer
  over        \* finished or aborted

vars == <<policy, waiters, running, age, timer, over>>

NoTimer == -1
Started(a) == {r \in Requests : a[r] >= 0}
StillWithinMinute(a) == {r \in Started(a) : a[r] < Minute}   \* faulty: off by one
Window(a) == {r \in Started(a) : a[r] <= Minute}
Waiting == ToSet(waiters)

TypeOK ==
  /\ policy \in Policies
  /\ waiters \in Seq(Requests) /\ IsInjective(waiters)
  /\ running \subseteq Started(age)
  /\ age \in [Requests -> -1..Minute + 1]
  /\ timer \in {NoTimer} \cup 0..Minute + 1
  /\ over \subseteq Requests
  /\ Waiting \cap (over \cup Started(age)) = {} /\ running \cap over = {}

Init ==
  /\ policy \in Policies
  /\ waiters = <<>> /\ running = {} /\ over = {}
  /\ age = [r \in Requests |-> -1]
  /\ timer = NoTimer

-----------------------------------------------------------------------------
\* dispatchQueued, on the queue q and the calls R out, under the caps of p:
\* start waiters, in order, while both budgets allow; if one is left that only
\* the rate holds back, wake up when the oldest start leaves the window.  A
\* request made, or a task settled, by a task that is just started is taken by
\* the same loop: as if it came right after.
Free(R, p) == p.cap - Cardinality(R)
Startable(q, R, p) ==
  Max({0, Min({Len(q), Free(R, p), p.rate - Cardinality(Window(age))})})

WakeAt(a) == Min({Minute + 1 - a[r] : r \in Window(a)})
Rearmed(q, R, p, a) == IF q # <<>> /\ Free(R, p) > 0 THEN WakeAt(a) ELSE NoTimer

Starts(q, n) == {q[i] : i \in 1..n}
Dispatch(q, R, p) ==
  LET n == Startable(q, R, p)
      S == Starts(q, n)
  IN /\ waiters' = SubSeq(q, n + 1, Len(q))
     /\ running' = R \cup S
     /\ age' = [r \in Requests |-> IF r \in S THEN 0 ELSE age[r]]
     /\ timer' = Rearmed(waiters', running', p, age')

Run(r) ==
  /\ r \notin Waiting \cup Started(age) \cup over
  /\ Dispatch(Append(waiters, r), running, policy)
  /\ UNCHANGED <<policy, over>>

\* An abort only reaches a request that still waits.
Cancel(i) ==
  /\ over' = over \cup {waiters[i]}
  /\ Dispatch(RemoveAt(waiters, i), running, policy)
  /\ UNCHANGED policy

\* The task of a request settles, either way.
FinishOnly(r) ==                                 \* faulty: dispatches nobody
  /\ r \in running
  /\ running' = running \ {r}
  /\ over' = over \cup {r}
  /\ UNCHANGED <<policy, waiters, age, timer>>
Finish(r) ==
  /\ r \in running
  /\ over' = over \cup {r}
  /\ Dispatch(waiters, running \ {r}, policy)
  /\ UNCHANGED policy

UpdatePolicyOnly(p) ==                           \* faulty: leaves the waiters be
  /\ policy' = p
  /\ UNCHANGED <<waiters, running, age, timer, over>>
UpdatePolicy(p) ==
  /\ policy' = p
  /\ Dispatch(waiters, running, p)
  /\ UNCHANGED over

TimerFires ==
  /\ timer = 0
  /\ Dispatch(waiters, running, policy)
  /\ UNCHANGED <<policy, over>>

\* A timer that is due may fire late, never early.
Tick ==
  /\ age' = [r \in Requests |-> IF age[r] \in 0..Minute THEN age[r] + 1 ELSE age[r]]
  /\ timer' = IF timer > 0 THEN timer - 1 ELSE timer
  /\ UNCHANGED <<policy, waiters, running, over>>

Next ==
  \/ \E r \in Requests : Run(r) \/ Finish(r)
  \/ \E i \in DOMAIN waiters : Cancel(i)
  \/ \E p \in Policies : UpdatePolicy(p)
  \/ TimerFires \/ Tick

\* Provider calls time out, so every task settles; the clock goes on and the
\* event loop gets to a due timer.
Fairness ==
  /\ \A r \in Requests : WF_vars(Finish(r))
  /\ WF_vars(Tick) /\ WF_vars(TimerFires)

Spec == Init /\ [][Next]_vars
FairSpec == Spec /\ Fairness

-----------------------------------------------------------------------------
\* The timer is never late: until it is due the oldest starts are still in the
\* window, and there are enough of them to hold the waiters back.
TimerInv ==
  waiters # <<>> /\ Cardinality(running) < policy.cap =>
    /\ timer # NoTimer
    /\ timer > 0 => /\ Cardinality(Window(age)) >= policy.rate
                    /\ \A r \in Window(age) : timer <= Minute + 1 - age[r]

IInv == TypeOK /\ TimerInv

\* Whoever starts a call keeps both caps: the calls out, and those started in
\* any closed minute, whatever was cancelled, finished or reloaded meanwhile;
\* and nobody that waits is overtaken by a request that came after it.
StartsInTurn ==
  [][Started(age') # Started(age) =>
       /\ Cardinality(running') <= policy'.cap
       /\ Cardinality({r \in Requests : age'[r] \in 0..Minute}) <= policy'.rate
       /\ \A i \in 1..Len(waiters), j \in 1..Len(waiters) :
            i < j /\ waiters[j] \in Started(age') => waiters[i] \notin ToSet(waiters')]_vars

\* A free slot never stands idle before a waiter without a timer that fires as
\* soon as the rate allows the next call (dispatchQueued re-arms it each time).
NoLostWakeup ==
  waiters # <<>> /\ Cardinality(running) < policy.cap =>
    /\ timer # NoTimer
    /\ Cardinality(Window(age)) < policy.rate => timer = 0

\* Every request gets its turn or is aborted.
EveryoneServed == \A r \in Requests : r \in Waiting ~> r \notin Waiting
=============================================================================
