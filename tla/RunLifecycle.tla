----------------------------- MODULE RunLifecycle -----------------------------
(***************************************************************************)
(* What the job runner promises of one plan-aware run, whoever does the    *)
(* work: every answer is bought at most once, only bought answers are      *)
(* recorded and only while the run is running, its status ends once, says  *)
(* "completed" only for a whole run and "partial" only for one with some   *)
(* answer, and its end is reported at most once.                           *)
(***************************************************************************)
EXTENDS Naturals

CONSTANT Slots

VARIABLES
  status,
  bought,    \* how often each slot's answer was paid for
  answered,  \* the slots recorded
  told       \* how often its end was reported

vars == <<status, bought, answered, told>>

Open == {"queued", "running"}
Final == {"completed", "partial", "failed", "cancelled"}

Init ==
  /\ status = "queued"
  /\ bought = [s \in Slots |-> 0]
  /\ answered = {}
  /\ told = 0

\* The slots of S are paid for, none of them for a second time.
Pay(S) ==
  /\ \A s \in S : bought[s] = 0
  /\ bought' = [s \in Slots |-> IF s \in S THEN 1 ELSE bought[s]]

Start ==
  /\ status = "queued" /\ status' = "running"
  /\ UNCHANGED <<bought, answered, told>>

\* An answer sent for may also be paid after the run was cancelled.
Buy ==
  /\ status # "queued"
  /\ \E S \in SUBSET Slots : Pay(S)
  /\ UNCHANGED <<status, answered, told>>

Record ==
  /\ status = "running"
  /\ \E S \in SUBSET Slots : (\A s \in S : bought[s] = 1) /\ answered' = answered \cup S
  /\ UNCHANGED <<status, bought, told>>

Finish(final) ==
  /\ status \in Open /\ status' = final
  /\ final \in {"completed", "partial"} => status = "running"
  /\ final = "completed" => answered = Slots
  /\ final = "partial" => answered # {}
  /\ \E S \in SUBSET Slots : Pay(S)
  /\ told = 0 /\ told' \in {0, 1}
  /\ UNCHANGED answered

Tell ==
  /\ status \in Final /\ told = 0
  /\ told' = 1
  /\ UNCHANGED <<status, bought, answered>>

Next == Start \/ Buy \/ Record \/ (\E final \in Final : Finish(final)) \/ Tell

Spec == Init /\ [][Next]_vars
=============================================================================
