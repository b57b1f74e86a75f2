---------------------------- MODULE MCSeoRefresh ----------------------------
(***************************************************************************)
(* Small instances of SeoRefresh: two refreshes of one account over two    *)
(* days under limits they cannot both use up, and one refresh passed on    *)
(* between two processes, one of which may die.                            *)
(***************************************************************************)
EXTENDS SeoRefresh

CONSTANTS j1, j2,      \* refreshes
          s1, s2, s3,  \* searches
          p1, p2       \* processes

OneAccount == [j \in Jobs |-> "account"]
EachItsProject == [j \in Jobs |-> j]
TwoAndOne == [s \in Searches |-> IF s = s3 THEN j2 ELSE j1]
UnitPrice == [s \in Searches |-> 1]
OneMonth == [d \in 1..Days |-> 1]
TightLimits == [k \in Kinds |-> IF k = "account-day" THEN 3 ELSE IF k = "account-month" THEN 4 ELSE 3]

SomeAnswers ==
  {[outcome |-> "completed", cost |-> 1, retryable |-> FALSE],
   [outcome |-> "partial", cost |-> 2, retryable |-> FALSE],
   [outcome |-> "failed", cost |-> 1, retryable |-> TRUE],
   [outcome |-> "unknown", cost |-> None, retryable |-> FALSE]}
PlainAnswers == {a \in SomeAnswers : a.outcome # "partial"}
CostlyAnswers == {a \in SomeAnswers : a.outcome \in {"partial", "failed"}}
=============================================================================
