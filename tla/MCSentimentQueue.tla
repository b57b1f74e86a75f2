-------------------------- MODULE MCSentimentQueue --------------------------
(***************************************************************************)
(* A small instance of SentimentQueue: one sweep judged in two classes     *)
(* that share an answer, a backfill of it, and a server that may be        *)
(* replaced by a second one while it finishes its tick.                    *)
(***************************************************************************)
EXTENDS SentimentQueue

CONSTANTS i1, i2,  \* assessments
          b1,      \* a backfill
          w1, w2   \* processes

ByClass == [p \in (1..Receipts) \X Classes |-> IF p[2] = 1 THEN {i1, i2} ELSE {i2}]
FirstClass == [b \in Backfills |-> 1]
=============================================================================
