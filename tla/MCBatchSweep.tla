----------------------------- MODULE MCBatchSweep -----------------------------
(***************************************************************************)
(* Small instances of BatchSweep: two slots of one provider go to its      *)
(* batch API, a slot of another provider is answered by a sync call, and a *)
(* run may also expect answers of a provider that was frozen as skipped    *)
(* and of one this instance can no longer call.                            *)
(***************************************************************************)
EXTENDS BatchSweep

CONSTANTS a1, a2, o1, u1, k1,  \* slots
          a, o, u, k,          \* a batch, a sync, an unserved and a skipped provider
          b1, b2               \* submissions

MCProviderOf ==
  [s \in Slots |->
     IF s \in {a1, a2} THEN a ELSE IF s = o1 THEN o ELSE IF s = u1 THEN u ELSE k]
OneBatch == [b \in {b1} |-> {a1, a2}]
TwoBatches == [b \in {b1, b2} |-> IF b = b1 THEN {a1} ELSE {a2}]
=============================================================================
