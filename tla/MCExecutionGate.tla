--------------------------- MODULE MCExecutionGate ---------------------------
(***************************************************************************)
(* Instances of ExecutionGate: a minute of a few ticks, caps that a reload *)
(* may tighten or loosen.                                                  *)
(***************************************************************************)
EXTENDS ExecutionGate

CONSTANTS r1, r2, r3, r4

Reloads == {[cap |-> 1, rate |-> 2], [cap |-> 2, rate |-> 1]}
=============================================================================
