------------------------------ MODULE MCRunFill ------------------------------
(***************************************************************************)
(* Small instances of RunFill: a provider with several slots and two calls *)
(* at a time, one with a single slot, and one or two attempts.             *)
(***************************************************************************)
EXTENDS RunFill, TLC

CONSTANTS a1, a2, a3, a4, o1,  \* slots
          a, o,                \* providers
          f1, f2               \* attempts

MCProviderOf == [s \in Slots |-> IF s = o1 THEN o ELSE a]
TwoAtATime == [p \in Providers |-> IF p = a THEN 2 ELSE 1]

\* The slots of a provider are interchangeable, and so are the attempts.
Alike == Permutations({a1, a2, a3, a4} \cap Slots) \cup Permutations(Fills)
=============================================================================
