CONSTANTS
  a1 = a1  a2 = a2  o1 = o1  u1 = u1  k1 = k1
  a = a  o = o  u = u  k = k
  b1 = b1  b2 = b2
  NoBatch = NoBatch
  Slots = {a1, a2, o1, u1, k1}
  Providers = {a, o, u, k}
  ProviderOf <- MCProviderOf
  Batches = {b1, b2}
  LinesOf <- TwoBatches
  Skipped = {k}
  Unserved = {u}
  StorageErrors = TRUE
  MaxCrashes = 1
SPECIFICATION Spec
\* A run that ended, with nothing left to poll, stops.
CHECK_DEADLOCK FALSE
INVARIANTS LedgerMatchesSnapshots ReportedOnce EveryGapNamed FinalMeansSettled
