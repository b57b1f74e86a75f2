CONSTANTS
  a1 = a1  a2 = a2  a3 = a3  a4 = a4  o1 = o1
  a = a  o = o
  f1 = f1  f2 = f2
  Slots = {a1, a2, o1}
  Providers = {a, o}
  ProviderOf <- MCProviderOf
  Concurrency <- TwoAtATime
  Breaker = 2
  Fills = {f1}
  StorageErrors = FALSE
  MaxCrashes = 0
SPECIFICATION Spec
\* When every attempt is used up and no sweep is left, nothing happens.
CHECK_DEADLOCK FALSE
INVARIANTS NoneAddedBehind
