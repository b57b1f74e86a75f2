CONSTANTS
  r1 = r1  r2 = r2  r3 = r3  r4 = r4
  Requests = {r1, r2, r3, r4}
  Minute = 2
  Policies <- Reloads
SPECIFICATION FairSpec
INVARIANTS NoLostWakeup
PROPERTIES StartsInTurn EveryoneServed
