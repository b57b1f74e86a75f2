SPECIFICATION FairSpec
CONSTANTS
  i1 = i1
  i2 = i2
  b1 = b1
  w1 = w1
  w2 = w2
  None = None
  Items = {i1, i2}
  Receipts = 1
  Classes = {1, 2}
  Source <- ByClass
  Backfills = {b1}
  ClassOf <- FirstClass
  Workers = {w1, w2}
  Concurrency = 2
  MaxAttempts = 2
  MaxFaults = 1
  MaxChanges = 2
  MaxRefusals = 1
  MaxTrouble = 3
INVARIANTS TypeOK JobsMatchMembers OneRequestOut CursorHonest
PROPERTIES PauseStands Settles
