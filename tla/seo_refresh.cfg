SPECIFICATION Spec
CONSTANTS
  j1 = j1
  j2 = j2
  s1 = s1
  s2 = s2
  s3 = s3
  p1 = p1
  p2 = p2
  None = None
  Jobs = {j1, j2}
  Searches = {s1, s2, s3}
  AccountOf <- OneAccount
  ProjectOf <- EachItsProject
  JobOf <- TwoAndOne
  Reserve <- UnitPrice
  Days = 2
  MonthOf <- OneMonth
  Limit <- TightLimits
  RunCeiling = 3
  Answers <- CostlyAnswers
  JudgedCosts = {2}
  Deletable = {j2}
  Procs = {p1}
  MaxFaults = 0
  MaxHostChanges = 1
INVARIANTS TypeOK LedgerBalanced WithinBudget
\* When every refresh is over and nothing may change any more, nothing happens.
CHECK_DEADLOCK FALSE
