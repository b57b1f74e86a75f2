SPECIFICATION FairSpec
CONSTANTS
  j1 = j1
  j2 = j2
  s1 = s1
  s2 = s2
  s3 = s3
  p1 = p1
  p2 = p2
  None = None
  Jobs = {j1}
  Searches = {s1, s2}
  AccountOf <- OneAccount
  ProjectOf <- EachItsProject
  JobOf <- TwoAndOne
  Reserve <- UnitPrice
  Days = 1
  MonthOf <- OneMonth
  Limit <- TightLimits
  RunCeiling = 3
  Answers <- PlainAnswers
  JudgedCosts = {1}
  Deletable = {}
  Procs = {p1, p2}
  MaxFaults = 1
  MaxHostChanges = 0
INVARIANTS PostedOnce StatusIsHonest
PROPERTIES OneAtATime ReceiptsStand RefreshEnds
\* When every refresh is over and nothing may change any more, nothing happens.
CHECK_DEADLOCK FALSE
