SPECIFICATION FairSpec
CONSTANTS
  w1 = w1
  w2 = w2
  r1 = r1
  r2 = r2
  Worker = {w1, w2}
  Reader = {r1, r2}
  Stories <- MCStories
  MaxSubs = 3
  Yearly <- MCYearly
  YearLen = 3
  MaxCharges = 2
  MaxBusy = 2
  MaxMishaps = 1
CHECK_DEADLOCK FALSE
INVARIANTS
  GrantsOK
  MonthsAccounted
  PaidPlanStays
PROPERTIES
  StopsAreTrue
  Settles
