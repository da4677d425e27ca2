SPECIFICATION FairSpec
CONSTANTS
  Delivery = {d1, d2}
  MarkGrantedAttempts = 2
  MaxSlow = 2
  MaxFaults = 2
  MaxDeaths = 1
CHECK_DEADLOCK FALSE
INVARIANTS
  GrantsOK
  OkMeansSettled
  CreditBound
PROPERTIES
  GrantArrives
