SPECIFICATION Spec
CONSTANTS
  w1 = w1
  w2 = w2
  r1 = r1
  r2 = r2
  Worker = {w1, w2}
  Reader = {r1, r2}
  Stories <- MCResubscribed
  MaxSubs = 3
  Yearly <- MCYearly
  YearLen = 3
  MaxCharges = 2
  MaxBusy = 2
  MaxMishaps = 0
CHECK_DEADLOCK FALSE
INVARIANT PaidKeepsPlan
