SPECIFICATION MCFairSpec
CONSTANTS
  close = close
  unv = unv
  sweep = sweep
  c1 = c1
  c2 = c2
  Closer = {close}
  Unverified = {unv}
  Sweeper = sweep
  Call = {c1, c2}
  MaxRuns = 2
  MaxFaults = 1
  Late = {"work", "usage", "own", "guest"}
  MaxLate = 1
CHECK_DEADLOCK FALSE
INVARIANTS
  StagesOK
  FinishedMeansErased
PROPERTIES
  LockOK
  EraseFinishes
