SPECIFICATION Spec
CONSTANTS
  r1 = r1
  r2 = r2
  s1 = s1
  a1 = a1
  a2 = a2
  Request = {r1, r2}
  Sweeper = {s1}
  Run = {a1, a2}
  MaxSeq = 2
  Caller <- MCCaller
  Key <- MCKey
  NoKey = none
  StartInk <- MCStartInk
  CostSet = {2}
  FigureSet = {1}
  CreditSet = {}
  Cost = 2
  MaxInk = 4
  SettledKeep = 2
  MaxStamp = 6
  MaxBeats = 1
  MaxExpiries = 1
  MaxFaults = 0
  MaxCrashes = 0
SYMMETRY MCSymmetry
CHECK_DEADLOCK FALSE
INVARIANTS
  RequestsOK
  NoChargeUnlessDone
  DoneIsPaid
