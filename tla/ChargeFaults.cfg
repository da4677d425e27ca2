SPECIFICATION RequestSpec
CONSTANTS
  r1 = r1
  r2 = r2
  s1 = s1
  a1 = a1
  Request = {r1, r2}
  Sweeper = {s1}
  Run = {a1}
  MaxSeq = 2
  Caller <- MCCaller
  Key <- MCKey
  NoKey = none
  StartInk <- MCStartInk
  CostSet = {2}
  FigureSet = {1}
  CreditSet = {}
  Cost = 2
  MaxInk = 4
  SettledKeep = 2
  MaxStamp = 4
  MaxBeats = 0
  MaxExpiries = 1
  MaxFaults = 2
  MaxCrashes = 0
CHECK_DEADLOCK FALSE
INVARIANTS
  ChargeRule
PROPERTIES
  InkSpec
  EveryRequestEnds
