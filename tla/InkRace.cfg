SPECIFICATION InkSpec
CONSTANTS
    Key = {k1}
    Caller = {c1, c2}
    NoKey = NoKey
    StartInk <- MCStartInk
    CostSet = {2}
    FigureSet = {1}
    CreditSet = {1}
    MaxInk = 1
    SettledKeep = 1
    MaxStamp = 2
SYMMETRY MCSymmetry
CHECK_DEADLOCK FALSE
INVARIANTS
  HoldsOK
  LedgerWithinKept
PROPERTIES
  Conserve
  SweepReleasesOnlyExpired
