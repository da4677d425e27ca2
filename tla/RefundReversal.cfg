SPECIFICATION FairSpec
CONSTANTS
  Worker = {w1, w2}
  Refund = {r1, r2}
  Bills <- MCBills
  StartInk <- MCStartInk
  r1 = r1
  r2 = r2
  AmountPaise = 4
  GrantUnits = 3
  MaxInk = 3
  RefundDebitAttempts = 2
  MarkAttempts = 1
  MaxMishaps = 1
CHECK_DEADLOCK FALSE
INVARIANTS
  ReversalOK
  ExactInTheEnd
PROPERTIES
  EveryRefundAnswered
