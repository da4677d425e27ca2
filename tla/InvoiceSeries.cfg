SPECIFICATION FairSpec
CONSTANTS
    h1 = h1
    h2 = h2
    p1 = p1
    c1 = c1
    c2 = c2
    Sweep = sweep
    NoRow = NoRow
    Handler = {h1, h2}
    Payment = {p1}
    Refund = {c1, c2}
    Of <- MCOf
    Starts <- MCStarts
    MaxSeq = 2
    AllocateAttempts = 2
    MaxYear = 2
CHECK_DEADLOCK FALSE
INVARIANTS
  CreditOK
  NoGap
PROPERTIES
  KeepsTheBook
  AllSettles
