SPECIFICATION FairSpec
CONSTANTS
  d1 = d1
  d2 = d2
  i1 = i1
  h1 = h1
  sw = sw
  Doc = {d1, d2}
  Intake = {i1}
  IntakeOf <- MCIntakeOf
  Handler = {h1, sw}
  Sweeper = sw
  Reviewed = {d1}
  MaxDrafted = 1
  MaxFails = 1
CHECK_DEADLOCK FALSE
INVARIANTS
  EraseOK
  FactsOK
PROPERTIES
  DeletionFinishes
