SPECIFICATION Spec
CONSTANTS
  Client = {c1, c2}
  MaxTokens = 3
  MaxAccess = 4
  MaxSignIns = 2
  MaxRemovals = 1
  MaxMishaps = 1
  PromptRemovals = TRUE
CHECK_DEADLOCK FALSE
SYMMETRY Interchangeable
INVARIANTS
  FamiliesOK
  RevokedStaysRevoked
PROPERTIES
  KeepsTheCaller
  KeepsThePromise
