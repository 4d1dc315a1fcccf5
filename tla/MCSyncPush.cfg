SPECIFICATION FairSpec
CONSTANTS
  N = 3
  Known = {1, 2}
  Call = {c1, c2}
  None = None
  MaxDeaths = 1
  MaxLosses = 1
INVARIANTS
  AnswerIsOutcome
  InOrder
  OnceUndisturbed
PROPERTY
  OutboxDrains
CHECK_DEADLOCK FALSE
