SPECIFICATION FairSpec
CONSTANTS
  u1 = u1
  u2 = u2
  u3 = u3
  Instance = {w1}
  User = {u1, u2, u3}
  Call = {c1, c2}
  Chains <- MCChains
  MaxEdits = 1
  MaxFaults = 1
INVARIANTS
  StepsApproved
  EventMatchesOutcome
PROPERTIES
  EndIsAnnounced
CHECK_DEADLOCK FALSE
