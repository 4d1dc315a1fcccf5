SPECIFICATION FairSpec
CONSTANTS
  Instance = {a, b, c}
  Slot = {1, 2}
  Gone = Gone
  Nobody = Nobody
  Ttl = 2
  Skew = 1
  MaxCrashes = 2
INVARIANTS
  TimelyTicksAlone
PROPERTY
  CrashedLeaderReplaced
