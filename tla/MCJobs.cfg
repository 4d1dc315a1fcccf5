SPECIFICATION FairSpec
CONSTANTS
  Instance = {a, b}
  Slot = {s1}
  Gone = Gone
  Nobody = Nobody
  Ttl = 1
  Skew = 0
  MaxCrashes = 1
  j1 = j1
  j2 = j2
  Job = {j1, j2}
  NoJob = NoJob
  Answers = {"entities", "pair"}
  MaxAttempts <- MCMaxAttempts
  MaxPerTick = 2
  BackoffBase = 2
  Delays = {0}
  Horizon = 1
  MaxFaults = 1
  MaxRetries = 1
PROPERTY
  ResolvesOrStranded
  LeaderElected
INVARIANTS
  SingleRunner
  OnceWithoutFaults
