SPECIFICATION FairSpec
CONSTANTS
  i1 = i1
  i2 = i2
  c1 = c1
  Instances = {i1, i2}
  Nowhere = Nowhere
  Jobs = {j1, j2, j3}
  NoJob = NoJob
  Targets = {a, b}
  Roots = {a}
  RankOf <- BackgroundScans
  Calls = {c1}
  HostOf <- CallsAtFirst
  MaxDepth = 1
  MaxAttempts = 2
  StaleAfter = 1
  MaxRestarts = 1
  Prompt = TRUE
  Faults = TRUE
INVARIANTS
  TypeOK
  NoLostWakeup
  OneJobPerBranch
PROPERTIES
  ImplementsFencedJobs
  QueuedJobsStart
CHECK_DEADLOCK FALSE
