SPECIFICATION FairSpec
CONSTANTS
  i1 = i1
  i2 = i2
  c1 = c1
  Instances = {i1, i2}
  Nowhere = Nowhere
  Jobs = {j1, j2}
  NoJob = NoJob
  Targets = {a}
  Roots = {a}
  RankOf <- BackgroundScans
  Calls = {c1}
  HostOf <- CallsAtFirst
  MaxDepth = 0
  MaxAttempts = 2
  StaleAfter = 2
  MaxRestarts = 1
  Prompt = TRUE
  Faults = FALSE
PROPERTY
  InterruptedJobsResume
CHECK_DEADLOCK FALSE
