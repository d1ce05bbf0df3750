SPECIFICATION FairSpec
CONSTANTS
  i1 = i1
  i2 = i2
  c1 = c1
  Instances = {i1, i2}
  Endpoints = {e1}
  Deliveries = {d1}
  NoDelivery = NoDelivery
  Calls = {c1}
  HostOf <- CallsAtFirst
  MaxAttempts = 3
  FailureLimit = 2
  RetryDelay <- Delays
  LockTimeout = 2
  Ceiling = 1
  MaxRestarts = 2
  Faults = TRUE
  Prompt = TRUE
INVARIANTS
  TypeOK
  NoOversleep
  ActiveBelowLimit
  AttemptsWithinLimit
PROPERTIES
  DueIsAttempted
  DeliveredIsFinal
CHECK_DEADLOCK FALSE
