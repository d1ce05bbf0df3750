SPECIFICATION FairSpec
CONSTANTS
  s1 = s1
  s2 = s2
  s3 = s3
  Scans = {s1, s2, s3}
  Surfaces = {r1}
  Keys = {"first", "second"}
  KeyOf <- Tokens
  NoScan = NoScan
  Providers = {"primary", "backup"}
  Priority <- PrimaryFirst
  SurfaceList = {"primary"}
  HostOf <- OneHost
  MaxFailures = 2
  OpenTime = 1
  Interval = 1
  Pressures = {1, 2}
  TTL = 1
  LoadCalls = 1
  Impatient = {s3}
  MaxPanics = 1
INVARIANTS
  TypeOK
  LoadedOnce
  NoEarlySlot
  CircuitCounts
PROPERTY ScansAnswered
CHECK_DEADLOCK FALSE
