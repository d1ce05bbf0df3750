SPECIFICATION Spec
CONSTANTS
  w1 = w1
  w2 = w2
  id1 = id1
  id2 = id2
  Jobs = {j1, j2}
  Requests = {r1}
  NoRequest = NoRequest
  NoJob = NoJob
  Clients = {c1, c2}
  Workers = {w1, w2}
  WorkerIds = {id1, id2}
  NoWorker = NoWorker
  IdOf <- DistinctIds
  Asked = {0, 1}
  JobTimeout = 0
  Slack = 1
  MaxLease = 3
  DefaultLease = 1
  Prompt = FALSE
INVARIANTS
  TypeOK
  OneWorkerPerAttempt
  OneActivePerRequest
  CompletedIsRecorded
  AuditTrailTrue
PROPERTY
  ImplementsFencedJobs
SYMMETRY Symmetry
CHECK_DEADLOCK FALSE
