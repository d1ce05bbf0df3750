SPECIFICATION FairSpec
CONSTANTS
  w1 = w1
  w2 = w2
  id1 = id1
  id2 = id2
  Jobs = {j1, j2}
  Requests = {r1}
  NoRequest = NoRequest
  NoJob = NoJob
  Clients = {c1}
  Workers = {w1, w2}
  WorkerIds = {id1, id2}
  NoWorker = NoWorker
  IdOf <- SharedId
  Asked = {0}
  JobTimeout = 1
  Slack = 1
  MaxLease = 3
  DefaultLease = 1
  Prompt = TRUE
INVARIANTS
  ExclusiveExecution
PROPERTY
  JobsSettle
CHECK_DEADLOCK FALSE
