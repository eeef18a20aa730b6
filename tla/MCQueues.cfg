CONSTANTS
  q1 = q1
  k1 = k1
  v1 = v1
  v2 = v2
  NULL = NULL
  Ids = {1, 2}
  Queues = {q1}
  Keys = {k1}
  Workers = {v1, v2}
  Requests <- MixedRequests
  Retain = 1
  Cap = 1
  Limit = 2
  LeaseTime = 1
  Retention = 0
  MaxLag = 1
  MaxTime = 2
SPECIFICATION QueuesSpec
SYMMETRY EitherWorker
CHECK_DEADLOCK FALSE
INVARIANTS
  IndexesConsistent
PROPERTIES
  MemoryKeepsContract
  SqliteKeepsContract
