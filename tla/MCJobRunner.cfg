CONSTANTS
  payA = payA
  k1 = k1
  w1 = w1
  hk = hk
  v1 = v1
  v2 = v2
  NULL = NULL
  Ids = {1}
  Specs <- OneJob
  Keys = {k1}
  Payloads = {payA}
  Groups = {}
  Owners = {w1}
  Kinds = {hk}
  Admissions = {}
  Outputs = {1, 2}
  Receipts = {}
  MaxBatch = 2
  MaxPage = 2
  MaxPageBytes = 7
  MaxResultBytes = 1
  MaxLiveJobs = 2
  MaxPendingBytes = 4
  ClaimLease = 1
  DeliveryLease = 1
  Retention = 1
  MaintenanceBatch = 1
  MaintenanceBytes = 1
  MetaBytes = 1
  InputSize <- One
  RawSize <- One
  EncodedSize <- MCEncodedSize
  OrdinalBytes <- One
  LeaseBytes <- One
  WidestOrdinal = 1
  WidestLease = 1
  MaxOrdinal = 2
  MaxToken = 2
  MaxTime = 1
  Workers = {v1, v2}
  Kind = hk
  MaxTroubles = 1
  MaxStarts = 2
SPECIFICATION FairRunnerSpec
CHECK_DEADLOCK FALSE
INVARIANTS
  ClaimsFenced
PROPERTIES
  StopDrains
  EveryJobEnds
  CancelObserved
