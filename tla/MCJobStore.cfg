CONSTANTS
  payA = payA
  payB = payB
  k1 = k1
  k2 = k2
  g1 = g1
  w1 = w1
  hk = hk
  mk = mk
  a1 = a1
  a2 = a2
  small = small
  large = large
  rc1 = rc1
  NULL = NULL
  Ids = {1, 2}
  Specs <- MixedSpecs
  Keys = {k1, k2}
  Payloads = {payA, payB}
  Groups = {g1}
  Owners = {w1}
  Kinds = {hk, mk}
  Admissions = {a1, a2}
  Outputs = {small, large}
  Receipts = {rc1}
  MaxBatch = 2
  MaxPage = 2
  MaxPageBytes = 10
  MaxResultBytes = 2
  MaxLiveJobs = 2
  MaxPendingBytes = 5
  ClaimLease = 1
  DeliveryLease = 1
  Retention = 1
  MaintenanceBatch = 2
  MaintenanceBytes = 2
  MetaBytes = 1
  InputSize <- MCInputSize
  RawSize <- MCRawSize
  EncodedSize <- MCEncodedSize
  OrdinalBytes <- MCOrdinalBytes
  LeaseBytes <- MCLeaseBytes
  WidestOrdinal = 2
  WidestLease = 2
  MaxOrdinal = 2
  MaxToken = 2
  MaxTime = 1
SPECIFICATION Spec
CHECK_DEADLOCK FALSE
INVARIANTS
  ErasureComplete
  ResultsDeliverable
  WithinCapacity
PROPERTIES
  NoForbiddenClaim
