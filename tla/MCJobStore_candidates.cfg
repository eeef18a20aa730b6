CONSTANTS
  payA = payA
  payB = payB
  k1 = k1
  k2 = k2
  g1 = g1
  w1 = w1
  hk = hk
  mk = mk
  a1 = a1
  a2 = a2
  small = small
  large = large
  rc1 = rc1
  NULL = NULL
  Ids = {1}
  Specs <- ModelSpecs
  Keys = {k1, k2}
  Payloads = {payA, payB}
  Groups = {g1}
  Owners = {w1}
  Kinds = {mk}
  Admissions = {a1, a2}
  Outputs = {}
  Receipts = {rc1}
  MaxBatch = 2
  MaxPage = 2
  MaxPageBytes = 4
  MaxResultBytes = 2
  MaxLiveJobs = 2
  MaxPendingBytes = 8
  ClaimLease = 1
  DeliveryLease = 1
  Retention = 1
  MaintenanceBatch = 2
  MaintenanceBytes = 2
  MetaBytes = 1
  InputSize <- MCInputSize
  RawSize <- MCRawSize
  EncodedSize <- MCEncodedSize
  OrdinalBytes <- MCOrdinalBytes
  LeaseBytes <- MCLeaseBytes
  WidestOrdinal = 2
  WidestLease = 2
  MaxOrdinal = 2
  MaxToken = 2
  MaxTime = 3
SPECIFICATION Spec
CHECK_DEADLOCK FALSE
INVARIANTS
  CandidatesReadable
