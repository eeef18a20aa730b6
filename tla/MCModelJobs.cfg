CONSTANTS
  k1 = k1
  pay = pay
  w1 = w1
  mk = mk
  a1 = a1
  r1 = r1
  r2 = r2
  acc = acc
  b1 = b1
  use = use
  ans = ans
  big = big
  v1 = v1
  c1 = c1
  NULL = NULL
  Ids = {1}
  Specs <- AnyJob
  Keys = {k1}
  Payloads = {pay}
  Groups = {}
  Owners = {w1}
  Kinds = {mk}
  Admissions = {a1}
  Outputs = {}
  MaxBatch = 1
  MaxPage = 1
  MaxPageBytes = 9
  MaxResultBytes = 1
  MaxLiveJobs = 1
  MaxPendingBytes = 9
  ClaimLease = 1
  DeliveryLease = 1
  Retention = 1
  MaintenanceBatch = 1
  MaintenanceBytes = 1
  MetaBytes = 1
  InputSize <- One
  RawSize <- One
  EncodedSize <- One
  OrdinalBytes <- One
  LeaseBytes <- One
  WidestOrdinal = 1
  WidestLease = 1
  MaxOrdinal = 2
  MaxToken = 1
  MaxTime = 2
  References = {r1, r2}
  Account = acc
  Binding = b1
  Usage = use
  Answers = {ans, big}
  Oversized = {big}
  RequestLimit = NULL
  RetryLimit = 2
  RetainAnswers = TRUE
  AnswerRetention = 1
  ExpiryBatch = 1
  MaxReceipts = 2
  Workers = {v1}
  Callers = {c1}
  MaxCrashes = 1
SPECIFICATION FairModelSpec
CHECK_DEADLOCK FALSE
INVARIANTS
  PaidOnce
  ErasedAnswersGone
  TablesAgree
PROPERTIES
  EvidenceReachesJob
