CONSTANTS
  acc = acc
  i1 = i1
  i2 = i2
  b1 = b1
  b2 = b2
  r1 = r1
  r2 = r2
  measured = measured
  blank = blank
  ansX = ansX
  in1 = in1
  o1 = o1
  NULL = NULL
  Reservations <- Rebinding
  References = {r1, r2}
  Accounts = {acc}
  Invocations = {i1, i2}
  Bindings = {b1, b2}
  Usages = {measured, blank}
  Measured = {measured}
  Answers = {ansX}
  Inputs = {in1}
  Owners = {o1}
  AttemptLimits = {2}
  JobDeadlines = {1}
  MaxCount = 5
  Retention = 1
  ExpiryBatch = 1
  MaxReceipts = 2
  MaxTime = 1
SPECIFICATION FairSpendSpec
CHECK_DEADLOCK FALSE
INVARIANTS
  Balanced
  AnswersFindable
PROPERTIES
  ExpiredAnswersGo
