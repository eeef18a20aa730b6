CONSTANTS
    c1 = c1  c2 = c2  c3 = c3  explicit = explicit  implicit = implicit  p1 = p1
    Calls = {c1, c2}
    Requests = {explicit, implicit}
    Processes = {p1}
    Assignments <- SameRequest
    ProcessOf <- OneProcess
    Explicit = {explicit}
    CacheOn = {implicit}
    Retain = TRUE
    Outcomes = {"measured", "unmeasured", "zero_transient", "zero_final", "unsure_transient"}
    RetryAttempts = 2
    LogicalAttempts = 2
    MaxInFlight = 2
    RequestLimit = 3
    RateCapacity = 1
    Renews = FALSE
    NULL = NULL
    MaxItems = 5
    MaxTroubles = 1
SPECIFICATION FairProviderSpec

INVARIANTS SentOnce WithinLimits ChainWithinBudget
PROPERTY CallsEnd
CHECK_DEADLOCK FALSE
