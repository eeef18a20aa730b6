CONSTANTS
    c1 = c1  c2 = c2  c3 = c3  explicit = explicit  implicit = implicit  p1 = p1
    Calls = {c1, c2, c3}
    Requests = {implicit}
    Processes = {p1}
    Assignments <- SameRequest
    ProcessOf <- OneProcess
    Explicit = {}
    CacheOn = {implicit}
    Retain = TRUE
    Outcomes = {"zero_transient"}
    RetryAttempts = 2
    LogicalAttempts = 2
    MaxInFlight = 3
    RequestLimit = 5
    RateCapacity = 2
    Renews = FALSE
    NULL = NULL
    MaxItems = 2
    MaxTroubles = 1
SPECIFICATION ProviderSpec
INVARIANT BudgetIsCap
SYMMETRY Symmetry
CHECK_DEADLOCK FALSE
