SPECIFICATION FairCredSpec
CONSTANTS
    NULL = NULL
    Attempts <- SignedAttempts
    JobAttempts <- QueueAttempts
    Fingerprints = {"key"}
    Allowances = {2}
    RequestAttempts = 1
    RenewalSeconds = 1
    RequestLimit = NULL
    Retains = TRUE
    Validates = TRUE
    ExpiryBatch = 1
    MaxTime = 1
    MaxTroubles = 2
INVARIANTS
    RetryHistory
    SendsAdmitted
PROPERTIES
    StatusStands
    DispatchEnds
CHECK_DEADLOCK FALSE
