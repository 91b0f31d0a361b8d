\* Two purchases, one emission at a time from a drain of up to two rows; a replay and a fault.
CONSTANTS
    Purchases = {1, 2}
    Workers = {w1}
    Addressed = {}
    Milestones = {2}
    Lease = 1
    Backoff = 1
    AttemptCap = 2
    DrainLimit = 2
    MaxAttempts = 5
    MaxReplays = 1
    MaxFaults = 1
SPECIFICATION FairSpec
PROPERTIES EveryRowRests
CHECK_DEADLOCK FALSE
