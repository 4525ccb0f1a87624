SPECIFICATION FairSpec
CONSTANTS
    Workers = {w1, w2}
    JobTypes = {decay}
    ManualKeys = {m1}
    Cadence = 1
    LeaseTime = 1
    BaseDelay = 1
    MaxDelay = 2
    MaxAttempts = 2
    Limit = 1
    MaxTime = 1
    MaxCrashes = 1
INVARIANTS
    TypeOK
    LiveLeaseIsKept
    LedgerMatchesTable
    RetriesAreBounded
PROPERTIES
    ImplementsLifecycle
    EveryJobSettles
