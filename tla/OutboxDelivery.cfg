SPECIFICATION Spec
CONSTANTS
    Messages = {1}
    Devices = {d1, d2}
    Workers = {w1, w2}
    Channels = {"fcm", "webhook"}
    LeaseTime = 1
    SkipDelay = 2
    BaseDelay = 1
    MaxDelay = 2
    MaxAttempts = 2
    Limit = 1
    MaxTime = 3
    MaxCrashes = 1
    MaxChanges = 1
    MaxReceipts = 1
SYMMETRY Symmetry

    
    
PROPERTIES
    RepeatsAreExplained
    ImplementsLifecycle
