SPECIFICATION FairSpec
CONSTANTS
    Tasks = {1}
    Actors = {a1, a2}
    Limit = 3
    Patches = FALSE
    MaxTime = 1
    MaxMutations = 2
    MaxFailures = 1
    MaxCrashes = 1
    MaxEdits = 1
INVARIANTS
    AuditIsKept
    OpenTaskHasReminder
    

    
CHECK_DEADLOCK FALSE
