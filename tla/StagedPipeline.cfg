SPECIFICATION PipelineSpec
CONSTANTS
    Quotes = 3
    MaxRuns = 2
    MaxFaults = 2
    MaxCrashes = 1
INVARIANTS
    
    MisfitIsExplained
PROPERTY
    SuccessIsKept
CHECK_DEADLOCK FALSE
