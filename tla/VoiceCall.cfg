SPECIFICATION FairCallSpec
CONSTANTS
    Calls = {1}
    MaxMishaps = 2
INVARIANTS
    
    EndedWhenOver
PROPERTY
    ConnectIsAnswered
CHECK_DEADLOCK FALSE
