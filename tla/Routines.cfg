SPECIFICATION RoutinesSpec
CONSTANTS
    Actors = {a1, a2}
    a1 = a1
    a2 = a2
    RoutineIds = {1, 2}
    SessionIds = {1}
    EntryIds = {1, 2}
    StepIds = {1}
    EventIds = {1}
    LastDay = 2
    MaxMutations = 6
    MaxCrashes = 1
SYMMETRY Interchangeable
PROPERTIES
    SeenUndone
    
CHECK_DEADLOCK FALSE
