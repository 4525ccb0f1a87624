SPECIFICATION FairSyncSpec
CONSTANTS
    Letters = {1, 2}
    Window = 2
    Remembered = 1
    MaxFaults = 1
    MaxChanges = 1
INVARIANTS
    SeenWasShown
    
PROPERTY
    EveryLetterIsShown
CHECK_DEADLOCK FALSE
