SPECIFICATION FairSpec
CONSTANTS
    Streams = {"s1", "s2"}
    Phrases = 2
    MaxFaults = 1
    LateCancelled = FALSE
INVARIANTS
    NoForeignAudio
    
PROPERTY
    EveryReplyEnds
CHECK_DEADLOCK FALSE
