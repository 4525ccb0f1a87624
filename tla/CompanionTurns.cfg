SPECIFICATION Spec
CONSTANTS
    Chats = {c1, c2}
    MaxTime = 2
    MaxMessages = 2
    MaxDecays = 1
    Cooldown = 2
    DndSpan = 1
INVARIANTS
    RiskFollowsTheTalk
    HoldsAreHeeded
    
CHECK_DEADLOCK FALSE
SYMMETRY Interchangeable
