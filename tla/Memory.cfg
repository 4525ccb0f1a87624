SPECIFICATION Spec
CONSTANTS
    N = 2
    Threads = {h1}
    Kinds = {"preference", "wish", "event"}
    Texts = {ta, tb}
    ta = ta
    tb = tb
    h1 = h1
    ArchiveCap = 1
    MaxRuns = 1
    MaxEdits = 2
    MaxCrashes = 1
SYMMETRY Interchangeable
INVARIANTS
    OneActivePerKind
    
    EvidenceFollows
CHECK_DEADLOCK FALSE
