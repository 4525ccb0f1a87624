SPECIFICATION FairSpec
CONSTANTS
    Attempts = {n1, n2, n3}
    Bodies = {b1, b2}
    Nobody = Nobody
    Patience = 1
    Lease = 1
    Abandon = 2
    Keep = 2
    LastArrival = 2
    MaxTime = 5
    MaxFailures = 1
INVARIANTS
    RepeatsAreTakeovers
    OneAnswer
PROPERTY
    ReservationEnds
CHECK_DEADLOCK FALSE
