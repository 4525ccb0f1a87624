SPECIFICATION FairSpec
CONSTANTS
    Reminders = {1}
    Recurring = {}
    Cadence = 1
    Workers = {w1, w2}
    Creates = 1
    DailyLimit = 5
    Limit = 2
    DayLength = 2
    MaxTime = 2
    MaxUpdates = 1
    MaxChanges = 1
    MaxCrashes = 1
INVARIANTS
    OneEventPerMessage
PROPERTIES
    MovesAreAllowed
    OneTimeIsQueued
