SPECIFICATION Spec
CONSTANTS
    Worker = {w1, w2}
    Job = {j1}
    NULL = NULL
    NumDevices = 1
    MaxAttempts = 1
    BeatTicks = 1
    StaleTicks = 1
    ReliableBeats = TRUE
    MaxClaims = 2
    MaxCrashes = 1
INVARIANT RecurringReturnsToPending
