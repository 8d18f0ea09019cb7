SPECIFICATION JobsSpec
CONSTANTS
    Worker = {w1, w2}
    Job = {j1, j2}
    NULL = NULL
    NumDevices = 1
    MaxAttempts = 2
    BeatTicks = 1
    StaleTicks = 1
    ReliableBeats = TRUE
    MaxClaims = 2
    MaxCrashes = 1
    ZombieJob = {j1}
    ZombieDevices = 2
    Device = {d1}
    Content = {c1, c2}
    Request = {q1}
    MaxUploads = 2
    MaxUpgrades = 2
    MaxRuns = 1
\* upgrades come to rest
CHECK_DEADLOCK FALSE
INVARIANTS NoDoubleExecution RunOwnsRow AttemptsWithinBudget ZombiesDoNoHarm
PROPERTIES FinishedIsFinal OneShotSettles  UpgradesEnd
