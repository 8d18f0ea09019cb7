SPECIFICATION PartSpec
CONSTANTS
    Line = {"a", "b"}
    Rule = {"r1", "r2"}
    Actor = {"sweep", "drift", "user"}
    NULL = NULL
    LineOf <- Lines
    Wanted = {"r1"}
    AutoRules = {"r1", "r2"}
    MasterSwitch = TRUE
    BaselineAuto = FALSE
    RestoreOnFail = FALSE
    MaxEvents = 2
    Trap = {1, 2}
    Receiver = {hook, chat}
    Hook = hook
    None = None
    MaxAttempts = 2
    MaxMishaps = 1
INVARIANTS AlertShowsLink
PROPERTIES SweepSparesWindow DevicesComply AlertsGoOut
CHECK_DEADLOCK FALSE
