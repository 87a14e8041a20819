CONSTANTS
    MaxConcurrency = 2
    MaxJobs = 4
    DrainChecks = 2
SPECIFICATION DrainSpec
CHECK_DEADLOCK FALSE
INVARIANTS
    ChainsGrow
    OvershootBounded
PROPERTIES
    StopStartsNothingNew
    StopReturns
    JobsGetClaimed
