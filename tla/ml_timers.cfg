CONSTANTS
    MaxJobs = 2
    Delays = {0, 1}
    MaxTimers = 2
    Backlog = 2
    Works = {}
    Threads = {}
    Main = main
    MaxHolds = 0
    MaxCalls = 0
    MaxWaking = 0
    Modulus = 8
SPECIFICATION FairSpec
INVARIANT TimersInOrder
PROPERTY KeepsContract JobsRun
CHECK_DEADLOCK FALSE
