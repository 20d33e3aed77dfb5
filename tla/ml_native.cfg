CONSTANTS
    MaxJobs = 0
    Delays = {}
    MaxTimers = 0
    Backlog = 0
    Works = {1}
    Threads = {t1}
    Main = main
    MaxHolds = 2
    MaxCalls = 1
    MaxWaking = 2
    Modulus = 8
SPECIFICATION FairSpec
INVARIANTS CountersExact WorkInFlight NoMissedWake ExitLosesNothing
PROPERTY KeepsContract WorkCompletes LoopEnds
CHECK_DEADLOCK FALSE
