SPECIFICATION FairSpec
CONSTANTS
    Agents = {a1, a2}
    MainAgents = {a1}
    AsyncAgents = {a2}
    Indices = {0, 4}
    Values = {0, 1}
    MaxCount = 2
    a1 = a1
    a2 = a2
INVARIANTS ListIsExact NoMissedWakeUp
PROPERTIES NotifyInOrder WaitReturns WaitAsyncSettles
CHECK_DEADLOCK FALSE
