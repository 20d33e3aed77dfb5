SPECIFICATION Spec
CONSTANTS
    Agents = {a1, a2}
    MainAgents = {a2}
    AsyncAgents = {}
    Indices = {0}
    Values = {0, 1}
    MaxCount = 2
    a1 = a1
    a2 = a2
INVARIANTS NotifiedReportsOk
CHECK_DEADLOCK FALSE
