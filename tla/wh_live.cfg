CONSTANTS
    N = 1
    Compartments = {c1, c2}
    Calls = {i1, i2}
    Funs = {f}
    MaxSent <- OneInAll
    MaxBindings = 1
SPECIFICATION MainSpec
PROPERTIES CallsSettle RepliesCome
CHECK_DEADLOCK FALSE
