CONSTANTS
    N = 1
    Compartments = {c1}
    Calls = {i1, i2}
    Funs = {f, g}
    MaxSent <- OneEach
    MaxBindings = 2
SPECIFICATION Spec
INVARIANTS ProxyNeverMisdirected
CHECK_DEADLOCK FALSE
