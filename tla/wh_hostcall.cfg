CONSTANTS
    N = 1
    Compartments = {c1}
    Calls = {i1}
    Funs = {f}
    MaxSent <- OneEach
    MaxBindings = 1
SPECIFICATION WorkerSpec
PROPERTY HostCallReturns
CHECK_DEADLOCK FALSE
