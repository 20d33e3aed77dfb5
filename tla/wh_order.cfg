CONSTANTS
    N = 2
    Compartments = {c1, c2}
    Calls = {i1, i2}
    Funs = {f, g}
    MaxSent <- TwoEach
    MaxBindings = 2
SPECIFICATION Spec
SYMMETRY HostSymmetry
INVARIANTS OpenProxiesBound MessagesInOrder OneWorkerPerCompartment TeardownIsLast RepliesOwed
PROPERTY ClosedCallsDenied
CHECK_DEADLOCK FALSE
