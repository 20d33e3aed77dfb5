SPECIFICATION Spec
CONSTANTS
    StreamIds = {0, 1, 3}
    InitialWindow = 1
    MaxWindow = 3
    RecvWindow = 1
    MaxConcurrent = 2
    MaxRst = 1
    MaxLifetime = 2
    MaxContinuations = 1
    DefaultFrameSize = 1
    FrameSizes = {1, 2}
    Windows = {0, 2, 4}
    Increments = {0, 2}
    Lengths = {1}
    Bodies = {0, 3}
    MaxFrames = 6
INVARIANTS WindowBounds NoStalledBody HeaderBlockOpen AnswersWellFormed RequestsOnce
PROPERTY DataWithinWindows
CHECK_DEADLOCK FALSE
