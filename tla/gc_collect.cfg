CONSTANTS
    Capacity = 2
    MaxGeneration = 1
    OomSlotMargin = 5
    Owners = {0, 1}
    Width = 1
    ReuseSlots = TRUE
    Reserves = FALSE
    Scopes <- AllAndOne
    MaxHeld = 2
    MaxExternals = 0
    MaxEphemerons = 1
SPECIFICATION FairSpec
INVARIANTS CollectionKeepsReachable CollectionIsExact
PROPERTIES CollectionTerminates
