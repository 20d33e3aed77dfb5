CONSTANTS
    Capacity = 2
    MaxGeneration = 1
    OomSlotMargin = 1
    Owners = {0, 1}
    Width = 0
    ReuseSlots = TRUE
    Reserves = TRUE
    Scopes <- EveryScope
    MaxHeld = 3
    MaxExternals = 2
    MaxEphemerons = 0
SPECIFICATION Spec
INVARIANTS TypeOK FreeListSound ExternalsConserved
PROPERTIES NoHandleReuse ForeignSlotsUntouched
