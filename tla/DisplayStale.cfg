SPECIFICATION MasterSpec
CONSTANTS
    x            = x
    Command      = {"learn", "send", "clear"}
    Patient      = {"learn", "clear"}
    Capture     <- MCCapture
    LastCodeMax  = 1
    SendDepth    = 1
    SlotIdle    <- MCSlotIdle
    MayReboot    = TRUE
    NvsMayFail   = FALSE
    SlotCount    = 1
    WireSlot    <- MCWireSlot
    Kind        <- MCKind
    Carrier     <- MCCarrier
    WireLen      = {1}
    Byte         = {x}
    FrameMax     = 1
    RawMaxBytes  = 2
    NecBytes     = 1
    Empty        = Empty
INVARIANTS
    DisplayCurrent
