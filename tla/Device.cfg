SPECIFICATION DeviceFairSpec
CONSTANTS
    x            = x
    Command      = {"learn", "send", "select", "clear", "program", "chunked"}
    Patient      = {"learn"}
    Capture     <- MCCapture
    LastCodeMax  = 1
    SendDepth    = 1
    SlotIdle    <- MCSlotIdle
    MayReboot    = TRUE
    NvsMayFail   = TRUE
    SlotCount    = 1
    WireSlot    <- MCWireSlot
    Kind        <- MCKind
    Carrier     <- MCCarrier
    WireLen     <- MCWireLen
    Byte         = {x}
    FrameMax     = 1
    RawMaxBytes  = 2
    NecBytes     = 1
    Empty        = Empty
INVARIANTS
    StoreTypeOK
    AssemblyFits
    LoadedIsSendable
    DeviceTypeOK
    OccupiedTruthful
    
PROPERTIES
    LearnSettles
    SendQueueDrains
