SPECIFICATION ReplSpec
CONSTANTS
    a = a
    b = b
    c = c
    d = d
    e = e
    Code         = {a, c}
    MasterCode   = {}
    HostCode     = {a, c}
    Home        <- MCHome
    KindOf      <- MCKindOf
    CarrierOf   <- MCCarrierOf
    LenOf       <- MCLenOf
    TxChunk      = 2
    HostChunk    = 2
    NetCap       = 4
    StrayCap     = 1
    MayOverflow  = FALSE
    Losable      <- AnyFrame
    MayDuplicate = TRUE
    MayReorder   = TRUE
    MayTimeOut   = TRUE
    MayReboot    = TRUE
    NvsMayFail   = TRUE
    SlotCount    = 2
    WireSlot    <- MCWireSlot
    Kind        <- MCKind
    Carrier     <- MCCarrier
    WireLen     <- MCWireLen
    Byte        <- MCByte
    FrameMax     = 2
    RawMaxBytes  = 4
    NecBytes     = 2
    Empty        = Empty
INVARIANTS
    ReplicationTypeOK
    
    
