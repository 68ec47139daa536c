SPECIFICATION ReplFairSpec
CONSTANTS
    a = a
    b = b
    c = c
    d = d
    e = e
    Code         = {a, b, d}
    MasterCode   = {a, b, d}
    HostCode     = {}
    Home        <- MCHome
    KindOf      <- MCKindOf
    CarrierOf   <- MCCarrierOf
    LenOf       <- MCLenOf
    TxChunk      = 2
    HostChunk    = 2
    NetCap       = 5
    StrayCap     = 1
    MayOverflow  = FALSE
    Losable     <- NoFrame
    MayDuplicate = FALSE
    MayReorder   = FALSE
    MayTimeOut   = FALSE
    MayReboot    = FALSE
    NvsMayFail   = FALSE
    SlotCount    = 2
    WireSlot    <- MCWireSlot
    Kind        <- MCKind
    Carrier     <- MCCarrier
    WireLen     <- MCWireLen
    Byte        <- MCByte
    FrameMax     = 2
    RawMaxBytes  = 4
    NecBytes     = 2
    Empty        = Empty
PROPERTIES
    CopyCompletes
