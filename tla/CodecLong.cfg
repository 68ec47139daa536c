CONSTANTS
    NecBits      = 2
    RawMax       = 10
    Captures    <- MCLong
    RawPrograms <- MCNone
    NecPrograms <- MCNone
    AskedCarrier = {38}
SPECIFICATION CodecSpec
INVARIANT FaithfulReplay
