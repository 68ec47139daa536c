CONSTANTS
    NecBits      = 2
    RawMax       = 10
    Captures    <- MCCaptures
    RawPrograms <- MCRawPrograms
    NecPrograms <- MCNecPrograms
    AskedCarrier = {0, 36, 38}
SPECIFICATION CodecSpec
INVARIANTS CodecTypeOK FaithfulReplay NecIsCompacted CarrierIsAsked ChannelReleased
