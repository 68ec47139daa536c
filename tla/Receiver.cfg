SPECIFICATION RxFairSpec
CONSTANTS
    FrameLen   <- MCFrameLen
    GoodSymbols = 5
    QueueDepth  = 2
INVARIANTS
    
    NoEventLost
    CleanCallIsFresh
    CleanCallWaits
PROPERTIES
    ReceiveReturns
