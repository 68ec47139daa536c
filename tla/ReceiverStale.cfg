SPECIFICATION RxSpec
CONSTANTS
    FrameLen   <- MCFrameLen
    GoodSymbols = 5
    QueueDepth  = 2
INVARIANTS
    FreshCapture
