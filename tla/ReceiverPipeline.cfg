CONSTANTS
    MaxFrames = 4
    MaxFragCnt = 2
    LazyLevel = 1
SPECIFICATION FairSpec
INVARIANT TypeOK
PROPERTY ImplementsFrameDelivery
PROPERTY HandedOffFrameDecoded
PROPERTY KeyFrameUnblocks
CHECK_DEADLOCK FALSE
