\* Sender and receiver over a lossy, reordering network.
CONSTANTS
    MaxFrames = 2
    MaxFragCnt = 2
    MaxNumRtx = 2
    MaxUnackedUs = 1
    MaxTime = 2
    LazyLevel = 2
    NoRtt = NoRtt
SPECIFICATION Spec
INVARIANT TypeOK
INVARIANT FrameHeadersAgree
INVARIANT UnackedKeysFresh
PROPERTY ImplementsSenderTransmission
CHECK_DEADLOCK FALSE
