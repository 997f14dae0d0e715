\* The sender's event loop: registration, poll rounds, the four callbacks.
CONSTANTS
    MaxFrames = 2
    MaxFragCnt = 2
    MaxAcks = 3
    MaxRtx = 1
SPECIFICATION FairSpec
INVARIANT TypeOK
PROPERTY SendBufDrains
CHECK_DEADLOCK FALSE
