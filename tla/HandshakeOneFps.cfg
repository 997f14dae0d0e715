\* A receiver started with --fps 1: a ConfigMsg the spec allows (frame_rate > 0).
CONSTANTS
    FpsArgs <- MCFpsOne
    NoArg = NoArg
    StrayMsgs <- MCStrayMsgs
    MaxStray = 0
    Width = 4
    Height = 3
    NoValue = NoValue
SPECIFICATION FairSpec
PROPERTY ConfigStartsStream
CHECK_DEADLOCK FALSE
