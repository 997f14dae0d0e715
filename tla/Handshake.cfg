\* Receivers started with the --fps arguments of MCFpsArgs.
CONSTANTS
    FpsArgs <- MCFpsArgs
    NoArg = NoArg
    StrayMsgs <- MCStrayMsgs
    MaxStray = 2
    Width = 4
    Height = 3
    NoValue = NoValue
SPECIFICATION FairSpec
INVARIANT StreamsToRequester
PROPERTY ConfigStartsStream
\* The model ends once the sender streams or either side has stopped.
CHECK_DEADLOCK FALSE
