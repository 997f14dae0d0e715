CONSTANTS
    Workloads <- MCWorkloads
SPECIFICATION Spec
INVARIANT DecodedSizeMatches
\* decode_frame's exception ends the worker thread and the process.
CHECK_DEADLOCK FALSE
