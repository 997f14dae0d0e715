\* A frame of exactly MAX_DECODING_BUF bytes.
CONSTANTS
    Workloads <- ExactWorkload
SPECIFICATION Spec
INVARIANT FitsDecodes
CHECK_DEADLOCK FALSE
