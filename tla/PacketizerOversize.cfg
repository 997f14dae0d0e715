\* The last fragment can exceed max_payload (expected to be violated).
CONSTANTS
    MaxPayloadBound = 6
    MaxFrameSize = 24
SPECIFICATION Spec
INVARIANT PayloadWithinMax
