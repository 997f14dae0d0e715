\* A 3x2 video: a well-formed 4:2:0 file has chroma planes of
\* ceil(3/2)*ceil(2/2) = 2 bytes; the reader takes W*H/4 = 1.
CONSTANTS
    Width = 3
    Height = 2
    Loop = TRUE
    Videos <- MCVideos
    MaxExp = 3
    None = None
SPECIFICATION Spec
INVARIANT EncodesFileCyclically
CHECK_DEADLOCK FALSE
