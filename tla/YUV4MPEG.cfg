\* A 2x2 video (6 bytes a frame), files of 1 to 4 frames, up to 3 timer
\* expirations per callback so that one callback can wrap the file.
CONSTANTS
    Width = 2
    Height = 2
    Loop = TRUE
    Videos <- MCVideos
    MaxExp = 3
    None = None
SPECIFICATION Spec
INVARIANT ValidInputNeverFails
INVARIANT EncodesFileCyclically
\* The sender exits when the constructor or read_frame throws.
CHECK_DEADLOCK FALSE
