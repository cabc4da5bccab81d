SPECIFICATION Spec
CONSTANTS
    Align = 2
    Counts = {0, 1, 2, 4}
    StreamEnd = 11
    FirstStride = 1
    MaxStride = 4
    Fails = {"WouldBlock", "Error"}
INVARIANTS InOrder DoneWhole RepeatSafe FrameKept
