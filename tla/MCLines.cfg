SPECIFICATION FairSpec
CONSTANTS
    Bytes = 6
    NewLines = {2, 3, 5}
    Chunk = 2
    MaxBuf = 3
    PipeSize = 3
    ReadSize = 2
    MaxForgotten = 1
    Failing = {"read", "write"}
INVARIANTS BytesKept FlushedOnce
PROPERTY LinesArrive
\* The program ends when all is written and read.
CHECK_DEADLOCK FALSE
