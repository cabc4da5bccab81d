SPECIFICATION Spec
CONSTANTS
    Bufs = {b1, b2}
    Chars = {"x", "y"}
    Pieces <- MCPieces
    Reserves = {0, 2}
    Addrs = {p1, p2, p3}
    BufLen = 2
    MaxLen = 5
    Gone = Gone
    Unusable = Unusable
SYMMETRY Symmetry
INVARIANT StorageOwned
PROPERTY ImplementsTexts
\* The model ends when memory was given back to an allocator that had it.
CHECK_DEADLOCK FALSE
