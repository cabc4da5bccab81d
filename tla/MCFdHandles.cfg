SPECIFICATION Spec
CONSTANTS
    Objs = {m, d1, d2}
    Dupables = {d1, d2}
    d1 = d1
    d2 = d2
    m = m
    Files = {fa, fb}
    fa = fa
    fb = fb
    NoFile = NoFile
    MaxFd = 3
    Closed = Closed
    CloseFails = TRUE
SYMMETRY Symmetry
INVARIANT HandleKeepsFile
PROPERTY ImplementsHandles
\* The program ends when it has called std::terminate.
CHECK_DEADLOCK FALSE
