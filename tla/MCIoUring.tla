------------------------------ MODULE MCIoUring ------------------------------
\* Small instances of IoUring for TLC.
EXTENDS IoUring, TLC

Symmetry == Permutations(Reqs) \cup Permutations(Handlers)
=============================================================================
