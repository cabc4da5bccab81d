------------------------------ MODULE MCHandles ------------------------------
\* Small instances of Handles for TLC.
EXTENDS Handles, TLC

Symmetry == Permutations(Vals) \cup Permutations(Ctxs) \cup Permutations(Copyables)
=============================================================================
