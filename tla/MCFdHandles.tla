------------------------------ MODULE MCFdHandles ------------------------------
EXTENDS FdHandles, TLC

Symmetry == Permutations(Files) \cup Permutations(Dupables)

=============================================================================
