---------------------------- MODULE MCAtomicWriter ----------------------------
EXTENDS AtomicWriter, TLC

Symmetry == Permutations(Inodes) \cup Permutations(Writers)

=============================================================================
