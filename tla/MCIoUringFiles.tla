---------------------------- MODULE MCIoUringFiles ----------------------------
\* Small instances of IoUringFiles for TLC.
EXTENDS IoUringFiles, TLC

Symmetry == Permutations(Holders) \cup Permutations(Fds) \cup Permutations(OpenFiles)
=============================================================================
