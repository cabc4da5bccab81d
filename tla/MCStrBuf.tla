------------------------------- MODULE MCStrBuf -------------------------------
\* Small instances of StrBuf for TLC.
EXTENDS StrBuf, TLC

MCPieces == {<<"x">>, <<"y", "x">>}
Symmetry == Permutations(Bufs) \cup Permutations(Addrs)
=============================================================================
