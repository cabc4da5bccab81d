-------------------------------- MODULE MCLines --------------------------------
\* Small instances of Lines for TLC.
EXTENDS Lines
=============================================================================
