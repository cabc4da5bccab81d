------------------------------- MODULE MCFdOps -------------------------------
\* Small instances of FdOps for TLC.
EXTENDS FdOps
=============================================================================
