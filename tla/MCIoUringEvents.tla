--------------------------- MODULE MCIoUringEvents ---------------------------
\* Small instances of IoUringEvents for TLC.
EXTENDS IoUringEvents
=============================================================================
