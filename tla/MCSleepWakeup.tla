--------------------------- MODULE MCSleepWakeup ---------------------------
EXTENDS SleepWakeup
=============================================================================
