------------------------- MODULE MCOrderExecution -------------------------
EXTENDS OrderExecution

AllEnvironments == SUBSET FaultKinds
CrashAndConnect == {{"crash", "connect"}}
=============================================================================
