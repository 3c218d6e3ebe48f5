SPECIFICATION FairSpec
CONSTANTS
  Workers = {w1, w2}
  QueueCap = 1
  MaxOffset = 4
  MaxFaults = 2
\* A consumer that was interrupted stops, and need not be started again.
CHECK_DEADLOCK FALSE
INVARIANTS TypeOK StoredAtMostOnce ReadAccounted DrainedOnReturn
PROPERTIES ImplementsFate ShutdownTerminates Delivered
