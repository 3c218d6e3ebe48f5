SPECIFICATION Spec
CONSTANTS
  Workers = {w1, w2}
  QueueCap = 1
  MaxOffset = 2
  MaxFaults = 1
INVARIANTS ReportedAreStored
CHECK_DEADLOCK FALSE
