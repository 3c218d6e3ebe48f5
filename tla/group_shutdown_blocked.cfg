SPECIFICATION FairSpec
CONSTANTS
  Members = {m1}
  Partitions = {p1}
  Workers = {w1, w2}
  QueueCap = 1
  MaxOffset = 3
  MaxFaults = 1
  Idle = Idle
  Stopped = Stopped
PROPERTIES ShutdownTerminates
