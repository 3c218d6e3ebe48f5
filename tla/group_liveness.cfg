SPECIFICATION FairSpec
CONSTANTS
  Members = {m1, m2}
  Partitions = {p1}
  Workers = {w1}
  QueueCap = 4
  MaxOffset = 2
  MaxFaults = 1
  Idle = Idle
  Stopped = Stopped
PROPERTIES ShutdownTerminates Delivered
