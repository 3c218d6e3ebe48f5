SPECIFICATION Spec
CONSTANTS
  Members = {m1, m2}
  Partitions = {p1}
  Workers = {w1}
  QueueCap = 1
  MaxOffset = 2
  MaxFaults = 2
  Idle = Idle
  Stopped = Stopped
SYMMETRY Symmetry
INVARIANTS TypeOK CommittedAccounted RowsBoundedByAborts NoSendOnClosedQueue
PROPERTIES CommittedMonotone ImplementsGroupFate
