SPECIFICATION Spec
CONSTANTS
  GitHubRequests = {a, b}
  GitLabRequests = {g}
  WorkerIds = {x}
  Contexts = {c, d}
  QueueCap = 1
  MaxFaults = 0
  NoRequest = NoRequest
  NoContext = NoContext
CHECK_DEADLOCK FALSE
SYMMETRY Symmetry
INVARIANTS PayloadIsTheRequest
