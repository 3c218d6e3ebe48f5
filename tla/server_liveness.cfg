SPECIFICATION FairSpec
CONSTANTS
  GitHubRequests = {a, b}
  GitLabRequests = {}
  WorkerIds = {x}
  Contexts = {c}
  QueueCap = 1
  MaxFaults = 1
  NoRequest = NoRequest
  NoContext = NoContext
CHECK_DEADLOCK FALSE
PROPERTIES QueuedIsSettled SignalEnds
