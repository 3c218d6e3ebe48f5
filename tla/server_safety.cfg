SPECIFICATION Spec
CONSTANTS
  GitHubRequests = {a, b}
  GitLabRequests = {g}
  WorkerIds = {x, y}
  Contexts = {c, d}
  QueueCap = 1
  MaxFaults = 1
  NoRequest = NoRequest
  NoContext = NoContext
CHECK_DEADLOCK FALSE
SYMMETRY Symmetry
INVARIANTS TypeOK OnePlace AnswersMatchWaits AllClearIsClear QueuesOutliveHandlers CopiesAccounted
