SPECIFICATION PipelineFairSpec
CONSTANTS
  GitHubRequests = {a, b}
  GitLabRequests = {}
  WorkerIds = {x}
  Contexts = {c}
  QueueCap = 1
  MaxFaults = 2
  Budget = 4
  First = a
  NoRequest = NoRequest
  NoContext = NoContext
CHECK_DEADLOCK FALSE
INVARIANTS PipelineTypeOK OneRowUnlessFaults NoRowBeforeInput AllClearIsInTopic
PROPERTIES AcceptedEnds
