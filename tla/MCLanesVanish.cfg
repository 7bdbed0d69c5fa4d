\* A channel is deleted while one of its videos is analyzed; nothing fails.
CONSTANTS
  Videos = {v1}
  NoVideo = NoVideo
  TranscriptSlots = {}
  AnalysisSlots = {a1}
  Running = {"analysis"}
  PauseAfter <- MCPauseAfter
  SeedRows <- AnalysisSeeds
  LimitTimes = {1}
  Clock = {0, 1}
  MaxRequests = 1
  MaxFaults = 0
  FaultKinds = {}
  ReAddInFlight = FALSE
  LostAcks = FALSE
SPECIFICATION Spec
INVARIANTS VanishedVideoIsNeutral
