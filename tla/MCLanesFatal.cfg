\* Two slots, one fatal error, no request: what the other slot is charged.
CONSTANTS
  Videos = {v1, v2}
  NoVideo = NoVideo
  TranscriptSlots = {}
  AnalysisSlots = {a1, a2}
  Running = {"analysis"}
  PauseAfter <- MCPauseAfter
  SeedRows <- AnalysisSeeds
  LimitTimes = {1}
  Clock = {0, 1}
  MaxRequests = 0
  MaxFaults = 1
  FaultKinds = {"fatal"}
  ReAddInFlight = FALSE
  LostAcks = FALSE
SPECIFICATION Spec
INVARIANTS FatalErrorCostsNothing
