\* Both lanes on one video from the queue to the result, with lost commits and liveness.
CONSTANTS
  Videos = {v1}
  NoVideo = NoVideo
  TranscriptSlots = {t1}
  AnalysisSlots = {a1}
  Running = {"transcript", "analysis"}
  PauseAfter <- MCPauseAfter
  SeedRows <- PipelineSeeds
  LimitTimes = {1}
  Clock = {0, 1}
  MaxRequests = 2
  MaxFaults = 1
  FaultKinds = {"fatal", "transaction", "loop", "crash"}
  ReAddInFlight = TRUE
  LostAcks = TRUE
SPECIFICATION FairSpec
PROPERTIES ClaimsEnd QueuesDrain
