\* Both lanes, one slot each, on two videos.
CONSTANTS
  Videos = {v1, v2}
  NoVideo = NoVideo
  TranscriptSlots = {t1}
  AnalysisSlots = {a1}
  Running = {"transcript", "analysis"}
  PauseAfter <- MCPauseAfter
  SeedRows <- BothSeeds
  LimitTimes = {1}
  Clock = {0, 1}
  MaxRequests = 1
  MaxFaults = 1
  FaultKinds = {"transaction", "loop", "crash"}
  ReAddInFlight = FALSE
  LostAcks = FALSE
SPECIFICATION Spec
SYMMETRY Symmetry
INVARIANTS QueuesAreSound FailureKindIsDerivable NoOrphanClaim
