\* The analysis lane with two slots on two videos: one process, its faults and
\* the requests that race it.
CONSTANTS
  Videos = {v1, v2}
  NoVideo = NoVideo
  TranscriptSlots = {}
  AnalysisSlots = {a1, a2}
  Running = {"analysis"}
  PauseAfter <- MCPauseAfter
  SeedRows <- AnalysisSeeds
  LimitTimes = {1}
  Clock = {0, 1}
  MaxRequests = 2
  MaxFaults = 2
  FaultKinds = {"fatal", "transaction", "loop", "crash"}
  ReAddInFlight = FALSE
  LostAcks = FALSE
SPECIFICATION Spec
SYMMETRY Symmetry
INVARIANTS TypeOK SlotHoldsItsClaim ExclusiveHold PauseStopsClaims AttemptsAreHonest
