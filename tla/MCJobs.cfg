\* The api, the scheduler and the JobWorker on four jobs; two faults of any kind.
CONSTANTS
  JobIds <- MCJobIds
  MaxFaults = 2
  FaultKinds = {"crash", "worker", "scheduler", "ack"}
SPECIFICATION FairSpec
INVARIANTS TypeOK ExecutedOnce
PROPERTIES OneJobSlot WaitingWorkSurvives WaitingWorkEnds
