\* finish_job fails once in the scheduler's task.
CONSTANTS
  JobIds <- MCJobIds
  MaxFaults = 1
  FaultKinds = {"scheduler"}
SPECIFICATION Spec
INVARIANTS ClaimIsExecution
