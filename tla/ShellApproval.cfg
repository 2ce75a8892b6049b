SPECIFICATION FairSpec
CONSTANTS
  Call = {c1}
  Caller = {p1, p2, p3}
  MaxStarts = 3
  None = None
INVARIANTS RiskyRunsApproved RunsOnce RunningIsExecuted
PROPERTY ExecutionEnds
CHECK_DEADLOCK FALSE
