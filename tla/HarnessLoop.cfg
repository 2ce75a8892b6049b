SPECIFICATION FairSpec
CONSTANTS
  Run = {r1, r2}
  MaxIterations = 2
  MaxErrors = 2
  Actions <- OneBusy
  None = None
INVARIANTS ErrorsAreInARow LogTellsOutcomes ResultsHaveRows PoliciesAlonePause
PROPERTY RunEnds
CHECK_DEADLOCK FALSE
