SPECIFICATION Spec
CONSTANTS
  None = None
  Answers <- MCAnswers
  MaxVersion = 2
  MaxRuns = 3
CHECK_DEADLOCK FALSE
INVARIANTS
  StartedIsCurrent
  IdsAreRows
  ModelsHaveKeys
