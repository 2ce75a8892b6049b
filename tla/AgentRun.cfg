SPECIFICATION AttemptsSpec
CONSTANTS
  MaxAttempts = 2
  Modes = {"hermes", "legacy", "harness"}
  Plans <- ShortPlans
INVARIANTS WorkOnce RunIsOwn MetadataIsCurrent StepsBehindAreDone OverlapIsResumed StatusIsBacked
CHECK_DEADLOCK FALSE
