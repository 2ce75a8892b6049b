SPECIFICATION LoopFairSpec
CONSTANTS
  Sig = {a, b}
  MaxIterations = 4
  MaxFailures = 3
  Window = 4
  MaxCalls = 2
INVARIANTS StreakIsReal CallBudget TerminalIsLast
PROPERTY LoopEnds
CHECK_DEADLOCK FALSE
