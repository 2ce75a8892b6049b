SPECIFICATION WorkspaceSpec
CONSTANTS
  a1 = a1
  a2 = a2
  f1 = f1
  f2 = f2
  g = g
  Absent = Absent
  Attempt <- MCAttempt
  File <- MCFile
  Line <- MCLine
  Text <- MCText
  Diff <- MCDiff
  Source <- MCSource
  MaxEdits = 2
  MaxCommands = 3
SYMMETRY Symmetry
CHECK_DEADLOCK FALSE
INVARIANTS
  EditsAreReversible
  PatchIsExact
PROPERTIES
  RollbackUndoes
  SeededIsWhole
