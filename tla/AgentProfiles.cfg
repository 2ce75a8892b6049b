SPECIFICATION Spec
CONSTANTS
  None = None
  Empty = Empty
  Process = {p1, p2}
  Slug <- MCSlug
  Base <- MCBase
  Draft <- MCDraft
  Keywords <- MCKeywords
  ServerWords <- MCServerWords
  Task <- MCTask
  Rank <- MCRank
  MaxStarts = 1
SYMMETRY Symmetry
CHECK_DEADLOCK FALSE
INVARIANTS
  AgentsAreApproved
  CreatedIsInstalled
  RoutedIsKnown
