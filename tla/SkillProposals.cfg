SPECIFICATION Spec
CONSTANTS
  Definition <- Versions
  Session = {s1, s2}
  MaxOps = 5
  None = None
SYMMETRY Symmetry
INVARIANTS PublishedWasAccepted ApprovalAgrees NewestIsActive
CHECK_DEADLOCK FALSE
