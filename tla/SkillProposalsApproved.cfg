SPECIFICATION Spec
CONSTANTS
  Definition <- Versions
  Session = {s1}
  MaxOps = 5
  None = None
INVARIANT ApprovedSkillsPublish
CHECK_DEADLOCK FALSE
