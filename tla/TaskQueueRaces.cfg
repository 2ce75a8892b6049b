SPECIFICATION Spec
CONSTANTS
  Task = {t1}
  Worker = {w1, w2}
  OnceWorker = {w2}
  Chat = {c1, c2}
  Priorities = {"normal"}
  None = None
  ChildInsert = ChildInsert
  MaxTraffic = 3
  MaxCrashes = 1
SYMMETRY Symmetry
 
PROPERTIES ClaimsArePending ImplementsLifecycle
