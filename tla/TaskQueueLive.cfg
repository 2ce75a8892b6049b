SPECIFICATION FairSpec
CONSTANTS
  Task = {t1, t2}
  Worker = {w1}
  OnceWorker = {}
  Chat = {c1}
  Priorities = {"urgent", "low"}
  None = None
  ChildInsert = ChildInsert
  MaxTraffic = 1
  MaxCrashes = 1
PROPERTIES PendingIsServed RunningComesToRest
