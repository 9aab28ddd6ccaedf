SPECIFICATION Spec
CONSTANTS
  w1 = w1
  w2 = w2
  t1 = t1
  Tasks = {t1}
  Workers = {w1, w2}
  NoWorker = none
  NoTask = idle
  Keep = keep
  MaxUpdates = 3
  DispatchChannel = "tasks"
  WorkerChannel = "tasks"
  Matches <- MCMatches
  CallerStatuses = {"READY", "CANCELLED"}
  MaxCalls = 0
  MaxDowns = 0
INVARIANTS ClaimIsExclusive
CHECK_DEADLOCK FALSE
