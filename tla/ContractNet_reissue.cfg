\* Two calls for one task past the check before either is published: a task put up
\* again while the publish of its first call is in flight.
SPECIFICATION Spec
CONSTANTS
  Tasks = {t1}
  w1 = w1
  w2 = w2
  Workers = {w1}
  NoWorker = NoWorker
  Keep = Keep
  MaxUpdates = 2
  Numbers <- MCNumbers
  Missing = Missing
  NotANumber = NotANumber
  BidDetails <- MCOrderly
  UpdateStatuses = {"PENDING", "READY"}
  UpdateAssignees = {Keep}
  ReplyKinds = {"success"}
  RedisMayFail = FALSE
  HasRegistry = TRUE
  MaxStops = 0
INVARIANT CfpIssuedAwaitsBids
CHECK_DEADLOCK FALSE
