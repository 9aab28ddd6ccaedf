\* A second round while the winner of the first is at work.
SPECIFICATION Spec
CONSTANTS
  Tasks = {t1}
  w1 = w1
  w2 = w2
  Workers = {w1, w2}
  NoWorker = NoWorker
  Keep = Keep
  MaxUpdates = 1
  Numbers <- MCNumbers
  Missing = Missing
  NotANumber = NotANumber
  BidDetails <- MCOrderly
  UpdateStatuses = {"READY"}
  UpdateAssignees = {Keep}
  ReplyKinds = {"success"}
  RedisMayFail = FALSE
  HasRegistry = TRUE
  MaxStops = 0
INVARIANT RatedAgentDidTheTask
CHECK_DEADLOCK FALSE
