\* One worker and two updates: a task can be put up for bids three times, with
\* the chains overlapping, Redis failing anywhere and one stop with a restart.
SPECIFICATION Spec
CONSTANTS
  Tasks = {t1}
  w1 = w1
  w2 = w2
  Workers = {w1}
  NoWorker = NoWorker
  Keep = Keep
  MaxUpdates = 2
  Numbers <- MCNumbers
  Missing = Missing
  NotANumber = NotANumber
  BidDetails <- MCOrderly
  UpdateStatuses = {Keep, "READY", "IN_PROGRESS", "CANCELLED"}
  UpdateAssignees = {Keep}
  ReplyKinds = {"success", "invalid"}
  RedisMayFail = TRUE
  HasRegistry = TRUE
  MaxStops = 1
INVARIANTS
  TypeOK
  CfpHasCollector
  InHands
  AwardeeIsTold
  RatingsBackedByReplies
CHECK_DEADLOCK FALSE
