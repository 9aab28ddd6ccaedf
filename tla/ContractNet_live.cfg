\* One worker with priced, unpriced and malformed bids and two updates: three
\* rounds of bidding, which may overlap, under fairness.
SPECIFICATION FairSpec
CONSTANTS
  Tasks = {t1}
  w1 = w1
  w2 = w2
  Workers = {w1}
  NoWorker = NoWorker
  Keep = Keep
  MaxUpdates = 2
  Numbers <- MCNumbers
  Missing = Missing
  NotANumber = NotANumber
  BidDetails <- MCMixed
  UpdateStatuses = {"READY", "CANCELLED"}
  UpdateAssignees = {Keep}
  ReplyKinds = {"failure", "noObject"}
  RedisMayFail = TRUE
  HasRegistry = TRUE
  MaxStops = 0
PROPERTIES
  BiddingEnds
  AwardIsDecided
CHECK_DEADLOCK FALSE
