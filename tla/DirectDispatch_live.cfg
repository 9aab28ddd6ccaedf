SPECIFICATION FairSpec
CONSTANTS
  w1 = w1
  w2 = w2
  t1 = t1
  Tasks = {t1}
  Workers = {w1, w2, w3}
  NoWorker = none
  NoTask = idle
  Keep = keep
  MaxUpdates = 5
  DispatchChannel = "tasks"
  WorkerChannel = "tasks"
  Matches <- MCMatches
  CallerStatuses = {"CANCELLED"}
  MaxCalls = 1
  MaxDowns = 1
INVARIANTS TypeOK InProgressIsWorkedOn
PROPERTIES OfferIsTaken StartedIsFinished ImplementsTaskOffers
CHECK_DEADLOCK FALSE
