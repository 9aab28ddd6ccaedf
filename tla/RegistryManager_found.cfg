\* One service: pruned while its heartbeat is being written.
SPECIFICATION Spec
CONSTANTS
  Services = {s1}
  Agents = {}
  RatingCalls = {}
  Scores = {1, 5}
  KeptRatings = 1
  Learnings = {}
  Keywords = {}
  NoKeyword = none
  MaxBeats = 1
  MaxFailures = 0
INVARIANT ActiveServicesAreFound
CHECK_DEADLOCK FALSE
