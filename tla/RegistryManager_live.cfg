\* One service with two heartbeats, two ratings of one agent, one failure of Redis;
\* two episodes of four days with two SKUs; a replay buffer of three; timelines of
\* four events.
SPECIFICATION PartsSpec
CONSTANTS
  Services = {s1}
  Agents = {a1}
  RatingCalls = {c1, c2}
  Scores = {1, 5}
  KeptRatings = 1
  Learnings = {l1}
  Keywords = {k1}
  NoKeyword = none
  MaxBeats = 2
  MaxFailures = 1
  Skus = {1, 2}
  Reorders = {0, 1, 2}
  Demands = {0, 2}
  EpisodeLength = 4
  Episodes = 2
  Learners = {r1, r2}
  Priorities = {1, 2}
  MaxSize = 3
  MaxExperiences = 4
  MaxUpdates = 2
  Nothing = nothing
  MaxEvents = 4
  MaxUndated = 1
  MaxSteps = 1
INVARIANTS PartsTypeOK IndexEntriesResolve ProfileOfRealRatings
INVARIANTS StockBooksBalance ReplayIsConsistent ReviewIsTrue
PROPERTIES StaleIsPruned
CHECK_DEADLOCK FALSE
