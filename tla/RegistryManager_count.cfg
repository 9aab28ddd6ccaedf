\* Two concurrent ratings of one agent.
SPECIFICATION Spec
CONSTANTS
  Services = {}
  Agents = {a1}
  RatingCalls = {c1, c2}
  Scores = {1, 5}
  KeptRatings = 1
  Learnings = {}
  Keywords = {}
  NoKeyword = none
  MaxBeats = 0
  MaxFailures = 0
INVARIANT AllRatingsCounted
CHECK_DEADLOCK FALSE
