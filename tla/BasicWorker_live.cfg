\* Two tasks, the award of one of them for somebody else, one restart, two failures;
\* two messages for the queue workers, one of them not JSON, and a crash; two
\* instructions and two swarms; one update and two tasks in a swarm.
SPECIFICATION PartsSpec
CONSTANTS
  Tasks = {t1, t2}
  Foreign = {t2}
  MaxStarts = 2
  MaxFailures = 2
  Jobs = {j1, j2}
  GarbledJobs = {j2}
  MaxCrashes = 1
  Swarms = {s1, s2}
  Stranger = s3
  MaxInstructions = 2
  MaxAnswers = 3
  Updates = {u1}
  GarbledUpdates = {}
  MaxTasks = 2
  MaxMisses = 2
  MaxSwarmMisses = 1
INVARIANTS StoppedIsQuiet ListenersServe
INVARIANTS PartsTypeOK UserIsTold OneOutcome AnnouncedFirst RunningListens
PROPERTIES AwardIsTakenUp QueuedIsServed InstructionAnswered SwarmComesToRest
CHECK_DEADLOCK FALSE
