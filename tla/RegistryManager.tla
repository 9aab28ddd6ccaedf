-------------------------- MODULE RegistryManager --------------------------
(***************************************************************************)
(* RegistryManagerAgent: service registrations with heartbeats and a       *)
(* monitor that prunes the stale ones, reputation profiles, and sharable   *)
(* learnings.  All of it lives in Redis.  A pipeline is one transaction,   *)
(* but most operations read before it, and between the read and the write  *)
(* the event loop runs any other call.                                     *)
(***************************************************************************)
EXTENDS Integers, Sequences, FiniteSets, Functions

CONSTANTS
  Services,     \* service ids; register_service makes a fresh one every time
  Agents,       \* rated agents
  RatingCalls,  \* calls of record_rating
  Scores,       \* the scores they carry, in fifths: 1 failure, 5 success
  KeptRatings,  \* the ratings list is trimmed to this length
  Learnings,    \* learning ids
  Keywords,     \* the keywords a learning is published under
  NoKeyword,    \* there is no such learning object
  MaxBeats,     \* bound: heartbeats per service
  MaxFailures   \* bound: Redis calls that raise

ASSUME RegistryAssumption ==
  /\ Scores \subseteq Nat /\ IsFiniteSet(RatingCalls)
  /\ KeptRatings \in Nat \ {0}
  /\ NoKeyword \notin Keywords
  /\ MaxBeats \in Nat /\ MaxFailures \in Nat

VARIABLES
  record,      \* record[s]: the service key: absent, or the age of its heartbeat
  index,       \* ids in the crew and capability sets; every pipeline treats them alike
  issued,      \* service ids register_service has made
  beat,        \* beat[s]: where handle_heartbeat for s is
  beats,       \* beats[s]: heartbeats sent for s
  unreg,       \* unreg[s]: where unregister_service(s), called by its owner, is
  monitor,     \* where the loop of the heartbeat monitor is
  todo,        \* the keys its current pass has still to look at
  at,          \* the one it is unregistering
  shutdown,    \* _shutdown_event is set
  failures,    \* Redis calls that raised
  profile,     \* profile[a]: number_of_ratings and, for average_score, their sum
  ratingsList, \* ratingsList[a]: the latest scores, newest first
  call,        \* call[c]: the progress of one record_rating
  learning,    \* learning[l]: the keyword of the stored object
  keywordIds   \* the keyword sets: <<l, k>>

serviceVars == <<record, index, issued, beat, beats, unreg>>
monitorVars == <<monitor, todo, at, shutdown>>
reputationVars == <<profile, ratingsList, call>>
learningVars == <<learning, keywordIds>>
vars == <<serviceVars, monitorVars, reputationVars, learningVars, failures>>

Nobody == <<>>
Profile == [n : Nat, sum : Nat]
NewProfile == [n |-> 0, sum |-> 0]   \* AgentReputation(agent_id = ...)

\* pc: idle, exec (the profile was read), done, failed.
RatingCall == [pc : {"idle", "exec", "done", "failed"}, agent : Agents \union {Nobody},
               score : Scores \union {0}, seen : Profile]

\* The values every variable ranges over; the list of ratings stays trimmed.
TypeOK ==
  /\ record \in [Services -> {"absent", "fresh", "old"}]
  /\ index \in SUBSET Services /\ issued \in SUBSET Services
  /\ beat \in [Services -> {"idle", "set"}]
  /\ beats \in [Services -> 0..MaxBeats]
  /\ unreg \in [Services -> {"idle", "delete"}]
  /\ monitor \in {"off", "scan", "check", "get", "delete", "wait", "done"}
  /\ todo \in SUBSET Services /\ at \in Services \union {Nobody}
  /\ (monitor \in {"get", "delete"} => at \in Services)
  /\ shutdown \in BOOLEAN /\ failures \in 0..MaxFailures
  /\ profile \in [Agents -> Profile]
  /\ ratingsList \in [Agents -> Seq(Scores)]
  /\ \A a \in Agents : Len(ratingsList[a]) =< KeptRatings
  /\ call \in [RatingCalls -> RatingCall]
  /\ learning \in [Learnings -> Keywords \union {NoKeyword}]
  /\ keywordIds \in SUBSET (Learnings \X Keywords)

Init ==
  /\ record = [s \in Services |-> "absent"] /\ index = {} /\ issued = {}
  /\ beat = [s \in Services |-> "idle"] /\ beats = [s \in Services |-> 0]
  /\ unreg = [s \in Services |-> "idle"]
  /\ monitor = "off" /\ todo = {} /\ at = Nobody /\ shutdown = FALSE
  /\ failures = 0
  /\ profile = [a \in Agents |-> NewProfile]
  /\ ratingsList = [a \in Agents |-> <<>>]
  /\ call = [c \in RatingCalls |->
               [pc |-> "idle", agent |-> Nobody, score |-> 0, seen |-> NewProfile]]
  /\ learning = [l \in Learnings |-> NoKeyword] /\ keywordIds = {}

Fails == failures < MaxFailures /\ failures' = failures + 1

-----------------------------------------------------------------------------
(* Services.                                                               *)

\* One transaction: the key and its index entries.
RegisterService(s) ==
  /\ s \notin issued
  /\ issued' = issued \union {s}
  /\ record' = [record EXCEPT ![s] = "fresh"]
  /\ index' = index \union {s}
  /\ UNCHANGED <<beat, beats, unreg, monitorVars, reputationVars, learningVars, failures>>

\* Time: the last heartbeat is now older than the threshold.  (The threshold is
\* taken when a pass starts: a service that ages during one is met in the next.
\* Here the pass may already see it.)
HeartbeatAges(s) ==
  /\ record[s] = "fresh"
  /\ record' = [record EXCEPT ![s] = "old"]
  /\ UNCHANGED <<index, issued, beat, beats, unreg, monitorVars, reputationVars,
                 learningVars, failures>>

\* handle_heartbeat reads the service; an unknown one is refused.
HeartbeatReads(s) ==
  /\ s \in issued /\ beat[s] = "idle" /\ beats[s] < MaxBeats
  /\ beats' = [beats EXCEPT ![s] = @ + 1]
  /\ beat' = [beat EXCEPT ![s] = IF record[s] = "absent" THEN "idle" ELSE "set"]
  /\ UNCHANGED <<record, index, issued, unreg, monitorVars, reputationVars, learningVars,
                 failures>>

\* It writes the object back under the key, whether or not the key still exists.
HeartbeatSets(s) ==
  /\ beat[s] = "set"
  /\ beat' = [beat EXCEPT ![s] = "idle"]
  /\ \/ record' = [record EXCEPT ![s] = "fresh"] /\ UNCHANGED failures
     \/ Fails /\ UNCHANGED record
  /\ UNCHANGED <<index, issued, beats, unreg, monitorVars, reputationVars, learningVars>>

\* Mutant of Unregister: the key is deleted, the index entries are not.
UnregisterKey(s) == record' = [record EXCEPT ![s] = "absent"] /\ UNCHANGED index

\* The transaction of unregister_service: the key and its index entries.
Unregister(s) ==
  /\ record' = [record EXCEPT ![s] = "absent"]
  /\ index' = index \ {s}

\* unregister_service by the owner: read, then the transaction.
UnregisterReads(s) ==
  /\ unreg[s] = "idle" /\ record[s] # "absent"
  /\ unreg' = [unreg EXCEPT ![s] = "delete"]
  /\ UNCHANGED <<record, index, issued, beat, beats, monitorVars, reputationVars,
                 learningVars, failures>>

\* The transaction; an exception is caught, and the owner is told False.
UnregisterDeletes(s) ==
  /\ unreg[s] = "delete"
  /\ unreg' = [unreg EXCEPT ![s] = "idle"]
  /\ \/ Unregister(s) /\ UNCHANGED failures
     \/ Fails /\ UNCHANGED <<record, index>>
  /\ UNCHANGED <<issued, beat, beats, monitorVars, reputationVars, learningVars>>

-----------------------------------------------------------------------------
(* The heartbeat monitor.                                                  *)

MonitorRuns == monitor \notin {"off", "done"}

\* initialize() and start_heartbeat_monitor(): the loop looks at the event
\* first, and nothing ever clears it.
StartMonitor ==
  /\ ~MonitorRuns
  /\ monitor' = IF shutdown THEN "done" ELSE "scan"
  /\ UNCHANGED <<serviceVars, todo, at, shutdown, reputationVars, learningVars, failures>>

\* keys() of _prune_stale_services.
PruneScans ==
  /\ monitor = "scan"
  /\ todo' = {s \in Services : record[s] # "absent"}
  /\ monitor' = "check"
  /\ UNCHANGED <<serviceVars, at, shutdown, reputationVars, learningVars, failures>>

\* Mutant of IsStale: the comparison is turned round.
IsFresh(s) == record[s] = "fresh"

IsStale(s) == record[s] = "old"

\* get_service_info of the next key.
PruneChecks(s) ==
  /\ monitor = "check" /\ s \in todo
  /\ todo' = todo \ {s}
  /\ IF IsStale(s) THEN monitor' = "get" /\ at' = s
                   ELSE UNCHANGED <<monitor, at>>
  /\ UNCHANGED <<serviceVars, shutdown, reputationVars, learningVars, failures>>

\* unregister_service reads the service again, but not its heartbeat.
PruneReads ==
  /\ monitor = "get"
  /\ monitor' = IF record[at] = "absent" THEN "check" ELSE "delete"
  /\ UNCHANGED <<serviceVars, todo, at, shutdown, reputationVars, learningVars, failures>>

\* Its transaction; an exception there is caught and the pass goes on.
PruneDeletes ==
  /\ monitor = "delete"
  /\ monitor' = "check"
  /\ \/ Unregister(at) /\ UNCHANGED failures
     \/ Fails /\ UNCHANGED <<record, index>>
  /\ UNCHANGED <<issued, beat, beats, unreg, todo, at, shutdown, reputationVars,
                 learningVars>>

\* Any other exception ends the pass, the loop catches it.
PruneRaises ==
  /\ monitor \in {"scan", "check", "get"} /\ Fails
  /\ monitor' = IF shutdown THEN "done" ELSE "wait"
  /\ UNCHANGED <<serviceVars, todo, at, shutdown, reputationVars, learningVars>>

PassEnds ==
  /\ monitor = "check" /\ todo = {}
  /\ monitor' = IF shutdown THEN "done" ELSE "wait"
  /\ UNCHANGED <<serviceVars, todo, at, shutdown, reputationVars, learningVars, failures>>

\* The interval is over or the event was set.
WaitEnds ==
  /\ monitor = "wait"
  /\ monitor' = IF shutdown THEN "done" ELSE "scan"
  /\ UNCHANGED <<serviceVars, todo, at, shutdown, reputationVars, learningVars, failures>>

\* stop_heartbeat_monitor: the event, and the loop is awaited.
StopMonitor ==
  /\ MonitorRuns
  /\ shutdown' = TRUE
  /\ UNCHANGED <<serviceVars, monitor, todo, at, reputationVars, learningVars, failures>>

\* The five seconds are over: wait_for cancels the loop wherever it is.
StopTimesOut ==
  /\ MonitorRuns /\ shutdown
  /\ monitor' = "done"
  /\ UNCHANGED <<serviceVars, todo, at, shutdown, reputationVars, learningVars, failures>>

-----------------------------------------------------------------------------
(* Reputation.                                                             *)

\* record_rating reads the profile of the rated agent.
RatingReads(c, a, score) ==
  /\ call[c].pc = "idle"
  /\ call' = [call EXCEPT ![c] =
       [pc |-> "exec", agent |-> a, score |-> score, seen |-> profile[a]]]
  /\ UNCHANGED <<serviceVars, monitorVars, profile, ratingsList, learningVars, failures>>

\* Mutant of Rated: the counter is raised before the average is taken.
RatedLate(p, score) ==
  [n |-> p.n + 1, sum |-> IF p.n = 0 THEN score ELSE p.sum + (p.sum \div p.n) + score]

\* average_score is kept as the sum it stands for: average_score * n.
Rated(p, score) ==
  [n |-> p.n + 1, sum |-> IF p.n = 0 THEN score ELSE p.sum + score]

\* Mutant of Trimmed: ltrim with the bound one too high.
TrimmedLate(list) == 
  SubSeq(list, 1, IF Len(list) < KeptRatings + 1 THEN Len(list) ELSE KeptRatings + 1)

\* ltrim: the latest ratings only.
Trimmed(list) == SubSeq(list, 1, IF Len(list) < KeptRatings THEN Len(list) ELSE KeptRatings)

\* The transaction: profile, lpush and ltrim.
RatingExecutes(c) ==
  LET a == call[c].agent IN
  /\ call[c].pc = "exec"
  /\ \/ /\ call' = [call EXCEPT ![c].pc = "done"]
        /\ profile' = [profile EXCEPT ![a] = Rated(call[c].seen, call[c].score)]
        /\ ratingsList' = [ratingsList EXCEPT ![a] = Trimmed(<<call[c].score>> \o @)]
        /\ UNCHANGED failures
     \/ /\ Fails
        /\ call' = [call EXCEPT ![c].pc = "failed"]
        /\ UNCHANGED <<profile, ratingsList>>
  /\ UNCHANGED <<serviceVars, monitorVars, learningVars>>

-----------------------------------------------------------------------------
(* Learnings.                                                              *)

\* One transaction; a learning published again keeps its earlier index entries.
PublishLearning(l, k) ==
  /\ learning' = [learning EXCEPT ![l] = k]
  /\ keywordIds' = keywordIds \union {<<l, k>>}
  /\ UNCHANGED <<serviceVars, monitorVars, reputationVars, failures>>

\* delete_learning reads learning.type, an attribute SharableLearning does not
\* have: the pipeline is never executed and False is returned.
DeleteLearning(l) ==
  /\ learning[l] # NoKeyword
  /\ UNCHANGED vars

-----------------------------------------------------------------------------

MonitorStep ==
  \/ PruneScans \/ (\E s \in Services : PruneChecks(s))
  \/ PruneReads \/ PruneDeletes \/ PassEnds \/ WaitEnds

Next ==
  \/ \E s \in Services :
       \/ RegisterService(s) \/ HeartbeatAges(s)
       \/ HeartbeatReads(s) \/ HeartbeatSets(s)
       \/ UnregisterReads(s) \/ UnregisterDeletes(s)
  \/ MonitorStep \/ PruneRaises
  \/ StartMonitor \/ StopMonitor \/ StopTimesOut
  \/ \E c \in RatingCalls, a \in Agents, score \in Scores : RatingReads(c, a, score)
  \/ \E c \in RatingCalls : RatingExecutes(c)
  \/ \E l \in Learnings, k \in Keywords : PublishLearning(l, k)
  \/ \E l \in Learnings : DeleteLearning(l)

Spec == Init /\ [][Next]_vars

\* The event loop resumes the monitor when its interval is over or Redis
\* answered.
FairSpec == Spec /\ WF_vars(MonitorStep)

-----------------------------------------------------------------------------
(* Properties.                                                             *)

\* find_services_by_crew and find_services_by_capability never meet an id
\* whose service is gone, whatever registrations, prunings, heartbeats and
\* unregistrations of the same service overlap.
IndexEntriesResolve == \A s \in index : record[s] # "absent"

\* find_services_by_capability "returns a list of all active services matching
\* that capability": a service whose heartbeat is accepted is in the index.
ActiveServicesAreFound == \A s \in Services : record[s] = "fresh" => s \in index

\* A stale service does not stay while the monitor runs: it is pruned, or a
\* heartbeat came, also when some passes fail and although a late heartbeat
\* can bring an unregistered service back.
StaleIsPruned ==
  \A s \in Services :
    (record[s] = "old" /\ MonitorRuns) ~> (record[s] # "old" \/ shutdown)

ScoreOf(c) == call[c].score
Executed(a) == {c \in RatingCalls : call[c].pc = "done" /\ call[c].agent = a}
SumOver(calls) == FoldFunctionOnSet(+, 0, [c \in RatingCalls |-> ScoreOf(c)], calls)

\* A profile is always the count and the sum of some of the ratings that were
\* executed for the agent, each once, the latest included or not: concurrent
\* calls can lose a rating but never count one twice or mix two.
ProfileOfRealRatings ==
  \A a \in Agents : \E calls \in SUBSET Executed(a) :
    profile[a] = [n |-> Cardinality(calls), sum |-> SumOver(calls)]

\* The number_of_ratings of a profile is the "total number of ratings received by
\* the agent": every rating recorded for it is counted.
AllRatingsCounted == \A a \in Agents : profile[a].n = Cardinality(Executed(a))

=============================================================================
