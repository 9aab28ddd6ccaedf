--------------------------- MODULE MCBasicWorker ----------------------------
(* Instances for TLC of the programs that work off Redis lists: the worker *)
(* of the contract net, the queue workers of the marketing crew, its       *)
(* instruction worker and its swarms.  They share no state here; a         *)
(* behaviour is about one of them, and the others stay as they began.      *)
EXTENDS BasicWorker

CONSTANTS
  Jobs, GarbledJobs, MaxCrashes,               \* of QueueWorkers
  Swarms, Stranger, MaxInstructions, MaxAnswers, \* of Sarah
  Updates, GarbledUpdates, MaxTasks,           \* of Swarm
  MaxMisses, MaxSwarmMisses          \* bounds: failures in the first two, in the third

ASSUME PartsAssumption ==
  /\ GarbledJobs \subseteq Jobs /\ GarbledUpdates \subseteq Updates /\ Stranger \notin Swarms
  /\ MaxInstructions \in Nat /\ MaxAnswers \in Nat /\ MaxTasks \in Nat
  /\ MaxCrashes \in Nat /\ MaxMisses \in Nat /\ MaxSwarmMisses \in Nat

VARIABLES
  part,
  list, doing, told, pushErrors, crashes,
  instruction, consensus, pc, current, received, api, simulation, missed, lost, answers,
  callErrors,
  kind, manager, running, listener, updates, subscription, queue, hand, results, announced,
  complained, tasks, swarmErrors

queueVars == <<list, doing, told, pushErrors, crashes>>
sarahVars ==
  <<instruction, consensus, pc, current, received, api, simulation, missed, lost, answers,
    callErrors>>
swarmVars ==
  <<kind, manager, running, listener, updates, subscription, queue, hand, results, announced,
    complained, tasks, swarmErrors>>
partsVars == <<part, vars, queueVars, sarahVars, swarmVars>>

Queue == INSTANCE QueueWorkers WITH
           Garbled <- GarbledJobs, MaxFailures <- MaxMisses, queue <- list,
           failures <- pushErrors
Sarah == INSTANCE Sarah WITH
           Instructions <- 1..MaxInstructions, MaxFailures <- MaxMisses,
           failures <- callErrors
Swarm == INSTANCE Swarm WITH
           Garbled <- GarbledUpdates, MaxFailures <- MaxSwarmMisses, published <- updates,
           inbox <- subscription, failures <- swarmErrors

PartsInit ==
  /\ part \in {"worker", "queue", "sarah", "swarm"}
  /\ Init /\ Queue!Init /\ Sarah!Init /\ Swarm!Init
  /\ part # "swarm" => kind = "product"

WorkerStep == part = "worker" /\ Next /\ UNCHANGED <<part, queueVars, sarahVars, swarmVars>>
QueueStep == part = "queue" /\ Queue!Next /\ UNCHANGED <<part, vars, sarahVars, swarmVars>>
SarahStep == part = "sarah" /\ Sarah!Next /\ UNCHANGED <<part, vars, queueVars, swarmVars>>
SwarmStep == part = "swarm" /\ Swarm!Next /\ UNCHANGED <<part, vars, queueVars, sarahVars>>

PartsSpec ==
  /\ PartsInit /\ [][WorkerStep \/ QueueStep \/ SarahStep \/ SwarmStep]_partsVars
  /\ WF_vars(part = "worker" /\ LifecycleStep)
  /\ WF_vars(part = "worker" /\ CfpStep)
  /\ WF_vars(part = "worker" /\ AwardStep)
  /\ WF_queueVars(part = "queue" /\ Queue!FairStep)
  /\ WF_sarahVars(part = "sarah" /\ Sarah!FairStep)
  /\ WF_swarmVars(part = "swarm" /\ Swarm!FairStep)

PartsTypeOK == TypeOK /\ Queue!TypeOK /\ Sarah!TypeOK /\ Swarm!TypeOK
UserIsTold == Queue!UserIsTold
QueuedIsServed == Queue!QueuedIsServed
OneOutcome == Sarah!OneOutcome
InstructionAnswered == Sarah!InstructionAnswered
AnnouncedFirst == Swarm!AnnouncedFirst
RunningListens == Swarm!RunningListens
SwarmComesToRest == Swarm!SwarmComesToRest

=============================================================================
