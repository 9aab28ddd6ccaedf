------------------------- MODULE MCRegistryManager -------------------------
(* Instances for TLC of what is built around the registry: the registry    *)
(* itself; the training whose policies it would publish, with its replay   *)
(* buffer; and the review of a crew's run.  They share no state here; a    *)
(* behaviour is about one of them, and the others stay as they began.      *)
EXTENDS RegistryManager

CONSTANTS
  Skus, Reorders, Demands, EpisodeLength, Episodes,      \* of InventorySim
  Learners, Priorities, MaxSize, MaxExperiences, MaxUpdates,   \* of Replay
  Nothing, MaxEvents, MaxUndated, MaxSteps               \* of CrewReview

VARIABLES
  part,
  stock, orders, day, episode, trainer, registry, files, sold, ordered,
  prioritized, buffer, priorities, versions, updates, added, own, shifted,
  store, analysis, timeline, agentStarts, toolStarts, taskStarts, roles, tasks, described,
  executed, logged, report, challenges, models, qa, milestone, granted

simVars == <<stock, orders, day, episode, trainer, registry, files, sold, ordered>>
replayVars == <<prioritized, buffer, priorities, versions, updates, added, own, shifted>>
reviewVars ==
  <<store, analysis, timeline, agentStarts, toolStarts, taskStarts, roles, tasks, described,
    executed, logged, report, challenges, models, qa, milestone, granted>>
partsVars == <<part, vars, simVars, replayVars, reviewVars>>

\* Orders of the first SKU take two days, so that two of them are on their way;
\* the second starts above its capacity and is ordered without any lead time.
OfSku(s, first, second) == IF s = 1 THEN first ELSE second
MCInventory == [s \in Skus |-> OfSku(s, 2, 5)]
MCCapacity == [s \in Skus |-> OfSku(s, 4, 3)]
MCLeadTime == [s \in Skus |-> OfSku(s, 2, 0)]

Event(type, agent, tool, task, failed) ==
  [type |-> type, agent |-> agent, tool |-> tool, task |-> task, failed |-> failed]
MCEvents ==
  {Event("agent_started", "writer", Nothing, "t", FALSE),
   Event("agent_finished", "writer", Nothing, Nothing, FALSE),
   Event("tool_started", "writer", "search", Nothing, FALSE),
   Event("tool_finished", "writer", "search", "t", TRUE),
   Event("tool_finished", "writer", "search", Nothing, FALSE),
   Event("tool_finished", Nothing, "search", "u", FALSE),
   Event("error", Nothing, Nothing, "t", FALSE),
   Event("error", "writer", Nothing, Nothing, FALSE),
   Event("unknown", Nothing, Nothing, Nothing, FALSE)}
  \union {Event(type, Nothing, Nothing, t, FALSE) :
            type \in {"task_started", "task_finished"}, t \in {"t", "u"}}

CrewMilestone(duration, errors, done) ==
  [kind |-> "crew", duration |-> duration, errors |-> errors, tasks |-> done]
MCMilestones ==
  <<CrewMilestone(120, 0, Nothing), CrewMilestone(Nothing, Nothing, 2),
    [kind |-> "task", task |-> "t"], [kind |-> "external"]>>

Sim == INSTANCE InventorySim WITH
         InitialInventory <- MCInventory, Capacity <- MCCapacity, LeadTime <- MCLeadTime,
         pc <- trainer
Replay == INSTANCE Replay WITH Agents <- Learners
Review == INSTANCE CrewReview WITH
            Events <- MCEvents, Milestones <- MCMilestones, pc <- analysis,
            agents <- roles, at <- milestone

ASSUME PartsAssumption ==
  Sim!ConfigAssumption /\ Replay!ConfigAssumption /\ Review!ConfigAssumption

PartsInit ==
  /\ part \in {"registry", "sim", "replay", "review"}
  /\ Init /\ Sim!Init /\ Replay!Init /\ Review!Init
  /\ part # "sim" => registry = FALSE
  /\ part # "replay" => prioritized = FALSE
  /\ part # "review" => models = FALSE

RegistryStep == part = "registry" /\ Next /\ UNCHANGED <<part, simVars, replayVars, reviewVars>>
SimStep == part = "sim" /\ Sim!Next /\ UNCHANGED <<part, vars, replayVars, reviewVars>>
ReplayStep == part = "replay" /\ Replay!Next /\ UNCHANGED <<part, vars, simVars, reviewVars>>
ReviewStep == part = "review" /\ Review!Next /\ UNCHANGED <<part, vars, simVars, replayVars>>

PartsSpec ==
  /\ PartsInit /\ [][RegistryStep \/ SimStep \/ ReplayStep \/ ReviewStep]_partsVars
  /\ WF_vars(part = "registry" /\ MonitorStep)

PartsTypeOK == TypeOK /\ Sim!TypeOK /\ Replay!TypeOK /\ Review!TypeOK
StockBooksBalance == Sim!StockBooksBalance
ReplayIsConsistent == Replay!ReplayIsConsistent
ReviewIsTrue == Review!ReviewIsTrue

=============================================================================
