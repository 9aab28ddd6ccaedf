----------------------------- MODULE CrewReview -----------------------------
(***************************************************************************)
(* How a crew's run is reviewed: crew_step_logger_callback stores events,  *)
(* FCPerformanceAnalyzerTool makes a report of events, and the report goes *)
(* to the RedTeamAgent, which challenges what it tells, and to the QAAgent,*)
(* which grants the rewards of the milestones it shows to be reached.      *)
(* Times are left out: the timeline is in their order, and a duration is   *)
(* above or below a threshold.  A task is its key, an id or a description. *)
(***************************************************************************)
EXTENDS Integers, Sequences, FiniteSets

CONSTANTS
  Events,      \* records with a type, an agent, a tool, a task and a flag failed
  Nothing,     \* for the agent, tool or task that an event does not name
  Milestones,  \* of the QAAgent, in the order of its config
  MaxEvents, MaxUndated, MaxSteps   \* bounds: of a timeline, without a time, observed

\* What the proof needs of the configuration.
ConfigAssumption ==
  /\ MaxEvents \in Nat /\ MaxUndated \in Nat /\ MaxSteps \in Nat
  /\ Len(Milestones) \in Nat
  /\ \A n \in 1..Len(Milestones) :
       Milestones[n].kind = "crew" =>
         /\ Milestones[n].errors \in Nat \union {Nothing}
         /\ Milestones[n].tasks \in Nat \union {Nothing}

VARIABLES
  store,      \* _observed_events_store of the run: how many events
  pc,         \* of FCPerformanceAnalyzerTool._run
  timeline,
  agentStarts, toolStarts, taskStarts,   \* the starts that wait for their end
  agents, tasks,                         \* keys of _agents_data, _tasks_data
  described, executed,                   \* tasks with a description; with a pair of events
  logged,     \* length of _errors_logged
  report, challenges,
  models,     \* has qa_agent the report's models, or placeholders of its own?
  qa, at, granted   \* evaluate_and_reward: its state, the next milestone, rewards

analyzerVars ==
  <<timeline, agentStarts, toolStarts, taskStarts, agents, tasks, described, executed, logged>>
qaVars == <<models, qa, at, granted>>
vars == <<store, pc, analyzerVars, report, challenges, qaVars>>

NoReport == [made |-> FALSE]

TypeOK ==
  /\ store \in 0..MaxSteps
  /\ pc \in {"run", "timeline", "reported", "raised"}
  /\ timeline \in Seq(Events)
  /\ executed \subseteq tasks /\ described \subseteq tasks
  /\ logged \in 0..(2 * MaxEvents + MaxUndated + 1)
  /\ report.made <=> pc = "reported"
  /\ models \in BOOLEAN /\ qa \in {"idle", "evaluating", "over", "raised"}
  /\ at \in 1..(Len(Milestones) + 1) /\ granted \subseteq 1..(at - 1)

Init ==
  /\ store = 0 /\ pc = "run" /\ timeline = <<>>
  /\ agentStarts = {} /\ toolStarts = {} /\ taskStarts = {}
  /\ agents = {} /\ tasks = {} /\ described = {} /\ executed = {} /\ logged = 0
  /\ report = NoReport /\ challenges = {}
  /\ models \in BOOLEAN /\ qa = "idle" /\ at = 1 /\ granted = {}

-----------------------------------------------------------------------------
(* The analyzer.                                                           *)

\* errors is the report's error_count, identified the length of its
\* identified_errors; remarks: which of its lists of remarks are not empty.
Remarks == {"PotentialBottleneck", "EfficiencyObservation"}

Report(errors, identified, completed, seen, timed, remarks) ==
  [made |-> TRUE, errors |-> errors, identified |-> identified, completed |-> completed,
   agents |-> seen, timed |-> timed, remarks |-> remarks]

\* AgentFinish, AgentAction, or a step of some other form.
Observe ==
  /\ store < MaxSteps /\ store' = store + 1
  /\ UNCHANGED <<pc, analyzerVars, report, challenges, qaVars>>

\* Without an event the report is that of a failure: the input was empty, could
\* not be parsed, or had no event.  What the subscriber tool returns ends here:
\* its events have a "type", the analyzer drops those without "event_type".
NothingToAnalyze ==
  /\ pc = "run" /\ pc' = "reported"
  /\ \/ report' = Report(1, 0, {}, {}, FALSE, {"PotentialBottleneck"})
     \/ report' = Report(1, 1, {}, {}, FALSE, {})
     \/ report' = Report(1, 0, {}, {}, FALSE, Remarks)
  /\ UNCHANGED <<store, analyzerVars, challenges, qaVars>>

\* An event whose time cannot be read is logged, as is a missing description of
\* the crew's task.
Begin(undated, unnamed) ==
  /\ pc = "run" /\ pc' = "timeline"
  /\ logged' = undated + unnamed
  /\ UNCHANGED <<store, timeline, agentStarts, toolStarts, taskStarts, agents, tasks,
                 described, executed, report, challenges, qaVars>>

\* Times with and without a zone do not compare.
SortRaises ==
  /\ pc = "run" /\ pc' = "raised"
  /\ UNCHANGED <<store, analyzerVars, report, challenges, qaVars>>

Uses(e) == e.agent # Nothing /\ e.tool # Nothing
UseOf(e) == <<e.agent, e.tool>>

\* The name task_description is not defined; the counter errors_encountered, or
\* errors_in_usage, of an agent or a tool is none of its keys.
Raises(e) ==
  \/ e.type = "agent_finished" /\ e.agent # Nothing
  \/ e.type = "tool_finished" /\ Uses(e) /\ (e.failed \/ UseOf(e) \notin toolStarts)
  \/ e.type = "error" /\ (e.agent # Nothing \/ e.tool # Nothing)

\* The task of an event that says something of it.
TaskIf(e, condition) == IF condition /\ e.task # Nothing THEN {e.task} ELSE {}
ActsOn(e) == e.type = "agent_started" /\ e.agent # Nothing
Describes(e) == e.type \in {"task_started", "error"} \/ ActsOn(e)

\* Mutant of Executed: an end is enough.
ExecutedByEnd(e) == TaskIf(e, e.type = "task_finished")
Executed(e) == TaskIf(e, e.type = "task_finished" /\ e.task \in taskStarts)

\* An error event is logged twice.
Entries(e) ==
  CASE e.type = "error" -> 2
    [] e.type = "unknown" -> 1
    [] e.type = "task_finished" /\ e.task \notin taskStarts \union {Nothing} -> 1
    [] OTHER -> 0

Process(e) ==
  /\ pc = "timeline" /\ Len(timeline) < MaxEvents /\ ~Raises(e)
  /\ timeline' = Append(timeline, e)
  /\ agentStarts' = IF ActsOn(e) THEN agentStarts \union {e.agent} ELSE agentStarts
  /\ toolStarts' =
       CASE e.type = "tool_started" /\ Uses(e) -> toolStarts \union {UseOf(e)}
         [] e.type = "tool_finished" -> toolStarts \ {UseOf(e)}
         [] OTHER -> toolStarts
  /\ agents' = IF e.type = "tool_finished" /\ Uses(e) THEN agents \union {e.agent} ELSE agents
  /\ taskStarts' = (taskStarts \ Executed(e)) \union TaskIf(e, e.type = "task_started")
  /\ executed' = executed \union Executed(e)
  /\ tasks' = tasks \union
       TaskIf(e, Describes(e) \/ e.type \in {"task_finished", "tool_finished"})
  /\ described' = described \union TaskIf(e, Describes(e))
  /\ logged' = logged + Entries(e)
  /\ UNCHANGED <<store, pc, report, challenges, qaVars>>

ProcessRaises(e) ==
  /\ pc = "timeline" /\ Len(timeline) < MaxEvents /\ Raises(e)
  /\ pc' = "raised" /\ timeline' = Append(timeline, e)
  /\ UNCHANGED <<store, agentStarts, toolStarts, taskStarts, agents, tasks, described,
                 executed, logged, report, challenges, qaVars>>

\* A start of an agent or a tool without its end raises as above; a task without
\* a description does not fit the report's model.
EndRaises == agentStarts \union toolStarts # {} \/ tasks # described

EndOfTimeline ==
  /\ pc = "timeline" /\ (timeline # <<>> \/ logged > 0)
  /\ IF EndRaises
     THEN pc' = "raised" /\ UNCHANGED <<logged, report>>
     ELSE /\ pc' = "reported"
          /\ logged' = logged + Cardinality(taskStarts)
          /\ report' = Report(logged', logged', executed, agents, timeline # <<>>, Remarks)
  /\ UNCHANGED <<store, timeline, agentStarts, toolStarts, taskStarts, agents, tasks,
                 described, executed, challenges, qaVars>>

-----------------------------------------------------------------------------
(* The red team.  The report gives no task an error and no agent an error  *)
(* rate, so there are no challenges of those.                              *)

Challenge(kind, n) == [kind |-> kind, count |-> n]

RedTeam ==
  /\ report.made /\ challenges = {}
  /\ \E slowTasks \in SUBSET report.completed, slowTool \in BOOLEAN :
       /\ slowTool => report.agents # {}
       /\ challenges' =
            {Challenge(remark, 1) : remark \in report.remarks}
            \union {Challenge("GeneralError", report.identified),
                    Challenge("TaskDuration", Cardinality(slowTasks))}
            \union (IF slowTool THEN {Challenge("ToolPerformanceIssue", 1)} ELSE {})
  /\ UNCHANGED <<store, pc, analyzerVars, report, qaVars>>

-----------------------------------------------------------------------------
(* QAAgent.evaluate_and_reward, one milestone after the other.             *)

\* The placeholders have dictionaries where the report has strings.
ParseReport ==
  /\ report.made /\ qa = "idle"
  /\ qa' = IF models THEN "evaluating" ELSE "over"
  /\ UNCHANGED <<store, pc, analyzerVars, report, challenges, models, at, granted>>

EndEvaluation ==
  /\ qa = "evaluating" /\ at > Len(Milestones) /\ qa' = "over"
  /\ UNCHANGED <<store, pc, analyzerVars, report, challenges, models, at, granted>>

\* The conditions a crew milestone states, and those that hold of the report;
\* inTime: its duration is below the maximum.
Stated(m) == {c \in {"duration", "errors", "tasks"} : m[c] # Nothing}
Holds(m, c, inTime) ==
  CASE c = "duration" -> inTime
    [] c = "errors" -> report.errors =< m.errors
    [] c = "tasks" -> Cardinality(report.completed) >= m.tasks

Reached(m, inTime) ==
  CASE m.kind = "task" -> m.task \in report.completed
    [] m.kind = "crew" -> Stated(m) # {} /\ \A c \in Stated(m) : Holds(m, c, inTime)
    [] m.kind = "external" -> inTime   \* what its tool answers

\* agents_involved is none of the report's fields; an agent of the report is no
\* dictionary; a duration that is missing cannot be printed.
RewardRaises(m, inTime) ==
  \/ m.kind = "task" /\ Reached(m, inTime)
  \/ m.kind = "crew" /\ "duration" \in Stated(m) /\ ~report.timed
  \/ m.kind = "crew" /\ Reached(m, inTime) /\ report.agents # {}

\* An exception leaves the milestones that follow without evaluation, and the
\* rewards that were granted before.
Evaluate(inTime) ==
  /\ qa = "evaluating" /\ at =< Len(Milestones)
  /\ LET m == Milestones[at] IN
       IF RewardRaises(m, inTime)
       THEN qa' = "raised" /\ UNCHANGED <<at, granted>>
       ELSE /\ at' = at + 1
            /\ granted' = IF Reached(m, inTime) THEN granted \union {at} ELSE granted
            /\ qa' = qa
  /\ UNCHANGED <<store, pc, analyzerVars, report, challenges, models>>

Next ==
  \/ Observe \/ NothingToAnalyze \/ SortRaises \/ EndOfTimeline
  \/ RedTeam \/ ParseReport \/ EndEvaluation
  \/ \E n \in 0..MaxUndated, u \in {0, 1} : Begin(n, u)
  \/ \E e \in Events : Process(e) \/ ProcessRaises(e)
  \/ \E inTime \in BOOLEAN : Evaluate(inTime)

Spec == Init /\ [][Next]_vars

-----------------------------------------------------------------------------
(* Properties.                                                             *)

Happened(type) == {i \in 1..Len(timeline) : timeline[i].type = type}
Ran(t) ==
  \E i \in Happened("task_started"), j \in Happened("task_finished") :
    i < j /\ timeline[i].task = t /\ timeline[j].task = t
LeftOpen(t) ==
  \E i \in Happened("task_started") :
    /\ timeline[i].task = t
    /\ \A j \in Happened("task_finished") : timeline[j].task = t => j < i
TaskNames == {e.task : e \in Events} \ {Nothing}
RanTasks == {t \in TaskNames : Ran(t)}

\* A report has a task as completed exactly if an end of it followed a start.
CompletedRan == report.made /\ timeline # <<>> => report.completed = RanTasks

\* It counts every error of the timeline and every task that was left open, and
\* the red team challenges each of them.
ErrorsAreTold ==
  report.made /\ timeline # <<>> =>
    LET mishaps == Cardinality(Happened("error")) + Cardinality({t \in TaskNames : LeftOpen(t)}) IN
      /\ report.errors >= mishaps
      /\ challenges # {} => \E c \in challenges : c.kind = "GeneralError" /\ c.count >= mishaps

\* The reward of a crew milestone was earned: as many tasks ran as it asks for,
\* with no more errors than it allows, whatever was lost on the way to the
\* report, and also if the evaluation broke off later.
RewardIsEarned ==
  \A n \in granted :
    LET m == Milestones[n] IN
      m.kind = "crew" =>
        /\ m.tasks # Nothing => Cardinality(RanTasks) >= m.tasks
        /\ m.errors # Nothing => Cardinality(Happened("error")) =< m.errors
        /\ m.duration # Nothing => timeline # <<>>

\* What a reader of the report, of the challenges and of the rewards relies on.
ReviewIsTrue == CompletedRan /\ ErrorsAreTold /\ RewardIsEarned

=============================================================================
