----------------------------- MODULE CrewManager ----------------------------
(***************************************************************************)
(* CrewManager: what it starts and shuts down, the agents that are added   *)
(* to it, their health, and the queue of events that one background task   *)
(* hands to every agent.  All of it runs on one event loop: an action is   *)
(* what happens between two awaits.                                        *)
(*                                                                         *)
(* Events have no order, but the queue is an asyncio.PriorityQueue: with   *)
(* two events in it the comparison raises in the middle of a heap          *)
(* operation.  What is left of the heap is modelled.                       *)
(***************************************************************************)
EXTENDS Integers, Sequences, FiniteSets

CONSTANTS
  Agents,   \* agents given to add_agent, by their names
  Mutable,  \* those of them that may have no can_handle_event; the CEP agent has it
  MaxEvents \* bound: events given to distribute_event

VARIABLES
  mute,      \* the agents without can_handle_event
  setup,     \* initialize()
  services,  \* what the manager started and has not ended
  agents,    \* the keys of self.agents, in the order of the dict
  health,    \* agent_health
  adding,    \* agents whose initialize() add_agent awaits
  given,     \* events distributed so far; they are numbered
  queue,     \* the heap
  processor, \* the await _process_events is suspended in
  round,     \* the event it hands round, the next agent, the size of the dict
  heard,     \* heard[a]: the events agent a was given
  ended,     \* events whose round went to its end: task_done was called
  down, pos, \* shutdown(), the agent being stopped and the size of the dict
  stopped    \* agents that were told to stop

setupVars == <<mute, setup, services>>
agentVars == <<agents, health, adding>>
eventVars == <<given, queue, processor, round, heard, ended>>
downVars == <<down, pos, stopped>>
vars == <<setupVars, agentVars, eventVars, downVars>>

Events == 1..MaxEvents
Services == {"pool", "registry", "monitor", "memory"}
States == {"none", "INITIALIZING", "READY", "ERROR", "SHUTDOWN"}
Nothing == [event |-> {}, at |-> 0, size |-> 0]
Known == {agents[i] : i \in 1..Len(agents)}

TypeOK ==
  /\ mute \in SUBSET Mutable
  /\ setup \in {"new", "registry", "memory", "up", "failed"}
  /\ services \in SUBSET Services
  /\ agents \in Seq(Agents) /\ health \in [Agents -> States] /\ adding \in SUBSET Agents
  /\ given \in 0..MaxEvents /\ queue \in Seq(1..given)
  /\ processor \in {"none", "get", "agent", "ended"}
  /\ round \in [event : SUBSET Events, at : 0..Cardinality(Agents),
                size : 0..Cardinality(Agents)]
  /\ heard \in [Agents -> Seq(Events)] /\ ended \in SUBSET Events
  /\ down \in {"no", "agents", "rest", "done", "raised"}
  /\ pos \in [at : 0..Cardinality(Agents) + 1, size : 0..Cardinality(Agents)]
  /\ stopped \in SUBSET Agents

Init ==
  /\ mute = {}
  /\ setup = "new" /\ services = {}
  /\ agents = <<>> /\ health = [a \in Agents |-> "none"] /\ adding = {}
  /\ given = 0 /\ queue = <<>> /\ processor = "none" /\ round = Nothing
  /\ heard = [a \in Agents |-> <<>>] /\ ended = {}
  /\ down = "no" /\ pos = [at |-> 0, size |-> 0] /\ stopped = {}

-----------------------------------------------------------------------------
(* initialize().  The agents it makes itself never get into self.agents:   *)
(* one reports no success, the constructors of the others raise.           *)

Initialize ==
  /\ setup = "new" /\ setup' = "registry"
  /\ services' = services \union {"pool"}
  /\ UNCHANGED <<mute, agentVars, eventVars, downVars>>

\* The registry runs; the health monitor is started before the memory managers.
RegistryStarts ==
  /\ setup = "registry" /\ setup' = "memory"
  /\ services' = services \union {"registry", "monitor"}
  /\ UNCHANGED <<mute, agentVars, eventVars, downVars>>

MemoryStarts ==
  /\ setup = "memory" /\ setup' = "up"
  /\ services' = services \union {"memory"}
  /\ UNCHANGED <<mute, agentVars, eventVars, downVars>>

\* The exception goes to the caller; what was started stays.
InitializeRaises ==
  /\ setup \in {"registry", "memory"} /\ setup' = "failed"
  /\ UNCHANGED <<mute, services, agentVars, eventVars, downVars>>

\* A manager whose initialize() raised is only shut down.
Up == setup = "up"

-----------------------------------------------------------------------------
(* Agents.                                                                 *)

\* add_agent up to the await; a name that is taken raises and changes nothing.
AddAgent(a) ==
  /\ Up /\ a \notin Known
  /\ \E m \in SUBSET (Mutable \intersect {a}) : mute' = mute \union m
  /\ agents' = Append(agents, a)
  /\ health' = [health EXCEPT ![a] = "INITIALIZING"]
  /\ adding' = adding \union {a}
  /\ UNCHANGED <<setup, services, eventVars, downVars>>

\* Its initialize() returns or raises, whatever became of the manager.
AgentAdded(a) ==
  /\ a \in adding /\ adding' = adding \ {a}
  /\ \E s \in {"READY", "ERROR"} : health' = [health EXCEPT ![a] = s]
  /\ UNCHANGED <<setupVars, agents, eventVars, downVars>>

\* A pass of the health monitor: nothing renews a heartbeat.
HealthPass ==
  /\ "monitor" \in services
  /\ \E stale \in SUBSET {a \in Agents : health[a] = "READY"} \ {{}} :
       health' = [a \in Agents |-> IF a \in stale THEN "ERROR" ELSE health[a]]
  /\ UNCHANGED <<setupVars, agents, adding, eventVars, downVars>>

-----------------------------------------------------------------------------
(* Events.                                                                 *)

\* The push on a heap that is not empty raises after it has appended the event.
\* Whether or not it raises, the event is in the heap; the first one, which
\* does not raise, starts the processor.
DistributeEvent ==
  /\ Up /\ down = "no" /\ given < MaxEvents
  /\ given' = given + 1
  /\ queue' = Append(queue, given')
  /\ processor' = IF processor = "none" /\ queue = <<>> THEN "get" ELSE processor
  /\ UNCHANGED <<setupVars, agentVars, round, heard, ended, downVars>>

\* The heap after a pop that raised: the first event is gone, the last one took
\* its place, and the sift stopped at its first comparison; with three events
\* the only child has moved up before it.
Popped(q) == IF Len(q) = 3 THEN Tail(q) ELSE <<q[Len(q)]>> \o SubSeq(q, 2, Len(q) - 1)

\* Mutant of Grown: the loop is over a copy of the agents.
NeverGrown(size) == FALSE
\* The next step of a loop over a dict that has grown raises.
Grown(size) == Len(agents) # size

RoundOver == processor' = "get" /\ round' = Nothing

\* The loop over the agents, from position i to its next await or its end: every
\* agent that has can_handle_event is given the event; one that has not raises
\* and ends the round for those behind it.
HandRound(e, i, size) ==
  \/ i > size /\ RoundOver /\ ended' = ended \union {e} /\ UNCHANGED heard
  \/ i =< size /\ agents[i] \in mute /\ RoundOver /\ UNCHANGED <<ended, heard>>
  \/ /\ i =< size /\ agents[i] \notin mute
     /\ processor' = "agent" /\ round' = [event |-> {e}, at |-> i, size |-> size]
     /\ heard' = [heard EXCEPT ![agents[i]] = Append(@, e)]
     /\ UNCHANGED ended

\* get() returns the first event.
GetEvent ==
  /\ processor = "get" /\ Len(queue) \in 1..2
  /\ queue' = Tail(queue)
  /\ HandRound(Head(queue), 1, Len(agents))
  /\ UNCHANGED <<setupVars, agentVars, given, downVars>>

\* get() raises, and the loop of the task goes on.
GetRaises ==
  /\ processor = "get" /\ Len(queue) >= 3
  /\ queue' = Popped(queue)
  /\ UNCHANGED <<setupVars, agentVars, given, processor, round, heard, ended, downVars>>

Onward ==
  IF Grown(round.size) THEN RoundOver /\ UNCHANGED <<ended, heard>>
    ELSE \E e \in round.event : HandRound(e, round.at + 1, round.size)

AgentReturns ==
  /\ processor = "agent"
  /\ Onward
  /\ UNCHANGED <<setupVars, agentVars, given, queue, downVars>>

\* Mutant of AfterRaise: the exception ends the task.
TaskEnds == processor' = "ended" /\ round' = Nothing /\ UNCHANGED <<ended, heard>>
\* process_event raises: the round goes on with the next agent.
AfterRaise == Onward

AgentRaises ==
  /\ processor = "agent"
  /\ AfterRaise
  /\ UNCHANGED <<setupVars, agentVars, given, queue, downVars>>

-----------------------------------------------------------------------------
(* shutdown().                                                             *)

AgentLoop(i, size) ==
  /\ down' = IF i > size THEN "rest" ELSE "agents"
  /\ pos' = [at |-> i, size |-> size]

\* Both tasks are cancelled; both are at an await, where that ends them.
Shutdown ==
  /\ setup \in {"up", "failed"} /\ down \in {"no", "done", "raised"}
  /\ processor' = IF processor = "none" THEN "none" ELSE "ended"
  /\ round' = Nothing
  /\ services' = services \ {"monitor"}
  /\ AgentLoop(1, Len(agents))
  /\ UNCHANGED <<mute, setup, agentVars, given, queue, heard, ended, stopped>>

\* To the next agent; if one was added meanwhile, out of shutdown().
NextAgent ==
  IF Grown(pos.size) THEN down' = "raised" /\ UNCHANGED pos
    ELSE AgentLoop(pos.at + 1, pos.size)

StopReturns ==
  /\ down = "agents"
  /\ stopped' = stopped \union {agents[pos.at]}
  /\ health' = [health EXCEPT ![agents[pos.at]] = "SHUTDOWN"]
  /\ NextAgent
  /\ UNCHANGED <<setupVars, agents, adding, eventVars>>

\* Mutant of AfterFailedStop: the try is around the loop.
LoopGivenUp == down' = "rest" /\ UNCHANGED pos
AfterFailedStop == NextAgent

StopRaises ==
  /\ down = "agents"
  /\ stopped' = stopped \union {agents[pos.at]}
  /\ AfterFailedStop
  /\ UNCHANGED <<setupVars, agentVars, eventVars>>

\* The registry, the connections and the memory managers.
RestEnds ==
  /\ down = "rest" /\ down' = "done"
  /\ services' = {}
  /\ UNCHANGED <<mute, setup, agentVars, eventVars, pos, stopped>>

\* The close of the connections raises: the memory managers stay.
RestRaises ==
  /\ down = "rest" /\ down' = "raised"
  /\ services' = services \ {"registry"}
  /\ UNCHANGED <<mute, setup, agentVars, eventVars, pos, stopped>>

-----------------------------------------------------------------------------

SetupStep == RegistryStarts \/ MemoryStarts
ProcessorStep == GetEvent \/ GetRaises \/ AgentReturns
DownStep == StopReturns \/ RestEnds

Next ==
  \/ Initialize \/ SetupStep \/ InitializeRaises
  \/ \E a \in Agents : AddAgent(a) \/ AgentAdded(a)
  \/ HealthPass
  \/ DistributeEvent
  \/ ProcessorStep \/ AgentRaises
  \/ Shutdown \/ DownStep \/ StopRaises \/ RestRaises

Spec == Init /\ [][Next]_vars

\* The processor is resumed when an event is there and when an agent is through.
Fairness == WF_vars(ProcessorStep)

-----------------------------------------------------------------------------
(* Properties.                                                             *)

Times(e, a) == Cardinality({i \in 1..Len(heard[a]) : heard[a][i] = e})

\* An event whose round came to its end was given to every agent there is by
\* then, and once, although agents are added while others have the event, some
\* raise, and pops that raise have left a heap in disorder.
RoundReachesAll ==
  [][\A e \in ended' \ ended : \A a \in Known : Times(e, a)' = 1]_vars

\* When shutdown() has returned, everything initialize() started has ended,
\* also where it failed half-way, no event is handed round any more, and every
\* agent the loop has covered was told to stop, whatever the stop of others did.
DownIsQuiet ==
  down = "done" =>
    /\ services = {} /\ processor \in {"none", "ended"}
    /\ \A i \in 1..pos.size : agents[i] \in stopped

\* Until the shutdown, and once the events stop, the queue does not stay filled:
\* whatever agents and the heap raise, the task comes back for the next event.
QueueIsWorkedOff ==
  (queue # <<>> /\ down = "no") ~> (queue = <<>> \/ down # "no")

=============================================================================
