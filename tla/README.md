# Formal model of the agent interoperability system

This directory holds TLA+ specifications of the coordination core of the repository: the
agents that hand out tasks, keep the service registry and reputations, and agree on
transactions. The specifications are translated from the Python code in `src/` (paths
below are relative to `src/agents/`, with IC = `infrastructure_crew`,
MC = `marketing_crew`). TLC checks them on small instances; TLAPS proves the central
invariants for every value of the constants.

## 1. The system and its parts

Everything below runs on asyncio. Within one process only one coroutine runs at a time and
it is interrupted only at an `await`; this is the grain of the models: **an action is what a
coroutine does from one await to the next**, and every interleaving at the awaits is a
behaviour. State outside the process (Redis lists, keys, channels) changes in one step per
command or per MULTI pipeline.

| Component | State | Operations | Interacts through | Hard behaviours | Status |
|---|---|---|---|---|---|
| TaskOrchestrationAgent, contract net (`IC/infrastructure_agents/task_orchestration_agent.py`) | `tasks`, `active_cfps`, `cfp_bid_collection_tasks`, `task_result_listeners`, `redis_pool` | `submit_task`, `update_task`, `_initiate_cfp`, bid collection, award, result listener, `start`, `stop` | Redis channel for CFPs, one bid list and one result list per task, one award list per worker; calls `record_rating` | overlapping rounds, objects held over awaits, Redis failing, timeouts, shutdown | modelled |
| direct dispatch + BaseWorkerAgent (same file, `IC/common/base_worker_agent.py`) | `tasks`, the worker's subscription and loop | `_direct_dispatch_task`, `_handle_available_task`, `start`, `stop` | pub/sub channel; the worker calls `update_task` | several workers claim one broadcast, a worker dies at work, dispatch fails after delivery | modelled |
| RegistryManagerAgent (`IC/infrastructure_agents/registry_manager_agent.py`) | Redis: service keys, crew and capability sets, profiles, rating lists, learnings; the monitor task and its event | register, heartbeat, unregister, monitor, `record_rating`, publish and delete learnings, lookups | Redis; called by crews and by the orchestrator | read-then-write operations racing, monitor racing heartbeats | partly (no queries; a subclass has to complete the class, section 5) |
| Blockchain package (`IC/blockchain/`) | votes, transactions, pending list, contracts, event history | propose, vote, wait, create, confirm, reject, deploy, pause, terminate, emit | method calls, listeners | wait racing votes and timeout, any order of confirm/reject, listeners interleaving | partly (`execute_contract` runs foreign code) |
| Agent lifecycle (`IC/common/base_agent.py`) | `initialized`, tasks | `initialize`, `start`, `stop` | every agent | overlapping initialization, restart | partly, inside the models above |
| BasicWorkerAgent (`IC/infrastructure_agents/basic_worker_agent.py`) | `is_running`, `redis_pool`, `pubsub_client`, `_tasks`, two listeners, detached executions | `start`, `stop`, bid, execute, report | the contract net messages | errors and cancellation at any await of a listener, execution detached from the loop | modelled; in ContractNet bidders are external clients |
| CrewManager (`IC/infrastructure/crew_manager.py`) | `agents`, `agent_health`, `event_queue`, processor and health tasks, what it started | `initialize`, `add_agent`, `distribute_event`, the processor, the health monitor, `shutdown` | starts the registry and the memory managers, hands events to agents | iteration over a dict that grows, a priority queue whose entries do not compare, shutdown with failing agents | partly (methods that pass a call on are left out; the file cannot be imported as it stands, section 5) |
| MemoryManager (`IC/infrastructure/memory/memory_manager.py`) | cleanup lock, monitor and periodic tasks | monitor, handle pressure, clean up, evict, shutdown | events to Redis | locks held over awaits, tasks cancelled at any await, a cancellation lost to another exception | modelled |
| Marketing swarms (`MC/swarms/`) | the managers' `running` and threads, one list per worker, `worker_results` | subscribe, forward, take, work, send, callback | Redis lists, one channel, HTTP callbacks | a thread that tests a flag its creator sets later, exceptions between announcing and handing on | modelled |
| Instruction worker (`MC/start.py`, `MC/api.py`) | `received_consensus`, the lists it reads and fills | take, publish, collect, answer, simulate | Redis lists, the swarms' channel | answers that are late, doubled or missing, instructions popped and lost | partly (queries of the API are left out) |
| Queue workers (`MC/` workers for simulation, corn flakes, inventory, promotions, marketing) | seven lists, messages in hand | take, announce, run a crew, push, report | Redis lists, `api_queue` | messages popped and lost, failures between two pushes | modelled |
| Swarm memories (`MC/` agent, swarm and company memories) | list of memories, one JSON file each | load, create, evaluate, save | files | a crash or an error within a write | modelled |
| RL and federated learning | simulated stock, outstanding orders, replay buffer, policy versions, policy files | step, reset, train, save; add, sample, clear | files, registry | two sequences matched by position, orders that overlap | partly (floating point learning left out) |
| QA, red team and their tools | the analyzer's bookkeeping, report, challenges, rewards | observe, analyze, challenge, evaluate | tool results passed from agent to agent | events in any order, exceptions that end a review half-way | partly |
| TeamMemoryManager, StateAgent, CEPAgent, RulesAgent, TranslationManager | – | – | – | – | not modelled: cannot be imported or instantiated (section 5) |
| LLM wrappers, knowledge graph, crews, admin application | – | – | – | single requests, prompts, I/O | not modelled |

What makes each part correct: a call for proposals never loses its collector and no task is
left in a status nobody will change; an assignee was told and the one who did the work is the
one rated; a task shown in progress is being worked on; the registry's indexes and records
agree, stale services go and ratings are counted; a positive answer of the consensus means a
quorum, the pending list is exact and confirmed is final; an event
reaches every agent, and a shutdown leaves nothing running; what a user is told of a message comes first and
comes once; a memory that was kept is found again; stock, priorities and reports are true of what
happened. `PROJECT.json` lists the hazards at
their lines with the properties that watch them.

## 2. Modules

### TaskStore

The dictionary `tasks` **and the objects in it**. `update_task` stores a modified *copy*
(`task.copy(update=...)`), while a coroutine that fetched the former object before an await
goes on assigning to that one and stores it again. `obj[t][v]` is the v-th object made for
task `t`, `cur[t]` the one `tasks[t]` refers to. `Store`, `StoreAssigned`, `FailUnlessFinal`,
`Create` and `Replace` are the assignments the handlers are made of. Data, priority,
timestamps, results and `agreed_cost` are left out.

### ContractNet

One **chain** `<<t, v>>` is the sequence of coroutines that starts when object `v` of task `t`
is put up for bids: `_initiate_cfp`, then `_schedule_bid_collection` /
`_collect_and_evaluate_bids`, then `_listen_for_task_results`. `pc[t][v]` names its await:

| pc | suspended in |
|---|---|
| `publish` | `publish` of the CFP in `_initiate_cfp` |
| `sleep` | the sleep until the bid deadline |
| `lrange`, `delete` | fetching and clearing the bid list |
| `rpush`, `pushed` | pushing the award, before and after it reached the winner's list |
| `created` | the listener task exists and has not run yet |
| `blpop` | waiting for a result |
| `rating` | `record_rating` |

`ref` is the object the coroutine holds as `task`, `held` the bids it holds. `collReg` and
`lisReg` are the dictionaries of asyncio tasks, which name at most one chain per task: that
several chains of one task are alive while the dictionaries name one of them is where the
trouble is. Every await has a `...Returns` and a failing action (`PublishRaises`,
`CollectRaises`, `RpushRaises`, `ListenerRaises`, `ListenerTimesOut`). `stop()` is modelled as it
is written: a snapshot of each dictionary, cancellation one by one, each awaited; its steps take the
snapshots in any order.

Notes on the translation. `_connect_redis` is not defined by the class: a subclass has to give
it, and `Start` is that hook succeeding. The branch at line 224 and the branches for a missing
task cannot be reached, since tasks are never removed. Evaluation sorts by cost, then by hours, both ascending with a missing value last; of
bids that compare equal the first pushed leads. A value that is no number compares with nothing, so that the sort has no order
to follow: `SortedFirst` then allows any bid that has the field. A winning cost that is no number makes the AwardMessage fail to validate.
Bidders and awarded workers are external: they may bid once per CFP they received, at any later time,
and answer an award once or never, with a success, a failure, a message that does not validate, or JSON that is no
object, on which the listener's handler raises, stores FAILED and ends.

Two of the properties have a boundary. `AwardeeIsTold` is about the worker an AWARDED task *shows*: one live chain has sent, or is sending,
the award to just that worker and waits for its result. `BiddingEnds` excuses one state by name (`CallTakenByOtherRound`), which is
the first disagreement of section 3: the task is CFP_ISSUED, has no active call, and two of its calls were published.
Every other round must leave the bidding, overlapping or not.

### DirectDispatch

Extends TaskStore with `_direct_dispatch_task` and the subscriber loop of BaseWorkerAgent.
Orchestrator and workers share the process (the worker is given the orchestrator object), so
a claim is one step with `update_task`. The channels are constants: the *defaults* of the two
classes differ (`base_worker_agent.py:19`, `task_orchestration_agent.py:40`), and with different
channels nothing is ever delivered; the runs take equal ones. A broadcast reaches whoever
listens at that moment. The worker's final report goes into a field of the copy that
`TaskDefinition` does not have and is not modelled.

### RegistryManager

Service keys with the age of the last heartbeat, the crew and capability sets as one set
`index` (every pipeline treats the two alike), the monitor's loop with a step per Redis call,
`record_rating` with its read and its transaction, and learnings. The average is kept as the
sum it stands for. `HeartbeatAges` lets time pass at any moment, also within a pass, which
over-approximates the threshold the code takes at the start of a pass.

### BasicWorker

One BasicWorkerAgent: `isRunning`, `pool` and `client` are its fields, `cfps` and `awards` the awaits
its two listeners are suspended in, `call` the await of `start()` or `stop()`. `stop()` marks the
live listeners in `cancelled`, and the cancellation is raised where each of them happens to
be: before its first step nothing runs, in its clean-up it cuts that short, anywhere else it leads to the
clean-up. `work[t]` follows an award from the list to the pushed result; the execution is a
coroutine of its own, which outlives the listeners and meets whatever pool there is when it
is done. Workers share nothing, so one is enough.

Notes on the translation. `_connect_redis` does nothing while the pool is set, and the listeners
only call it then: after a ConnectionError the CFP listener makes a new client on the old pool, the
award listener just tries again. The subscribe in the except clause (line 109) and the first one
(line 96) are not inside the try of the loop: one that raises ends the CFP listener for good,
although the comments at 106-111 speak of trying to reconnect, and the worker runs on without it
(`ListenersServe` states exactly this). The name `random` is imported only when the file is run
as a script; imported, the worker neither bids nor executes. The model is of the script.
`start()` and `stop()` are called one after the other, as `main` and `tests/run_contract_net_test.py` do;
overlapping calls are not modelled.

### Blockchain

ConsensusManager (`Propose`, `Vote`, the polling of `wait_for_consensus`), TransactionManager
and SmartContract with its interface. `emit_event` awaits its listeners one after the other;
`emitting` are the emissions under way and `heard` who was called. Two proposals made in the
same instant under one id are not modelled.

### TaskOffers

TaskOffers is what handing out work by broadcast promises, without objects, queues or calls: a task is announced
when it becomes open and at no other time; a worker begins only what was offered to it; a task is shown
busy only by a worker that begins it; a worker that gets to the end shows it; a worker may vanish with
its offers and its work. It does *not* promise that a claim is exclusive. DirectDispatch instantiates it with the mapping:
`shown` from the status of the current object, `unsent` and `sent` from the awaits of the dispatching coroutines, `offers` from
the workers' inboxes, `doing` from who executes. TLC checks `ImplementsTaskOffers` on the instance of
`DirectDispatch_live`, and TLAPS proves it.

### CrewManager

`initialize()` with the points where it raises and what it leaves running then, `add_agent`, the health monitor, the
processor and `shutdown()`. Events cannot be compared, so the `PriorityQueue` raises in the middle of a heap operation as soon as
it holds two: a push appends and then raises, a pop loses its place in the heap. The model has the heap this
leaves, so events may be handed round in another order than they came in. The agents `initialize()` would create itself never get into `agents`:
their constructors raise or report no success. `Grown` is Python's "dictionary changed size during iteration".

### MemoryManager

The monitor, the periodic clean-up (which calls a method that does not exist and retries for ever), callers
of `handle_memory_pressure`, and `shutdown()`. `_cleanup_lock` is a queue of holders; the clean-up is the list of the events it sends,
with one await for each. A cancellation is raised at the await the monitor is in, wherever that is: waiting for the lock,
in the eviction, whose `finally` still tells the end, or anywhere else.

That `finally` (`memory_manager.py:267-276`) awaits again. When its event raises, the exception takes the place of the CancelledError on its way and
`handle_memory_pressure` swallows it (line 238): the cancellation is lost (`swallowed`), the `while True` of the monitor goes on, and the `gather` of
`shutdown()` (line 475) never returns. The model has this (`Ends`, `Leave`); `ShutdownReturns` says that `shutdown()` returns in every other case, and
`CancellationArrives`, a part of `ShutdownIsOrderly`, that a monitor can outlive its cancellation in no other way.

### MemoryFiles

The memories of a worker, a swarm and the company: a list and one JSON file per memory, written in place.
A torn file makes the constructor raise, so `KeptIsFound` says that what `create_memory` returned is in the list of any object that can be made
afterwards, over crashes between any two steps.

### QueueWorkers

Seven programs as one module and a table: the list each reads, the lists it pushes to and in which
order, how often it reports an error, how many messages it has in hand. `Opened` has what each does with a message that is not JSON. A push that
raises may have reached the list or not; a process may die with what it has popped.

### Sarah

The instruction worker of `start.py`: publish the metrics, collect one consensus from each swarm or run into the
300 seconds, tell the user, tell the simulation. A consensus message does not say which instruction it answers, so an answer that is late
counts for the next instruction; that is in the model, and no property denies it.

`blpop` takes an instruction off the list before anything is known of it. When its reply does not arrive, `main()` logs the RedisError and goes
on (`start.py:333`, 341-345); when it is not JSON, nothing catches the JSONDecodeError (line 335) and the worker ends, as it does on an interrupt. None of this is
reported to anybody: `TakeFails` and `Interrupted` put the instruction into `lost`, which `InstructionAnswered` excuses by name, as it does
entries Redis refused and a worker that nobody starts again (`Restart`). Whatever a handler got and did not lose with its process has an outcome.

### Swarm

The three swarms as one module; what differs between them is a table at its head (when the manager sets its flag, what
the translator makes, which callbacks raise, who complains to `error-queue`). The crew's answers are abstracted to whom an
output names: the product and inventory translators name nobody a worker looks for, so their tasks are popped and dropped;
`PushFromOutside` stands for other programs that push a task that names a worker, or a result with a worker's name, to one of the lists. No
worker of these two swarms ever gets a result out of its crew, also for such a task: the callback of the product crew's tasks is called without a Redis client
(`product_agent/agent/worker_crew.py:72`), and the inventory crew builds its agent with the `Agent` of the swarm memory, which shadows the one of
crewai (`inventory/agent/worker_crew.py:9`); both raise, and `run()` logs it (`ProductResult`, `InventoryResult`). In the promotional swarm one of
the two results lacks its name and the other is never sent. So consensus is reached only with results from outside. The consensus is pushed without its first argument,
which raises, and the results are not reset.

### InventorySim

The simulated stock with outstanding orders, the loop of episodes, and the files of policies at the end. What the agents
choose is any action they have. With a registry the trainer raises `NameError` before its `try`, after the first file.

### Replay

The replay buffer and its priorities, two bounded deques matched by position, and the optimizer's versions and
history. `clear(agent_id)` keeps the priorities from the front, so they are out of step if one of that agent's experiences came before
another agent's: the history variable `shifted` says so, and `DrawnByOwnPriority` excuses exactly that until the next `clear()`.

### CrewReview

What the step callback stores, the analyzer's pass over a timeline, the red team's challenges and the QA agent's
rewards. Times are left out; a duration is above or below its threshold. `Raises` has the events on which the
analyzer fails on a name or a key that does not exist, `RewardRaises` the same for the rewards.

## 3. Runs

| Run | Instance | Checks |
|---|---|---|
| `ContractNet_races` | 1 task, 1 worker, 2 updates (3 rounds), failures, 1 stop and restart, replies that succeed or do not validate; 1.5 million states | TypeOK, CfpHasCollector, InHands, AwardeeIsTold, RatingsBackedByReplies |
| `ContractNet_live` | 1 worker, 2 updates (3 rounds, which may overlap), bids with a price, without one and with one that is no number, replies that report a failure or are no object, Redis failures, fairness | BiddingEnds, AwardIsDecided |
| `ContractNet_reissue` | 2 updates | violated: CfpIssuedAwaitsBids |
| `ContractNet_rating` | 2 workers, 1 update | violated: RatedAgentDidTheTask |
| `DirectDispatch_live` | 3 workers of which 2 match, 1 further caller, worker loops end once | TypeOK, InProgressIsWorkedOn, OfferIsTaken, StartedIsFinished, ImplementsTaskOffers |
| `DirectDispatch_claim` | 2 workers | violated: ClaimIsExclusive |
| `RegistryManager_live` | by part: 1 service with 2 heartbeats, 2 ratings, 1 learning, 1 failure; 2 episodes of 4 days with 2 SKUs; a buffer of 3 for 4 experiences of 2 agents; timelines of 4 events; 812 000 states | PartsTypeOK, IndexEntriesResolve, ProfileOfRealRatings, StaleIsPruned, StockBooksBalance, ReplayIsConsistent, ReviewIsTrue |
| `RegistryManager_found` | 1 service, 1 heartbeat | violated: ActiveServicesAreFound |
| `RegistryManager_count` | 2 ratings | violated: AllRatingsCounted |
| `BasicWorker_live` | by part: 2 tasks, one of the awards for somebody else, 2 starts, 2 failures; 2 messages, one not JSON, 1 crash; 2 instructions, 2 swarms, 3 answers, one of which may be a stranger's, with instructions lost, a worker that ends and is started again; 1 update and 2 tasks in each kind of swarm | PartsTypeOK, StoppedIsQuiet, ListenersServe, AwardIsTakenUp, UserIsTold, QueuedIsServed, OneOutcome, InstructionAnswered, AnnouncedFirst, RunningListens, SwarmComesToRest |
| `Blockchain_live` | by part: 1 proposal, 2 voters, quorum 2, 1 wait, 1 transaction, 1 contract with 2 listeners; 2 agents, 3 events; 2 callers and 1 pass under pressure; 2 memories in files | PartsTypeOK, AgreedHasQuorum, PendingIsListed, EventsAreHeard, RoundReachesAll, DownIsQuiet, QueueIsWorkedOff, ShutdownIsOrderly, ShutdownReturns, KeptIsFound |
| `Blockchain_finality` | 1 transaction | violated: ConfirmedIsFinal |

The last three `_live` runs each check several independent components, **one per behaviour**: the initial state
chooses `part`, only that part takes steps, and the variables of the others keep their initial values.
Their states add up instead of multiplying, and a property of a part is checked as if it were
alone (its fairness is conditional on the part).

**Bounds.** Every bound is a constant named in its module (`MaxUpdates`, `MaxStops`, `MaxCalls`,
`MaxDowns`, `MaxBeats`, `MaxStarts`, `MaxFailures`, `MaxConfirmations`, `MaxEvents`, `MaxRaises`,
`MaxDistributed`, `MaxPasses`, `MaxMisses`, `MaxSwarmMisses`, `MaxCrashes`, `MaxInstructions`, `MaxAnswers`,
`MaxTasks`, `EpisodeLength` (200 days in the code), `Episodes`, `MaxSize`, `MaxExperiences`, `MaxUndated`,
`MaxSteps`). Tasks share
no state but the dictionaries, which are keyed by task, and the `stop()` loop; the races are
among the chains of one task, so one task with three chains is the interesting instance.
Services meet only in the monitor's pass, which is a loop over independent keys. Three
chains are needed for a chain to be cleaned up by another and registered again by a third.
`ContractNet_races` and `ContractNet_live` have one worker: what the registers and statuses depend on is which chain does
something, and an award is told apart by the chain that pushed it. That an award can go to another worker than
an earlier one is in `ContractNet_rating`, with two, and in the proofs. `ContractNet_live` has the two updates that let three rounds overlap,
so that the case `BiddingEnds` excuses does occur in it. Deadlock is not
checked (`CHECK_DEADLOCK FALSE`) where every call has been made and every coroutine has ended:
the system then really is at rest; so is a training that has saved its policies, and a review that is over.

Three distributed events are the fewest with which a pop finds a heap that is out of order; two agents
suffice for one to be added while the other has an event. One message can be in each state of each queue worker,
a second one shows that the worker comes back. Two outstanding orders of one SKU need a lead time of two days and an episode longer
than that; the second SKU has the cases at the edge, no lead time and more stock than fits. A buffer of three that is given four
experiences drops its oldest, and can be cleared of an agent in the middle. Four events are a start and an end of a task with
something in between that repeats or contradicts one of them.

**Fairness.** Weak fairness of a chain's steps (`ChainProgress`): the event loop resumes a coroutine whose
timer fired or whose reply came, and each wait of a chain is bounded by one of the two. The
failing alternatives are not among them, except where the pool is gone and every call raises: no
property holds because Redis was bound to fail. The listeners, `start()` and `stop()` of BasicWorker
are fair in the same way. Weak
fairness of a worker's steps (`WorkerStep`): its loop polls every 10 ms and `execute_task` returns. Weak
fairness of `MonitorStep` and `NotifyStep`: the interval ends and a called listener returns. Weak fairness of MemoryManager's
`CoroutineStep`: *some* coroutine whose timer fired, whose event was taken or whose turn with the lock it is goes on. Weak fairness of
CrewManager's `ProcessorStep` (the task is resumed when an event is there) and of the `FairStep` of QueueWorkers, Sarah and Swarm:
*some* worker process or thread with something to do goes on, and the 300 seconds of `start.py` pass; the bounded number of messages makes
that enough. No fairness is assumed of callers,
bidders, awarded workers, failures, `start` or `stop`. That failures of Redis are
bounded in the registry run means that Redis recovers.

**Disagreements met.** Six runs show the code contradicting what the repository says of it
(quoted in `PROJECT.json`, "findings"):

1. `_initiate_cfp` tests for an active call (line 220), awaits the publish (244) and enters the call afterwards. An update to PENDING
   and another to READY while that publish is in flight start a second initiation, which passes the test too. When its publish returns
   only after the deadline of the first call, while the first round pushes its award, its entries replace the first's, and the clean-up of the first
   round (446-449) removes them. Its collector finds no call at the deadline, and the task stays `CFP_ISSUED` with no call open, until another update, or
   until the first winner stays silent and the time-out of its listener stores FAILED; an answer of that winner is ignored. (Put up again during the push
   itself, the task would still be in `active_cfps` and line 220 would return.)
2. The result of an earlier winner is rated on the present assignee.
3. A claim of a broadcast task always succeeds: all receivers execute it.
4. A heartbeat racing an unregistration brings the service back without its index entries.
5. Of two overlapping ratings of one agent one is lost.
6. A confirmed transaction can be rejected.

Further places where the code contradicts its names, comments or callers are part of the models, and the properties are stated
around them:

- The event subscriber's events carry `type`, the analyzer wants `event_type`: without the callback's own store a report says
  that there was no valid event. Any execution of an agent, and a failed use of a tool, makes the analyzer raise, so a report never shows one.
- A task milestone that is met raises on a field the report does not have, so its reward is never granted; what was granted before
  stays. With its placeholder models the QA agent cannot parse any report.
- `initial_outstanding_orders` is not read, and an order without lead time never arrives.
- `clear(agent_id)` misaligns priorities, and `reset_policy` gives out versions again that the history has.
- The docstring of MemoryManager's `shutdown()` says "gracefully shut down": an event that raises in the `finally` of a cancelled clean-up
  makes it wait for ever (section 2).
- An instruction that is not JSON ends the instruction worker, and one whose reply is lost is gone, both without a report (section 2).
- The product swarm starts its listener thread before it sets the flag the thread tests; `RunningListens` leaves that swarm out.
- The queue workers' comments speak of a reliable queue, and `blpop` takes the message away: `QueueWorkers!Crash` loses it.
- `load_policies` looks for other file names than the trainer saves; the federated server's rounds refer to one file that each of them
  overwrites; `run_qa_client` imports from a directory of another name. These are not modelled.

## 4. Proofs

Every safety property that a run checks is also proved, for every value of the constants; what is left to
TLC alone is liveness.

| Module | Theorem | For every |
|---|---|---|
| `ContractNetProofs` | `TypeCorrect`, `CollectorsAlive` (CfpHasCollector), `TasksInHands` (InHands), `WinnersTold` (AwardeeIsTold), `RatingsBacked` (RatingsBackedByReplies) | set of tasks and workers, bids, updates, stops, failing or not |
| `DirectDispatchProofs` | `TypeCorrect`, `StartedTasksAreWorkedOn` (InProgressIsWorkedOn), `DispatchImplementsOffers` (ImplementsTaskOffers) | set of tasks and workers, channels, matches, bounds |
| `WorkerProofs` | of BasicWorker `TypeCorrect`, `QuietWhenStopped` (StoppedIsQuiet), `ServesWhileRunning` (ListenersServe); `SwarmAnnounces` (AnnouncedFirst), `SwarmListens` (RunningListens), `SarahTellsOnce` (OneOutcome), `WorkersTellTheUser` (UserIsTold), `PartsTypeCorrect` | set of tasks, awards, messages, swarms, crashes and failures |
| `InfrastructureProofs` | `BlockchainTypeCorrect`, `AgreementHasQuorum`, `PendingListExact`, `StatusIsAnnounced`; `MemoriesAreFound` (KeptIsFound), `MemoryShutsDown` (ShutdownIsOrderly), `CrewShutsDown` (DownIsQuiet), `RoundsReachAll` (RoundReachesAll), `PartsTypeCorrect` | set of proposals, voters, transactions, contracts, listeners; agents, events, callers, memories |
| `RegistryManagerProofs` | `IndexesResolve` (IndexEntriesResolve), `RegistryTypeCorrect`, `ProfilesAreReal` (ProfileOfRealRatings), `ReplayStaysConsistent` (ReplayIsConsistent); `StockIsBalanced`, `ReviewsAreTrue`, `PartsTypeCorrect` | set of services, ratings, scores; agents, priorities, sizes and updates of the buffer |
| `InventorySimProofs` | `SimTypeCorrect`, `OrdersArrive` (NoOrderIsLate), `BooksBalance` (StockBooksBalance) | SKUs, stocks, capacities, lead times, demands, episodes |
| `CrewReviewProofs` | `ReviewTypeCorrect`, `CompletedTasksRan` (CompletedRan), `ReviewTellsTheTruth` (ReviewIsTrue) | set of events and milestones, and every timeline |

**Assumptions.** The theorems rest on the named assumptions of the modules (`StoreAssumption`, `ContractNetAssumption`, ...:
bounds are naturals, absent values are not members, update statuses are those a caller may set), which TLC evaluates in
every run. A component that the MC modules instance has its assumption as a definition `ConfigAssumption`; the theorems of
its proof module have it as a hypothesis, and `PartsAssumption` of the MC module assumes it of the instance that is run.
One theorem has a hypothesis about the callers: `WinnersTold` assumes that no call of `update_task` gives a task another
`assigned_to` (`UpdateAssignees \subseteq {Keep}`). Such a call makes somebody the assignee without an award by its own will, and the
property could not be expected; no caller in the repository does it to a task under bids (workers claim
broadcast tasks that way, which is DirectDispatch).

**Folds.** Counts, sums and filters are folds of the community modules, which are defined by recursion. FoldLemmas holds the lemmas
on what they compute, which the theorems of RegistryManagerProofs cite: a sum that does not depend on the order (`FoldIsSum`, with lemmas on taking an element out, splitting a set, and equal
functions), and the elements of a sequence that are in a set, in their order (`FoldIsFilter`). The prover cannot use an induction
theorem that takes an operator, so these proofs take the smallest set, or number, at which the claim would fail, from the
well-foundedness of strict inclusion and of the naturals. `SelectSeq` is built into the prover without a definition; Replay therefore filters
with a fold of its own (`Only`).

*ContractNet.* `IInv` strengthens CfpHasCollector and InHands by four facts: a chain runs for
an object that has been made and holds such an object (`MadeFirst`); a chain about to push
holds the winning bid (`HoldsWinner`); a registered listener is past the bidding
(`ListenersPastBidding`), so that stopping or ending it takes no collector away; and a stop under way has
been counted (`StopCounted`), which is what lets InHands excuse it. CfpHasCollector alone is not
inductive because a collector that ends removes the entry of its *task*, not its own: one
needs that the entry of the call goes with it in the same step. InHands needs that a
chain in `rpush` or `lrange` cannot be overtaken by the cancellation of another without the
status being changed. A first section of lemmas says what each shared assignment changes, one lemma
per action then shows that the action keeps `IInv`. AwardeeIsTold is inductive together with
`IInv` (`AwardOnItsWay`): the chain that holds the winning bid goes on to wait for the result, and every way out of it stores another status; a chain
that is overtaken by an update or a stale object no longer shows its award.
RatingsBackedByReplies follows from where the replies are (`RepliesLast`): each that was sent is still in the task's result
list or was consumed, by at most one listener and one rating.

*DirectDispatch.* `DispatchedExists` (what is being dispatched has been made) is the
strengthening; the argument is that a claim replaces the object, so the assignee shown is
always the latest claimer, who is executing until its report replaces the object again. In the refinement every action is one abstract step or
a stutter; a section of lemmas says how each abstract variable changes with the concrete ones. The invariant is needed where TaskOffers
asks for a fresh announcement (an object just made was never dispatched) and for an idle worker (one that listens executes nothing).

*Registry.* IndexEntriesResolve is inductive with the types of the two variables: both
transactions change key and index together, and a heartbeat only ever creates a key. A profile is real because what a call
of `record_rating` has read is a real profile too (`RealRatings`), and stays one while the call waits: executed calls are never undone. The
call itself is not executed yet, so its rating is not among those counted. With a first rating the code sets the average instead
of adding to it; that is the same because a profile without ratings has the sum zero.

*Replay.* `ReplayInv` has the pairing of the two deques (`Paired`), that experiences are distinct (`Numbered`, without which an update of one
priority could be that of another), and that an agent's updates end with those up to its version (`Following`). After `clear(agent_id)` the
deques are as long as each other again; if nothing of that agent was before anything of another, the filter kept a prefix, and so does `Rebuilt`.

*InventorySim.* An outstanding order has a day from today on and less than the lead time away: the arrivals of a day are
removed before its orders are placed and the day moves on. That also makes an order placed different from all that wait, so
that the set does not swallow its units. `Balanced` is the balance of one SKU with what holds before the first day.

*CrewReview.* The analyzer never looks back at the timeline. `Bookkeeping` says what its two sets know of it: `executed` are the tasks of which an end followed a start, and
together with `taskStarts` those that have a start. The cases are a first start, a repeated one, an end after a start and an end
without one; `Reporting` carries the set into the report. `ReviewInv` adds that the starts that wait are exactly the open tasks
(`Waiting`), that the log counts at least the errors and has room for the open tasks (`Counted`), and what report, challenges and rewards keep of that (`Told`, `Granted`).

*BasicWorker.* The two properties speak of the times between the calls of `start()` and `stop()`; the
strengthening says what holds during them: while the ping is awaited there is only the pool, while
`stop()` gathers every live listener is cancelled or in its clean-up, and afterwards none is left.
`ClientSubscribes` adds that a listener past its first step has the client, so that closing the client
ends the subscription.

*Swarm, Sarah, QueueWorkers.* What a swarm's worker has left to hand on it made itself and has announced (`HandsOwn`). The instruction worker tells its one outcome
when it is through with an instruction and never comes back to it (`ToldOnce`, `SimulatedLate`). A queue worker whose first list is the user's has told the
user when it is at the second (`FirstPushTells`). `Opened` of QueueWorkers had overlapping cases for a message that is not JSON, which only the
attempt to prove a step showed; `Undecodable` now says which workers report it.

*Blockchain.* Each of the three invariants, and with them LastEventTellsStatus (which no run checks: it follows from one operator), is inductive with its part of the type invariant. Types need two facts more: a voter is in the list of a proposal once
(`VotersOnce`), which bounds it, and what is emitted is an event there is (`EmissionOK`).

*CrewManager.* `CrewTyped` has that the names of the agents are distinct and that a round, or the loop of `shutdown()`, is at an agent there is, although `add_agent`
goes on. `CrewDown` follows `shutdown()` over what it has stopped so far. RoundReachesAll speaks of a step, and
holds because of where the event of a round is (`CrewRounds`): not in the heap any more, at each of the first agents once, and at no other; no
event is in the heap twice whatever order a raising heap operation leaves.

*MemoryManager.* `LockedOnce` and `HolderActs`: only the first in the queue of the lock is at an event of its clean-up. `shutdown()` queues behind all that had asked before
(`EarlyFirst`), so these have left when it has the lock. An open clean-up is past the event that tells its begin (`OpenIsLate`).
That a cancellation arrives needs that only a dying holder in its `finally` can lose it.

*MemoryFiles.* A memory that was answered has a file, if only a torn one (`KeptHasFile`).

*The parts of a run.* Each `Parts...` specification of an MC module implies the specification of every part, since a step of one part is a
stutter of the others (`PartsRunAlone` in RegistryManagerProofs); the three `PartsTypeCorrect` follow from the parts.

**Model-checked only.** Liveness under fairness is outside the prover's reach: BiddingEnds, AwardIsDecided, OfferIsTaken, StartedIsFinished,
StaleIsPruned, AwardIsTakenUp, QueuedIsServed, InstructionAnswered, SwarmComesToRest, EventsAreHeard, QueueIsWorkedOff, ShutdownReturns. So are the six violations,
which are counterexamples on small instances.

## 5. Not modelled

Wording, logging, timestamps and payloads; the LLM and knowledge graph agents (single requests to an
external service), the prompts and constant tables of the crews, the admin application (forms over a list of its own). Q-tables, losses, returns, rewards
and the RewardCalculator are floating point numbers no control depends on. CrewManager's facade methods pass one call on
to objects that are modelled themselves. A crash of the orchestrator's process loses all its state (nothing is persisted),
so there is no recovery to check; where files survive (MemoryFiles) and where lists do (QueueWorkers) the crash is modelled.

Two files are modelled although they do not run as they stand, because what is missing lies outside the handlers: `crew_manager.py` imports
`team_memory_manager.py` (line 100), which cannot be imported, and schema modules that are not there (lines 28-33, 38), and `RegistryManagerAgent`
does not define the methods its base class `InfrastructureBaseAgent` declares abstract, so that only a subclass that does can be instantiated. CrewManager
and RegistryManager are models of the methods as they are written, for when the imports are mended and the class is completed; what the missing parts do
is not assumed.

Other code cannot run at this commit in a way that leaves a model nothing to be faithful to:

- Many modules import from a former layout of the directories (`agents.common.base_agent`,
  `agents.infrastructure.schemas...`). The models take each such import to mean the file of that name.
- `team_memory_manager.py` imports event types that `schemas/event_schemas.py` does not have, builds
  `TeamMemory` with fields that class does not have and uses an unbound name in `share_memory`.
- `StateAgent.__init__` passes its configuration as the agent id and subscripts a pydantic model, and the
  class leaves abstract methods of its base class open. Nothing uses it.
- RulesAgent and CEPAgent pass their configuration as the agent id, which the configuration model of their base class
  refuses, so no object can be made. TranslationManager imports `.agents.base_agent`, which is not there; what
  it would do is to convert one payload at a time.
- In the swarms, the product and inventory translators write `type` as the first part of the worker's
  name, while a `TaskWorker` accepts `worker-<name>`: each task is popped and dropped, no result
  reaches the consensus, and `start.py` ends in its timeout.

## 6. Plan

1. *Done:* the coordination core (TaskStore, ContractNet, DirectDispatch, RegistryManager, BasicWorker, Blockchain);
   the infrastructure around it (CrewManager, MemoryManager); the marketing crew's programs (QueueWorkers, Sarah, Swarm,
   MemoryFiles); learning and review (InventorySim, Replay, CrewReview); the abstract TaskOffers, checked and
   proved to be implemented by DirectDispatch.
2. *Done:* proofs of every safety property the runs check, with the inductive invariants of section 4.
3. **ContractNet with BasicWorker** in place of the external client: awards and results of the
   two meet in the lists, and a result lost with a stopped worker is the case the listener's
   timeout is for.
4. An abstraction of the contract net like TaskOffers (a task's statuses with the reissue edges, one rating per
   reply), and ContractNet shown to implement it.
5. Liveness stays with TLC; the safety part of each of these arguments (a variant that never grows) can be proved as an action property.
