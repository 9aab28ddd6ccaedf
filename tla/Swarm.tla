-------------------------------- MODULE Swarm -------------------------------
(***************************************************************************)
(* A swarm of the marketing crew: its manager, which subscribes to the     *)
(* channel of start.py and forwards what it hears, and its five workers,   *)
(* threads that each take messages from a Redis list, work on them, tell   *)
(* the user through a callback and push the outcome to the next list:      *)
(* leader, translator, two workers on one list, consensus, and from there  *)
(* back to the leader.  There are three swarms, alike up to the tables     *)
(* below; a behaviour is one of them.                                      *)
(***************************************************************************)
EXTENDS Integers, Sequences, FiniteSets

CONSTANTS
  Updates,     \* metrics that start.py publishes
  Garbled,     \* those of them that are not JSON
  MaxTasks,    \* bound: tasks and results that other programs push
  MaxFailures  \* bound: calls of Redis, of the HTTP interface or of a crew that raise

VARIABLES
  kind,      \* which swarm
  manager, running, listener,  \* the manager, its flag and its listener thread
  published, \* updates start.py has published
  inbox,     \* what the subscription has received
  queue,     \* queue[w]: the list worker w reads
  hand,      \* hand[w]: the outputs worker w has left to send
  results,   \* worker_results of the consensus worker
  announced, \* <<w, m>>: output m of worker w was told on api_queue
  complained, \* workers that wrote to error-queue
  tasks, failures

managerVars == <<manager, running, listener, published, inbox>>
workerVars == <<hand, results, announced, complained>>
vars == <<kind, managerVars, queue, workerVars, tasks, failures>>

-----------------------------------------------------------------------------
(* What differs between the swarms.                                        *)

Kinds == {"product", "inventory", "promotional"}
Pair == {"first", "second"}   \* the two workers
Workers == {"leader", "translator", "consensus"} \union Pair

\* A message: what it is about, the worker that made it, the one it names.
Message(about, by, names) == [about |-> about, by |-> by, names |-> names]
Nobody == "nobody"
Abouts == Updates \union {"hello", "task", "consensus"}
Messages ==
  [about : Abouts, by : Workers \union {"manager", "other"}, names : Pair \union {Nobody}]
About(m, by, name) == Message(m.about, by, name)

\* setsRunning: the flag is set before the listener thread starts.
\* wraps: what is not JSON is forwarded all the same.
ProductManager == [setsRunning |-> FALSE, wraps |-> FALSE]
\* Mutant of InventoryManager: as in the product swarm.
InventoryManagerLate == [setsRunning |-> FALSE, wraps |-> FALSE]
InventoryManager == [setsRunning |-> TRUE, wraps |-> FALSE]
PromotionalManager == [setsRunning |-> TRUE, wraps |-> TRUE]
Manager == CASE kind = "product" -> ProductManager
             [] kind = "inventory" -> InventoryManager
             [] OTHER -> PromotionalManager

\* Workers whose callback may raise after it has told the user: the leader's
\* stores an event unguarded, one consensus callback evaluates a memory.
ProductCallbacks == {"leader"}
InventoryCallbacks == {"leader", "consensus"}
PromotionalCallbacks == {"leader"}
Unguarded == CASE kind = "product" -> ProductCallbacks
               [] kind = "inventory" -> InventoryCallbacks
               [] OTHER -> PromotionalCallbacks

\* The outputs of a translator: tasks whose type is not the one a worker looks
\* for, so that they name nobody; the promotional translator takes the text of
\* its crew for a list of tasks, and raises.
ProductTasks(m) == [i \in 1..2 |-> About(m, "translator", Nobody)]
InventoryTasks(m) == [i \in 1..2 |-> About(m, "translator", Nobody)]
PromotionalTasks(m) == <<>>
Translated(m) == CASE kind = "product" -> ProductTasks(m)
                   [] kind = "inventory" -> InventoryTasks(m)
                   [] OTHER -> PromotionalTasks(m)

\* The results of the two workers for a task of theirs.  The callback of the
\* product crew's tasks has no Redis client and raises; the inventory crew takes
\* the memory's class for that of an agent, which raises: run() logs both, and
\* the task is gone.  In the promotional swarm one result has no worker field and
\* the other is never sent.
ProductResult(m, w) == <<>>
InventoryResult(m, w) == <<>>
PromotionalResult(m, w) == IF w = "first" THEN <<>> ELSE <<About(m, w, Nobody)>>
Result(m, w) == CASE kind = "product" -> ProductResult(m, w)
                  [] kind = "inventory" -> InventoryResult(m, w)
                  [] OTHER -> PromotionalResult(m, w)

\* Who writes to error-queue when the publication of a consensus raises.
ProductComplainers == {}
InventoryComplainers == {"consensus"}
PromotionalComplainers == {}
Complainers == CASE kind = "product" -> ProductComplainers
                 [] kind = "inventory" -> InventoryComplainers
                 [] OTHER -> PromotionalComplainers

-----------------------------------------------------------------------------

Next1 == [leader |-> "translator", translator |-> "pair", first |-> "consensus",
          second |-> "consensus", consensus |-> "leader"]   \* output_queue
Reads(w) == IF w \in Pair THEN "pair" ELSE w                  \* input_queue
Queues == {Reads(w) : w \in Workers}

TypeOK ==
  /\ kind \in Kinds
  /\ manager \in {"new", "subscribed", "listening", "up", "failed"}
  /\ running \in BOOLEAN /\ listener \in {"none", "starting", "alive", "ended"}
  /\ published \in SUBSET Updates
  /\ inbox \in Seq(Abouts)
  /\ queue \in [Queues -> Seq(Messages)]
  /\ hand \in [Workers -> Seq(Messages)]
  /\ results \in SUBSET Pair
  /\ announced \in SUBSET (Workers \X Messages)
  /\ complained \in SUBSET Workers
  /\ tasks \in 0..MaxTasks /\ failures \in 0..MaxFailures

Init ==
  /\ kind \in Kinds
  /\ manager = "new" /\ running = FALSE /\ listener = "none"
  /\ published = {} /\ inbox = <<>>
  /\ queue = [q \in Queues |-> <<>>]
  /\ hand = [w \in Workers |-> <<>>]
  /\ results = {} /\ announced = {} /\ complained = {} /\ tasks = 0 /\ failures = 0

Failure == failures < MaxFailures /\ failures' = failures + 1

-----------------------------------------------------------------------------
(* The manager.                                                            *)

\* The confirmation of the subscription is the first message in the inbox.
Subscribe ==
  /\ manager = "new" /\ manager' = "subscribed"
  /\ inbox' = <<"hello">>
  /\ UNCHANGED <<kind, running, listener, published, queue, workerVars, tasks, failures>>

\* initialize raises: stop() clears the flag and unsubscribes.
InitializeRaises ==
  /\ manager \in {"new", "subscribed", "listening"} /\ manager' = "failed" /\ Failure
  /\ running' = FALSE /\ inbox' = <<>>
  /\ UNCHANGED <<kind, listener, published, queue, workerVars, tasks>>

StartListener ==
  /\ manager = "subscribed" /\ manager' = "listening"
  /\ running' = Manager.setsRunning
  /\ listener' = "starting"
  /\ UNCHANGED <<kind, published, inbox, queue, workerVars, tasks, failures>>

\* The rest of start(): the five threads.
StartWorkers ==
  /\ manager = "listening" /\ manager' = "up" /\ running' = TRUE
  /\ UNCHANGED <<kind, listener, published, inbox, queue, workerVars, tasks, failures>>

\* The listener tests the flag, when it starts and after every message.
ListenerTests ==
  /\ listener = "starting" \/ (listener = "alive" /\ ~running)
  /\ listener' = IF running THEN "alive" ELSE "ended"
  /\ UNCHANGED <<kind, manager, running, published, inbox, queue, workerVars, tasks, failures>>

\* start.py publishes, to whoever has subscribed.
Publish(u) ==
  /\ u \notin published /\ published' = published \union {u}
  /\ inbox' = IF manager \in {"subscribed", "listening", "up"} THEN Append(inbox, u) ELSE inbox
  /\ UNCHANGED <<kind, manager, running, listener, queue, workerVars, tasks, failures>>

Forwarded(u) == u \notin Garbled \/ Manager.wraps

\* handle_pubsub_messages: the push may raise, and may then not have happened.
Forward(reached) ==
  /\ listener = "alive" /\ running /\ inbox # <<>>
  /\ inbox' = Tail(inbox)
  /\ queue' = IF reached /\ Forwarded(Head(inbox))
                THEN [queue EXCEPT !["leader"] =
                        Append(@, Message(Head(inbox), "manager", Nobody))]
                ELSE queue
  /\ IF reached THEN UNCHANGED failures ELSE Failure
  /\ UNCHANGED <<kind, manager, running, listener, published, workerVars, tasks>>

\* Another program pushes a task with the type a worker looks for, or a result
\* with its name.
PushFromOutside(q, w) ==
  /\ tasks < MaxTasks /\ tasks' = tasks + 1
  /\ queue' = [queue EXCEPT ![q] = Append(@, Message("task", "other", w))]
  /\ UNCHANGED <<kind, managerVars, workerVars, failures>>

-----------------------------------------------------------------------------
(* The workers.                                                            *)

\* Mutant of Collected: the name in the result is not looked up.
CollectedAny(m) == m.names \notin results
Collected(m) == m.names \in Pair \ results
Complete(m) == Collected(m) /\ results \union {m.names} = Pair

\* process_message up to the first output.
Outputs(w, m) ==
  CASE w = "leader" -> <<About(m, "leader", Nobody)>>
    [] w = "translator" -> Translated(m)
    [] w \in Pair -> IF m.names = w THEN Result(m, w) ELSE <<>>
    [] OTHER -> IF Complete(m) THEN <<Message("consensus", "consensus", Nobody)>> ELSE <<>>

\* Mutant of Ready: an exception ends the loop of the worker.
ReadyUnlessRaised(w) == manager = "up" /\ hand[w] = <<>> /\ failures = 0
Ready(w) == manager = "up" /\ hand[w] = <<>>

\* blpop and the work on the message; what a worker of the pair takes that is
\* meant for the other is gone.  An error of blpop is logged and changes nothing.
Take(w) ==
  /\ Ready(w) /\ queue[Reads(w)] # <<>>
  /\ LET m == Head(queue[Reads(w)]) IN
       /\ hand' = [hand EXCEPT ![w] = Outputs(w, m)]
       /\ results' = IF w = "consensus" /\ Collected(m) THEN results \union {m.names}
                                                      ELSE results
  /\ queue' = [queue EXCEPT ![Reads(w)] = Tail(@)]
  /\ UNCHANGED <<kind, managerVars, announced, complained, tasks, failures>>

\* The crew of the translator raises: do_work reports it and returns nothing.
CrewRaises ==
  /\ Ready("translator") /\ queue["translator"] # <<>> /\ Failure
  /\ kind # "promotional" /\ complained' = complained \union {"translator"}
  /\ queue' = [queue EXCEPT !["translator"] = Tail(@)]
  /\ UNCHANGED <<kind, managerVars, hand, results, announced, tasks>>

Tell(w) == announced' = announced \union {<<w, Head(hand[w])>>}
Hand(w) == queue' = [queue EXCEPT ![Next1[w]] = Append(@, Head(hand[w]))]
Complain(w) == complained' = complained \union (IF w = "consensus" THEN Complainers ELSE {})

\* send_output: the callback tells the user, then the output is pushed.  After
\* the consensus comes a push that lacks its first argument and raises: the
\* results are not reset.
SendOutput(w) ==
  /\ hand[w] # <<>>
  /\ Tell(w) /\ Hand(w) /\ Complain(w)
  /\ hand' = [hand EXCEPT ![w] = Tail(@)]
  /\ UNCHANGED <<kind, managerVars, results, tasks, failures>>

\* The push fails, which push_to_queue logs.
PushFails(w) ==
  /\ hand[w] # <<>> /\ Failure
  /\ Tell(w) /\ Complain(w)
  /\ hand' = [hand EXCEPT ![w] = Tail(@)]
  /\ UNCHANGED <<kind, managerVars, queue, results, tasks>>

\* Mutant of CallbackRaises: the exception is caught and the output sent.
CallbackCaught(w, told) ==
  /\ hand[w] # <<>> /\ Failure
  /\ told => w \in Unguarded
  /\ Hand(w) /\ UNCHANGED <<announced, complained>>
  /\ hand' = [hand EXCEPT ![w] = Tail(@)]
  /\ UNCHANGED <<kind, managerVars, results, tasks>>

\* The callback raises, before or after it has told the user: run() logs the
\* exception, and the outputs that were left are not sent.
CallbackRaises(w, told) ==
  /\ hand[w] # <<>> /\ Failure
  /\ told => w \in Unguarded
  /\ IF told THEN Tell(w) ELSE UNCHANGED announced
  /\ Complain(w)
  /\ hand' = [hand EXCEPT ![w] = <<>>]
  /\ UNCHANGED <<kind, managerVars, queue, results, tasks>>

-----------------------------------------------------------------------------

WorkerStep(w) == Take(w) \/ SendOutput(w)
ManagerStep == Subscribe \/ StartListener \/ StartWorkers \/ ListenerTests \/ Forward(TRUE)

Next ==
  \/ ManagerStep \/ InitializeRaises \/ Forward(FALSE)
  \/ \E u \in Updates : Publish(u)
  \/ CrewRaises
  \/ \E w \in Pair, q \in {"pair", "consensus"} : PushFromOutside(q, w)
  \/ \E w \in Workers :
       \/ WorkerStep(w) \/ PushFails(w)
       \/ \E told \in BOOLEAN : CallbackRaises(w, told)

Spec == Init /\ [][Next]_vars

\* Threads run: some thread with something to do goes on.
FairStep == ManagerStep \/ \E w \in Workers : WorkerStep(w)
Fairness == WF_vars(FairStep)

-----------------------------------------------------------------------------
(* Properties.                                                             *)

\* What one worker of the swarm gets from another was shown to the user first,
\* whatever raised: nothing goes on inside that was never announced.
AnnouncedFirst ==
  \A q \in DOMAIN queue : \A i \in 1..Len(queue[q]) :
    queue[q][i].by \in Workers => <<queue[q][i].by, queue[q][i]>> \in announced

\* A swarm that runs listens to start.py.  The product swarm sets its flag after
\* it has started the listener, which may be gone by then.
RunningListens ==
  manager = "up" /\ kind # "product" => listener \in {"starting", "alive"}

Quiet == (\A q \in DOMAIN queue : queue[q] = <<>>) /\ (\A w \in Workers : hand[w] = <<>>)

\* Whatever raises, and although the consensus goes back to the leader, a swarm
\* that is up works off all that is in its lists.
SwarmComesToRest == (manager = "up" /\ ~Quiet) ~> Quiet

=============================================================================
