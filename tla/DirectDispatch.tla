--------------------------- MODULE DirectDispatch ---------------------------
(***************************************************************************)
(* Tasks that do not require bidding: TaskOrchestrationAgent publishes a   *)
(* READY task once to every subscribed BaseWorkerAgent, which claims it    *)
(* through the orchestrator's update_task, executes it and reports its end *)
(* the same way.  Orchestrator and workers share one asyncio process, so a *)
(* claim is one step; a claim is not exclusive, update_task accepts every  *)
(* one of them.                                                            *)
(***************************************************************************)
EXTENDS TaskStore, Sequences

CONSTANTS
  DispatchChannel,  \* non_biddable_tasks_channel of the orchestrator
  WorkerChannel,    \* available_tasks_channel of the workers
  Matches,          \* <<w, t>>: w.can_execute_task(t)
  CallerStatuses,   \* what other callers of update_task set the status to
  NoTask,           \* the worker executes nothing
  MaxCalls,         \* bound: their calls per task
  MaxDowns          \* bound: stops and deaths of a worker's loop

ASSUME DirectDispatchAssumption ==
  /\ Matches \subseteq Workers \X Tasks
  /\ CallerStatuses \subseteq {Keep, "PENDING", "READY", "COMPLETED", "FAILED",
                               "CANCELLED"}
  /\ Keep \notin Status \union Workers /\ NoTask \notin Tasks
  /\ MaxCalls \in Nat /\ MaxDowns \in Nat

VARIABLES
  redis,    \* redis_pool of the orchestrator is set
  disp,     \* disp[t][v]: where _direct_dispatch_task(object v of t) is
  loop,     \* loop[w]: what w's _redis_subscriber_loop is doing
  inbox,    \* inbox[w]: the task ids in the messages its pubsub holds
  working,  \* working[w]: the task it executes
  calls,    \* calls[t]: update_task calls of others than the workers
  downs     \* downs[w]: how often its loop ended

agentVars == <<redis, disp, calls>>
workerVars == <<loop, inbox, working, downs>>
vars == <<storeVars, agentVars, workerVars>>

\* The values every variable ranges over; the messages in flight included.
TypeOK ==
  /\ StoreTypeOK
  /\ redis \in BOOLEAN
  /\ disp \in [Tasks -> [Versions -> {"idle", "publish", "published"}]]
  /\ loop \in [Workers -> {"off", "listening", "executing"}]
  /\ inbox \in [Workers -> Seq(Tasks)]
  /\ working \in [Workers -> Tasks \union {NoTask}]
  /\ calls \in [Tasks -> 0..MaxCalls]
  /\ downs \in [Workers -> 0..MaxDowns]
  /\ \A w \in Workers : loop[w] = "executing" <=> working[w] # NoTask

Init ==
  /\ StoreInit
  /\ redis = FALSE
  /\ disp = [t \in Tasks |-> [v \in Versions |-> "idle"]]
  /\ loop = [w \in Workers |-> "off"]
  /\ inbox = [w \in Workers |-> <<>>]
  /\ working = [w \in Workers |-> NoTask]
  /\ calls = [t \in Tasks |-> 0]
  /\ downs = [w \in Workers |-> 0]

-----------------------------------------------------------------------------
(* The orchestrator.                                                       *)

\* _process_task_readiness and _direct_dispatch_task up to the await of
\* publish: the message is made here, with the status READY.
ProcessTaskReadiness(t, v) ==
  disp' = IF redis THEN [disp EXCEPT ![t][v] = "publish"] ELSE disp

SubmitTask(t, hasDependencies) ==
  /\ Create(t, hasDependencies)
  /\ IF hasDependencies THEN UNCHANGED disp ELSE ProcessTaskReadiness(t, 1)
  /\ UNCHANGED <<redis, calls, workerVars>>

\* A task that was never put up for bids has no CFP to cancel.
UpdateTask(t, s) ==
  /\ calls[t] < MaxCalls
  /\ calls' = [calls EXCEPT ![t] = @ + 1]
  /\ Replace(t, s, Keep)
  /\ IF s = "READY" /\ StatusOf(t) # "READY"
       THEN ProcessTaskReadiness(t, made[t] + 1)
       ELSE UNCHANGED disp
  /\ UNCHANGED <<redis, workerVars>>

\* Redis hands the message to whoever is subscribed to the channel now.
Delivered(t, v) ==
  /\ disp[t][v] = "publish"
  /\ disp' = [disp EXCEPT ![t][v] = "published"]
  /\ inbox' = [w \in Workers |->
                 IF loop[w] # "off" /\ WorkerChannel = DispatchChannel
                   THEN Append(inbox[w], t) ELSE inbox[w]]
  /\ UNCHANGED <<storeVars, redis, calls, loop, working, downs>>

\* "Task status remains READY, worker will update it to IN_PROGRESS".
PublishReturns(t, v) ==
  /\ disp[t][v] = "published"
  /\ disp' = [disp EXCEPT ![t][v] = "idle"]
  /\ UNCHANGED <<storeVars, redis, calls, workerVars>>

\* Mutant of PublishRaises: the failure is only logged.
PublishRaisesUnmarked(t, v) ==
  /\ disp[t][v] # "idle"
  /\ disp' = [disp EXCEPT ![t][v] = "idle"]
  /\ UNCHANGED <<storeVars, redis, calls, workerVars>>

\* The connection broke before or after Redis had the message: the object
\* that was dispatched is marked and stored, whatever happened to it since.
PublishRaises(t, v) ==
  /\ disp[t][v] # "idle"
  /\ Store(t, v, "FAILED")
  /\ disp' = [disp EXCEPT ![t][v] = "idle"]
  /\ UNCHANGED <<redis, calls, workerVars>>

\* start() and stop() of the orchestrator only set and clear the pool here.
OrchestratorToggles ==
  /\ redis' = ~redis
  /\ UNCHANGED <<storeVars, disp, calls, workerVars>>

-----------------------------------------------------------------------------
(* The workers.                                                            *)

\* initialize() and start(): also after the loop died.
WorkerStarts(w) ==
  /\ loop[w] = "off"
  /\ loop' = [loop EXCEPT ![w] = "listening"]
  /\ UNCHANGED <<storeVars, agentVars, inbox, working, downs>>

\* stop(), or an exception in the loop: the subscription and the messages it
\* holds are gone, and a running execute_task is cancelled without a report,
\* since CancelledError is not an Exception.
WorkerStops(w) ==
  /\ loop[w] # "off" /\ downs[w] < MaxDowns
  /\ downs' = [downs EXCEPT ![w] = @ + 1]
  /\ loop' = [loop EXCEPT ![w] = "off"]
  /\ inbox' = [inbox EXCEPT ![w] = <<>>]
  /\ working' = [working EXCEPT ![w] = NoTask]
  /\ UNCHANGED <<storeVars, agentVars>>

\* Mutant of HasOffer: the loop keeps the message back until the task is READY.
HasReadyOffer(w) == inbox[w] # <<>> /\ StatusOf(Head(inbox[w])) = "READY"

\* get_message of the subscriber loop returns the next message there is.
HasOffer(w) == inbox[w] # <<>>

\* _handle_available_task up to the await of execute_task.  The status looked
\* at is the one in the message; update_task never refuses the claim.
TakeOffer(w) ==
  /\ loop[w] = "listening" /\ HasOffer(w)
  /\ inbox' = [inbox EXCEPT ![w] = Tail(@)]
  /\ LET t == Head(inbox[w]) IN
     \/ /\ <<w, t>> \notin Matches
        /\ UNCHANGED <<storeVars, loop, working>>
     \/ /\ <<w, t>> \in Matches
        /\ Replace(t, "IN_PROGRESS", w)
        /\ loop' = [loop EXCEPT ![w] = "executing"]
        /\ working' = [working EXCEPT ![w] = t]
  /\ UNCHANGED <<agentVars, downs>>

\* Mutant of FinalStatus: the request for a failed execution only carries the
\* error message.
StatusIfOk(ok) == IF ok THEN "COMPLETED" ELSE Keep

FinalStatus(ok) == IF ok THEN "COMPLETED" ELSE "FAILED"

\* execute_task returned or raised: the final update_task.
FinishTask(w, ok) ==
  /\ loop[w] = "executing"
  /\ Replace(working[w], FinalStatus(ok), Keep)
  /\ working' = [working EXCEPT ![w] = NoTask]
  /\ loop' = [loop EXCEPT ![w] = "listening"]
  /\ UNCHANGED <<agentVars, inbox, downs>>

-----------------------------------------------------------------------------

WorkerStep(w) == TakeOffer(w) \/ \E ok \in BOOLEAN : FinishTask(w, ok)

Next ==
  \/ \E t \in Tasks, d \in BOOLEAN : SubmitTask(t, d)
  \/ \E t \in Tasks, s \in CallerStatuses : UpdateTask(t, s)
  \/ \E t \in Tasks, v \in Versions :
       Delivered(t, v) \/ PublishReturns(t, v) \/ PublishRaises(t, v)
  \/ OrchestratorToggles
  \/ \E w \in Workers : WorkerStarts(w) \/ WorkerStops(w) \/ WorkerStep(w)

Spec == Init /\ [][Next]_vars

\* The loop of a running worker polls every 10 ms, and execute_task returns.
FairSpec == Spec /\ \A w \in Workers : WF_vars(WorkerStep(w))

-----------------------------------------------------------------------------
(* Properties.                                                             *)

\* What a client sees of a task, and who holds or does which work.
ShownAs(s) ==
  CASE s = "PENDING" -> "waiting"
    [] s = "READY" -> "open"
    [] s = "IN_PROGRESS" -> "busy"
    [] OTHER -> "ended"

Shown == [t \in Tasks |-> IF Submitted(t) THEN ShownAs(StatusOf(t)) ELSE "none"]

Dispatches(p) == {d \in Tasks \X Versions : disp[d[1]][d[2]] = p}

Holds(w, t) == \E i \in DOMAIN inbox[w] : inbox[w][i] = t

Held == {o \in Workers \X Tasks : Holds(o[1], o[2])}

Doing == {d \in Workers \X Tasks : working[d[1]] = d[2]}

Offers == INSTANCE TaskOffers WITH
  Rounds <- Versions,
  shown <- Shown,
  unsent <- Dispatches("publish"),
  sent <- Dispatches("published"),
  offers <- Held,
  doing <- Doing

\* The direct dispatch implements TaskOffers: each time a task becomes READY
\* it is broadcast at most once, no worker executes what was not broadcast to
\* it, nobody but a worker that begins shows a task IN_PROGRESS, and every
\* execution that ends, well or not, shows the end, under any interleaving of
\* claims, cancellations, failed publishes and stops.
ImplementsTaskOffers == Offers!Spec

InProgress(t) == Submitted(t) /\ StatusOf(t) = "IN_PROGRESS"

\* A task shown IN_PROGRESS is being executed by the worker it shows as its
\* assignee, whatever other workers and callers did to it and even when the
\* dispatch that offered it failed after delivery; only that worker going
\* down can leave it behind.
InProgressIsWorkedOn ==
  \A t \in Tasks : InProgress(t) =>
    \E w \in Workers :
      obj[t][cur[t]].assigned_to = w /\ (working[w] = t \/ downs[w] > 0)

Offered(w, t) == <<w, t>> \in Matches /\ Holds(w, t)

\* A worker gets round to every offer it can execute, also when a claim of
\* another, a failure or a cancellation came first, unless its loop ends.
OfferIsTaken ==
  \A w \in Workers, t \in Tasks :
    Offered(w, t) ~> (working[w] = t \/ downs[w] > 0)

\* A task does not stay IN_PROGRESS: somebody reports its end, unless a
\* worker's loop ended while it was executing.
StartedIsFinished ==
  \A t \in Tasks :
    InProgress(t) ~> (~InProgress(t) \/ \E w \in Workers : downs[w] > 0)

\* "Successfully claimed task": a claim is won by one worker, for the others
\* there is the branch "Failed to claim task".
ClaimIsExclusive ==
  \A t \in Tasks : \A w, x \in Workers :
    working[w] = t /\ working[x] = t => w = x

=============================================================================
