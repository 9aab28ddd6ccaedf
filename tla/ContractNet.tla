---------------------------- MODULE ContractNet ----------------------------
(***************************************************************************)
(* TaskOrchestrationAgent's contract net: a READY task is put up for bids, *)
(* the bids are collected at the deadline, the best bidder gets the award  *)
(* and a listener waits for its result.  The agent is one asyncio process: *)
(* a step runs from one await to the next, and every interleaving of       *)
(* update_task, stop and the coroutines of a task at those awaits is a     *)
(* behaviour.                                                              *)
(*                                                                         *)
(* The call that puts object v of task t up for bids, the bid collection   *)
(* it schedules and the result listener that one creates run one after the *)
(* other: together they are chain <<t, v>>, and pc[t][v] says which await  *)
(* the chain is suspended in.                                              *)
(*                                                                         *)
(* Workers are any processes that speak the messages of                    *)
(* contract_net_schemas.py; Redis lists are FIFO, pub/sub may lose.        *)
(***************************************************************************)
EXTENDS TaskStore, Sequences, FiniteSets

CONSTANTS
  Numbers,         \* the numbers a field of bid_details may carry
  Missing, NotANumber, \* the field is missing; is no number
  BidDetails,      \* the bid_details workers bid with
  UpdateStatuses,  \* what callers of update_task set the status to
  UpdateAssignees, \* and assigned_to
  ReplyKinds,      \* what workers push to a result queue
  RedisMayFail,    \* whether a Redis call may raise
  HasRegistry,     \* whether registry_manager was passed
  MaxStops         \* bound: calls of stop

ASSUME ContractNetAssumption ==
  /\ Numbers \subseteq Int /\ Missing \notin Int /\ NotANumber \notin Int
  /\ LET Values == Numbers \union {Missing, NotANumber}
     IN BidDetails \subseteq [cost : Values, hours : Values]
  /\ UpdateStatuses \subseteq {Keep, "PENDING", "READY", "IN_PROGRESS",
                               "COMPLETED", "FAILED", "CANCELLED"}
  /\ UpdateAssignees \subseteq Workers \union {Keep}
  /\ Keep \notin Status
  /\ ReplyKinds \subseteq {"success", "failure", "invalid", "noObject"}
  /\ RedisMayFail \in BOOLEAN /\ HasRegistry \in BOOLEAN
  /\ MaxStops \in Nat

VARIABLES
  activeCfps,  \* keys of active_cfps
  collReg,     \* cfp_bid_collection_tasks: t -> the chain registered, or 0
  lisReg,      \* task_result_listeners: t -> the chain registered, or 0
  pc,          \* pc[t][v]: where chain <<t, v>> is suspended
  ref,         \* ref[t][v]: the object the chain's coroutine holds as task
  held,        \* held[t][v]: the bids it has fetched and not finished with
  redis,       \* redis_pool is set
  stopping,    \* the progress of stop(): phase, snapshot left, task awaited
  stops,       \* calls of stop so far
  published,   \* <<t, v>>: the CFP of the chain went out to the channel
  bidders,     \* <<w, t, v>>: w has received it and bid
  bidQ,        \* bidQ[t]: the bid submission list of t
  awards,      \* <<w, t, v>>: chain <<t, v>> pushed an award to w
  replies,     \* <<w, t, v>>: w has pushed its reply to that award
  resQ,        \* resQ[t]: the result submission list of t
  ratings      \* record_rating calls: [task, chain, rated, author]

locals == <<pc, ref, held>>
agentVars == <<activeCfps, collReg, lisReg, locals, redis>>
stopVars == <<stopping, stops>>
workerVars == <<published, bidders, awards, replies>>
vars == <<storeVars, agentVars, stopVars, workerVars, bidQ, resQ, ratings>>

CollectorPcs == {"sleep", "lrange", "delete", "rpush", "pushed"}
ListenerPcs == {"created", "blpop", "rating"}
Pcs == {"idle", "publish", "done"} \union CollectorPcs \union ListenerPcs

Bid == [bidder : Workers, details : BidDetails]
Result == [worker : Workers, kind : ReplyKinds]
Chains == Tasks \X Versions
Messages == Workers \X Tasks \X Versions
Rating == [task : Tasks, chain : Versions, rated : Workers, author : Workers]

NoChain == <<>>
StopPhases == {"up", "collectors", "listeners", "down"}
StopProgress == [phase : StopPhases, todo : SUBSET Chains,
                 at : Chains \union {NoChain}]

\* The values every variable ranges over; the code has no type to hold them to.
RegistryTypeOK ==
  /\ activeCfps \in SUBSET Tasks
  /\ collReg \in [Tasks -> 0..(MaxUpdates + 1)]
  /\ lisReg \in [Tasks -> 0..(MaxUpdates + 1)]

LocalsTypeOK ==
  /\ pc \in [Tasks -> [Versions -> Pcs]]
  /\ ref \in [Tasks -> [Versions -> Versions]]
  /\ held \in [Tasks -> [Versions -> Seq(Bid)]]

StopTypeOK ==
  /\ redis \in BOOLEAN /\ stopping \in StopProgress /\ stops \in 0..MaxStops

NetTypeOK ==
  /\ published \in SUBSET Chains /\ bidders \in SUBSET Messages
  /\ awards \in SUBSET Messages /\ replies \in SUBSET awards
  /\ bidQ \in [Tasks -> Seq(Bid)] /\ resQ \in [Tasks -> Seq(Result)]
  /\ ratings \in SUBSET Rating

TypeOK == StoreTypeOK /\ RegistryTypeOK /\ LocalsTypeOK /\ StopTypeOK /\ NetTypeOK

\* redis_pool is None until start() has connected.
Init ==
  /\ StoreInit
  /\ activeCfps = {}
  /\ collReg = [t \in Tasks |-> 0] /\ lisReg = [t \in Tasks |-> 0]
  /\ pc = [t \in Tasks |-> [v \in Versions |-> "idle"]]
  /\ ref = [t \in Tasks |-> [v \in Versions |-> 1]]
  /\ held = [t \in Tasks |-> [v \in Versions |-> <<>>]]
  /\ redis = FALSE
  /\ stopping = [phase |-> "down", todo |-> {}, at |-> NoChain] /\ stops = 0
  /\ published = {} /\ bidders = {} /\ awards = {} /\ replies = {}
  /\ bidQ = [t \in Tasks |-> <<>>] /\ resQ = [t \in Tasks |-> <<>>]
  /\ ratings = {}

-----------------------------------------------------------------------------
(* Pieces the handlers share.                                              *)

Goto(t, v, p) == pc' = [pc EXCEPT ![t][v] = p]

\* Mutant of ForgetCfp: the CFP stays active.
ForgetCollector(t) ==
  /\ UNCHANGED activeCfps
  /\ collReg' = [collReg EXCEPT ![t] = 0]

\* if t in active_cfps: del ...; if t in cfp_bid_collection_tasks: del ...
\* The entries go whichever chain they belong to.
ForgetCfp(t) ==
  /\ activeCfps' = activeCfps \ {t}
  /\ collReg' = [collReg EXCEPT ![t] = 0]

ForgetListener(t) == lisReg' = [lisReg EXCEPT ![t] = 0]

\* Mutant of TakeResult: the list is read, not popped.
PeekResult(t) == UNCHANGED resQ

\* blpop removes the first message of the result list.
TakeResult(t) == resQ' = [resQ EXCEPT ![t] = Tail(@)]

Fetched(t, v, bids) == held' = [held EXCEPT ![t][v] = bids]

\* The coroutine ends and its locals with it.
End(t, v) ==
  /\ Goto(t, v, "done")
  /\ ref' = [ref EXCEPT ![t][v] = 1]
  /\ Fetched(t, v, <<>>)

\* _initiate_cfp up to the await of publish.  The check for an active CFP is
\* made here, the entry it looks for only when publish returns.
InitiateCfp(t, v) ==
  IF t \in activeCfps
    THEN UNCHANGED <<pc, published>>
    ELSE /\ Goto(t, v, "publish")
         /\ published' = published \union {<<t, v>>}

\* Without a pool the task silently stays READY.
ProcessTaskReadiness(t, v) ==
  IF redis THEN InitiateCfp(t, v) ELSE UNCHANGED <<pc, published>>

\* _cancel_cfp_process.  Its caller has just stored the status CANCELLED, so
\* its own overwrite of a status that is not final never applies.
CancelCfpProcess(t) ==
  /\ ForgetCfp(t)
  /\ IF collReg[t] # 0 /\ pc[t][collReg[t]] \in CollectorPcs
       THEN End(t, collReg[t])
       ELSE UNCHANGED locals

-----------------------------------------------------------------------------
(* Calls from other agents.                                                *)

SubmitTask(t, hasDependencies) ==
  /\ Create(t, hasDependencies)
  /\ IF hasDependencies THEN UNCHANGED <<pc, published>>
                        ELSE ProcessTaskReadiness(t, 1)
  /\ UNCHANGED <<activeCfps, collReg, lisReg, ref, held, redis, stopVars,
                 bidders, awards, replies, bidQ, resQ, ratings>>

UpdateTask(t, s, w) ==
  /\ Replace(t, s, w)
  /\ LET status == Updated(t, s, w).status
         becameReady == s = "READY" /\ StatusOf(t) # "READY"
     IN \/ /\ becameReady
           /\ ProcessTaskReadiness(t, made[t] + 1)
           /\ UNCHANGED <<activeCfps, collReg, ref, held>>
        \/ /\ status = "CANCELLED" /\ t \in activeCfps
           /\ CancelCfpProcess(t)
           /\ UNCHANGED published
        \/ /\ ~becameReady /\ ~(status = "CANCELLED" /\ t \in activeCfps)
           /\ UNCHANGED <<activeCfps, collReg, locals, published>>
  /\ UNCHANGED <<lisReg, redis, stopVars,
                 bidders, awards, replies, bidQ, resQ, ratings>>

-----------------------------------------------------------------------------
(* The chain of one call for proposals.                                    *)

PublishReturns(t, v) ==
  /\ pc[t][v] = "publish"
  /\ Store(t, v, "CFP_ISSUED")
  /\ activeCfps' = activeCfps \union {t}
  /\ collReg' = [collReg EXCEPT ![t] = v]
  /\ Goto(t, v, "sleep")
  /\ UNCHANGED <<lisReg, ref, held, redis, stopVars, workerVars, bidQ, resQ,
                 ratings>>

PublishRaises(t, v) ==
  /\ RedisMayFail \/ ~redis
  /\ pc[t][v] = "publish"
  /\ Store(t, v, "FAILED")
  /\ End(t, v)
  /\ UNCHANGED <<activeCfps, collReg, lisReg, redis, stopVars, workerVars, bidQ,
                 resQ, ratings>>

\* _schedule_bid_collection wakes up and _collect_and_evaluate_bids runs up
\* to lrange.  All CFPs are open for the same time: earlier ones end first.
DeadlineReached(t, v) ==
  /\ pc[t][v] = "sleep"
  /\ \A u \in Versions : u < v => pc[t][u] # "sleep"
  /\ \/ /\ t \notin activeCfps
        /\ End(t, v)
        /\ UNCHANGED <<storeVars, activeCfps, collReg>>
     \/ /\ t \in activeCfps /\ redis
        /\ Store(t, cur[t], "EVALUATING_BIDS")
        /\ ref' = [ref EXCEPT ![t][v] = cur[t]]
        /\ Goto(t, v, "lrange")
        /\ UNCHANGED <<activeCfps, collReg, held>>
     \/ /\ t \in activeCfps /\ ~redis
        /\ Store(t, cur[t], "FAILED")
        /\ ForgetCfp(t)
        /\ End(t, v)
  /\ UNCHANGED <<lisReg, redis, stopVars, workerVars, bidQ, resQ, ratings>>

LrangeReturns(t, v) ==
  /\ pc[t][v] = "lrange" /\ redis
  /\ Fetched(t, v, bidQ[t])
  /\ Goto(t, v, "delete")
  /\ UNCHANGED <<storeVars, activeCfps, collReg, lisReg, ref, redis, stopVars,
                 workerVars, bidQ, resQ, ratings>>

\* Mutant of CollectRaises: the handler cleans up and leaves the status.
CollectRaisesUnmarked(t, v) ==
  /\ pc[t][v] \in {"lrange", "delete"}
  /\ RedisMayFail \/ (pc[t][v] = "lrange" /\ ~redis)
  /\ ForgetCfp(t) /\ End(t, v)
  /\ UNCHANGED <<storeVars, lisReg, redis, stopVars, workerVars, bidQ, resQ, ratings>>

\* The except clause of _collect_and_evaluate_bids: the object held since the
\* deadline is marked and stored.
CollectRaises(t, v) ==
  /\ pc[t][v] \in {"lrange", "delete"}
  /\ RedisMayFail \/ (pc[t][v] = "lrange" /\ ~redis)
  /\ Store(t, ref[t][v], "FAILED")
  /\ ForgetCfp(t)
  /\ End(t, v)
  /\ UNCHANGED <<lisReg, redis, stopVars, workerVars, bidQ, resQ, ratings>>

\* compare_bids on one field: ascending, a missing value last.  A value that is
\* no number decides nothing.
Below(x, y) ==
  /\ x # Missing
  /\ y = Missing \/ (x \in Numbers /\ y \in Numbers /\ x < y)

\* The positions of S that field f leaves in front.  With a malformed value the
\* comparison is no order, and any position that has the field may lead.
Leading(bids, S, f) ==
  IF \E i \in S : bids[i].details[f] = NotANumber
    THEN {i \in S : bids[i].details[f] # Missing}
    ELSE {i \in S : \A j \in S : ~Below(bids[j].details[f], bids[i].details[f])}

\* The positions that may come first in _apply_evaluation_criteria's stable
\* sort by cost, then by hours: one, unless a value that decides is malformed.
SortedFirst(bids) ==
  LET cheapest == Leading(bids, DOMAIN bids, "cost")
      fastest == Leading(bids, cheapest, "hours")
  IN IF \E i \in cheapest : bids[i].details.cost = NotANumber THEN cheapest
     ELSE {i \in fastest : \/ \E j \in cheapest : bids[j].details.hours = NotANumber
                           \/ \A j \in fastest : i <= j}

\* delete returned and _evaluate_bids_and_award runs up to rpush, or ends.
DeleteReturns(t, v) ==
  LET bids == held[t][v] IN
  /\ pc[t][v] = "delete"
  /\ bidQ' = [bidQ EXCEPT ![t] = <<>>]
  /\ \/ /\ t \notin activeCfps      \* the CFP is gone
        /\ FailUnlessFinal(t) /\ ForgetCfp(t) /\ End(t, v)
     \/ /\ t \in activeCfps /\ bids = <<>>
        /\ Store(t, cur[t], "BIDDING_FAILED") /\ ForgetCfp(t) /\ End(t, v)
     \/ /\ t \in activeCfps
        /\ \E i \in SortedFirst(bids) :
             \/ /\ bids[i].details.cost = NotANumber     \* AwardMessage does not validate
                /\ obj' = [obj EXCEPT
                     ![t][cur[t]] = [status |-> "AWARDED", assigned_to |-> bids[i].bidder],
                     ![t][ref[t][v]].status = "FAILED"]
                /\ cur' = [cur EXCEPT ![t] = ref[t][v]]
                /\ ForgetCfp(t) /\ End(t, v)
                /\ UNCHANGED made
             \/ /\ bids[i].details.cost # NotANumber /\ redis
                /\ StoreAssigned(t, cur[t], "AWARDED", bids[i].bidder)
                /\ ref' = [ref EXCEPT ![t][v] = cur[t]]
                /\ Fetched(t, v, <<bids[i]>>) /\ Goto(t, v, "rpush")
                /\ UNCHANGED <<activeCfps, collReg>>
             \/ /\ bids[i].details.cost # NotANumber /\ ~redis
                /\ StoreAssigned(t, cur[t], "FAILED", NoWorker)
                /\ ForgetCfp(t) /\ End(t, v)
  /\ UNCHANGED <<lisReg, redis, stopVars, workerVars, resQ, ratings>>

\* Redis appends the award to the winner's queue; the reply is on its way.
AwardPushed(t, v) ==
  /\ pc[t][v] = "rpush"
  /\ awards' = awards \union {<<held[t][v][1].bidder, t, v>>}
  /\ Goto(t, v, "pushed")
  /\ UNCHANGED <<storeVars, activeCfps, collReg, lisReg, ref, held, redis, stopVars,
                 published, bidders, replies, bidQ, resQ, ratings>>

RpushReturns(t, v) ==
  /\ pc[t][v] = "pushed"
  /\ lisReg' = [lisReg EXCEPT ![t] = v]
  /\ ForgetCfp(t)
  /\ Fetched(t, v, <<>>)
  /\ Goto(t, v, "created")
  /\ UNCHANGED <<storeVars, ref, redis, stopVars, workerVars, bidQ, resQ, ratings>>

\* Mutant of RpushRaises: the listener is started although the push failed.
RpushFailureIgnored(t, v) ==
  /\ RedisMayFail /\ pc[t][v] \in {"rpush", "pushed"}
  /\ lisReg' = [lisReg EXCEPT ![t] = v]
  /\ ForgetCfp(t) /\ Fetched(t, v, <<>>) /\ Goto(t, v, "created")
  /\ UNCHANGED <<storeVars, ref, redis, stopVars, workerVars, bidQ, resQ, ratings>>

RpushRaises(t, v) ==
  /\ RedisMayFail
  /\ pc[t][v] \in {"rpush", "pushed"}
  /\ StoreAssigned(t, ref[t][v], "FAILED", NoWorker)
  /\ ForgetCfp(t)
  /\ End(t, v)
  /\ UNCHANGED <<lisReg, redis, stopVars, workerVars, bidQ, resQ, ratings>>

-----------------------------------------------------------------------------
(* _listen_for_task_results.                                               *)

ListenerStarts(t, v) ==
  /\ pc[t][v] = "created"
  /\ \/ /\ redis
        /\ ref' = [ref EXCEPT ![t][v] = cur[t]]
        /\ Goto(t, v, "blpop")
        /\ UNCHANGED <<storeVars, lisReg, held>>
     \/ /\ ~redis
        /\ Store(t, cur[t], "FAILED")
        /\ ForgetListener(t)
        /\ End(t, v)
  /\ UNCHANGED <<activeCfps, collReg, redis, stopVars, workerVars, bidQ,
                 resQ, ratings>>

\* Mutant of ListenerTimesOut: blpop is called with timeout 0 and waits for ever.
NeverTimesOut(t, v) == FALSE

\* The maximum listening time is over when the last blpop came back, empty or
\* with a message that was skipped; a result may have been pushed since.
ListenerTimesOut(t, v) ==
  /\ pc[t][v] = "blpop"
  /\ Store(t, ref[t][v], "FAILED")
  /\ ForgetListener(t)
  /\ End(t, v)
  /\ UNCHANGED <<activeCfps, collReg, redis, stopVars, workerVars, bidQ, resQ,
                 ratings>>

ListenerRaises(t, v) ==
  /\ RedisMayFail \/ ~redis
  /\ pc[t][v] = "blpop"
  /\ FailUnlessFinal(t)
  /\ ForgetListener(t)
  /\ End(t, v)
  /\ UNCHANGED <<activeCfps, collReg, redis, stopVars, workerVars, bidQ, resQ,
                 ratings>>

\* blpop delivered a message.  What does not parse or names another task is
\* skipped; a JSON value that is no object makes the handler raise, which ends
\* the listener.  The sender's worker_id is not looked at, assigned_to is rated.
ResultArrives(t, v) ==
  LET result == Head(resQ[t])
      worker == obj[t][cur[t]].assigned_to
  IN
  /\ pc[t][v] = "blpop" /\ resQ[t] # <<>>
  /\ TakeResult(t)
  /\ \/ /\ result.kind = "invalid"
        /\ UNCHANGED <<storeVars, lisReg, locals, ratings>>
     \/ /\ result.kind = "noObject"
        /\ FailUnlessFinal(t)
        /\ ForgetListener(t)
        /\ End(t, v)
        /\ UNCHANGED ratings
     \/ /\ result.kind \in {"success", "failure"}
        /\ StatusOf(t) \notin {"AWARDED", "IN_PROGRESS"}
        /\ ForgetListener(t)
        /\ End(t, v)
        /\ UNCHANGED <<storeVars, ratings>>
     \/ /\ result.kind \in {"success", "failure"}
        /\ StatusOf(t) \in {"AWARDED", "IN_PROGRESS"}
        /\ Store(t, cur[t], IF result.kind = "success" THEN "COMPLETED" ELSE "FAILED")
        /\ IF HasRegistry /\ worker # NoWorker
             THEN /\ ratings' = ratings \union
                       {[task |-> t, chain |-> v, rated |-> worker, author |-> result.worker]}
                  /\ Goto(t, v, "rating")
                  /\ UNCHANGED <<lisReg, ref, held>>
             ELSE /\ ForgetListener(t)
                  /\ End(t, v)
                  /\ UNCHANGED ratings
  /\ UNCHANGED <<activeCfps, collReg, redis, stopVars, workerVars, bidQ>>

\* record_rating returned, or raised and was logged.
RatingReturns(t, v) ==
  /\ pc[t][v] = "rating"
  /\ ForgetListener(t)
  /\ End(t, v)
  /\ UNCHANGED <<storeVars, activeCfps, collReg, redis, stopVars, workerVars,
                 bidQ, resQ, ratings>>

-----------------------------------------------------------------------------
(* start() and stop().  stop() takes a snapshot of each registry, cancels  *)
(* the tasks in it one by one and awaits every one before the next.        *)

\* The connection hook _connect_redis is left to a subclass.
Start ==
  /\ stopping.phase = "down"
  /\ stopping' = [stopping EXCEPT !.phase = "up"]
  /\ redis' = TRUE
  /\ UNCHANGED <<storeVars, activeCfps, collReg, lisReg, pc, ref, held, stops,
                 workerVars, bidQ, resQ, ratings>>

Registered(reg) == {<<t, reg[t]>> : t \in {u \in Tasks : reg[u] # 0}}

\* The listener loop of stop() from its next entry on, with the registry as
\* the caller leaves it.  A listener that has not started never runs its
\* handler; blpop may have taken a message that is then lost.
StopListeners(chains, reg) ==
  \/ /\ chains = {}
     /\ stopping' = [phase |-> "down", todo |-> {}, at |-> NoChain]
     /\ redis' = FALSE
     /\ lisReg' = reg
     /\ UNCHANGED <<storeVars, locals, resQ>>
  \/ \E c \in chains : LET t == c[1]  v == c[2] IN
     /\ stopping' = [phase |-> "listeners", todo |-> chains \ {c}, at |-> c]
     /\ End(t, v)
     /\ IF pc[t][v] \in {"blpop", "rating"}
          THEN FailUnlessFinal(t) /\ lisReg' = [reg EXCEPT ![t] = 0]
          ELSE UNCHANGED storeVars /\ lisReg' = reg
     /\ \/ UNCHANGED resQ
        \/ /\ pc[t][v] = "blpop" /\ resQ[t] # <<>>
           /\ TakeResult(t)
     /\ UNCHANGED redis

\* The collector loop from its next entry on; after it active_cfps.clear().
StopCollectors(chains) ==
  \/ /\ chains = {}
     /\ activeCfps' = {}
     /\ StopListeners(Registered(lisReg), lisReg)
  \/ \E c \in chains : LET t == c[1]  v == c[2] IN
     /\ stopping' = [phase |-> "collectors", todo |-> chains \ {c}, at |-> c]
     /\ IF pc[t][v] \in CollectorPcs THEN End(t, v) ELSE UNCHANGED locals
     /\ UNCHANGED <<storeVars, activeCfps, lisReg, redis, resQ>>

Stop ==
  /\ stopping.phase = "up" /\ stops < MaxStops
  /\ stops' = stops + 1
  /\ StopCollectors(Registered(collReg))
  /\ UNCHANGED <<collReg, workerVars, bidQ, ratings>>

\* The awaited collection task is gone: its entry goes too, whoever's it is.
CollectorStopped ==
  /\ stopping.phase = "collectors"
  /\ collReg' = [collReg EXCEPT ![stopping.at[1]] = 0]
  /\ StopCollectors(stopping.todo)
  /\ UNCHANGED <<stops, workerVars, bidQ, ratings>>

ListenerStopped ==
  /\ stopping.phase = "listeners"
  /\ StopListeners(stopping.todo, [lisReg EXCEPT ![stopping.at[1]] = 0])
  /\ UNCHANGED <<activeCfps, collReg, stops, workerVars, bidQ, ratings>>

-----------------------------------------------------------------------------
(* Workers.                                                                *)

WorkerBids(w, t, v, d) ==
  /\ <<t, v>> \in published /\ <<w, t, v>> \notin bidders
  /\ bidders' = bidders \union {<<w, t, v>>}
  /\ bidQ' = [bidQ EXCEPT ![t] = Append(@, [bidder |-> w, details |-> d])]
  /\ UNCHANGED <<storeVars, agentVars, stopVars, published, awards, replies, resQ,
                 ratings>>

WorkerReplies(w, t, v, k) ==
  /\ <<w, t, v>> \in awards \ replies
  /\ replies' = replies \union {<<w, t, v>>}
  /\ resQ' = [resQ EXCEPT ![t] = Append(@, [worker |-> w, kind |-> k])]
  /\ UNCHANGED <<storeVars, agentVars, stopVars, published, bidders, awards, bidQ,
                 ratings>>

-----------------------------------------------------------------------------

ChainStep(t, v) ==
  \/ PublishReturns(t, v) \/ PublishRaises(t, v)
  \/ DeadlineReached(t, v)
  \/ LrangeReturns(t, v) \/ CollectRaises(t, v) \/ DeleteReturns(t, v)
  \/ AwardPushed(t, v) \/ RpushReturns(t, v) \/ RpushRaises(t, v)
  \/ ListenerStarts(t, v) \/ ListenerTimesOut(t, v) \/ ListenerRaises(t, v)
  \/ ResultArrives(t, v) \/ RatingReturns(t, v)

Next ==
  \/ \E t \in Tasks, d \in BOOLEAN : SubmitTask(t, d)
  \/ \E t \in Tasks, s \in UpdateStatuses, w \in UpdateAssignees :
       UpdateTask(t, s, w)
  \/ \E t \in Tasks, v \in Versions : ChainStep(t, v)
  \/ Start \/ Stop \/ CollectorStopped \/ ListenerStopped
  \/ \E w \in Workers, t \in Tasks, v \in Versions, d \in BidDetails :
       WorkerBids(w, t, v, d)
  \/ \E w \in Workers, t \in Tasks, v \in Versions, k \in ReplyKinds :
       WorkerReplies(w, t, v, k)

Spec == Init /\ [][Next]_vars

\* The steps of a chain that no failure of Redis takes: without a pool, each
\* call raises.
ChainProgress(t, v) ==
  \/ PublishReturns(t, v) \/ DeadlineReached(t, v)
  \/ LrangeReturns(t, v) \/ DeleteReturns(t, v)
  \/ AwardPushed(t, v) \/ RpushReturns(t, v)
  \/ ListenerStarts(t, v) \/ ListenerTimesOut(t, v)
  \/ ResultArrives(t, v) \/ RatingReturns(t, v)
  \/ ~redis /\ (PublishRaises(t, v) \/ CollectRaises(t, v) \/ ListenerRaises(t, v))

\* The event loop resumes a coroutine whose timer fired or whose Redis reply
\* arrived, and every wait of a chain ends in one of the two.  No failure of a
\* Redis that answers is counted on.
FairSpec == Spec /\ \A t \in Tasks, v \in Versions : WF_vars(ChainProgress(t, v))

-----------------------------------------------------------------------------
(* Properties.                                                             *)

\* A call for proposals in active_cfps always has a live collector under its
\* name in cfp_bid_collection_tasks, whatever updates, failures and competing
\* initiations did: nothing else would ever evaluate it or let the task be
\* put up again, since _initiate_cfp ignores a task with an active CFP.
\* Only stop(), between its first cancellation and active_cfps.clear(), may
\* be seen without.
CfpHasCollector ==
  stopping.phase # "collectors" =>
    \A t \in activeCfps :
      collReg[t] # 0 /\ pc[t][collReg[t]] \in CollectorPcs

\* Until the agent is stopped, a task in EVALUATING_BIDS is being evaluated
\* and an AWARDED task has a chain that sends the award or listens for the
\* result: no update, stale object or second chain leaves the status behind
\* with nobody to change it.
InHands ==
  stops = 0 =>
    \A t \in Tasks : Submitted(t) =>
      /\ StatusOf(t) = "EVALUATING_BIDS" =>
           \E v \in Versions : pc[t][v] \in {"lrange", "delete"}
      /\ StatusOf(t) = "AWARDED" =>
           \E v \in Versions : pc[t][v] \in {"rpush", "pushed", "created", "blpop"}

\* Until the agent is stopped, the assignee an AWARDED task shows is the worker
\* a live chain has sent, or is sending, the award to: neither a failed push nor
\* a stale object of an earlier round, nor its listener's end, leaves a winner
\* who was never told or whose result nobody waits for.
AwardeeIsTold ==
  stops = 0 =>
    \A t \in Tasks : Submitted(t) /\ StatusOf(t) = "AWARDED" =>
      \E v \in Versions : LET w == obj[t][cur[t]].assigned_to IN
        \/ pc[t][v] = "rpush" /\ held[t][v][1].bidder = w
        \/ pc[t][v] \in {"pushed", "created", "blpop"} /\ <<w, t, v>> \in awards

\* Every rating stems from a reply of its own: a result is rated once even
\* when two listeners of a task share its result list.
RatingsBackedByReplies ==
  \A t \in Tasks :
    Cardinality({r \in ratings : r.task = t}) <= Cardinality({m \in replies : m[2] = t})

\* "Call for Proposals issued, awaiting bids" (TaskStatus.CFP_ISSUED): a task
\* in this status has an active call.
CfpIssuedAwaitsBids ==
  \A t \in Tasks : Submitted(t) /\ StatusOf(t) = "CFP_ISSUED" => t \in activeCfps

\* The rated agent is the one whose result is rated: ReputationRating is
\* "submitted for an agent after completing a task".
RatedAgentDidTheTask == \A r \in ratings : r.rated = r.author

InBidding(t) ==
  Submitted(t) /\ StatusOf(t) \in {"CFP_ISSUED", "EVALUATING_BIDS"}

InAward(t) == Submitted(t) /\ StatusOf(t) = "AWARDED"

\* The clean-up of one round took the active call of a round that overlaps it:
\* what CfpIssuedAwaitsBids is about.
CallTakenByOtherRound(t) ==
  /\ StatusOf(t) = "CFP_ISSUED" /\ t \notin activeCfps
  /\ \E u, v \in Versions : u # v /\ {<<t, u>>, <<t, v>>} \subseteq published

\* A call for proposals does not stay open: the task leaves the bidding, in
\* every round and however often it is put up again.  The one exception is the
\* call that another round's clean-up took: its collector finds no entry.
BiddingEnds ==
  \A t \in Tasks : InBidding(t) ~> (~InBidding(t) \/ CallTakenByOtherRound(t))

\* An awarded task is decided, by its result or by the listener's timeout,
\* even when the worker never answers.
AwardIsDecided == \A t \in Tasks : InAward(t) ~> ~InAward(t)

=============================================================================
