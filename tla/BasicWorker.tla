---------------------------- MODULE BasicWorker ----------------------------
(***************************************************************************)
(* BasicWorkerAgent, the bidder of the contract net: a listener for calls  *)
(* for proposals, a listener for awards, one detached coroutine for every  *)
(* awarded task, and the start() and stop() around them.                   *)
(*                                                                         *)
(* start() and stop() are called one after the other and awaited, as main  *)
(* and run_contract_net_test.py do.  The module is run as a script: only   *)
(* then is the name random imported, without which no bid is ever made.    *)
(***************************************************************************)
EXTENDS Integers, Sequences, FiniteSets

CONSTANTS
  Tasks,       \* tasks that are put up for bids, once each
  Foreign,     \* those whose award does not name this worker or does not parse
  MaxStarts,   \* bound: calls of start()
  MaxFailures  \* bound: Redis calls that raise

ASSUME BasicWorkerAssumption ==
  /\ Foreign \subseteq Tasks
  /\ MaxStarts \in Nat /\ MaxFailures \in Nat

VARIABLES
  isRunning,  \* is_running
  pool,       \* redis_pool is set
  client,     \* pubsub_client is set
  call,       \* the await start() or stop() is suspended in
  starts,     \* calls of start() so far
  cfps,       \* where the CFP listener is; "none" when no such task is alive
  awards,     \* where the award listener is
  cancelled,  \* listeners with a cancellation under way
  subscribed, \* Redis has the subscription
  inbox,      \* calls for proposals it holds
  published,  \* tasks whose CFP was published
  bidding,    \* the task of the bid being pushed
  bids,       \* tasks with a bid in their list
  awardQ,     \* the worker's award list
  work,       \* work[t]: what became of the award of t
  failures,   \* Redis calls that raised
  unheard     \* a subscribe raised

lifecycleVars == <<isRunning, pool, call, starts>>
cfpVars == <<cfps, client, subscribed, inbox, bidding, bids>>
awardVars == <<awards, awardQ, work>>
failureVars == <<failures, unheard>>
vars == <<lifecycleVars, cfpVars, awardVars, failureVars, cancelled, published>>

CfpPcs == {"none", "created", "subscribe", "get", "bid", "resubscribe", "retry", "closing"}
AwardPcs == {"none", "created", "blpop", "retry"}
WorkStates == {"none", "queued", "discarded", "working", "sending", "sent", "lost"}

\* The values every variable ranges over; only live listeners are cancelled,
\* and a bid is under way exactly in the await of its push.
TypeOK ==
  /\ isRunning \in BOOLEAN /\ pool \in BOOLEAN /\ client \in BOOLEAN
  /\ call \in {"none", "ping", "gather", "unsubscribe", "close"}
  /\ starts \in 0..MaxStarts
  /\ cfps \in CfpPcs /\ awards \in AwardPcs
  /\ cancelled \in SUBSET {"cfps", "awards"}
  /\ ("cfps" \in cancelled => cfps # "none")
  /\ ("awards" \in cancelled => awards # "none")
  /\ subscribed \in BOOLEAN /\ inbox \in Seq(Tasks)
  /\ published \in SUBSET Tasks /\ bids \in SUBSET Tasks
  /\ bidding \in SUBSET Tasks /\ (bidding # {} <=> cfps = "bid")
  /\ awardQ \in Seq(Tasks) /\ work \in [Tasks -> WorkStates]
  /\ failures \in 0..MaxFailures /\ unheard \in BOOLEAN

Init ==
  /\ isRunning = FALSE /\ pool = FALSE /\ client = FALSE
  /\ call = "none" /\ starts = 0
  /\ cfps = "none" /\ awards = "none" /\ cancelled = {}
  /\ subscribed = FALSE /\ inbox = <<>> /\ published = {}
  /\ bidding = {} /\ bids = {}
  /\ awardQ = <<>> /\ work = [t \in Tasks |-> "none"]
  /\ failures = 0 /\ unheard = FALSE

Fails == failures < MaxFailures /\ failures' = failures + 1

-----------------------------------------------------------------------------
(* start() and stop().                                                     *)

\* start() up to the ping of _connect_redis; the pool is entered before it.
Start ==
  /\ call = "none" /\ ~isRunning /\ starts < MaxStarts
  /\ starts' = starts + 1
  /\ isRunning' = TRUE /\ pool' = TRUE /\ call' = "ping"
  /\ UNCHANGED <<cfpVars, awardVars, failureVars, cancelled, published>>

PingReturns ==
  /\ call = "ping"
  /\ cfps' = "created" /\ awards' = "created" /\ call' = "none"
  /\ UNCHANGED <<isRunning, pool, starts, client, subscribed, inbox, bidding, bids,
                 awardQ, work, failureVars, cancelled, published>>

PingRaises ==
  /\ call = "ping" /\ Fails
  /\ isRunning' = FALSE /\ pool' = FALSE /\ call' = "none"
  /\ UNCHANGED <<starts, cfpVars, awardVars, unheard, cancelled, published>>

\* The tasks of _tasks that are not done.
Live == {l \in {"cfps", "awards"} :
           IF l = "cfps" THEN cfps # "none" ELSE awards # "none"}

\* stop() up to the await of gather.  A running worker always has its award
\* listener, so there is something to wait for.
Stop ==
  /\ call = "none" /\ isRunning
  /\ isRunning' = FALSE
  /\ cancelled' = Live
  /\ call' = "gather"
  /\ UNCHANGED <<pool, starts, cfpVars, awardVars, failureVars, published>>

\* Mutant of AllEnded: only the award listener is awaited.
AwardsEnded == awards = "none"

AllEnded == cfps = "none" /\ awards = "none"

\* A CFP listener that was cancelled in its clean-up leaves the client to stop().
GatherReturns ==
  /\ call = "gather" /\ AllEnded
  /\ call' = IF client THEN "unsubscribe" ELSE "close"
  /\ UNCHANGED <<isRunning, pool, starts, cfpVars, awardVars, failureVars, cancelled,
                 published>>

\* unsubscribe and close of the client returned, or raised and were logged.
StopUnsubscribed ==
  /\ call = "unsubscribe"
  /\ client' = FALSE /\ subscribed' = FALSE /\ inbox' = <<>>
  /\ call' = "close"
  /\ UNCHANGED <<isRunning, pool, starts, cfps, bidding, bids, awardVars, failureVars,
                 cancelled, published>>

\* So did close and disconnect of the pool.
StopClosed ==
  /\ call = "close"
  /\ pool' = FALSE /\ call' = "none"
  /\ UNCHANGED <<isRunning, starts, cfpVars, awardVars, failureVars, cancelled, published>>

-----------------------------------------------------------------------------
(* _listen_for_cfps.  "get" stands for get_message and the short sleep     *)
(* between two of them.                                                    *)

Undisturbed(l) == l \notin cancelled

\* The head of the loop, or its end and the finally clause.
CfpLoop == cfps' = IF isRunning THEN "get" ELSE "closing"

CfpsStart ==
  /\ cfps = "created" /\ Undisturbed("cfps")
  /\ cfps' = IF pool THEN "subscribe" ELSE "none"
  /\ client' = pool
  /\ UNCHANGED <<lifecycleVars, subscribed, inbox, bidding, bids, awardVars, failureVars,
                 cancelled, published>>

Subscribed ==
  /\ cfps \in {"subscribe", "resubscribe"} /\ Undisturbed("cfps")
  /\ subscribed' = TRUE
  /\ CfpLoop
  /\ UNCHANGED <<lifecycleVars, client, inbox, bidding, bids, awardVars, failureVars,
                 cancelled, published>>

\* Neither the first subscribe nor the one in the except clause is inside a
\* try of the loop: the listener ends, and the worker runs on without it.
SubscribeRaises ==
  /\ cfps \in {"subscribe", "resubscribe"} /\ Undisturbed("cfps") /\ Fails
  /\ unheard' = TRUE
  /\ cfps' = "closing"
  /\ UNCHANGED <<lifecycleVars, client, subscribed, inbox, bidding, bids, awardVars,
                 cancelled, published>>

\* _handle_cfp_message: what does not parse and one call in five is left; for
\* the others the bid is pushed.
CfpReceived ==
  /\ cfps = "get" /\ Undisturbed("cfps") /\ inbox # <<>>
  /\ inbox' = Tail(inbox)
  /\ \/ CfpLoop /\ UNCHANGED bidding
     \/ cfps' = "bid" /\ bidding' = {Head(inbox)}
  /\ UNCHANGED <<lifecycleVars, client, subscribed, bids, awardVars, failureVars,
                 cancelled, published>>

BidReturns ==
  /\ cfps = "bid" /\ Undisturbed("cfps")
  /\ bids' = bids \union bidding /\ bidding' = {}
  /\ CfpLoop
  /\ UNCHANGED <<lifecycleVars, client, subscribed, inbox, awardVars, failureVars,
                 cancelled, published>>

\* The bid may have reached the list all the same.
BidRaises ==
  /\ cfps = "bid" /\ Undisturbed("cfps") /\ Fails
  /\ \E b \in {{}, bidding} : bids' = bids \union b
  /\ bidding' = {}
  /\ CfpLoop
  /\ UNCHANGED <<lifecycleVars, client, subscribed, inbox, awardVars, unheard, cancelled,
                 published>>

\* Mutant of GetFails: the error ends the loop.
GetFailsForGood == cfps' = "closing" /\ UNCHANGED <<subscribed, inbox>>

\* A ConnectionError: _connect_redis finds the pool set and does nothing, a new
\* client takes the place of the old.  Any other error: sleep(1).
GetFails ==
  \/ cfps' = "resubscribe" /\ subscribed' = FALSE /\ inbox' = <<>>
  \/ cfps' = "retry" /\ UNCHANGED <<subscribed, inbox>>

GetRaises ==
  /\ cfps = "get" /\ Undisturbed("cfps") /\ Fails
  /\ GetFails
  /\ UNCHANGED <<lifecycleVars, client, bidding, bids, awardVars, unheard, cancelled,
                 published>>

CfpsRetry ==
  /\ cfps = "retry" /\ Undisturbed("cfps")
  /\ CfpLoop
  /\ UNCHANGED <<lifecycleVars, client, subscribed, inbox, bidding, bids, awardVars,
                 failureVars, cancelled, published>>

\* The finally clause; an error in it is logged.
CfpsClosed ==
  /\ cfps = "closing" /\ Undisturbed("cfps")
  /\ cfps' = "none" /\ client' = FALSE /\ subscribed' = FALSE /\ inbox' = <<>>
  /\ UNCHANGED <<lifecycleVars, bidding, bids, awardVars, failureVars, cancelled, published>>

\* CancelledError is raised in the await: before the first step nothing runs;
\* within the finally clause it ends the clean-up; from everywhere else it
\* leads there.  A bid being pushed may have reached the list.
CfpsCancelled ==
  /\ "cfps" \in cancelled
  /\ cancelled' = cancelled \ {"cfps"}
  /\ cfps' = IF cfps \in {"created", "closing"} THEN "none" ELSE "closing"
  /\ \E b \in {{}, bidding} : bids' = bids \union b
  /\ bidding' = {}
  /\ UNCHANGED <<lifecycleVars, client, subscribed, inbox, awardVars, failureVars, published>>

-----------------------------------------------------------------------------
(* _listen_for_awards and _execute_task.                                   *)

AwardLoop == awards' = IF isRunning THEN "blpop" ELSE "none"

AwardsStart ==
  /\ awards = "created" /\ Undisturbed("awards")
  /\ IF pool THEN AwardLoop ELSE awards' = "none"
  /\ UNCHANGED <<lifecycleVars, cfpVars, awardQ, work, failureVars, cancelled, published>>

\* An award of its own is executed in a task nobody keeps a reference to.
AwardPopped ==
  /\ awards = "blpop" /\ Undisturbed("awards") /\ awardQ # <<>>
  /\ awardQ' = Tail(awardQ)
  /\ work' = [work EXCEPT ![Head(awardQ)] =
                IF Head(awardQ) \in Foreign THEN "discarded" ELSE "working"]
  /\ AwardLoop
  /\ UNCHANGED <<lifecycleVars, cfpVars, failureVars, cancelled, published>>

\* Redis took the award off the list and its reply never came.
PoppedUnseen ==
  /\ awardQ # <<>>
  /\ awardQ' = Tail(awardQ)
  /\ work' = [work EXCEPT ![Head(awardQ)] = "lost"]

\* Mutant of PopFails: the error ends the loop.
PopFailsForGood == awards' = "none"

\* A ConnectionError leads straight to the next blpop, another error to a sleep.
PopFails == \E pc \in {"blpop", "retry"} : awards' = pc

PopRaises ==
  /\ awards = "blpop" /\ Undisturbed("awards") /\ Fails
  /\ PopFails
  /\ PoppedUnseen \/ UNCHANGED <<awardQ, work>>
  /\ UNCHANGED <<lifecycleVars, cfpVars, unheard, cancelled, published>>

AwardsRetry ==
  /\ awards = "retry" /\ Undisturbed("awards")
  /\ AwardLoop
  /\ UNCHANGED <<lifecycleVars, cfpVars, awardQ, work, failureVars, cancelled, published>>

AwardsCancelled ==
  /\ "awards" \in cancelled
  /\ cancelled' = cancelled \ {"awards"}
  /\ awards' = "none"
  /\ (awards = "blpop" /\ PoppedUnseen) \/ UNCHANGED <<awardQ, work>>
  /\ UNCHANGED <<lifecycleVars, cfpVars, failureVars, published>>

\* The work is done, well or not; stop() may have taken the pool away, and a
\* later start() may have brought another.
WorkDone(t) ==
  /\ work[t] = "working"
  /\ work' = [work EXCEPT ![t] = IF pool THEN "sending" ELSE "lost"]
  /\ UNCHANGED <<lifecycleVars, cfpVars, awards, awardQ, failureVars, cancelled, published>>

ResultPushed(t) ==
  /\ work[t] = "sending"
  /\ work' = [work EXCEPT ![t] = "sent"]
  /\ UNCHANGED <<lifecycleVars, cfpVars, awards, awardQ, failureVars, cancelled, published>>

\* Also because stop() closes the connections under it; the result may have
\* reached the list.
ResultRaises(t) ==
  /\ work[t] = "sending"
  /\ Fails \/ ((call = "close" \/ ~pool) /\ UNCHANGED failures)
  /\ \E s \in {"sent", "lost"} : work' = [work EXCEPT ![t] = s]
  /\ UNCHANGED <<lifecycleVars, cfpVars, awards, awardQ, unheard, cancelled, published>>

-----------------------------------------------------------------------------
(* The orchestrator, as its messages show it.                              *)

\* Pub/sub: who is not subscribed misses the call.
CfpPublished(t) ==
  /\ t \notin published
  /\ published' = published \union {t}
  /\ inbox' = IF subscribed THEN Append(inbox, t) ELSE inbox
  /\ UNCHANGED <<lifecycleVars, cfps, client, subscribed, bidding, bids, awardVars,
                 failureVars, cancelled>>

\* A bidder is awarded the task at most once.
AwardPushed(t) ==
  /\ t \in bids /\ work[t] = "none"
  /\ awardQ' = Append(awardQ, t)
  /\ work' = [work EXCEPT ![t] = "queued"]
  /\ UNCHANGED <<lifecycleVars, cfpVars, awards, failureVars, cancelled, published>>

-----------------------------------------------------------------------------

LifecycleStep == PingReturns \/ GatherReturns \/ StopUnsubscribed \/ StopClosed

CfpStep ==
  \/ CfpsStart \/ Subscribed \/ CfpReceived \/ BidReturns \/ CfpsRetry
  \/ CfpsClosed \/ CfpsCancelled

AwardStep == AwardsStart \/ AwardPopped \/ AwardsRetry \/ AwardsCancelled

Next ==
  \/ Start \/ Stop \/ LifecycleStep \/ PingRaises
  \/ CfpStep \/ SubscribeRaises \/ BidRaises \/ GetRaises
  \/ AwardStep \/ PopRaises
  \/ \E t \in Tasks :
       \/ WorkDone(t) \/ ResultPushed(t) \/ ResultRaises(t)
       \/ CfpPublished(t) \/ AwardPushed(t)

Spec == Init /\ [][Next]_vars

\* The event loop resumes a coroutine whose reply came or whose sleep is over.
Fairness == WF_vars(LifecycleStep) /\ WF_vars(CfpStep) /\ WF_vars(AwardStep)
FairSpec == Spec /\ Fairness

-----------------------------------------------------------------------------
(* Properties.                                                             *)

Settled == call = "none"

\* When stop() has returned, or start() has given up, nothing of the worker is
\* left listening, at whatever await the listeners were cancelled: no listener,
\* no client, no subscription that would go on taking messages, no pool.
StoppedIsQuiet ==
  Settled /\ ~isRunning =>
    cfps = "none" /\ awards = "none" /\ ~client /\ ~subscribed /\ ~pool

\* A running worker listens for awards whatever fails, and for calls for
\* proposals unless a subscribe failed, which is the one error its listener
\* does not come back from.
ListenersServe ==
  Settled /\ isRunning =>
    awards # "none" /\ (cfps \in {"none", "closing"} => unheard)

\* An award in the list is taken up, also when Redis failed and when it was
\* pushed before a restart, as long as the worker is not stopped.
AwardIsTakenUp ==
  \A t \in Tasks : work[t] = "queued" ~> (work[t] # "queued" \/ ~isRunning)

=============================================================================
