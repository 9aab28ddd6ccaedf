---------------------------- MODULE WorkerProofs ----------------------------
(***************************************************************************)
(* The programs that wait at Redis.  A worker of the contract net: its     *)
(* type invariant, and that a stopped worker is quiet and a running one    *)
(* served; the strengthening says what holds in each phase of start() and  *)
(* stop(), the times the two properties do not speak of.  Then those of    *)
(* the marketing crew that work off lists, wherever a push, a callback or  *)
(* a crew raises: a swarm shows what it passes on, and listens while it    *)
(* runs; the instruction worker tells one outcome; and the queue workers   *)
(* tell the user what they do.  All of it for any tasks, messages, swarms  *)
(* and bounds.                                                             *)
(***************************************************************************)
EXTENDS MCBasicWorker, FiniteSetTheorems, SequenceTheorems, TLAPS

-----------------------------------------------------------------------------
(* BasicWorker.                                                            *)

\* start() is waiting for its ping: there is nothing yet but the pool.
WhilePinging ==
  call = "ping" =>
    isRunning /\ pool /\ cfps = "none" /\ awards = "none" /\ ~client

\* A running worker has its pool, and an award listener.
WhileRunning ==
  call = "none" /\ isRunning =>
    pool /\ awards # "none" /\ (cfps \in {"none", "closing"} => unheard)

\* stop() waits for listeners that are cancelled or in their clean-up.
WhileGathering ==
  call = "gather" =>
    /\ ~isRunning
    /\ awards # "none" => "awards" \in cancelled
    /\ cfps # "none" => "cfps" \in cancelled \/ cfps = "closing"

\* After that no listener is left.
WhileClosing ==
  call \in {"unsubscribe", "close"} =>
    /\ ~isRunning /\ cfps = "none" /\ awards = "none"
    /\ call = "close" => ~client

\* Only stop() cancels.
Cancelling == cancelled # {} => call = "gather"

\* A listener past its first step has the client, and a subscription is one of
\* the client.
ClientSubscribes == subscribed \/ cfps \notin {"none", "created"} => client

IInv ==
  /\ TypeOK /\ StoppedIsQuiet
  /\ WhilePinging /\ WhileRunning /\ WhileGathering /\ WhileClosing
  /\ Cancelling /\ ClientSubscribes

\* In the initial state the worker was never started.
LEMMA InitEstablishes == Init => IInv
<1> SUFFICES ASSUME Init PROVE IInv
  OBVIOUS
<1>1. TypeOK
  <2>1. inbox \in Seq(Tasks) /\ awardQ \in Seq(Tasks)
    BY DEF Init
  <2>2. starts \in 0..MaxStarts /\ failures \in 0..MaxFailures
    BY BasicWorkerAssumption DEF Init
  <2>3. work \in [Tasks -> WorkStates]
    BY DEF Init, WorkStates
  <2>4. cfps \in CfpPcs /\ awards \in AwardPcs
    BY DEF Init, CfpPcs, AwardPcs
  <2> QED BY <2>1, <2>2, <2>3, <2>4, Zenon DEF Init, TypeOK
<1>2. StoppedIsQuiet
  BY DEF Init, StoppedIsQuiet
<1>3. WhilePinging /\ WhileRunning /\ WhileGathering /\ WhileClosing
  BY DEF Init, WhilePinging, WhileRunning, WhileGathering, WhileClosing
<1>4. Cancelling /\ ClientSubscribes
  BY DEF Init, Cancelling, ClientSubscribes
<1> QED BY <1>1, <1>2, <1>3, <1>4 DEF IInv

\* A failure is counted within its bound.
LEMMA FailsIsBounded ==
  ASSUME failures \in 0..MaxFailures, Fails
  PROVE  failures' \in 0..MaxFailures
  BY BasicWorkerAssumption DEF Fails

\* An award that is taken off the list unseen leaves the types of list and record.
LEMMA PoppedUnseenTypes ==
  ASSUME awardQ \in Seq(Tasks), work \in [Tasks -> WorkStates],
         PoppedUnseen \/ UNCHANGED <<awardQ, work>>
  PROVE  awardQ' \in Seq(Tasks) /\ work' \in [Tasks -> WorkStates]
<1>1. CASE PoppedUnseen
  <2>1. Tail(awardQ) \in Seq(Tasks)
    BY <1>1 DEF PoppedUnseen
  <2> QED BY <1>1, <2>1 DEF PoppedUnseen, WorkStates
<1>2. CASE UNCHANGED <<awardQ, work>>
  BY <1>2
<1> QED BY <1>1, <1>2

\* Every step keeps the type invariant.  That no bid is under way when start()
\* makes the listeners is what WhilePinging adds.
LEMMA TypeKept == TypeOK /\ WhilePinging /\ [Next]_vars => TypeOK'
<1> SUFFICES ASSUME TypeOK, WhilePinging, [Next]_vars PROVE TypeOK'
  OBVIOUS
<1>0. <<>> \in Seq(Tasks)
  OBVIOUS
<1> USE BasicWorkerAssumption DEF TypeOK, CfpPcs, AwardPcs, WorkStates
<1>1. CASE Start
  BY <1>1 DEF Start, cfpVars, awardVars, failureVars
<1>2. CASE Stop
  BY <1>2 DEF Stop, Live, cfpVars, awardVars, failureVars
<1>3. CASE LifecycleStep \/ PingRaises
  <2>1. CASE PingReturns
    BY <2>1 DEF PingReturns, failureVars, WhilePinging
  <2>2. CASE GatherReturns
    BY <2>2 DEF GatherReturns, cfpVars, awardVars, failureVars
  <2>3. CASE StopUnsubscribed
    BY <1>0, <2>3 DEF StopUnsubscribed, awardVars, failureVars
  <2>4. CASE StopClosed
    BY <2>4 DEF StopClosed, cfpVars, awardVars, failureVars
  <2>5. CASE PingRaises
    BY <2>5, FailsIsBounded DEF PingRaises, cfpVars, awardVars
  <2> QED BY <1>3, <2>1, <2>2, <2>3, <2>4, <2>5 DEF LifecycleStep
<1>4. CASE CfpStep
  <2> USE DEF lifecycleVars, awardVars, failureVars, Undisturbed
  <2>1. CASE CfpsStart
    BY <2>1 DEF CfpsStart
  <2>2. CASE Subscribed
    BY <2>2 DEF Subscribed, CfpLoop
  <2>3. CASE CfpReceived
    <3>1. Head(inbox) \in Tasks /\ Tail(inbox) \in Seq(Tasks)
      BY <2>3 DEF CfpReceived
    <3>2. inbox' \in Seq(Tasks) /\ bidding' \in SUBSET Tasks
      BY <2>3, <3>1 DEF CfpReceived
    <3>3. cfps' \in CfpPcs /\ (bidding' # {} <=> cfps' = "bid") /\ cfps' # "none"
      BY <2>3 DEF CfpReceived, CfpLoop
    <3>4. UNCHANGED <<isRunning, pool, client, call, starts, awards, cancelled, subscribed,
                      published, bids, awardQ, work, failures, unheard>>
      BY <2>3 DEF CfpReceived, failureVars
    <3> QED BY <3>2, <3>3, <3>4
  <2>4. CASE BidReturns
    BY <2>4 DEF BidReturns, CfpLoop
  <2>5. CASE CfpsRetry
    BY <2>5 DEF CfpsRetry, CfpLoop
  <2>6. CASE CfpsClosed
    BY <1>0, <2>6 DEF CfpsClosed
  <2>7. CASE CfpsCancelled
    BY <2>7 DEF CfpsCancelled
  <2> QED BY <1>4, <2>1, <2>2, <2>3, <2>4, <2>5, <2>6, <2>7 DEF CfpStep
<1>5. CASE SubscribeRaises \/ BidRaises \/ GetRaises
  <2> USE DEF lifecycleVars, awardVars, Undisturbed
  <2>1. CASE SubscribeRaises
    BY <2>1, FailsIsBounded DEF SubscribeRaises
  <2>2. CASE BidRaises
    BY <2>2, FailsIsBounded DEF BidRaises, CfpLoop
  <2>3. CASE GetRaises
    BY <1>0, <2>3, FailsIsBounded DEF GetRaises, GetFails
  <2> QED BY <1>5, <2>1, <2>2, <2>3
<1>6. CASE AwardStep \/ PopRaises
  <2> USE DEF lifecycleVars, cfpVars, Undisturbed
  <2>1. ASSUME awardQ # <<>>
        PROVE  /\ Head(awardQ) \in Tasks /\ Tail(awardQ) \in Seq(Tasks)
               /\ \A s \in WorkStates :
                    [work EXCEPT ![Head(awardQ)] = s] \in [Tasks -> WorkStates]
    BY <2>1
  <2>2. CASE AwardsStart
    BY <2>2 DEF AwardsStart, AwardLoop, failureVars
  <2>3. CASE AwardPopped
    BY <2>1, <2>3 DEF AwardPopped, AwardLoop, failureVars
  <2>4. CASE AwardsRetry
    BY <2>4 DEF AwardsRetry, AwardLoop, failureVars
  <2>5. CASE AwardsCancelled
    <3>1. awardQ' \in Seq(Tasks) /\ work' \in [Tasks -> WorkStates]
      BY <2>5, PoppedUnseenTypes DEF AwardsCancelled
    <3> QED BY <2>5, <3>1 DEF AwardsCancelled, failureVars
  <2>6. CASE PopRaises
    <3>1. awardQ' \in Seq(Tasks) /\ work' \in [Tasks -> WorkStates]
      BY <2>6, PoppedUnseenTypes DEF PopRaises
    <3> QED BY <2>6, <3>1, FailsIsBounded DEF PopRaises, PopFails
  <2> QED BY <1>6, <2>2, <2>3, <2>4, <2>5, <2>6 DEF AwardStep
<1>7. ASSUME NEW t \in Tasks,
             WorkDone(t) \/ ResultPushed(t) \/ ResultRaises(t) \/ CfpPublished(t) \/ AwardPushed(t)
      PROVE  TypeOK'
  <2> USE DEF lifecycleVars, cfpVars, awardVars
  <2>1. CASE WorkDone(t)
    BY <2>1 DEF WorkDone, failureVars
  <2>2. CASE ResultPushed(t)
    BY <2>2 DEF ResultPushed, failureVars
  <2>3. CASE ResultRaises(t)
    BY <2>3, FailsIsBounded DEF ResultRaises
  <2>4. CASE CfpPublished(t)
    BY <2>4 DEF CfpPublished, failureVars
  <2>5. CASE AwardPushed(t)
    BY <2>5 DEF AwardPushed, failureVars
  <2> QED BY <1>7, <2>1, <2>2, <2>3, <2>4, <2>5
<1>8. CASE UNCHANGED vars
  BY <1>8 DEF vars, lifecycleVars, cfpVars, awardVars, failureVars
<1> QED BY <1>1, <1>2, <1>3, <1>4, <1>5, <1>6, <1>7, <1>8 DEF Next

\* What the steps of a phase do to the phases.  All are about the same few
\* variables, so each group of steps is one case.
LEMMA PhasesKept ==
  ASSUME IInv, [Next]_vars
  PROVE  /\ StoppedIsQuiet' /\ WhilePinging' /\ WhileRunning' /\ WhileGathering'
         /\ WhileClosing' /\ Cancelling' /\ ClientSubscribes'
<1> USE DEF IInv, StoppedIsQuiet, Settled, WhilePinging, WhileRunning, WhileGathering,
            WhileClosing, Cancelling, ClientSubscribes
<1>0. /\ isRunning \in BOOLEAN /\ pool \in BOOLEAN /\ client \in BOOLEAN
      /\ subscribed \in BOOLEAN /\ unheard \in BOOLEAN
      /\ call \in {"none", "ping", "gather", "unsubscribe", "close"}
      /\ cancelled \in SUBSET {"cfps", "awards"}
      /\ ("cfps" \in cancelled => cfps # "none")
      /\ ("awards" \in cancelled => awards # "none")
  BY DEF TypeOK
<1>1. CASE Start
  BY <1>0, <1>1 DEF Start, cfpVars, awardVars, failureVars
<1>2. CASE Stop
  BY <1>0, <1>2 DEF Stop, Live, cfpVars, awardVars, failureVars
<1>3. CASE LifecycleStep \/ PingRaises
  <2>1. CASE PingReturns
    BY <1>0, <2>1 DEF PingReturns, failureVars
  <2>2. CASE GatherReturns
    BY <1>0, <2>2 DEF GatherReturns, AllEnded, cfpVars, awardVars, failureVars
  <2>3. CASE StopUnsubscribed
    BY <1>0, <2>3 DEF StopUnsubscribed, awardVars, failureVars
  <2>4. CASE StopClosed
    BY <1>0, <2>4 DEF StopClosed, cfpVars, awardVars, failureVars
  <2>5. CASE PingRaises
    BY <1>0, <2>5 DEF PingRaises, cfpVars, awardVars
  <2> QED BY <1>3, <2>1, <2>2, <2>3, <2>4, <2>5 DEF LifecycleStep
<1>4. CASE CfpStep \/ SubscribeRaises \/ BidRaises \/ GetRaises
  <2> USE <1>0 DEF lifecycleVars, awardVars, failureVars, Undisturbed, CfpLoop
  <2>1. CASE CfpsStart
    <3>1. pool /\ call = "none" /\ isRunning
      BY <2>1 DEF CfpsStart
    <3>2. client' /\ cfps' = "subscribe"
      BY <2>1, <3>1 DEF CfpsStart
    <3>3. UNCHANGED <<isRunning, pool, call, subscribed, awards, cancelled, unheard>>
      BY <2>1 DEF CfpsStart
    <3> QED BY <3>1, <3>2, <3>3
  <2>2. CASE Subscribed
    BY <2>2 DEF Subscribed
  <2>3. CASE CfpReceived
    BY <2>3 DEF CfpReceived
  <2>4. CASE BidReturns
    BY <2>4 DEF BidReturns
  <2>5. CASE CfpsRetry
    BY <2>5 DEF CfpsRetry
  <2>6. CASE CfpsClosed
    BY <2>6 DEF CfpsClosed
  <2>7. CASE CfpsCancelled
    BY <2>7 DEF CfpsCancelled
  <2>8. CASE SubscribeRaises
    BY <2>8 DEF SubscribeRaises
  <2>9. CASE BidRaises
    BY <2>9 DEF BidRaises
  <2>10. CASE GetRaises
    BY <2>10 DEF GetRaises, GetFails
  <2> QED BY <1>4, <2>1, <2>2, <2>3, <2>4, <2>5, <2>6, <2>7, <2>8, <2>9, <2>10 DEF CfpStep
<1>5. CASE AwardStep \/ PopRaises
  <2> USE <1>0 DEF lifecycleVars, cfpVars, failureVars, Undisturbed, AwardLoop
  <2>1. CASE AwardsStart
    BY <2>1 DEF AwardsStart
  <2>2. CASE AwardPopped
    BY <2>2 DEF AwardPopped
  <2>3. CASE AwardsRetry
    BY <2>3 DEF AwardsRetry
  <2>4. CASE AwardsCancelled
    BY <2>4 DEF AwardsCancelled
  <2>5. CASE PopRaises
    BY <2>5 DEF PopRaises, PopFails
  <2> QED BY <1>5, <2>1, <2>2, <2>3, <2>4, <2>5 DEF AwardStep
<1>6. ASSUME NEW t \in Tasks,
             WorkDone(t) \/ ResultPushed(t) \/ ResultRaises(t) \/ CfpPublished(t) \/ AwardPushed(t)
      PROVE  UNCHANGED <<isRunning, pool, call, cfps, client, subscribed, awards, cancelled,
                         unheard>>
  BY <1>6 DEF WorkDone, ResultPushed, ResultRaises, CfpPublished, AwardPushed, lifecycleVars,
              cfpVars, awardVars, failureVars
<1>7. CASE UNCHANGED vars
  BY <1>7 DEF vars, lifecycleVars, cfpVars, awardVars, failureVars
<1> QED BY <1>1, <1>2, <1>3, <1>4, <1>5, <1>6, <1>7 DEF Next

\* IInv is an invariant of the specification.
THEOREM Invariance == Spec => []IInv
<1>1. IInv /\ [Next]_vars => IInv'
  BY TypeKept, PhasesKept DEF IInv
<1> QED BY <1>1, InitEstablishes, PTL DEF Spec

\* Every variable of the worker keeps its type, for every set of tasks and all
\* bounds; bids are counted in the await of their push.
THEOREM TypeCorrect == Spec => []TypeOK
BY Invariance, PTL DEF IInv

\* A worker that was stopped, at whatever awaits of its listeners and after
\* whatever failures, has left nothing behind that listens.
THEOREM QuietWhenStopped == Spec => []StoppedIsQuiet
BY Invariance, PTL DEF IInv

\* A running worker serves awards, and calls for proposals unless a subscribe
\* failed.
THEOREM ServesWhileRunning == Spec => []ListenersServe
<1>1. IInv => ListenersServe
  BY DEF IInv, WhileRunning, ListenersServe, Settled
<1> QED BY <1>1, Invariance, PTL

-----------------------------------------------------------------------------
(* Sequences.                                                              *)

LEMMA TailFact ==
  ASSUME NEW S, NEW s \in Seq(S), s # <<>>
  PROVE  /\ Tail(s) \in Seq(S) /\ Len(Tail(s)) = Len(s) - 1 /\ Len(s) \in Nat
         /\ \A i \in 1..(Len(s) - 1) : Tail(s)[i] = s[i + 1]
         /\ Head(s) = s[1] /\ Head(s) \in S /\ 1 \in 1..Len(s)
<1>1. Len(s) \in Nat \ {0}
  BY EmptySeq
<1>2. /\ Tail(s) \in Seq(S) /\ Len(Tail(s)) = Len(s) - 1 /\ Head(s) \in S
      /\ \A i \in 1..Len(Tail(s)) : Tail(s)[i] = s[i + 1]
  BY HeadTailProperties
<1> QED
  BY <1>1, <1>2

LEMMA AppendFact ==
  ASSUME NEW S, NEW s \in Seq(S), NEW e \in S
  PROVE  /\ Append(s, e) \in Seq(S) /\ Len(Append(s, e)) = Len(s) + 1 /\ Len(s) \in Nat
         /\ \A i \in 1..Len(s) : Append(s, e)[i] = s[i]
         /\ Append(s, e)[Len(s) + 1] = e
OBVIOUS

-----------------------------------------------------------------------------
(* Swarm.                                                                  *)

\* What a worker has left to send it has made itself.
HandsOwn == \A w \in Swarm!Workers : \A i \in 1..Len(hand[w]) : hand[w][i].by = w

\* A manager that sets its flag first keeps its listener.
ListenerHolds ==
  manager \in {"listening", "up"} /\ kind # "product" =>
    running /\ listener \in {"starting", "alive"}

SwarmInv == Swarm!TypeOK /\ HandsOwn /\ AnnouncedFirst /\ ListenerHolds

LEMMA SwarmTables ==
  /\ Swarm!Workers = {"leader", "translator", "consensus", "first", "second"}
  /\ Swarm!Queues = {"leader", "translator", "consensus", "pair"}
  /\ \A w \in Swarm!Workers : Swarm!Next1[w] \in Swarm!Queues /\ Swarm!Reads(w) \in Swarm!Queues
  /\ "leader" \in Swarm!Queues /\ "pair" \in Swarm!Queues
  /\ "manager" \notin Swarm!Workers /\ "other" \notin Swarm!Workers
<1>1. Swarm!Workers = {"leader", "translator", "consensus", "first", "second"}
  BY DEF Swarm!Workers, Swarm!Pair
<1>2. Swarm!Queues = {"leader", "translator", "consensus", "pair"}
  BY <1>1 DEF Swarm!Queues, Swarm!Reads, Swarm!Pair
<1>3. \A w \in Swarm!Workers : Swarm!Next1[w] \in Swarm!Queues /\ Swarm!Reads(w) \in Swarm!Queues
  BY <1>1, <1>2 DEF Swarm!Next1, Swarm!Reads, Swarm!Pair
<1> QED
  BY <1>1, <1>2, <1>3

\* What a worker makes of a message.
LEMMA OutputsOwn ==
  ASSUME NEW w \in Swarm!Workers, NEW m \in Swarm!Messages
  PROVE  /\ Swarm!Outputs(w, m) \in Seq(Swarm!Messages)
         /\ \A i \in 1..Len(Swarm!Outputs(w, m)) : Swarm!Outputs(w, m)[i].by = w
<1> DEFINE O == Swarm!Outputs(w, m)
           Made == {x \in Swarm!Messages : x.by = w}
<1>1. \A x \in Swarm!Pair \union {Swarm!Nobody} : Swarm!About(m, w, x) \in Made
  BY DEF Swarm!About, Swarm!Message, Swarm!Messages, Swarm!Workers
<1>2. w = "consensus" => Swarm!Message("consensus", "consensus", Swarm!Nobody) \in Made
  BY DEF Swarm!Message, Swarm!Messages, Swarm!Workers, Swarm!Abouts
<1> HIDE DEF Made
<1>3. O \in Seq(Made)
  <2>1. CASE w = "leader"
    <3>1. O = <<Swarm!About(m, w, Swarm!Nobody)>>
      <4>1. w \notin Swarm!Pair /\ w # "translator"
        BY <2>1 DEF Swarm!Pair
      <4>2. O = <<Swarm!About(m, "leader", Swarm!Nobody)>>
        BY <2>1, <4>1, Zenon DEF Swarm!Outputs
      <4> QED
        BY <2>1, <4>2
    <3>2. Swarm!About(m, w, Swarm!Nobody) \in Made
      BY <1>1
    <3> HIDE DEF O
    <3> QED
      BY <3>1, <3>2
  <2>2. CASE w = "translator"
    <3>1. Swarm!About(m, "translator", Swarm!Nobody) \in Made
      BY <1>1, <2>2
    <3>2. O = Swarm!Translated(m)
      <4>1. w # "leader" /\ w \notin Swarm!Pair
        BY <2>2 DEF Swarm!Pair
      <4> QED
        BY <2>2, <4>1, Zenon DEF Swarm!Outputs
    <3>3. Swarm!Translated(m) \in Seq(Made)
      BY <3>1 DEF Swarm!Translated, Swarm!ProductTasks, Swarm!InventoryTasks,
                  Swarm!PromotionalTasks
    <3> QED
      BY <3>2, <3>3
  <2>3. CASE w \in Swarm!Pair
    <3>1. w # "leader" /\ w # "translator"
      BY <2>3 DEF Swarm!Pair
    <3>2. O = IF m.names = w THEN Swarm!Result(m, w) ELSE <<>>
      BY <2>3, <3>1 DEF Swarm!Outputs
    <3>3. Swarm!About(m, w, w) \in Made /\ Swarm!About(m, w, Swarm!Nobody) \in Made
      BY <1>1, <2>3
    <3>4. Swarm!Result(m, w) \in Seq(Made)
      BY <3>3 DEF Swarm!Result, Swarm!ProductResult, Swarm!InventoryResult,
                  Swarm!PromotionalResult
    <3> QED
      BY <3>2, <3>4
  <2>4. CASE w = "consensus"
    <3>1. w \notin Swarm!Pair
      BY <2>4 DEF Swarm!Pair
    <3>2. O = IF Swarm!Complete(m)
                THEN <<Swarm!Message("consensus", "consensus", Swarm!Nobody)>> ELSE <<>>
      BY <2>4, <3>1 DEF Swarm!Outputs
    <3>3. Swarm!Message("consensus", "consensus", Swarm!Nobody) \in Made
      BY <1>2, <2>4
    <3>4. /\ <<Swarm!Message("consensus", "consensus", Swarm!Nobody)>> \in Seq(Made)
          /\ <<>> \in Seq(Made)
      BY <3>3
    <3> QED
      BY <3>2, <3>4, Zenon
  <2> QED
    BY <2>1, <2>2, <2>3, <2>4, SwarmTables DEF Swarm!Pair
<1>4. \A i \in 1..Len(O) : O[i] \in Made
  <2> HIDE DEF O
  <2> QED
    BY <1>3
<1>5. Made \subseteq Swarm!Messages /\ \A x \in Made : x.by = w
  BY DEF Made
<1>6. O \in Seq(Swarm!Messages)
  <2> HIDE DEF O
  <2> QED
    BY <1>3, <1>5
<1> QED
  BY <1>4, <1>5, <1>6

LEMMA SwarmInit == Swarm!Init => SwarmInv
<1> SUFFICES ASSUME Swarm!Init PROVE SwarmInv
  OBVIOUS
<1>1. Swarm!TypeOK
  <2>1. /\ queue \in [Swarm!Queues -> Seq(Swarm!Messages)]
        /\ hand \in [Swarm!Workers -> Seq(Swarm!Messages)]
    BY DEF Swarm!Init
  <2>2. subscription \in Seq(Swarm!Abouts)
    BY DEF Swarm!Init
  <2>3. tasks \in 0..MaxTasks /\ swarmErrors \in 0..MaxSwarmMisses
    BY PartsAssumption DEF Swarm!Init
  <2>4. /\ updates \in SUBSET Updates /\ results \in SUBSET Swarm!Pair
        /\ announced \in SUBSET (Swarm!Workers \X Swarm!Messages)
        /\ complained \in SUBSET Swarm!Workers
    BY DEF Swarm!Init
  <2>5. /\ kind \in Swarm!Kinds
        /\ manager \in {"new", "subscribed", "listening", "up", "failed"}
        /\ running \in BOOLEAN /\ listener \in {"none", "starting", "alive", "ended"}
    BY DEF Swarm!Init
  <2> QED
    BY <2>1, <2>2, <2>3, <2>4, <2>5 DEF Swarm!TypeOK
<1>2. HandsOwn
  <2>1. \A w \in Swarm!Workers : hand[w] = <<>> /\ Len(hand[w]) = 0
    BY DEF Swarm!Init
  <2> QED
    BY <2>1 DEF HandsOwn
<1>3. AnnouncedFirst
  <2>1. \A q \in DOMAIN queue : queue[q] = <<>> /\ Len(queue[q]) = 0
    BY DEF Swarm!Init
  <2> QED
    BY <2>1 DEF AnnouncedFirst, Swarm!AnnouncedFirst
<1> QED
  BY <1>1, <1>2, <1>3 DEF SwarmInv, ListenerHolds, Swarm!Init

\* A message is put into a list: it is from outside, or was announced.
LEMMA QueuePut ==
  ASSUME SwarmInv, NEW q \in Swarm!Queues, NEW m \in Swarm!Messages,
         queue' = [queue EXCEPT ![q] = Append(@, m)],
         announced \subseteq announced',
         m.by \in Swarm!Workers => <<m.by, m>> \in announced'
  PROVE  queue' \in [Swarm!Queues -> Seq(Swarm!Messages)] /\ AnnouncedFirst'
<1>1. queue \in [Swarm!Queues -> Seq(Swarm!Messages)]
  BY DEF SwarmInv, Swarm!TypeOK
<1>2. /\ queue'[q] = Append(queue[q], m) /\ queue[q] \in Seq(Swarm!Messages)
      /\ \A p \in Swarm!Queues : p # q => queue'[p] = queue[p]
  BY <1>1
<1>3. /\ Append(queue[q], m) \in Seq(Swarm!Messages) /\ Len(queue[q]) \in Nat
      /\ Len(queue'[q]) = Len(queue[q]) + 1 /\ queue'[q][Len(queue[q]) + 1] = m
      /\ \A i \in 1..Len(queue[q]) : queue'[q][i] = queue[q][i]
  BY <1>2, AppendFact
<1>4. queue' \in [Swarm!Queues -> Seq(Swarm!Messages)]
  BY <1>1, <1>3
<1>5. ASSUME NEW p \in Swarm!Queues, NEW i \in 1..Len(queue'[p]),
             queue'[p][i].by \in Swarm!Workers
      PROVE  <<queue'[p][i].by, queue'[p][i]>> \in announced'
  <2>1. CASE p = q /\ i = Len(queue[q]) + 1
    BY <1>3, <1>5, <2>1
  <2>2. CASE ~(p = q /\ i = Len(queue[q]) + 1)
    <3>1. i \in 1..Len(queue[p]) /\ queue'[p][i] = queue[p][i]
      BY <1>2, <1>3, <2>2
    <3>2. p \in DOMAIN queue
      BY <1>1
    <3> QED
      BY <1>5, <3>1, <3>2 DEF SwarmInv, AnnouncedFirst, Swarm!AnnouncedFirst
  <2> QED
    BY <2>1, <2>2
<1> QED
  BY <1>4, <1>5 DEF AnnouncedFirst, Swarm!AnnouncedFirst

\* A message is taken out of a list.
LEMMA QueueTaken ==
  ASSUME SwarmInv, NEW q \in Swarm!Queues, queue[q] # <<>>,
         queue' = [queue EXCEPT ![q] = Tail(@)], announced \subseteq announced'
  PROVE  /\ queue' \in [Swarm!Queues -> Seq(Swarm!Messages)] /\ AnnouncedFirst'
         /\ Head(queue[q]) \in Swarm!Messages
<1>1. queue \in [Swarm!Queues -> Seq(Swarm!Messages)]
  BY DEF SwarmInv, Swarm!TypeOK
<1>2. /\ queue'[q] = Tail(queue[q]) /\ queue[q] \in Seq(Swarm!Messages)
      /\ \A p \in Swarm!Queues : p # q => queue'[p] = queue[p]
  BY <1>1
<1>3. /\ Tail(queue[q]) \in Seq(Swarm!Messages) /\ Len(queue[q]) \in Nat
      /\ Len(queue'[q]) = Len(queue[q]) - 1 /\ Head(queue[q]) \in Swarm!Messages
      /\ \A i \in 1..(Len(queue[q]) - 1) : queue'[q][i] = queue[q][i + 1]
  <2> DEFINE L == queue[q]
  <2>1. L \in Seq(Swarm!Messages) /\ L # <<>> /\ queue'[q] = Tail(L)
    BY <1>2
  <2> HIDE DEF L
  <2>2. /\ Tail(L) \in Seq(Swarm!Messages) /\ Len(Tail(L)) = Len(L) - 1 /\ Len(L) \in Nat
        /\ \A i \in 1..(Len(L) - 1) : Tail(L)[i] = L[i + 1]
        /\ Head(L) \in Swarm!Messages
    BY <2>1, TailFact
  <2> QED
    BY <2>1, <2>2 DEF L
<1>4. queue' \in [Swarm!Queues -> Seq(Swarm!Messages)]
  BY <1>1, <1>3
<1>5. ASSUME NEW p \in Swarm!Queues, NEW i \in 1..Len(queue'[p])
      PROVE  \E j \in 1..Len(queue[p]) : queue'[p][i] = queue[p][j]
  <2>1. CASE p = q
    <3>1. i + 1 \in 1..Len(queue[q]) /\ queue'[q][i] = queue[q][i + 1]
      BY <1>3, <2>1
    <3> QED
      BY <2>1, <3>1
  <2>2. CASE p # q
    BY <1>2, <2>2
  <2> QED
    BY <2>1, <2>2
<1>6. ASSUME NEW p \in Swarm!Queues, NEW i \in 1..Len(queue'[p]),
             queue'[p][i].by \in Swarm!Workers
      PROVE  <<queue'[p][i].by, queue'[p][i]>> \in announced'
  <2>1. PICK j \in 1..Len(queue[p]) : queue'[p][i] = queue[p][j]
    BY <1>5
  <2>2. p \in DOMAIN queue
    BY <1>1
  <2> QED
    BY <1>6, <2>1, <2>2 DEF SwarmInv, AnnouncedFirst, Swarm!AnnouncedFirst
<1> QED
  BY <1>3, <1>4, <1>6 DEF AnnouncedFirst, Swarm!AnnouncedFirst

LEMMA AnnouncedKept ==
  ASSUME SwarmInv, UNCHANGED queue, announced \subseteq announced'
  PROVE  queue' \in [Swarm!Queues -> Seq(Swarm!Messages)] /\ AnnouncedFirst'
BY DEF SwarmInv, Swarm!TypeOK, AnnouncedFirst, Swarm!AnnouncedFirst

\* A worker gets outputs of its own to send.
LEMMA HandFilled ==
  ASSUME SwarmInv, NEW w \in Swarm!Workers, NEW o \in Seq(Swarm!Messages),
         \A i \in 1..Len(o) : o[i].by = w, hand' = [hand EXCEPT ![w] = o]
  PROVE  hand' \in [Swarm!Workers -> Seq(Swarm!Messages)] /\ HandsOwn'
BY DEF SwarmInv, Swarm!TypeOK, HandsOwn

\* A worker has dealt with its first output.
LEMMA HandSent ==
  ASSUME SwarmInv, NEW w \in Swarm!Workers, hand[w] # <<>>
  PROVE  /\ Tail(hand[w]) \in Seq(Swarm!Messages)
         /\ \A i \in 1..Len(Tail(hand[w])) : Tail(hand[w])[i].by = w
         /\ Head(hand[w]) \in Swarm!Messages /\ Head(hand[w]).by = w
<1>1. hand[w] \in Seq(Swarm!Messages)
  BY DEF SwarmInv, Swarm!TypeOK
<1>2. /\ Tail(hand[w]) \in Seq(Swarm!Messages) /\ Len(Tail(hand[w])) = Len(hand[w]) - 1
      /\ Len(hand[w]) \in Nat /\ 1 \in 1..Len(hand[w])
      /\ \A i \in 1..(Len(hand[w]) - 1) : Tail(hand[w])[i] = hand[w][i + 1]
      /\ Head(hand[w]) = hand[w][1] /\ Head(hand[w]) \in Swarm!Messages
  BY <1>1, TailFact
<1>3. ASSUME NEW i \in 1..Len(Tail(hand[w]))
      PROVE  Tail(hand[w])[i].by = w
  <2>1. i + 1 \in 1..Len(hand[w]) /\ Tail(hand[w])[i] = hand[w][i + 1]
    BY <1>2
  <2> QED
    BY <2>1 DEF SwarmInv, HandsOwn
<1> QED
  BY <1>2, <1>3 DEF SwarmInv, HandsOwn

LEMMA FailureCounts ==
  ASSUME SwarmInv, Swarm!Failure \/ UNCHANGED swarmErrors
  PROVE  swarmErrors' \in 0..MaxSwarmMisses
BY PartsAssumption DEF SwarmInv, Swarm!TypeOK, Swarm!Failure

LEMMA ManagerKeeps ==
  ASSUME SwarmInv,
         \/ Swarm!Subscribe \/ Swarm!InitializeRaises \/ Swarm!StartListener
         \/ Swarm!StartWorkers \/ Swarm!ListenerTests
         \/ \E u \in Updates : Swarm!Publish(u)
  PROVE  SwarmInv'
<1>1. UNCHANGED <<kind, queue, hand, results, announced, complained, tasks>>
  BY DEF Swarm!Subscribe, Swarm!InitializeRaises, Swarm!StartListener, Swarm!StartWorkers,
         Swarm!ListenerTests, Swarm!Publish, Swarm!workerVars
<1>2. HandsOwn' /\ AnnouncedFirst'
  BY <1>1 DEF SwarmInv, HandsOwn, AnnouncedFirst, Swarm!AnnouncedFirst
<1>3. swarmErrors' \in 0..MaxSwarmMisses
  BY FailureCounts DEF Swarm!Subscribe, Swarm!InitializeRaises, Swarm!StartListener,
     Swarm!StartWorkers, Swarm!ListenerTests, Swarm!Publish
<1>4. kind \in Swarm!Kinds /\ Swarm!Manager.setsRunning \in BOOLEAN
      /\ (kind # "product" => Swarm!Manager.setsRunning = TRUE)
  BY DEF SwarmInv, Swarm!TypeOK, Swarm!Kinds, Swarm!Manager, Swarm!ProductManager,
     Swarm!InventoryManager, Swarm!PromotionalManager
<1>5. subscription' \in Seq(Swarm!Abouts) /\ updates' \in SUBSET Updates
  <2>1. subscription \in Seq(Swarm!Abouts) /\ updates \in SUBSET Updates
    BY DEF SwarmInv, Swarm!TypeOK
  <2>2. <<"hello">> \in Seq(Swarm!Abouts) /\ <<>> \in Seq(Swarm!Abouts)
    BY DEF Swarm!Abouts
  <2>3. \A u \in Updates : Append(subscription, u) \in Seq(Swarm!Abouts)
    BY <2>1 DEF Swarm!Abouts
  <2> QED
    BY <2>1, <2>2, <2>3 DEF Swarm!Subscribe, Swarm!InitializeRaises, Swarm!StartListener,
       Swarm!StartWorkers, Swarm!ListenerTests, Swarm!Publish
<1>6. /\ manager' \in {"new", "subscribed", "listening", "up", "failed"}
      /\ running' \in BOOLEAN /\ listener' \in {"none", "starting", "alive", "ended"}
      /\ ListenerHolds'
  <2>1. CASE Swarm!Subscribe \/ Swarm!InitializeRaises \/ \E u \in Updates : Swarm!Publish(u)
    BY <2>1 DEF SwarmInv, Swarm!TypeOK, ListenerHolds, Swarm!Subscribe,
       Swarm!InitializeRaises, Swarm!Publish
  <2>2. CASE Swarm!StartListener
    BY <1>4, <2>2 DEF ListenerHolds, Swarm!StartListener
  <2>3. CASE Swarm!StartWorkers \/ Swarm!ListenerTests
    BY <2>3 DEF SwarmInv, Swarm!TypeOK, ListenerHolds, Swarm!StartWorkers,
       Swarm!ListenerTests
  <2> QED
    BY <2>1, <2>2, <2>3
<1> QED
  BY <1>1, <1>2, <1>3, <1>5, <1>6 DEF SwarmInv, Swarm!TypeOK

LEMMA ForwardKeeps ==
  ASSUME SwarmInv, NEW reached \in BOOLEAN, Swarm!Forward(reached)
  PROVE  SwarmInv'
<1>1. /\ UNCHANGED <<kind, manager, running, listener, updates, hand, results, announced,
                     complained, tasks>>
      /\ subscription # <<>> /\ subscription' = Tail(subscription)
  BY DEF Swarm!Forward, Swarm!workerVars
<1>2. subscription' \in Seq(Swarm!Abouts) /\ Head(subscription) \in Swarm!Abouts
  <2>1. subscription \in Seq(Swarm!Abouts)
    BY DEF SwarmInv, Swarm!TypeOK
  <2> QED
    BY <1>1, <2>1, TailFact
<1> DEFINE m == Swarm!Message(Head(subscription), "manager", Swarm!Nobody)
<1>3. m \in Swarm!Messages /\ m.by \notin Swarm!Workers
  BY <1>2, SwarmTables DEF Swarm!Message, Swarm!Messages
<1>4. \/ UNCHANGED queue
      \/ queue' = [queue EXCEPT !["leader"] = Append(@, m)]
  BY DEF Swarm!Forward
<1>5. queue' \in [Swarm!Queues -> Seq(Swarm!Messages)] /\ AnnouncedFirst'
  <2> HIDE DEF m
  <2>1. CASE UNCHANGED queue
    BY <1>1, <2>1, AnnouncedKept
  <2>2. CASE queue' = [queue EXCEPT !["leader"] = Append(@, m)]
    <3>1. "leader" \in Swarm!Queues
      BY SwarmTables
    <3> QED
      BY <1>1, <1>3, <2>2, <3>1, QueuePut
  <2> QED
    BY <1>4, <2>1, <2>2
<1>6. swarmErrors' \in 0..MaxSwarmMisses
  BY FailureCounts DEF Swarm!Forward
<1> QED
  BY <1>1, <1>2, <1>5, <1>6 DEF SwarmInv, Swarm!TypeOK, HandsOwn, ListenerHolds

LEMMA PushTaskKeeps ==
  ASSUME SwarmInv, NEW w \in Swarm!Pair, NEW q \in {"pair", "consensus"},
         Swarm!PushFromOutside(q, w)
  PROVE  SwarmInv'
<1>1. UNCHANGED <<kind, manager, running, listener, updates, subscription, hand, results,
                  announced, complained, swarmErrors>>
  BY DEF Swarm!PushFromOutside, Swarm!managerVars, Swarm!workerVars
<1> DEFINE o == Swarm!Message("task", "other", w)
<1>o. o \in Swarm!Messages /\ o.by \notin Swarm!Workers
  BY SwarmTables DEF Swarm!Message, Swarm!Messages, Swarm!Abouts
<1>2. PICK m \in Swarm!Messages : m = o /\ m.by \notin Swarm!Workers
  BY <1>o
<1>3. q \in Swarm!Queues /\ queue' = [queue EXCEPT ![q] = Append(@, m)]
  BY <1>2, SwarmTables DEF Swarm!PushFromOutside
<1>4. queue' \in [Swarm!Queues -> Seq(Swarm!Messages)] /\ AnnouncedFirst'
  BY <1>1, <1>2, <1>3, QueuePut
<1>5. tasks' \in 0..MaxTasks
  BY PartsAssumption DEF SwarmInv, Swarm!TypeOK, Swarm!PushFromOutside
<1> QED
  BY <1>1, <1>4, <1>5 DEF SwarmInv, Swarm!TypeOK, HandsOwn, ListenerHolds

LEMMA TakeKeeps ==
  ASSUME SwarmInv, NEW w \in Swarm!Workers, Swarm!Take(w)
  PROVE  SwarmInv'
<1>1. /\ UNCHANGED <<kind, manager, running, listener, updates, subscription, announced,
                     complained, tasks, swarmErrors>>
      /\ queue[Swarm!Reads(w)] # <<>>
      /\ queue' = [queue EXCEPT ![Swarm!Reads(w)] = Tail(@)]
  BY DEF Swarm!Take, Swarm!managerVars
<1>2. Swarm!Reads(w) \in Swarm!Queues
  BY SwarmTables
<1>3. /\ queue' \in [Swarm!Queues -> Seq(Swarm!Messages)] /\ AnnouncedFirst'
      /\ Head(queue[Swarm!Reads(w)]) \in Swarm!Messages
  BY <1>1, <1>2, QueueTaken
<1>4. PICK m \in Swarm!Messages : m = Head(queue[Swarm!Reads(w)])
  BY <1>3
<1>5. /\ hand' = [hand EXCEPT ![w] = Swarm!Outputs(w, m)]
      /\ results' = IF w = "consensus" /\ Swarm!Collected(m) THEN results \union {m.names}
                                                            ELSE results
  BY <1>4 DEF Swarm!Take
<1>6. hand' \in [Swarm!Workers -> Seq(Swarm!Messages)] /\ HandsOwn'
  <2>1. PICK o \in Seq(Swarm!Messages) : /\ o = Swarm!Outputs(w, m)
                                         /\ \A i \in 1..Len(o) : o[i].by = w
    BY OutputsOwn
  <2> QED
    BY <1>5, <2>1, HandFilled
<1>7. results' \in SUBSET Swarm!Pair
  BY <1>5 DEF SwarmInv, Swarm!TypeOK, Swarm!Collected
<1> QED
  BY <1>1, <1>3, <1>6, <1>7 DEF SwarmInv, Swarm!TypeOK, ListenerHolds

LEMMA SwarmCrewRaises ==
  ASSUME SwarmInv, Swarm!CrewRaises
  PROVE  SwarmInv'
<1>1. /\ UNCHANGED <<kind, manager, running, listener, updates, subscription, hand, results,
                     announced, tasks>>
      /\ queue["translator"] # <<>> /\ complained' = complained \union {"translator"}
      /\ queue' = [queue EXCEPT !["translator"] = Tail(@)]
  BY DEF Swarm!CrewRaises, Swarm!managerVars
<1>2. "translator" \in Swarm!Queues /\ "translator" \in Swarm!Workers
  BY SwarmTables
<1>3. queue' \in [Swarm!Queues -> Seq(Swarm!Messages)] /\ AnnouncedFirst'
  BY <1>1, <1>2, QueueTaken
<1>4. swarmErrors' \in 0..MaxSwarmMisses
  BY FailureCounts DEF Swarm!CrewRaises
<1> QED
  BY <1>1, <1>2, <1>3, <1>4 DEF SwarmInv, Swarm!TypeOK, HandsOwn, ListenerHolds

\* The callback has told the user, or raised before.
LEMMA TellTypes ==
  ASSUME SwarmInv, NEW w \in Swarm!Workers, hand[w] # <<>>,
         Swarm!Tell(w) \/ UNCHANGED announced
  PROVE  /\ announced \subseteq announced'
         /\ announced' \in SUBSET (Swarm!Workers \X Swarm!Messages)
BY HandSent DEF Swarm!Tell, SwarmInv, Swarm!TypeOK

LEMMA ComplainTypes ==
  ASSUME SwarmInv, NEW w \in Swarm!Workers, Swarm!Complain(w)
  PROVE  complained' \in SUBSET Swarm!Workers
BY SwarmTables DEF Swarm!Complain, Swarm!Complainers, Swarm!ProductComplainers,
   Swarm!InventoryComplainers, Swarm!PromotionalComplainers, SwarmInv, Swarm!TypeOK

LEMMA OutputKeeps ==
  ASSUME SwarmInv, NEW w \in Swarm!Workers,
         \/ Swarm!SendOutput(w) \/ Swarm!PushFails(w)
         \/ \E is_told \in BOOLEAN : Swarm!CallbackRaises(w, is_told)
  PROVE  SwarmInv'
<1>1. /\ UNCHANGED <<kind, manager, running, listener, updates, subscription, results, tasks>>
      /\ hand[w] # <<>> /\ Swarm!Complain(w) /\ (Swarm!Tell(w) \/ UNCHANGED announced)
  BY DEF Swarm!SendOutput, Swarm!PushFails, Swarm!CallbackRaises, Swarm!managerVars
<1>2. /\ announced \subseteq announced'
      /\ announced' \in SUBSET (Swarm!Workers \X Swarm!Messages)
      /\ complained' \in SUBSET Swarm!Workers
  BY <1>1, TellTypes, ComplainTypes
<1>3. PICK m \in Swarm!Messages : m = Head(hand[w]) /\ m.by = w
  BY <1>1, HandSent
<1>4. queue' \in [Swarm!Queues -> Seq(Swarm!Messages)] /\ AnnouncedFirst'
  <2>1. CASE UNCHANGED queue
    BY <1>2, <2>1, AnnouncedKept
  <2>2. CASE Swarm!Tell(w) /\ Swarm!Hand(w)
    <3>1. queue' = [queue EXCEPT ![Swarm!Next1[w]] = Append(@, m)]
      BY <1>3, <2>2 DEF Swarm!Hand
    <3>2. <<m.by, m>> \in announced' /\ Swarm!Next1[w] \in Swarm!Queues
      BY <1>3, <2>2, SwarmTables DEF Swarm!Tell
    <3> QED
      BY <1>2, <3>1, <3>2, QueuePut
  <2> QED
    BY <2>1, <2>2 DEF Swarm!SendOutput, Swarm!PushFails, Swarm!CallbackRaises
<1>5. hand' \in [Swarm!Workers -> Seq(Swarm!Messages)] /\ HandsOwn'
  <2>1. PICK o \in Seq(Swarm!Messages) : /\ \A i \in 1..Len(o) : o[i].by = w
                                         /\ hand' = [hand EXCEPT ![w] = o]
    <3>1. CASE hand' = [hand EXCEPT ![w] = Tail(hand[w])]
      BY <1>1, <3>1, HandSent
    <3>2. CASE hand' = [hand EXCEPT ![w] = <<>>]
      <4>1. <<>> \in Seq(Swarm!Messages) /\ \A i \in 1..Len(<<>>) : <<>>[i].by = w
        OBVIOUS
      <4> QED
        BY <3>2, <4>1
    <3> QED
      BY <3>1, <3>2 DEF Swarm!SendOutput, Swarm!PushFails, Swarm!CallbackRaises
  <2> QED
    BY <2>1, HandFilled
<1>6. swarmErrors' \in 0..MaxSwarmMisses
  BY FailureCounts DEF Swarm!SendOutput, Swarm!PushFails, Swarm!CallbackRaises
<1> QED
  BY <1>1, <1>2, <1>4, <1>5, <1>6 DEF SwarmInv, Swarm!TypeOK, ListenerHolds

LEMMA SwarmStutters == SwarmInv /\ UNCHANGED swarmVars => SwarmInv'
  BY DEF swarmVars, SwarmInv, Swarm!TypeOK, HandsOwn, AnnouncedFirst, Swarm!AnnouncedFirst,
     ListenerHolds, Swarm!Abouts

LEMMA SwarmNext == SwarmInv /\ Swarm!Next => SwarmInv'
  BY ManagerKeeps, ForwardKeeps, PushTaskKeeps, TakeKeeps, SwarmCrewRaises, OutputKeeps
  DEF Swarm!Next, Swarm!ManagerStep, Swarm!WorkerStep

LEMMA SwarmInductive == Swarm!Spec => []SwarmInv
<1>1. UNCHANGED Swarm!vars => UNCHANGED swarmVars
  BY DEF Swarm!vars, Swarm!managerVars, Swarm!workerVars, swarmVars
<1> QED
  BY <1>1, SwarmInit, SwarmNext, SwarmStutters, PTL DEF Swarm!Spec

\* AnnouncedFirst: the callback tells the user before the push, and when it
\* raises there is no push.
THEOREM SwarmAnnounces == Swarm!Spec => []AnnouncedFirst
  BY SwarmInductive, PTL DEF SwarmInv

\* RunningListens: outside the product swarm the flag is up before the listener.
THEOREM SwarmListens == Swarm!Spec => []RunningListens
<1>1. SwarmInv => RunningListens
  BY DEF SwarmInv, ListenerHolds, RunningListens, Swarm!RunningListens
<1> QED
  BY <1>1, SwarmInductive, PTL

-----------------------------------------------------------------------------
(* Sarah.                                                                  *)

\* The list holds the instructions that follow the one at work.
Numbered ==
  /\ \A n \in 1..Len(instruction) : instruction[n] = current + n
  /\ pc \notin {"idle", "ended"} => current # 0

\* An outcome is told when the instruction is through, and only one.
ToldOnce ==
  /\ \A i \in 1..MaxInstructions, k \in Sarah!Kinds : <<i, k>> \in api =>
       i =< current /\ (i = current => pc \in {"simulate", "idle", "ended"})
  /\ \A i \in 1..MaxInstructions, k, m \in Sarah!Kinds :
       <<i, k>> \in api /\ <<i, m>> \in api => k = m

\* The simulation is the last thing, and comes after no error.
SimulatedLate ==
  /\ \A i \in 1..MaxInstructions, s \in SUBSET Swarms : <<i, s>> \in simulation =>
       /\ i =< current /\ (i = current => pc \in {"idle", "ended"})
       /\ <<i, "error">> \notin api
  /\ pc = "simulate" => <<current, "error">> \notin api

SarahInv == Sarah!TypeOK /\ Numbered /\ ToldOnce /\ SimulatedLate

LEMMA SarahInit == Sarah!Init => SarahInv
<1> SUFFICES ASSUME Sarah!Init PROVE SarahInv
  OBVIOUS
<1>1. Sarah!TypeOK
  <2>1. /\ instruction \in Seq(1..MaxInstructions)
        /\ consensus \in Seq(Swarms \union {Stranger})
    BY DEF Sarah!Init
  <2>2. answers \in 0..MaxAnswers /\ callErrors \in 0..MaxMisses
    BY PartsAssumption DEF Sarah!Init
  <2> QED
    BY <2>1, <2>2 DEF Sarah!TypeOK, Sarah!Init, Sarah!Pc
<1>2. Numbered /\ ToldOnce /\ SimulatedLate
  BY DEF Sarah!Init, Numbered, ToldOnce, SimulatedLate
<1> QED
  BY <1>1, <1>2 DEF SarahInv

\* Steps that neither take an instruction nor tell or simulate anything.
LEMMA QuietKeeps ==
  ASSUME SarahInv, UNCHANGED <<instruction, current, api, simulation>>,
         pc' \in {"collect", "remember", "answer", "error"}, pc \notin {"idle", "simulate", "ended"}
  PROVE  Numbered' /\ ToldOnce' /\ SimulatedLate'
<1>1. \A i \in 1..MaxInstructions, k \in Sarah!Kinds :
        <<i, k>> \in api => i =< current /\ i # current
  BY DEF SarahInv, ToldOnce
<1>2. \A i \in 1..MaxInstructions, s \in SUBSET Swarms : <<i, s>> \in simulation =>
        i =< current /\ i # current /\ <<i, "error">> \notin api
  BY DEF SarahInv, SimulatedLate
<1>3. Numbered'
  BY DEF SarahInv, Numbered
<1>4. ToldOnce'
  BY <1>1 DEF SarahInv, ToldOnce
<1>5. SimulatedLate'
  BY <1>2 DEF SimulatedLate
<1> QED
  BY <1>3, <1>4, <1>5

\* A call that fails, as far as the model counts them.
LEMMA CallCounts ==
  ASSUME SarahInv,
         \/ UNCHANGED callErrors
         \/ callErrors < MaxMisses /\ callErrors' = callErrors + 1
  PROVE  callErrors' \in 0..MaxMisses
BY PartsAssumption DEF SarahInv, Sarah!TypeOK

LEMMA InstructKeeps ==
  ASSUME SarahInv, NEW i \in 1..MaxInstructions, Sarah!Instruct(i)
  PROVE  SarahInv'
<1>1. /\ UNCHANGED <<consensus, pc, current, received, api, simulation, answers, callErrors,
                     missed, lost>>
      /\ instruction' = Append(instruction, i)
      /\ i = Sarah!Cardinality({k \in 1..MaxInstructions : k =< current}) + Len(instruction) + 1
  BY DEF Sarah!Instruct
<1>2. /\ instruction \in Seq(1..MaxInstructions) /\ current \in (1..MaxInstructions) \union {0}
      /\ Len(instruction) \in Nat
  BY DEF SarahInv, Sarah!TypeOK
<1>3. i = current + Len(instruction) + 1
  <2>1. {k \in 1..MaxInstructions : k =< current} = 1..current
    BY <1>2, PartsAssumption
  <2>2. 1 \in Int /\ current \in Int /\ current \in Nat
    BY <1>2, PartsAssumption
  <2>3. Cardinality(1..current) = current
    BY <2>2, FS_Interval
  <2>4. \A S : Sarah!Cardinality(S) = Cardinality(S)
    BY DEF Sarah!Cardinality, Cardinality
  <2> QED
    BY <1>1, <2>1, <2>3, <2>4
<1>4. /\ instruction' \in Seq(1..MaxInstructions)
      /\ Len(instruction') = Len(instruction) + 1 /\ instruction'[Len(instruction) + 1] = i
      /\ \A n \in 1..Len(instruction) : instruction'[n] = instruction[n]
  BY <1>1, <1>2, AppendFact
<1>5. Numbered'
  <2>1. ASSUME NEW n \in 1..Len(instruction') PROVE instruction'[n] = current + n
    <3>1. CASE n = Len(instruction) + 1
      BY <1>2, <1>3, <1>4, <3>1
    <3>2. CASE n # Len(instruction) + 1
      <4>1. n \in 1..Len(instruction)
        BY <1>2, <1>4, <3>2
      <4> QED
        BY <1>4, <4>1 DEF SarahInv, Numbered
    <3> QED
      BY <3>1, <3>2
  <2> QED
    BY <1>1, <2>1 DEF SarahInv, Numbered
<1>6. ToldOnce' /\ SimulatedLate'
  BY <1>1 DEF SarahInv, ToldOnce, SimulatedLate
<1> QED
  BY <1>1, <1>4, <1>5, <1>6 DEF SarahInv, Sarah!TypeOK

LEMMA CollectKeeps ==
  ASSUME SarahInv,
         \/ \E s \in Swarms \union {Stranger} : Sarah!Answer(s)
         \/ Sarah!PublishMetrics \/ Sarah!CollectConsensus \/ Sarah!CollectTimesOut
         \/ Sarah!Remember \/ Sarah!Raises
  PROVE  SarahInv'
<1>1. UNCHANGED <<instruction, current, api, simulation, missed, lost>>
  BY DEF Sarah!Answer, Sarah!PublishMetrics, Sarah!CollectConsensus, Sarah!CollectTimesOut,
         Sarah!Remember, Sarah!Raises, Sarah!Lists
<1>2. callErrors' \in 0..MaxMisses
  BY CallCounts DEF Sarah!Answer, Sarah!PublishMetrics, Sarah!CollectConsensus,
     Sarah!CollectTimesOut, Sarah!Remember, Sarah!Raises, Sarah!Failure
<1>3. consensus' \in Seq(Swarms \union {Stranger}) /\ received' \in SUBSET Swarms
  <2>1. consensus \in Seq(Swarms \union {Stranger}) /\ received \in SUBSET Swarms
    BY DEF SarahInv, Sarah!TypeOK
  <2>2. ASSUME NEW s \in Swarms \union {Stranger}, Sarah!Answer(s)
        PROVE  consensus' \in Seq(Swarms \union {Stranger}) /\ received' \in SUBSET Swarms
    <3>1. Append(consensus, s) \in Seq(Swarms \union {Stranger})
      BY <2>1, AppendFact
    <3> QED
      BY <2>1, <2>2, <3>1 DEF Sarah!Answer
  <2>3. CASE Sarah!CollectConsensus
    <3>1. Tail(consensus) \in Seq(Swarms \union {Stranger})
      BY <2>1, <2>3, TailFact DEF Sarah!CollectConsensus
    <3> QED
      BY <2>1, <2>3, <3>1 DEF Sarah!CollectConsensus
  <2>4. CASE UNCHANGED <<consensus, received>>
    BY <2>1, <2>4
  <2>5. CASE Sarah!Raises
    <3>1. consensus # <<>> => Tail(consensus) \in Seq(Swarms \union {Stranger})
      BY <2>1, TailFact
    <3> QED
      BY <2>1, <2>5, <3>1 DEF Sarah!Raises
  <2> QED
    BY <2>2, <2>3, <2>4, <2>5 DEF Sarah!PublishMetrics, Sarah!CollectTimesOut, Sarah!Remember,
       Sarah!Raises, Sarah!Lists
<1>4. answers' \in 0..MaxAnswers
  BY PartsAssumption DEF SarahInv, Sarah!TypeOK, Sarah!Answer, Sarah!PublishMetrics,
     Sarah!CollectConsensus, Sarah!CollectTimesOut, Sarah!Remember, Sarah!Raises, Sarah!Lists
<1>5. \/ UNCHANGED pc
      \/ /\ pc' \in {"collect", "remember", "answer", "error"}
         /\ pc \notin {"idle", "simulate", "ended"}
  BY DEF Sarah!Answer, Sarah!PublishMetrics, Sarah!CollectConsensus, Sarah!Onward,
     Sarah!CollectTimesOut, Sarah!Remember, Sarah!Raises, Sarah!MayRaise
<1>6. Numbered' /\ ToldOnce' /\ SimulatedLate'
  <2>1. CASE UNCHANGED pc
    BY <1>1, <2>1 DEF SarahInv, Numbered, ToldOnce, SimulatedLate
  <2>2. CASE ~UNCHANGED pc
    BY <1>1, <1>5, <2>2, QuietKeeps
  <2> QED
    BY <2>1, <2>2
<1>7. pc' \in Sarah!Pc
  BY <1>5 DEF SarahInv, Sarah!TypeOK, Sarah!Pc
<1> QED
  BY <1>1, <1>2, <1>3, <1>4, <1>6, <1>7 DEF SarahInv, Sarah!TypeOK

\* The next instruction is off the list.
LEMMA PopKeeps ==
  ASSUME SarahInv, Sarah!Pop, pc' \in {"publish", "idle", "ended"}, UNCHANGED <<api, simulation>>
  PROVE  /\ Numbered' /\ ToldOnce' /\ SimulatedLate'
         /\ instruction' \in Seq(1..MaxInstructions) /\ current' \in 1..MaxInstructions
<1>1. instruction # <<>> /\ current' = Head(instruction) /\ instruction' = Tail(instruction)
  BY DEF Sarah!Pop
<1>2. instruction \in Seq(1..MaxInstructions) /\ current \in (1..MaxInstructions) \union {0}
  BY DEF SarahInv, Sarah!TypeOK
<1>3. /\ instruction' \in Seq(1..MaxInstructions) /\ Len(instruction') = Len(instruction) - 1
      /\ Len(instruction) \in Nat /\ 1 \in 1..Len(instruction)
      /\ \A n \in 1..(Len(instruction) - 1) : instruction'[n] = instruction[n + 1]
      /\ current' = instruction[1] /\ current' \in 1..MaxInstructions
  BY <1>1, <1>2, TailFact
<1>4. current' = current + 1
  BY <1>3 DEF SarahInv, Numbered
<1>5. Numbered'
  <2>1. ASSUME NEW n \in 1..Len(instruction') PROVE instruction'[n] = current' + n
    <3>1. n + 1 \in 1..Len(instruction) /\ instruction'[n] = instruction[n + 1]
      BY <1>3
    <3>2. instruction[n + 1] = current + (n + 1)
      BY <3>1 DEF SarahInv, Numbered
    <3> QED
      BY <1>2, <1>4, <3>1, <3>2, PartsAssumption
  <2>2. current' # 0
    BY <1>3, PartsAssumption
  <2> QED
    BY <2>1, <2>2 DEF Numbered
<1>6. \A i \in 1..MaxInstructions, k \in Sarah!Kinds :
        <<i, k>> \in api => i =< current' /\ i # current'
  BY <1>2, <1>4, PartsAssumption DEF SarahInv, ToldOnce
<1>7. \A i \in 1..MaxInstructions, s \in SUBSET Swarms : <<i, s>> \in simulation =>
        i =< current' /\ i # current' /\ <<i, "error">> \notin api
  BY <1>2, <1>4, PartsAssumption DEF SarahInv, SimulatedLate
<1>8. ToldOnce'
  BY <1>1, <1>6 DEF SarahInv, ToldOnce
<1>9. SimulatedLate'
  BY <1>1, <1>7 DEF SimulatedLate
<1> QED
  BY <1>3, <1>5, <1>8, <1>9

LEMMA TakeInstructionKeeps ==
  ASSUME SarahInv, Sarah!TakeInstruction \/ Sarah!TakeFails
  PROVE  SarahInv'
<1>1. /\ Sarah!Pop /\ pc' \in {"publish", "idle", "ended"} /\ received' \in {received, {}}
      /\ UNCHANGED <<consensus, api, simulation, answers, missed>>
      /\ lost' = lost \/ lost' = lost \union {current'}
  BY DEF Sarah!TakeInstruction, Sarah!TakeFails
<1>2. /\ Numbered' /\ ToldOnce' /\ SimulatedLate'
      /\ instruction' \in Seq(1..MaxInstructions) /\ current' \in 1..MaxInstructions
  BY <1>1, PopKeeps
<1>3. callErrors' \in 0..MaxMisses
  BY CallCounts DEF Sarah!TakeInstruction, Sarah!TakeFails, Sarah!Failure
<1>4. Sarah!TypeOK'
  BY <1>1, <1>2, <1>3 DEF SarahInv, Sarah!TypeOK, Sarah!Pc
<1> QED
  BY <1>2, <1>4 DEF SarahInv

\* The process ends, and another begins.
LEMMA ProcessKeeps ==
  ASSUME SarahInv, Sarah!Interrupted \/ Sarah!Restart
  PROVE  SarahInv'
<1>1. /\ pc' \in {"idle", "ended"}
      /\ UNCHANGED <<instruction, consensus, answers, current, received, api, simulation, missed>>
      /\ lost' = lost \/ (pc \notin {"idle", "ended"} /\ lost' = lost \union {current})
  BY DEF Sarah!Interrupted, Sarah!Restart, Sarah!Lists
<1>2. callErrors' \in 0..MaxMisses
  BY CallCounts DEF Sarah!Interrupted, Sarah!Restart, Sarah!Failure
<1>3. Numbered' /\ ToldOnce' /\ SimulatedLate'
  BY <1>1 DEF SarahInv, Numbered, ToldOnce, SimulatedLate
<1>4. lost' \in SUBSET (1..MaxInstructions)
  <2>1. lost \in SUBSET (1..MaxInstructions) /\ current \in (1..MaxInstructions) \union {0}
    BY DEF SarahInv, Sarah!TypeOK
  <2>2. pc \notin {"idle", "ended"} => current # 0
    BY DEF SarahInv, Numbered
  <2>3. lost' = lost \/ (current \in 1..MaxInstructions /\ lost' = lost \union {current})
    BY <1>1, <2>1, <2>2
  <2> QED
    BY <2>1, <2>3
<1>5. Sarah!TypeOK'
  BY <1>1, <1>2, <1>4 DEF SarahInv, Sarah!TypeOK, Sarah!Pc
<1> QED
  BY <1>3, <1>5 DEF SarahInv

\* The instruction at work gets its entry for the user.
LEMMA SarahTells ==
  ASSUME SarahInv, NEW kindOf \in Sarah!Kinds, Sarah!Tell(kindOf),
         UNCHANGED <<instruction, current, simulation>>,
         \/ pc = "answer" /\ pc' = "simulate" /\ kindOf # "error"
         \/ pc = "error" /\ pc' = "idle"
  PROVE  /\ Numbered' /\ ToldOnce' /\ SimulatedLate' /\ callErrors' \in 0..MaxMisses
         /\ api' \in SUBSET ((1..MaxInstructions) \X Sarah!Kinds)
         /\ missed' \in SUBSET (1..MaxInstructions)
<1>1. current \in 1..MaxInstructions
  BY DEF SarahInv, Sarah!TypeOK, Numbered
<1>2. api' = api \/ api' = api \union {<<current, kindOf>>}
  BY DEF Sarah!Tell
<1>3. \A k \in Sarah!Kinds : <<current, k>> \notin api
  BY <1>1 DEF SarahInv, ToldOnce
<1>4. \A i \in 1..MaxInstructions, k \in Sarah!Kinds :
        <<i, k>> \in api' => <<i, k>> \in api \/ (i = current /\ k = kindOf)
  BY <1>2
<1>5. ToldOnce'
  <2>1. ASSUME NEW i \in 1..MaxInstructions, NEW k \in Sarah!Kinds, <<i, k>> \in api'
        PROVE  i =< current' /\ (i = current' => pc' \in {"simulate", "idle"})
    <3>1. CASE i = current
      BY <1>1, <3>1, PartsAssumption
    <3>2. CASE i # current
      BY <1>4, <2>1, <3>2 DEF SarahInv, ToldOnce
    <3> QED
      BY <3>1, <3>2
  <2>2. ASSUME NEW i \in 1..MaxInstructions, NEW k \in Sarah!Kinds, NEW m \in Sarah!Kinds,
               <<i, k>> \in api', <<i, m>> \in api'
        PROVE  k = m
    <3>1. CASE i = current
      BY <1>3, <1>4, <2>2, <3>1
    <3>2. CASE i # current
      <4>1. <<i, k>> \in api /\ <<i, m>> \in api
        BY <1>4, <2>2, <3>2
      <4> QED
        BY <4>1 DEF SarahInv, ToldOnce
    <3> QED
      BY <3>1, <3>2
  <2> QED
    BY <2>1, <2>2 DEF ToldOnce
<1>6. SimulatedLate'
  <2>1. "error" \in Sarah!Kinds
    BY DEF Sarah!Kinds
  <2>2. ASSUME NEW i \in 1..MaxInstructions, NEW s \in SUBSET Swarms, <<i, s>> \in simulation'
        PROVE  /\ i =< current' /\ (i = current' => pc' = "idle")
               /\ <<i, "error">> \notin api'
    <3>1. i =< current /\ i # current /\ <<i, "error">> \notin api
      BY <2>2 DEF SarahInv, SimulatedLate
    <3> QED
      BY <1>4, <2>1, <3>1
  <2>3. pc' = "simulate" => <<current', "error">> \notin api'
    BY <1>1, <1>3, <1>4, <2>1
  <2> QED
    BY <2>2, <2>3 DEF SimulatedLate
<1>7. Numbered'
  BY <1>1, PartsAssumption DEF SarahInv, Numbered
<1>8. callErrors' \in 0..MaxMisses
  BY CallCounts DEF Sarah!Tell, Sarah!Failure
<1>9. /\ api' \in SUBSET ((1..MaxInstructions) \X Sarah!Kinds)
      /\ missed' \in SUBSET (1..MaxInstructions)
  <2>1. /\ api \in SUBSET ((1..MaxInstructions) \X Sarah!Kinds)
        /\ missed \in SUBSET (1..MaxInstructions)
    BY DEF SarahInv, Sarah!TypeOK
  <2>2. missed' = missed \/ missed' = missed \union {current}
    BY DEF Sarah!Tell
  <2>3. <<current, kindOf>> \in (1..MaxInstructions) \X Sarah!Kinds
    BY <1>1
  <2> QED
    BY <1>1, <1>2, <2>1, <2>2, <2>3
<1> QED
  BY <1>5, <1>6, <1>7, <1>8, <1>9

LEMMA TellKeeps ==
  ASSUME SarahInv, Sarah!TellUser \/ Sarah!TellError
  PROVE  SarahInv'
<1>1. /\ UNCHANGED <<instruction, consensus, answers, current, received, simulation, lost>>
      /\ pc' \in Sarah!Pc
  BY DEF Sarah!TellUser, Sarah!TellError, Sarah!Lists, Sarah!Pc
<1>2. PICK k \in Sarah!Kinds :
        /\ Sarah!Tell(k)
        /\ \/ pc = "answer" /\ pc' = "simulate" /\ k # "error"
           \/ pc = "error" /\ pc' = "idle"
  <2>1. CASE Sarah!TellError
    BY <2>1 DEF Sarah!TellError, Sarah!Kinds
  <2>2. CASE Sarah!TellUser
    <3> DEFINE k == IF received = Swarms THEN "consensus_response" ELSE "consensus_error"
    <3>1. k \in Sarah!Kinds /\ k # "error"
      BY DEF Sarah!Kinds
    <3>2. Sarah!Tell(k) /\ pc = "answer" /\ pc' = "simulate"
      BY <2>2, Zenon DEF Sarah!TellUser
    <3>3. PICK m \in Sarah!Kinds : m = k /\ Sarah!Tell(m)
      BY <3>1, <3>2
    <3> QED
      BY <3>1, <3>2, <3>3
  <2> QED
    BY <2>1, <2>2
<1>3. /\ Numbered' /\ ToldOnce' /\ SimulatedLate' /\ callErrors' \in 0..MaxMisses
      /\ api' \in SUBSET ((1..MaxInstructions) \X Sarah!Kinds)
      /\ missed' \in SUBSET (1..MaxInstructions)
  BY <1>1, <1>2, SarahTells
<1> QED
  BY <1>1, <1>3 DEF SarahInv, Sarah!TypeOK

LEMMA SimulationKeeps ==
  ASSUME SarahInv, Sarah!TellSimulation
  PROVE  SarahInv'
<1>1. /\ UNCHANGED <<instruction, consensus, answers, current, received, api, missed, lost>>
      /\ pc = "simulate" /\ pc' = "idle"
      /\ simulation' = simulation \/ simulation' = simulation \union {<<current, received>>}
  BY DEF Sarah!TellSimulation, Sarah!Lists
<1>2. current \in 1..MaxInstructions /\ received \in SUBSET Swarms
  BY <1>1 DEF SarahInv, Sarah!TypeOK, Numbered
<1>3. callErrors' \in 0..MaxMisses
  BY CallCounts DEF Sarah!TellSimulation, Sarah!Failure
<1>4. SimulatedLate'
  <2>1. ASSUME NEW i \in 1..MaxInstructions, NEW s \in SUBSET Swarms, <<i, s>> \in simulation'
        PROVE  i =< current /\ <<i, "error">> \notin api
    <3>1. CASE <<i, s>> \in simulation
      BY <3>1 DEF SarahInv, SimulatedLate
    <3>2. CASE i = current
      BY <1>1, <1>2, <3>2, PartsAssumption DEF SarahInv, SimulatedLate
    <3> QED
      BY <1>1, <2>1, <3>1, <3>2
  <2> QED
    BY <1>1, <2>1 DEF SimulatedLate
<1>5. Numbered' /\ ToldOnce'
  BY <1>1 DEF SarahInv, Numbered, ToldOnce
<1>6. Sarah!TypeOK'
  BY <1>1, <1>2, <1>3 DEF SarahInv, Sarah!TypeOK, Sarah!Pc
<1> QED
  BY <1>4, <1>5, <1>6 DEF SarahInv

LEMMA SarahStutters == SarahInv /\ UNCHANGED sarahVars => SarahInv'
  BY DEF sarahVars, SarahInv, Sarah!TypeOK, Numbered, ToldOnce, SimulatedLate

LEMMA SarahNext == SarahInv /\ Sarah!Next => SarahInv'
  BY InstructKeeps, CollectKeeps, TakeInstructionKeeps, ProcessKeeps, TellKeeps,
     SimulationKeeps
  DEF Sarah!Next, Sarah!Work

LEMMA SarahInductive == Sarah!Spec => []SarahInv
<1>1. UNCHANGED Sarah!vars => UNCHANGED sarahVars
  BY DEF Sarah!vars, sarahVars
<1> QED
  BY <1>1, SarahInit, SarahNext, SarahStutters, PTL DEF Sarah!Spec

\* OneOutcome: wherever an exception leaves process_marketing_request, its
\* handler and the pushes on the way tell one outcome, and what failed is not
\* simulated.
THEOREM SarahTellsOnce == Sarah!Spec => []OneOutcome
<1>1. ASSUME SarahInv PROVE OneOutcome
  <2>1. ASSUME NEW i \in 1..MaxInstructions
        PROVE  Sarah!Cardinality({k \in Sarah!Kinds : <<i, k>> \in api}) =< 1
    <3> DEFINE K == {k \in Sarah!Kinds : <<i, k>> \in api}
    <3>1. \A S : Sarah!Cardinality(S) = Cardinality(S)
      BY DEF Sarah!Cardinality, Cardinality
    <3>2. \A k, m \in K : k = m
      BY <1>1 DEF SarahInv, ToldOnce
    <3> HIDE DEF K
    <3>3. Cardinality(K) =< 1
      <4>1. CASE K = {}
        BY <4>1, FS_EmptySet
      <4>2. CASE K # {}
        <5>1. PICK k : k \in K
          BY <4>2
        <5>2. K = {k}
          BY <3>2, <5>1
        <5> QED
          BY <5>2, FS_Singleton
      <4> QED
        BY <4>1, <4>2
    <3>4. Sarah!Cardinality(K) =< 1
      BY <3>1, <3>3
    <3> QED
      BY <3>4 DEF K
  <2>2. \A i \in 1..MaxInstructions :
          <<i, "error">> \in api => \A s \in SUBSET Swarms : <<i, s>> \notin simulation
    BY <1>1 DEF SarahInv, SimulatedLate
  <2> QED
    BY <2>1, <2>2 DEF OneOutcome, Sarah!OneOutcome
<1> QED
  BY <1>1, SarahInductive, PTL

-----------------------------------------------------------------------------
(* QueueWorkers.                                                           *)

\* Where a worker is with the pushes of its result, and with its tries.
StepsCount ==
  \A w \in Queue!Workers, j \in Jobs :
    /\ doing[w][j].pc = "publish" => doing[w][j].n \in 1..Len(Queue!Worker(w).out)
    /\ doing[w][j].pc = "report" => doing[w][j].n \in 1..2

\* A worker that pushes to api_queue first has told the user.
FirstPushTells ==
  \A w \in Queue!Workers, j \in Jobs :
    doing[w][j].pc = "publish" /\ doing[w][j].n = 2 /\ Queue!Worker(w).out[1] = "api_queue"
      => <<w, j, "answer">> \in told

QueueInv == Queue!TypeOK /\ StepsCount /\ FirstPushTells /\ UserIsTold

\* The table of the workers.
LEMMA WorkerRows ==
  /\ Queue!Worker("simulation") = Queue!Simulation
  /\ Queue!Worker("cornFlakes") = Queue!CornFlakes
  /\ Queue!Worker("inventoryExecution") = Queue!InventoryExecution
  /\ Queue!Worker("promotionExecution") = Queue!PromotionExecution
  /\ Queue!Worker("promotionalTranslation") = Queue!PromotionalTranslation
  /\ Queue!Worker("inventoryTranslation") = Queue!InventoryTranslation
  /\ Queue!Worker("marketing") = Queue!Marketing
BY DEF Queue!Worker

LEMMA WorkerLists ==
  Queue!Lists =
    {"simulation_queue", "corn_flakes_queue", "inventory_execution_queue",
     "promotional_execution_queue", "promotional_translation_queue",
     "inventory_translation_queue", "marketing_queue"}
<1>1. /\ Queue!Reads("simulation") = "simulation_queue"
      /\ Queue!Reads("cornFlakes") = "corn_flakes_queue"
      /\ Queue!Reads("inventoryExecution") = "inventory_execution_queue"
      /\ Queue!Reads("promotionExecution") = "promotional_execution_queue"
      /\ Queue!Reads("promotionalTranslation") = "promotional_translation_queue"
      /\ Queue!Reads("inventoryTranslation") = "inventory_translation_queue"
      /\ Queue!Reads("marketing") = "marketing_queue"
  BY WorkerRows DEF Queue!Reads, Queue!Simulation, Queue!CornFlakes, Queue!InventoryExecution,
     Queue!PromotionExecution, Queue!PromotionalTranslation, Queue!InventoryTranslation,
     Queue!Marketing, Queue!Row
<1> QED
  BY <1>1 DEF Queue!Lists, Queue!Workers

\* What each worker pushes, and where.
LEMMA WorkerPushes ==
  /\ Queue!Worker("simulation").out = <<"results_queue", "api_queue">>
  /\ Queue!Worker("simulation").tries = 2
  /\ Queue!Worker("cornFlakes").out = <<"product_agent_queue", "api_queue">>
  /\ Queue!Worker("cornFlakes").tries = 1
  /\ Queue!Worker("inventoryExecution").out = <<"api_queue">>
  /\ Queue!Worker("inventoryExecution").tries = 1
  /\ Queue!Worker("promotionExecution").out = <<"api_queue">>
  /\ Queue!Worker("promotionExecution").tries = 1
  /\ Queue!Worker("promotionalTranslation").out = <<"api_queue", "promotional_execution_queue">>
  /\ Queue!Worker("promotionalTranslation").tries = 2
  /\ Queue!Worker("inventoryTranslation").out = <<"api_queue", "inventory_execution_queue">>
  /\ Queue!Worker("inventoryTranslation").tries = 1
  /\ Queue!Worker("marketing").out = <<"api_queue">>
  /\ Queue!Worker("marketing").tries = 0
BY WorkerRows DEF Queue!Simulation, Queue!CornFlakes, Queue!InventoryExecution,
   Queue!PromotionExecution, Queue!PromotionalTranslation, Queue!InventoryTranslation,
   Queue!Marketing, Queue!Row

LEMMA WorkerOuts ==
  ASSUME NEW w \in Queue!Workers
  PROVE  /\ Len(Queue!Worker(w).out) \in 1..2 /\ Queue!Worker(w).tries \in 0..2
         /\ Queue!Reads(w) \in Queue!Lists
         /\ w \notin Queue!Translators =>
              /\ Queue!Worker(w).out[Len(Queue!Worker(w).out)] = "api_queue"
              /\ \A n \in 1..Len(Queue!Worker(w).out) : Queue!Worker(w).out[n] \notin Queue!Lists
         /\ w \in Queue!Translators =>
              /\ Len(Queue!Worker(w).out) = 2 /\ Queue!Worker(w).out[1] = "api_queue"
              /\ Queue!Worker(w).out[2] \in Queue!Lists
<1>1. Queue!Reads(w) \in Queue!Lists
  BY DEF Queue!Lists
<1>2. CASE w \in {"simulation", "cornFlakes"}
  <2>1. PICK q : /\ Queue!Worker(w).out = <<q, "api_queue">> /\ q \notin Queue!Lists
                 /\ Queue!Worker(w).tries \in 0..2 /\ w \notin Queue!Translators
    BY <1>2, WorkerPushes, WorkerLists DEF Queue!Translators
  <2>2. "api_queue" \notin Queue!Lists
    BY WorkerLists
  <2>3. \A n \in 1..2 : n = 1 \/ n = 2
    OBVIOUS
  <2> QED
    BY <1>1, <2>1, <2>2, <2>3
<1>3. CASE w \in {"inventoryExecution", "promotionExecution", "marketing"}
  <2>1. /\ Queue!Worker(w).out = <<"api_queue">> /\ Queue!Worker(w).tries \in 0..2
        /\ w \notin Queue!Translators
    BY <1>3, WorkerPushes DEF Queue!Translators
  <2>2. "api_queue" \notin Queue!Lists
    BY WorkerLists
  <2>3. \A n \in 1..1 : n = 1
    OBVIOUS
  <2> QED
    BY <1>1, <2>1, <2>2, <2>3
<1>4. CASE w \in Queue!Translators
  <2>1. PICK q : /\ Queue!Worker(w).out = <<"api_queue", q>> /\ q \in Queue!Lists
                 /\ Queue!Worker(w).tries \in 0..2
    BY <1>4, WorkerPushes, WorkerLists DEF Queue!Translators
  <2> QED
    BY <1>1, <1>4, <2>1
<1> QED
  BY <1>2, <1>3, <1>4 DEF Queue!Workers, Queue!Translators

\* Each translator passes its messages on to a list of its own.
LEMMA ForwardedLists ==
  /\ Queue!Forwarded("promotionalTranslation") = "promotional_execution_queue"
  /\ Queue!Forwarded("inventoryTranslation") = "inventory_execution_queue"
<1>1. ASSUME NEW w, NEW q, Queue!Worker(w).out = <<"api_queue", q>>, q # "api_queue"
      PROVE  Queue!Forwarded(w) = q
  <2>1. {Queue!Worker(w).out[n] : n \in 1..2} = {"api_queue", q}
    BY <1>1
  <2>2. \A x : x \in {"api_queue", q} /\ x # "api_queue" <=> x = q
    BY <1>1
  <2> QED
    BY <2>1, <2>2 DEF Queue!Forwarded
<1> QED
  BY <1>1, WorkerPushes

LEMMA ForwardedFacts ==
  /\ \A w \in Queue!Translators :
       /\ w \in Queue!Workers /\ Queue!Forwarded(w) = Queue!Worker(w).out[2]
       /\ Queue!Forwarded(w) \in Queue!Lists /\ Queue!Forwarded(w) \notin Queue!Entries
  /\ \A v, w \in Queue!Translators : Queue!Forwarded(v) = Queue!Forwarded(w) => v = w
  /\ Queue!Entries \subseteq Queue!Lists
  BY WorkerPushes, ForwardedLists, WorkerLists DEF Queue!Translators, Queue!Workers, Queue!Entries

LEMMA QueueInit == Queue!Init => QueueInv
<1> SUFFICES ASSUME Queue!Init PROVE QueueInv
  OBVIOUS
<1>1. /\ \A q \in Queue!Lists : list[q] = <<>>
      /\ \A w \in Queue!Workers, j \in Jobs : doing[w][j] = Queue!At("none", 0)
  BY DEF Queue!Init
<1>2. Queue!At("none", 0) \in Queue!Progress /\ Queue!At("none", 0).pc = "none"
  BY DEF Queue!At, Queue!Progress
<1>3. Queue!TypeOK
  <2>1. list \in [Queue!Lists -> Seq(Jobs)]
    BY DEF Queue!Init
  <2>2. doing \in [Queue!Workers -> [Jobs -> Queue!Progress]]
    BY <1>2 DEF Queue!Init
  <2> QED
    BY <2>1, <2>2, PartsAssumption DEF Queue!TypeOK, Queue!Init
<1>4. StepsCount /\ FirstPushTells
  BY <1>1, <1>2 DEF StepsCount, FirstPushTells
<1>5. Queue!ForwardedIsShown
  <2>1. ASSUME NEW w \in Queue!Translators, NEW j \in Jobs PROVE ~Queue!Reached(w, j)
    <3>1. list[Queue!Forwarded(w)] = <<>> /\ Len(list[Queue!Forwarded(w)]) = 0
      BY <1>1, ForwardedFacts
    <3> QED
      BY <1>1, <1>2, <3>1 DEF Queue!Reached, Queue!InList
  <2> QED
    BY <2>1 DEF Queue!ForwardedIsShown
<1>6. Queue!EndedIsTold
  BY <1>1, <1>2 DEF Queue!EndedIsTold
<1> QED
  BY <1>3, <1>4, <1>5, <1>6 DEF QueueInv, UserIsTold, Queue!UserIsTold

\* What a step may put into a list without the user having seen it.
ShownOnly ==
  \A q \in Queue!Lists, j \in Jobs :
    (\E i \in 1..Len(list'[q]) : list'[q][i] = j) =>
      \/ Queue!InList(q, j)
      \/ \A w \in Queue!Translators : Queue!Forwarded(w) = q => <<w, j, "answer">> \in told'

Entries == Queue!Workers \X Jobs \X {"notification", "answer", "error"}

LEMMA ListsKept ==
  ASSUME QueueInv, UNCHANGED list
  PROVE  list' \in [Queue!Lists -> Seq(Jobs)] /\ ShownOnly
BY DEF QueueInv, Queue!TypeOK, ShownOnly, Queue!InList

LEMMA ListPut ==
  ASSUME QueueInv, NEW q \in Queue!Lists, NEW j \in Jobs,
         list' = [list EXCEPT ![q] = Append(@, j)],
         \A w \in Queue!Translators : Queue!Forwarded(w) = q => <<w, j, "answer">> \in told'
  PROVE  list' \in [Queue!Lists -> Seq(Jobs)] /\ ShownOnly
<1>1. list \in [Queue!Lists -> Seq(Jobs)]
  BY DEF QueueInv, Queue!TypeOK
<1>2. /\ list'[q] = Append(list[q], j) /\ list[q] \in Seq(Jobs)
      /\ \A p \in Queue!Lists : p # q => list'[p] = list[p]
  BY <1>1
<1>3. /\ Append(list[q], j) \in Seq(Jobs) /\ Len(list[q]) \in Nat
      /\ Len(list'[q]) = Len(list[q]) + 1 /\ list'[q][Len(list[q]) + 1] = j
      /\ \A i \in 1..Len(list[q]) : list'[q][i] = list[q][i]
  BY <1>2, AppendFact
<1>4. list' \in [Queue!Lists -> Seq(Jobs)]
  BY <1>1, <1>3
<1>5. ASSUME NEW p \in Queue!Lists, NEW k \in Jobs, NEW i \in 1..Len(list'[p]), list'[p][i] = k
      PROVE  \/ Queue!InList(p, k)
             \/ \A w \in Queue!Translators :
                  Queue!Forwarded(w) = p => <<w, k, "answer">> \in told'
  <2>1. CASE p = q /\ i = Len(list[q]) + 1
    BY <1>3, <1>5, <2>1
  <2>2. CASE ~(p = q /\ i = Len(list[q]) + 1)
    <3>1. i \in 1..Len(list[p]) /\ list'[p][i] = list[p][i]
      BY <1>2, <1>3, <2>2
    <3> QED
      BY <1>5, <3>1 DEF Queue!InList
  <2> QED
    BY <2>1, <2>2
<1> QED
  BY <1>4, <1>5 DEF ShownOnly

LEMMA ListTaken ==
  ASSUME QueueInv, NEW q \in Queue!Lists, list[q] # <<>>,
         list' = [list EXCEPT ![q] = Tail(@)]
  PROVE  /\ list' \in [Queue!Lists -> Seq(Jobs)] /\ ShownOnly
         /\ Head(list[q]) \in Jobs /\ Queue!InList(q, Head(list[q]))
<1>1. list \in [Queue!Lists -> Seq(Jobs)]
  BY DEF QueueInv, Queue!TypeOK
<1>2. /\ list'[q] = Tail(list[q]) /\ list[q] \in Seq(Jobs)
      /\ \A p \in Queue!Lists : p # q => list'[p] = list[p]
  BY <1>1
<1>3. /\ Tail(list[q]) \in Seq(Jobs) /\ Len(list[q]) \in Nat
      /\ Len(list'[q]) = Len(list[q]) - 1 /\ Head(list[q]) \in Jobs
      /\ Head(list[q]) = list[q][1] /\ 1 \in 1..Len(list[q])
      /\ \A i \in 1..(Len(list[q]) - 1) : list'[q][i] = list[q][i + 1]
  BY <1>2, TailFact
<1>4. list' \in [Queue!Lists -> Seq(Jobs)]
  BY <1>1, <1>3
<1>5. ASSUME NEW p \in Queue!Lists, NEW k \in Jobs, NEW i \in 1..Len(list'[p]), list'[p][i] = k
      PROVE  Queue!InList(p, k)
  <2>1. CASE p = q
    <3>1. i + 1 \in 1..Len(list[q]) /\ list'[q][i] = list[q][i + 1]
      BY <1>3, <2>1
    <3> QED
      BY <1>5, <2>1, <3>1 DEF Queue!InList
  <2>2. CASE p # q
    BY <1>2, <1>5, <2>2 DEF Queue!InList
  <2> QED
    BY <2>1, <2>2
<1> QED
  BY <1>3, <1>4, <1>5 DEF ShownOnly, Queue!InList

\* Nothing that was shown is forgotten, and what is new in a list or a worker's
\* hands was shown, or was in the list the worker reads.
LEMMA ShownKept ==
  ASSUME QueueInv, ShownOnly, told \subseteq told',
         \A v \in Queue!Workers, k \in Jobs : doing'[v][k].pc # "none" =>
           doing[v][k].pc # "none" \/ Queue!InList(Queue!Reads(v), k)
  PROVE  Queue!ForwardedIsShown'
<1>1. ASSUME NEW w \in Queue!Translators, NEW j \in Jobs, Queue!Reached(w, j)'
      PROVE  <<w, j, "answer">> \in told'
  <2>1. PICK v \in Queue!Workers :
          /\ Queue!Reads(v) = Queue!Forwarded(w)
          /\ \/ \E i \in 1..Len(list'[Queue!Forwarded(w)]) : list'[Queue!Forwarded(w)][i] = j
             \/ doing'[v][j].pc # "none"
    BY <1>1 DEF Queue!Reached, Queue!InList
  <2>2. Queue!Reached(w, j) => <<w, j, "answer">> \in told'
    BY DEF QueueInv, UserIsTold, Queue!UserIsTold, Queue!ForwardedIsShown
  <2>3. CASE \E i \in 1..Len(list'[Queue!Forwarded(w)]) : list'[Queue!Forwarded(w)][i] = j
    <3>1. \/ Queue!InList(Queue!Forwarded(w), j) \/ <<w, j, "answer">> \in told'
      BY <2>3, ForwardedFacts DEF ShownOnly
    <3> QED
      BY <2>1, <2>2, <3>1 DEF Queue!Reached
  <2>4. CASE doing'[v][j].pc # "none"
    BY <2>1, <2>2, <2>4 DEF Queue!Reached
  <2> QED
    BY <2>1, <2>3, <2>4
<1> QED
  BY <1>1 DEF Queue!ForwardedIsShown

\* A worker goes on with one message.
LEMMA OneMoves ==
  ASSUME QueueInv, NEW w \in Queue!Workers, NEW j \in Jobs, NEW at \in Queue!Progress,
         doing' = [doing EXCEPT ![w][j] = at],
         list' \in [Queue!Lists -> Seq(Jobs)], ShownOnly,
         told \subseteq told', told' \in SUBSET Entries,
         pushErrors' \in 0..MaxMisses, pushErrors' = 0 => pushErrors = 0, UNCHANGED crashes,
         at.pc = "publish" =>
           /\ at.n \in 1..Len(Queue!Worker(w).out)
           /\ at.n = 2 /\ Queue!Worker(w).out[1] = "api_queue" => <<w, j, "answer">> \in told',
         at.pc = "report" => at.n \in 1..2,
         at.pc = "over" /\ w # "marketing" /\ j \notin GarbledJobs /\ pushErrors' = 0 =>
           <<w, j, "answer">> \in told' \/ <<w, j, "error">> \in told',
         doing[w][j].pc # "none" \/ Queue!InList(Queue!Reads(w), j)
  PROVE  QueueInv'
<1>1. /\ doing' \in [Queue!Workers -> [Jobs -> Queue!Progress]] /\ doing'[w][j] = at
      /\ \A v \in Queue!Workers, k \in Jobs : ~(v = w /\ k = j) => doing'[v][k] = doing[v][k]
  BY DEF QueueInv, Queue!TypeOK
<1>2. Queue!TypeOK'
  BY <1>1 DEF QueueInv, Queue!TypeOK, Entries
<1>3. StepsCount'
  BY <1>1 DEF QueueInv, StepsCount
<1>4. FirstPushTells'
  <2>1. ASSUME NEW v \in Queue!Workers, NEW k \in Jobs, doing'[v][k].pc = "publish",
               doing'[v][k].n = 2, Queue!Worker(v).out[1] = "api_queue"
        PROVE  <<v, k, "answer">> \in told'
    <3>1. CASE v = w /\ k = j
      BY <1>1, <2>1, <3>1
    <3>2. CASE ~(v = w /\ k = j)
      <4>1. doing[v][k].pc = "publish" /\ doing[v][k].n = 2
        BY <1>1, <2>1, <3>2
      <4> QED
        BY <2>1, <4>1 DEF QueueInv, FirstPushTells
    <3> QED
      BY <3>1, <3>2
  <2> QED
    BY <2>1 DEF FirstPushTells
<1>5. Queue!ForwardedIsShown'
  <2>1. \A v \in Queue!Workers, k \in Jobs : doing'[v][k].pc # "none" =>
          doing[v][k].pc # "none" \/ Queue!InList(Queue!Reads(v), k)
    BY <1>1
  <2> QED
    BY <2>1, ShownKept
<1>6. Queue!EndedIsTold'
  BY <1>1 DEF QueueInv, UserIsTold, Queue!UserIsTold, Queue!EndedIsTold
<1> QED
  BY <1>2, <1>3, <1>4, <1>5, <1>6 DEF QueueInv, UserIsTold, Queue!UserIsTold

LEMMA SubmitKeeps ==
  ASSUME QueueInv, NEW q \in Queue!Entries, NEW j \in Jobs, Queue!Submit(q, j)
  PROVE  QueueInv'
<1>1. /\ UNCHANGED <<doing, told, pushErrors, crashes>>
      /\ list' = [list EXCEPT ![q] = Append(@, j)]
  BY DEF Queue!Submit
<1>2. list' \in [Queue!Lists -> Seq(Jobs)] /\ ShownOnly
  <2>1. q \in Queue!Lists /\ \A w \in Queue!Translators : Queue!Forwarded(w) # q
    BY ForwardedFacts
  <2> QED
    BY <1>1, <2>1, ListPut
<1>3. Queue!ForwardedIsShown'
  BY <1>1, <1>2, ShownKept
<1>4. Queue!TypeOK' /\ StepsCount' /\ FirstPushTells' /\ Queue!EndedIsTold'
  BY <1>1, <1>2 DEF QueueInv, Queue!TypeOK, StepsCount, FirstPushTells, UserIsTold,
     Queue!UserIsTold, Queue!EndedIsTold
<1> QED
  BY <1>3, <1>4 DEF QueueInv, UserIsTold, Queue!UserIsTold

LEMMA QueueTakeKeeps ==
  ASSUME QueueInv, NEW w \in Queue!Workers, Queue!Take(w)
  PROVE  QueueInv'
<1>1. /\ UNCHANGED <<told, pushErrors, crashes>> /\ list[Queue!Reads(w)] # <<>>
      /\ list' = [list EXCEPT ![Queue!Reads(w)] = Tail(@)]
  BY DEF Queue!Take
<1>2. Queue!Reads(w) \in Queue!Lists
  BY WorkerOuts
<1>3. /\ list' \in [Queue!Lists -> Seq(Jobs)] /\ ShownOnly
      /\ Head(list[Queue!Reads(w)]) \in Jobs
      /\ Queue!InList(Queue!Reads(w), Head(list[Queue!Reads(w)]))
  BY <1>1, <1>2, ListTaken
<1>4. PICK j \in Jobs : j = Head(list[Queue!Reads(w)]) /\ Queue!InList(Queue!Reads(w), j)
  BY <1>3
<1>5. doing' = [doing EXCEPT ![w][j] = Queue!Opened(w, j)]
  BY <1>4 DEF Queue!Take
<1>6. PICK at \in Queue!Progress :
        /\ at = Queue!Opened(w, j) /\ at.pc # "publish" /\ (at.pc = "report" => at.n = 1)
        /\ j \notin GarbledJobs => at.pc = "begin"
  <2>1. Queue!Opened(w, j) \in {Queue!At("begin", 0), Queue!At("report", 1), Queue!At("over", 0)}
    BY DEF Queue!Opened
  <2>2. j \notin GarbledJobs => Queue!Opened(w, j) = Queue!At("begin", 0)
    BY DEF Queue!Opened, Queue!Undecodable
  <2> QED
    BY <2>1, <2>2 DEF Queue!At, Queue!Progress
<1>7. told' \in SUBSET Entries /\ pushErrors' \in 0..MaxMisses
  BY <1>1 DEF QueueInv, Queue!TypeOK, Entries
<1>8. /\ doing' = [doing EXCEPT ![w][j] = at] /\ told \subseteq told'
      /\ pushErrors' = 0 => pushErrors = 0
      /\ at.pc # "publish" /\ (at.pc = "report" => at.n \in 1..2)
      /\ ~(at.pc = "over" /\ j \notin GarbledJobs)
  BY <1>1, <1>5, <1>6
<1> QED
  BY <1>1, <1>3, <1>4, <1>7, <1>8, OneMoves

LEMMA ToldTypes ==
  ASSUME QueueInv, NEW w \in Queue!Workers, NEW j \in Jobs,
         NEW k \in {"notification", "answer", "error"},
         Queue!Tell(w, j, k) \/ UNCHANGED told
  PROVE  told \subseteq told' /\ told' \in SUBSET Entries
BY DEF Queue!Tell, QueueInv, Queue!TypeOK, Entries

\* The ends of a step of a handler.
LEMMA AtTypes ==
  /\ \A p \in {"none", "begin", "crew", "publish", "report", "over", "lost"}, n \in 0..2 :
       /\ Queue!At(p, n) \in Queue!Progress
       /\ Queue!At(p, n).pc = p /\ Queue!At(p, n).n = n
BY DEF Queue!At, Queue!Progress

\* The steps before the result is pushed, and the report of an error.
LEMMA HandlerKeeps ==
  ASSUME QueueInv, NEW w \in Queue!Workers, NEW j \in Jobs,
         \/ Queue!Begin(w, j) \/ Queue!CrewReturns(w, j) \/ Queue!CrewRaises(w, j)
         \/ Queue!Report(w, j)
  PROVE  QueueInv'
<1>1. UNCHANGED <<list, pushErrors, crashes>> /\ doing[w][j].pc # "none"
  BY DEF Queue!Begin, Queue!CrewReturns, Queue!CrewRaises, Queue!Report
<1>2. told \subseteq told' /\ told' \in SUBSET Entries
  BY ToldTypes DEF Queue!Begin, Queue!CrewReturns, Queue!CrewRaises, Queue!Report
<1>3. list' \in [Queue!Lists -> Seq(Jobs)] /\ ShownOnly /\ pushErrors' \in 0..MaxMisses
  BY <1>1, ListsKept DEF QueueInv, Queue!TypeOK
<1>4. PICK at \in Queue!Progress :
        /\ doing' = [doing EXCEPT ![w][j] = at]
        /\ at.pc = "publish" => at.n = 1
        /\ at.pc = "report" => at.n = 1
        /\ at.pc = "over" /\ w # "marketing" /\ j \notin GarbledJobs => <<w, j, "error">> \in told'
  <2>o. /\ Queue!At("over", 0) \in Queue!Progress /\ Queue!At("over", 0).pc = "over"
        /\ Queue!At("crew", 0) \in Queue!Progress /\ Queue!At("crew", 0).pc = "crew"
        /\ Queue!At("publish", 1) \in Queue!Progress /\ Queue!At("publish", 1).pc = "publish"
        /\ Queue!At("publish", 1).n = 1
    BY AtTypes
  <2>1. CASE Queue!Begin(w, j)
    <3>1. \/ doing' = [doing EXCEPT ![w][j] = Queue!At("crew", 0)]
          \/ /\ doing' = [doing EXCEPT ![w][j] = Queue!At("over", 0)]
             /\ w = "marketing"
      BY <2>1 DEF Queue!Begin, Queue!Set
    <3> QED
      BY <2>o, <3>1
  <2>2. CASE Queue!CrewReturns(w, j)
    <3>1. doing' = [doing EXCEPT ![w][j] = Queue!At("publish", 1)]
      BY <2>2 DEF Queue!CrewReturns, Queue!Set
    <3> QED
      BY <2>o, <3>1
  <2>3. CASE Queue!CrewRaises(w, j)
    <3>1. CASE w = "marketing"
      BY <2>3, <3>1, AtTypes DEF Queue!CrewRaises, Queue!Fails, Queue!OneTry, Queue!Set
    <3>2. CASE w # "marketing"
      BY <2>3, <3>2, AtTypes DEF Queue!CrewRaises, Queue!Fails, Queue!OneTry, Queue!Set
    <3> QED
      BY <3>1, <3>2
  <2>4. CASE Queue!Report(w, j)
    <3>1. doing' = [doing EXCEPT ![w][j] = Queue!At("over", 0)] /\ <<w, j, "error">> \in told'
      BY <2>4 DEF Queue!Report, Queue!Set, Queue!Tell
    <3> QED
      BY <2>o, <3>1
  <2> QED
    BY <2>1, <2>2, <2>3, <2>4
<1>5. 1 \in 1..Len(Queue!Worker(w).out)
  BY WorkerOuts
<1>6. /\ pushErrors' = 0 => pushErrors = 0
      /\ at.pc = "publish" => at.n \in 1..Len(Queue!Worker(w).out) /\ at.n # 2
      /\ at.pc = "report" => at.n \in 1..2
  BY <1>1, <1>4, <1>5
<1> QED
  BY <1>1, <1>2, <1>3, <1>4, <1>6, OneMoves

\* A push of the result.
LEMMA PushShows ==
  ASSUME QueueInv, NEW w \in Queue!Workers, NEW j \in Jobs, doing[w][j].pc = "publish",
         Queue!Push(w, j, Queue!Worker(w).out[doing[w][j].n])
  PROVE  /\ list' \in [Queue!Lists -> Seq(Jobs)] /\ ShownOnly
         /\ told \subseteq told' /\ told' \in SUBSET Entries
         /\ Queue!Worker(w).out[doing[w][j].n] = "api_queue" => <<w, j, "answer">> \in told'
<1> DEFINE q == Queue!Worker(w).out[doing[w][j].n]
<1>1. doing[w][j].n \in 1..Len(Queue!Worker(w).out)
  BY DEF QueueInv, StepsCount
<1>2. CASE q = "api_queue"
  <2>1. Queue!Tell(w, j, "answer") /\ UNCHANGED list
    BY <1>2 DEF Queue!Push
  <2> QED
    BY <2>1, ListsKept, ToldTypes DEF Queue!Tell
<1>3. CASE q # "api_queue"
  <2>1. /\ UNCHANGED told
        /\ list' = IF q \in Queue!Lists THEN [list EXCEPT ![q] = Append(@, j)] ELSE list
    BY <1>3 DEF Queue!Push
  <2>2. told \subseteq told' /\ told' \in SUBSET Entries
    BY <2>1, ToldTypes
  <2>3. CASE q \notin Queue!Lists
    BY <1>3, <2>1, <2>2, <2>3, ListsKept
  <2>4. CASE q \in Queue!Lists
    <3>1. w \in Queue!Translators
      BY <1>1, <2>4, WorkerOuts
    <3>2. doing[w][j].n = 2 /\ Queue!Worker(w).out[1] = "api_queue" /\ q = Queue!Forwarded(w)
      BY <1>1, <1>3, <3>1, WorkerOuts, ForwardedFacts
    <3>3. <<w, j, "answer">> \in told'
      BY <2>1, <3>2 DEF QueueInv, FirstPushTells
    <3>4. \A v \in Queue!Translators : Queue!Forwarded(v) = q => <<v, j, "answer">> \in told'
      BY <3>1, <3>2, <3>3, ForwardedFacts
    <3>5. PICK p \in Queue!Lists : p = q
      BY <2>4
    <3> QED
      BY <1>3, <2>1, <2>2, <3>4, <3>5, ListPut
  <2> QED
    BY <2>3, <2>4
<1> QED
  BY <1>2, <1>3

LEMMA PublishKeeps ==
  ASSUME QueueInv, NEW w \in Queue!Workers, NEW j \in Jobs, Queue!Publish(w, j)
  PROVE  QueueInv'
<1> DEFINE n == doing[w][j].n
           last == Len(Queue!Worker(w).out)
<1>1. /\ doing[w][j].pc = "publish" /\ UNCHANGED <<pushErrors, crashes>>
      /\ Queue!Push(w, j, Queue!Worker(w).out[n])
      /\ IF n < last THEN Queue!Set(w, j, "publish", n + 1) ELSE Queue!Set(w, j, "over", 0)
  BY DEF Queue!Publish
<1>2. /\ list' \in [Queue!Lists -> Seq(Jobs)] /\ ShownOnly
      /\ told \subseteq told' /\ told' \in SUBSET Entries
      /\ Queue!Worker(w).out[n] = "api_queue" => <<w, j, "answer">> \in told'
  BY <1>1, PushShows
<1>3. n \in 1..last /\ last \in 1..2 /\ pushErrors' \in 0..MaxMisses
  BY <1>1, WorkerOuts DEF QueueInv, StepsCount, Queue!TypeOK
<1>4. CASE n < last
  <2>1. n = 1 /\ last = 2
    <3> HIDE DEF n, last
    <3> QED
      BY <1>3, <1>4
  <2>2. PICK at \in Queue!Progress :
          at.pc = "publish" /\ at.n = 2 /\ doing' = [doing EXCEPT ![w][j] = at]
    BY <1>1, <2>1, AtTypes DEF Queue!Set
  <2> QED
    BY <1>1, <1>2, <1>3, <2>1, <2>2, OneMoves
<1>5. CASE n = last
  <2>1. <<w, j, "answer">> \in told'
    <3>1. CASE w \notin Queue!Translators
      BY <1>2, <1>5, <3>1, WorkerOuts
    <3>2. CASE w \in Queue!Translators
      BY <1>1, <1>2, <1>5, <3>2, WorkerOuts DEF QueueInv, FirstPushTells
    <3> QED
      BY <3>1, <3>2
  <2>2. PICK at \in Queue!Progress : at.pc = "over" /\ doing' = [doing EXCEPT ![w][j] = at]
    BY <1>1, <1>3, <1>5, AtTypes DEF Queue!Set
  <2> QED
    BY <1>1, <1>2, <1>3, <2>1, <2>2, OneMoves
<1> QED
  BY <1>3, <1>4, <1>5

\* Where the outer except leads.
LEMMA FailsTo ==
  ASSUME NEW w \in Queue!Workers, NEW j \in Jobs, NEW t \in 0..2, Queue!Fails(w, j, t)
  PROVE  \E at \in Queue!Progress :
           /\ doing' = [doing EXCEPT ![w][j] = at]
           /\ at.pc # "publish" /\ (at.pc = "report" => at.n \in 1..2)
<1>1. CASE t = 0
  BY <1>1, AtTypes DEF Queue!Fails, Queue!Set
<1>2. CASE t # 0
  BY <1>2, AtTypes DEF Queue!Fails, Queue!Set
<1> QED
  BY <1>1, <1>2

LEMMA PushRaisesKeeps ==
  ASSUME QueueInv, NEW w \in Queue!Workers, NEW j \in Jobs, NEW got \in BOOLEAN,
         Queue!PushRaises(w, j, got)
  PROVE  QueueInv'
<1>1. /\ pushErrors < MaxMisses /\ pushErrors' = pushErrors + 1 /\ UNCHANGED crashes
      /\ doing[w][j].pc \in {"begin", "publish", "report"}
  BY DEF Queue!PushRaises
<1>2. pushErrors' \in 0..MaxMisses /\ pushErrors' # 0
  BY <1>1, PartsAssumption DEF QueueInv, Queue!TypeOK
<1>3. PICK t \in 0..2 : Queue!Fails(w, j, t)
  <2>1. CASE doing[w][j].pc = "begin"
    <3>1. Queue!OneTry(w) \in 0..2
      BY DEF Queue!OneTry
    <3> QED
      BY <2>1, <3>1 DEF Queue!PushRaises
  <2>2. CASE doing[w][j].pc = "publish"
    BY <2>2, WorkerOuts DEF Queue!PushRaises
  <2>3. CASE doing[w][j].pc = "report"
    <3>1. doing[w][j].n - 1 \in 0..2
      BY <2>3 DEF QueueInv, StepsCount
    <3> QED
      BY <2>3, <3>1 DEF Queue!PushRaises
  <2> QED
    BY <1>1, <2>1, <2>2, <2>3
<1>4. PICK at \in Queue!Progress :
        /\ doing' = [doing EXCEPT ![w][j] = at]
        /\ at.pc # "publish" /\ (at.pc = "report" => at.n \in 1..2)
  BY <1>3, FailsTo
<1>5. /\ list' \in [Queue!Lists -> Seq(Jobs)] /\ ShownOnly
      /\ told \subseteq told' /\ told' \in SUBSET Entries
  <2>1. CASE UNCHANGED <<list, told>>
    BY <2>1, ListsKept, ToldTypes
  <2>2. CASE Queue!Tell(w, j, "notification") /\ UNCHANGED list
    BY <2>2, ListsKept, ToldTypes
  <2>3. CASE Queue!Tell(w, j, "error") /\ UNCHANGED list
    BY <2>3, ListsKept, ToldTypes
  <2>4. CASE doing[w][j].pc = "publish" /\ Queue!Push(w, j, Queue!Worker(w).out[doing[w][j].n])
    BY <2>4, PushShows
  <2> QED
    BY <2>1, <2>2, <2>3, <2>4, Zenon DEF Queue!PushRaises
<1> QED
  BY <1>1, <1>2, <1>4, <1>5, OneMoves

LEMMA CrashKeeps ==
  ASSUME QueueInv, NEW w \in Queue!Workers, Queue!Crash(w)
  PROVE  QueueInv'
<1>1. /\ crashes' = crashes + 1 /\ crashes < MaxCrashes /\ UNCHANGED <<list, told, pushErrors>>
      /\ doing' = [doing EXCEPT ![w] =
                     [j \in Jobs |-> IF j \in Queue!Busy(w) THEN Queue!At("lost", 0) ELSE @[j]]]
  BY DEF Queue!Crash
<1>2. doing \in [Queue!Workers -> [Jobs -> Queue!Progress]]
  BY DEF QueueInv, Queue!TypeOK
<1>3. ASSUME NEW v \in Queue!Workers, NEW j \in Jobs
      PROVE  \/ doing'[v][j] = doing[v][j]
             \/ doing'[v][j] = Queue!At("lost", 0) /\ doing[v][j].pc # "none"
  <2>1. CASE v = w
    BY <1>1, <1>2, <2>1 DEF Queue!Busy
  <2>2. CASE v # w
    BY <1>1, <1>2, <2>2
  <2> QED
    BY <2>1, <2>2
<1>4. Queue!At("lost", 0) \in Queue!Progress /\ Queue!At("lost", 0).pc = "lost"
  BY AtTypes
<1>5. Queue!TypeOK'
  <2>1. doing' \in [Queue!Workers -> [Jobs -> Queue!Progress]]
    BY <1>1, <1>2, <1>4
  <2>2. crashes' \in 0..MaxCrashes
    BY <1>1, PartsAssumption DEF QueueInv, Queue!TypeOK
  <2> QED
    BY <1>1, <2>1, <2>2 DEF QueueInv, Queue!TypeOK
<1>6. StepsCount' /\ FirstPushTells'
  BY <1>1, <1>3, <1>4 DEF QueueInv, StepsCount, FirstPushTells
<1>7. Queue!ForwardedIsShown'
  <2>1. ShownOnly
    BY <1>1, ListsKept
  <2>2. \A v \in Queue!Workers, k \in Jobs : doing'[v][k].pc # "none" => doing[v][k].pc # "none"
    BY <1>3
  <2> QED
    BY <1>1, <2>1, <2>2, ShownKept
<1>8. Queue!EndedIsTold'
  BY <1>1, <1>3, <1>4 DEF QueueInv, UserIsTold, Queue!UserIsTold, Queue!EndedIsTold
<1> QED
  BY <1>5, <1>6, <1>7, <1>8 DEF QueueInv, UserIsTold, Queue!UserIsTold

LEMMA QueueStutters == QueueInv /\ UNCHANGED queueVars => QueueInv'
<1> SUFFICES ASSUME QueueInv, UNCHANGED queueVars PROVE QueueInv'
  OBVIOUS
<1>1. UNCHANGED <<list, doing, told, pushErrors, crashes>>
  BY DEF queueVars
<1>2. Queue!ForwardedIsShown'
  BY <1>1, ListsKept, ShownKept
<1>3. Queue!TypeOK' /\ StepsCount' /\ FirstPushTells' /\ Queue!EndedIsTold'
  BY <1>1 DEF QueueInv, Queue!TypeOK, StepsCount, FirstPushTells, UserIsTold,
     Queue!UserIsTold, Queue!EndedIsTold
<1> QED
  BY <1>2, <1>3 DEF QueueInv, UserIsTold, Queue!UserIsTold

LEMMA QueueNext == QueueInv /\ Queue!Next => QueueInv'
  BY SubmitKeeps, QueueTakeKeeps, CrashKeeps, HandlerKeeps, PublishKeeps, PushRaisesKeeps
  DEF Queue!Next, Queue!Work

LEMMA QueueInductive == Queue!Spec => []QueueInv
<1>1. UNCHANGED Queue!vars => UNCHANGED queueVars
  BY DEF Queue!vars, queueVars
<1> QED
  BY <1>1, QueueInit, QueueNext, QueueStutters, PTL DEF Queue!Spec

\* UserIsTold: whichever pushes raise and whichever workers die, what an
\* execution worker gets from a translator was shown before; and as long as no
\* push raises, a message ends with an answer or a reported error.
THEOREM WorkersTellTheUser == Queue!Spec => []UserIsTold
  BY QueueInductive, PTL DEF QueueInv

-----------------------------------------------------------------------------
(* The four programs in the one specification the runs check.              *)

PartsInv == IInv /\ QueueInv /\ SarahInv /\ SwarmInv

LEMMA PartsStep ==
  ASSUME PartsInv, [WorkerStep \/ QueueStep \/ SarahStep \/ SwarmStep]_partsVars
  PROVE  PartsInv'
<1> USE DEF PartsInv
<1>1. IInv /\ [Next]_vars => IInv'
  BY TypeKept, PhasesKept DEF IInv
<1>2. CASE WorkerStep
  BY <1>1, <1>2, QueueStutters, SarahStutters, SwarmStutters DEF WorkerStep
<1>3. CASE QueueStep
  BY <1>1, <1>3, QueueNext, SarahStutters, SwarmStutters DEF QueueStep
<1>4. CASE SarahStep
  BY <1>1, <1>4, QueueStutters, SarahNext, SwarmStutters DEF SarahStep
<1>5. CASE SwarmStep
  BY <1>1, <1>5, QueueStutters, SarahStutters, SwarmNext DEF SwarmStep
<1>6. CASE UNCHANGED partsVars
  BY <1>1, <1>6, QueueStutters, SarahStutters, SwarmStutters DEF partsVars
<1> QED
  BY <1>2, <1>3, <1>4, <1>5, <1>6

LEMMA PartsInductive == PartsSpec => []PartsInv
<1>1. PartsInit => PartsInv
  BY InitEstablishes, QueueInit, SarahInit, SwarmInit DEF PartsInit, PartsInv
<1> QED
  BY <1>1, PartsStep, PTL DEF PartsSpec

\* PartsTypeOK, of the specification the programs are put together in.
THEOREM PartsTypeCorrect == PartsSpec => []PartsTypeOK
<1>1. PartsInv => PartsTypeOK
  BY DEF PartsInv, PartsTypeOK, IInv, QueueInv, SarahInv, SwarmInv
<1> QED
  BY <1>1, PartsInductive, PTL

=============================================================================
