------------------------- MODULE ContractNetProofs -------------------------
(***************************************************************************)
(* What holds of ContractNet for every number of tasks, workers, updates   *)
(* and stops.  IInv is the inductive invariant; each lemma of the second   *)
(* section says what one of the shared pieces of the handlers changes, so  *)
(* that the steps of Next never open a nested EXCEPT.                      *)
(***************************************************************************)
EXTENDS ContractNet, FiniteSetTheorems, TLAPS

(* The strengthening.                                                      *)

\* A chain runs for an object that has been made, and holds such an object.
MadeFirst ==
  \A t \in Tasks, v \in Versions :
    IF pc[t][v] = "idle" THEN ref[t][v] = 1
                         ELSE v <= made[t] /\ ref[t][v] <= made[t]

\* A chain about to push an award holds the winning bid.
HoldsWinner ==
  \A t \in Tasks, v \in Versions : pc[t][v] = "rpush" => held[t][v] # <<>>

PastBidding == ListenerPcs \union {"done"}

\* What task_result_listeners names, and what stop still has to cancel of it,
\* has left the bidding: cancelling it takes no collector away.
ListenersPastBidding ==
  /\ \A t \in Tasks : lisReg[t] # 0 => pc[t][lisReg[t]] \in PastBidding
  /\ stopping.phase = "listeners" =>
       \A c \in stopping.todo : pc[c[1]][c[2]] \in PastBidding

\* stop is counted when it is called.
StopCounted == stopping.phase \in {"collectors", "listeners"} => stops > 0

IInv ==
  /\ TypeOK /\ MadeFirst /\ HoldsWinner /\ ListenersPastBidding /\ StopCounted
  /\ CfpHasCollector /\ InHands

-----------------------------------------------------------------------------
(* What the shared pieces change.                                          *)

LEMMA VersionsFact ==
  /\ MaxUpdates \in Nat
  /\ Versions = 1..(MaxUpdates + 1)
  /\ Versions \subseteq Nat
  /\ 1 \in Versions
BY StoreAssumption DEF Versions

\* The locals of chain <<t, v>> change at most, and it ends up in P.
ChainMoves(t, v, P) ==
  /\ LocalsTypeOK' /\ pc'[t][v] \in P
  /\ \A u \in Tasks, x \in Versions : u # t \/ x # v =>
       /\ pc'[u][x] = pc[u][x]
       /\ ref'[u][x] = ref[u][x]
       /\ held'[u][x] = held[u][x]

LEMMA GotoEffect ==
  ASSUME TypeOK, NEW t \in Tasks, NEW v \in Versions, NEW p \in Pcs, Goto(t, v, p)
  PROVE  /\ pc' \in [Tasks -> [Versions -> Pcs]]
         /\ pc'[t][v] = p
         /\ \A u \in Tasks, x \in Versions :
              u # t \/ x # v => pc'[u][x] = pc[u][x]
BY DEF TypeOK, LocalsTypeOK, Goto

LEMMA FetchedEffect ==
  ASSUME TypeOK, NEW t \in Tasks, NEW v \in Versions, NEW b \in Seq(Bid),
         Fetched(t, v, b)
  PROVE  /\ held' \in [Tasks -> [Versions -> Seq(Bid)]]
         /\ held'[t][v] = b
         /\ \A u \in Tasks, x \in Versions :
              u # t \/ x # v => held'[u][x] = held[u][x]
BY DEF TypeOK, LocalsTypeOK, Fetched

LEMMA HoldEffect ==
  ASSUME TypeOK, NEW t \in Tasks, NEW v \in Versions, NEW o \in Versions,
         ref' = [ref EXCEPT ![t][v] = o]
  PROVE  /\ ref' \in [Tasks -> [Versions -> Versions]]
         /\ ref'[t][v] = o
         /\ \A u \in Tasks, x \in Versions :
              u # t \/ x # v => ref'[u][x] = ref[u][x]
BY DEF TypeOK, LocalsTypeOK

LEMMA EndEffect ==
  ASSUME TypeOK, NEW t \in Tasks, NEW v \in Versions, End(t, v)
  PROVE  ChainMoves(t, v, {"done"}) /\ ref'[t][v] = 1
<1>1. Goto(t, v, "done") /\ Fetched(t, v, <<>>)
      /\ ref' = [ref EXCEPT ![t][v] = 1]
  BY DEF End
<1>2. "done" \in Pcs /\ <<>> \in Seq(Bid) /\ 1 \in Versions
  BY VersionsFact DEF Pcs
<1>3. /\ pc' \in [Tasks -> [Versions -> Pcs]] /\ pc'[t][v] = "done"
      /\ \A u \in Tasks, x \in Versions : u # t \/ x # v => pc'[u][x] = pc[u][x]
  BY <1>1, <1>2, GotoEffect
<1>4. /\ held' \in [Tasks -> [Versions -> Seq(Bid)]]
      /\ \A u \in Tasks, x \in Versions : u # t \/ x # v => held'[u][x] = held[u][x]
  BY <1>1, <1>2, FetchedEffect
<1>5. /\ ref' \in [Tasks -> [Versions -> Versions]] /\ ref'[t][v] = 1
      /\ \A u \in Tasks, x \in Versions : u # t \/ x # v => ref'[u][x] = ref[u][x]
  BY <1>1, <1>2 DEF TypeOK, LocalsTypeOK
<1> QED
  BY <1>3, <1>4, <1>5 DEF ChainMoves, LocalsTypeOK

\* A step of the chain that leaves ref and held alone.
LEMMA OnlyGoto ==
  ASSUME TypeOK, NEW t \in Tasks, NEW v \in Versions, NEW p \in Pcs, Goto(t, v, p),
         UNCHANGED <<ref, held>>
  PROVE  ChainMoves(t, v, {p})
BY GotoEffect DEF ChainMoves, LocalsTypeOK, TypeOK

\* The step leaves the number of objects alone, and every task but t as it was;
\* t's status is in S after it.
StatusBecomes(t, S) ==
  /\ StoreTypeOK' /\ made' = made
  /\ Submitted(t)' /\ StatusOf(t)' \in S
  /\ \A u \in Tasks \ {t} : Submitted(u)' = Submitted(u) /\ StatusOf(u)' = StatusOf(u)

LEMMA StoreEffect ==
  ASSUME TypeOK, NEW t \in Tasks, NEW v \in Versions, NEW s \in Status,
         v <= made[t], Store(t, v, s)
  PROVE  StatusBecomes(t, {s})
<1>1. StoreTypeOK /\ MaxUpdates \in Nat
  BY VersionsFact DEF TypeOK
<1>2. obj' \in [Tasks -> [Versions -> TaskDefinition]]
  <2>1. obj[t][v] \in TaskDefinition
    BY <1>1 DEF StoreTypeOK
  <2>2. [obj[t][v] EXCEPT !.status = s] \in TaskDefinition
    BY <2>1 DEF TaskDefinition
  <2>3. obj' = [obj EXCEPT ![t] = [obj[t] EXCEPT ![v] = [obj[t][v] EXCEPT !.status = s]]]
    BY DEF Store
  <2>4. obj[t] \in [Versions -> TaskDefinition]
    BY <1>1 DEF StoreTypeOK
  <2>5. [obj[t] EXCEPT ![v] = [obj[t][v] EXCEPT !.status = s]] \in [Versions -> TaskDefinition]
    BY <2>2, <2>4
  <2> QED
    BY <1>1, <2>3, <2>5 DEF StoreTypeOK
<1>3. cur' = [cur EXCEPT ![t] = v] /\ made' = made
  BY DEF Store
<1>4. StoreTypeOK'
  BY <1>1, <1>2, <1>3, VersionsFact DEF StoreTypeOK
<1>5. cur'[t] = v /\ obj'[t][v].status = s
  BY <1>1, <1>3 DEF StoreTypeOK, Store, TaskDefinition
<1>6. \A u \in Tasks \ {t} : cur'[u] = cur[u] /\ obj'[u] = obj[u]
  BY <1>1, <1>3 DEF StoreTypeOK, Store
<1> QED
  BY <1>3, <1>4, <1>5, <1>6, VersionsFact DEF StatusBecomes, Submitted, StatusOf

LEMMA StoreAssignedEffect ==
  ASSUME TypeOK, NEW t \in Tasks, NEW v \in Versions, NEW s \in Status,
         NEW w \in Workers \union {NoWorker}, v <= made[t], StoreAssigned(t, v, s, w)
  PROVE  StatusBecomes(t, {s})
<1>1. StoreTypeOK /\ MaxUpdates \in Nat
  BY VersionsFact DEF TypeOK
<1>2. obj' \in [Tasks -> [Versions -> TaskDefinition]]
  BY <1>1 DEF StoreTypeOK, StoreAssigned, TaskDefinition
<1>3. cur' = [cur EXCEPT ![t] = v] /\ made' = made
  BY DEF StoreAssigned
<1>4. StoreTypeOK'
  BY <1>1, <1>2, <1>3, VersionsFact DEF StoreTypeOK
<1>5. cur'[t] = v /\ obj'[t][v].status = s
  BY <1>1, <1>3 DEF StoreTypeOK, StoreAssigned, TaskDefinition
<1>6. \A u \in Tasks \ {t} : cur'[u] = cur[u] /\ obj'[u] = obj[u]
  BY <1>1, <1>3 DEF StoreTypeOK, StoreAssigned
<1> QED
  BY <1>3, <1>4, <1>5, <1>6, VersionsFact DEF StatusBecomes, Submitted, StatusOf
LEMMA FailUnlessFinalEffect ==
  ASSUME TypeOK, NEW t \in Tasks, Submitted(t), FailUnlessFinal(t)
  PROVE  StatusBecomes(t, Final)
<1>1. cur[t] \in Versions /\ cur[t] <= made[t]
  BY VersionsFact DEF TypeOK, StoreTypeOK, Submitted
<1>2. CASE StatusOf(t) \in Final
  BY <1>2 DEF FailUnlessFinal, StatusBecomes, storeVars, TypeOK, StoreTypeOK,
              Submitted, StatusOf
<1>3. CASE StatusOf(t) \notin Final
  <2>1. Store(t, cur[t], "FAILED") /\ "FAILED" \in Status /\ "FAILED" \in Final
    BY <1>3 DEF FailUnlessFinal, Status, Final
  <2>2. StatusBecomes(t, {"FAILED"})
    BY <1>1, <2>1, StoreEffect
  <2> QED
    BY <2>1, <2>2 DEF StatusBecomes
<1> QED
  BY <1>2, <1>3

\* A chain that is not idle works on a submitted task and on made objects.
LEMMA ChainRuns ==
  ASSUME TypeOK, MadeFirst, NEW t \in Tasks, NEW v \in Versions, pc[t][v] # "idle"
  PROVE  /\ Submitted(t) /\ cur[t] \in Versions /\ cur[t] <= made[t]
         /\ v <= made[t] /\ 1 <= made[t]
         /\ ref[t][v] \in Versions /\ ref[t][v] <= made[t]
<1>1. v <= made[t] /\ ref[t][v] <= made[t]
  BY DEF MadeFirst
<1>2. /\ made[t] \in 0..(MaxUpdates + 1) /\ cur[t] \in 0..(MaxUpdates + 1)
      /\ cur[t] <= made[t] /\ (cur[t] = 0 <=> made[t] = 0)
      /\ ref[t][v] \in Versions
  BY DEF TypeOK, StoreTypeOK, LocalsTypeOK
<1> QED
  BY <1>1, <1>2, VersionsFact DEF Submitted
-----------------------------------------------------------------------------
(* Chain steps.                                                            *)

LEMMA MadeFirstKept ==
  ASSUME IInv, NEW t \in Tasks, NEW v \in Versions, ChainMoves(t, v, Pcs),
         made' = made, pc[t][v] # "idle", pc'[t][v] # "idle", ref'[t][v] <= made[t]
  PROVE  MadeFirst'
BY DEF IInv, MadeFirst, ChainMoves

LEMMA HoldsWinnerKept ==
  ASSUME IInv, NEW t \in Tasks, NEW v \in Versions, ChainMoves(t, v, Pcs),
         pc'[t][v] = "rpush" => held'[t][v] # <<>>
  PROVE  HoldsWinner'
BY DEF IInv, HoldsWinner, ChainMoves

\* Either the registry of listeners only loses t's entry, or t's entry becomes
\* the chain that moved.
LEMMA ListenersKept ==
  ASSUME IInv, NEW t \in Tasks, NEW v \in Versions, ChainMoves(t, v, Pcs),
         UNCHANGED stopVars,
         \A u \in Tasks : lisReg'[u] \in {0, lisReg[u]}
                            \/ (u = t /\ lisReg'[u] = v /\ pc'[t][v] \in PastBidding),
         pc[t][v] \in PastBidding => pc'[t][v] \in PastBidding
  PROVE  ListenersPastBidding' /\ StopCounted'
<1>1. \A u \in Tasks, x \in Versions :
        pc[u][x] \in PastBidding => pc'[u][x] \in PastBidding
  BY DEF ChainMoves
<1>2. \A u \in Tasks : lisReg'[u] # 0 => pc'[u][lisReg'[u]] \in PastBidding
  <2> SUFFICES ASSUME NEW u \in Tasks, lisReg'[u] # 0
               PROVE  pc'[u][lisReg'[u]] \in PastBidding
    OBVIOUS
  <2>1. CASE lisReg'[u] = lisReg[u]
    <3>1. lisReg[u] \in Versions /\ pc[u][lisReg[u]] \in PastBidding
      BY <2>1, VersionsFact DEF IInv, TypeOK, RegistryTypeOK, ListenersPastBidding
    <3> QED
      BY <2>1, <3>1, <1>1
  <2>2. CASE u = t /\ lisReg'[u] = v /\ pc'[t][v] \in PastBidding
    BY <2>2
  <2> QED
    BY <2>1, <2>2
<1>3. \A c \in stopping.todo : c[1] \in Tasks /\ c[2] \in Versions
  BY DEF IInv, TypeOK, StopTypeOK, StopProgress, Chains
<1>4. stopping' = stopping /\ stops' = stops
  BY DEF stopVars
<1>5. ListenersPastBidding'
  BY <1>1, <1>2, <1>3, <1>4 DEF IInv, ListenersPastBidding
<1>6. StopCounted'
  BY <1>4 DEF IInv, StopCounted
<1> QED
  BY <1>5, <1>6

\* A CFP in active_cfps stays with its collector when the step forgets t's CFP ...
LEMMA CollectorsForgotten ==
  ASSUME IInv, NEW t \in Tasks, NEW v \in Versions, NEW P, ChainMoves(t, v, P),
         UNCHANGED stopVars, ForgetCfp(t)
  PROVE  /\ activeCfps' \in SUBSET Tasks
         /\ collReg' \in [Tasks -> 0..(MaxUpdates + 1)]
         /\ CfpHasCollector'
<1>1. RegistryTypeOK /\ stopping' = stopping /\ MaxUpdates \in Nat
  BY VersionsFact DEF IInv, TypeOK, stopVars
<1>2. activeCfps' = activeCfps \ {t} /\ collReg' = [collReg EXCEPT ![t] = 0]
  BY DEF ForgetCfp
<1>3. ASSUME NEW u \in activeCfps', stopping'.phase # "collectors"
      PROVE  collReg'[u] # 0 /\ pc'[u][collReg'[u]] \in CollectorPcs
  <2>1. u \in activeCfps /\ u \in Tasks /\ u # t /\ collReg'[u] = collReg[u]
    BY <1>1, <1>2 DEF RegistryTypeOK
  <2>2. collReg[u] \in Versions /\ pc[u][collReg[u]] \in CollectorPcs
    BY <1>1, <1>3, <2>1, VersionsFact DEF IInv, CfpHasCollector, RegistryTypeOK
  <2> QED
    BY <2>1, <2>2, VersionsFact DEF ChainMoves
<1> QED
  BY <1>1, <1>2, <1>3 DEF CfpHasCollector, RegistryTypeOK

\* ... or leaves both registries alone and the chain in the bidding, if it was
\* the collector of an active CFP.
LEMMA CollectorsLeft ==
  ASSUME IInv, NEW t \in Tasks, NEW v \in Versions, NEW P, ChainMoves(t, v, P),
         UNCHANGED stopVars, UNCHANGED <<activeCfps, collReg>>,
         t \in activeCfps /\ pc[t][v] \in CollectorPcs => pc'[t][v] \in CollectorPcs
  PROVE  CfpHasCollector'
<1>1. RegistryTypeOK /\ stopping' = stopping
  BY DEF IInv, TypeOK, stopVars
<1>2. ASSUME NEW u \in activeCfps, stopping.phase # "collectors"
      PROVE  collReg[u] # 0 /\ pc'[u][collReg[u]] \in CollectorPcs
  <2>1. u \in Tasks
    BY <1>1 DEF RegistryTypeOK
  <2>2. collReg[u] # 0 /\ collReg[u] \in Versions /\ pc[u][collReg[u]] \in CollectorPcs
    BY <1>1, <1>2, <2>1, VersionsFact DEF IInv, CfpHasCollector, RegistryTypeOK
  <2> QED
    BY <2>1, <2>2 DEF ChainMoves
<1> QED
  BY <1>1, <1>2 DEF CfpHasCollector

Evaluating == {"lrange", "delete"}
Awarding == {"rpush", "pushed", "created", "blpop"}

\* Only t's status and the place of chain <<t, v>> change: what InHands asks
\* of them after the step is enough.
LEMMA InHandsKept ==
  ASSUME IInv, NEW t \in Tasks, NEW v \in Versions, ChainMoves(t, v, Pcs),
         UNCHANGED stopVars,
         Submitted(t) \/ StatusOf(t)' \notin {"EVALUATING_BIDS", "AWARDED"},
         \A u \in Tasks \ {t} : Submitted(u)' = Submitted(u) /\ StatusOf(u)' = StatusOf(u),
         StatusOf(t)' = "EVALUATING_BIDS" =>
           \/ pc'[t][v] \in Evaluating
           \/ pc[t][v] \notin Evaluating /\ StatusOf(t) = "EVALUATING_BIDS",
         StatusOf(t)' = "AWARDED" =>
           \/ pc'[t][v] \in Awarding
           \/ pc[t][v] \notin Awarding /\ StatusOf(t) = "AWARDED"
  PROVE  InHands'
<1>1. stops' = stops
  BY DEF stopVars
<1>2. ASSUME NEW u \in Tasks, Submitted(u)', stops = 0, StatusOf(u)' = "EVALUATING_BIDS"
      PROVE  \E x \in Versions : pc'[u][x] \in Evaluating
  <2>1. CASE u = t /\ pc'[t][v] \in Evaluating
    BY <2>1
  <2>2. CASE ~(u = t /\ pc'[t][v] \in Evaluating)
    <3>1. PICK x \in Versions : pc[u][x] \in Evaluating
      BY <1>2, <2>2 DEF IInv, InHands, Evaluating
    <3> QED
      BY <1>2, <2>2, <3>1 DEF ChainMoves
  <2> QED
    BY <2>1, <2>2
<1>3. ASSUME NEW u \in Tasks, Submitted(u)', stops = 0, StatusOf(u)' = "AWARDED"
      PROVE  \E x \in Versions : pc'[u][x] \in Awarding
  <2>1. CASE u = t /\ pc'[t][v] \in Awarding
    BY <2>1
  <2>2. CASE ~(u = t /\ pc'[t][v] \in Awarding)
    <3>1. PICK x \in Versions : pc[u][x] \in Awarding
      BY <1>3, <2>2 DEF IInv, InHands, Awarding
    <3> QED
      BY <1>3, <2>2, <3>1 DEF ChainMoves
  <2> QED
    BY <2>1, <2>2
<1> QED
  BY <1>1, <1>2, <1>3 DEF InHands, Evaluating, Awarding

LEMMA StoreLeft ==
  ASSUME TypeOK, NEW t \in Tasks, Submitted(t), UNCHANGED storeVars
  PROVE  StatusBecomes(t, {StatusOf(t)})
BY DEF TypeOK, StoreTypeOK, storeVars, StatusBecomes, Submitted, StatusOf

\* The parts together: what a step of chain <<t, v>> has to show.
LEMMA MoveKeeps ==
  ASSUME IInv, NEW t \in Tasks, NEW v \in Versions, NEW P, NEW S,
         pc[t][v] # "idle", "idle" \notin P, ChainMoves(t, v, P), StatusBecomes(t, S),
         RegistryTypeOK', UNCHANGED <<redis, stopVars>>, NetTypeOK', CfpHasCollector',
         ref'[t][v] <= made[t],
         pc'[t][v] = "rpush" => held'[t][v] # <<>>,
         \A u \in Tasks : lisReg'[u] \in {0, lisReg[u]}
                            \/ (u = t /\ lisReg'[u] = v /\ pc'[t][v] \in PastBidding),
         pc[t][v] \in PastBidding => pc'[t][v] \in PastBidding,
         StatusOf(t)' = "EVALUATING_BIDS" =>
           \/ pc'[t][v] \in Evaluating
           \/ pc[t][v] \notin Evaluating /\ StatusOf(t) = "EVALUATING_BIDS",
         StatusOf(t)' = "AWARDED" =>
           \/ pc'[t][v] \in Awarding
           \/ pc[t][v] \notin Awarding /\ StatusOf(t) = "AWARDED"
  PROVE  IInv'
<1>1. ChainMoves(t, v, Pcs) /\ pc'[t][v] # "idle"
  BY DEF ChainMoves, LocalsTypeOK
<1>2. /\ made' = made /\ StoreTypeOK'
      /\ \A u \in Tasks \ {t} : Submitted(u)' = Submitted(u) /\ StatusOf(u)' = StatusOf(u)
  BY DEF StatusBecomes
<1>3. UNCHANGED stopVars /\ redis' = redis
  OBVIOUS
<1>4. StopTypeOK'
  BY <1>3 DEF IInv, TypeOK, StopTypeOK, stopVars
<1>5. TypeOK'
  BY <1>2, <1>4 DEF TypeOK, ChainMoves
<1>6. MadeFirst'
  BY <1>1, <1>2, MadeFirstKept
<1>7. HoldsWinner'
  BY <1>1, HoldsWinnerKept
<1>8. ListenersPastBidding' /\ StopCounted'
  BY <1>1, <1>3, ListenersKept
<1>9. TypeOK /\ MadeFirst
  BY DEF IInv
<1>10. Submitted(t)
  BY <1>9, ChainRuns
<1>11. InHands'
  BY <1>1, <1>2, <1>3, <1>10, InHandsKept
<1> QED
  BY <1>5, <1>6, <1>7, <1>8, <1>11 DEF IInv

-----------------------------------------------------------------------------
(* The steps of a chain.                                                   *)

LEMMA PublishReturnsKeeps ==
  ASSUME IInv, NEW t \in Tasks, NEW v \in Versions, PublishReturns(t, v)
  PROVE  IInv'
<1>1. /\ pc[t][v] = "publish" /\ Store(t, v, "CFP_ISSUED") /\ Goto(t, v, "sleep")
      /\ activeCfps' = activeCfps \union {t} /\ collReg' = [collReg EXCEPT ![t] = v]
      /\ UNCHANGED <<lisReg, ref, held, redis, stopVars, workerVars, bidQ, resQ, ratings>>
  BY DEF PublishReturns
<1>2. TypeOK /\ MadeFirst
  BY DEF IInv
<1>3. StatusBecomes(t, {"CFP_ISSUED"})
  BY <1>1, <1>2, ChainRuns, StoreEffect DEF Status
<1>4. ChainMoves(t, v, {"sleep"})
  BY <1>1, <1>2, OnlyGoto DEF Pcs, CollectorPcs
<1>5. RegistryTypeOK' /\ NetTypeOK'
  BY <1>1, <1>2, VersionsFact DEF TypeOK, RegistryTypeOK, NetTypeOK, workerVars
<1>6. CfpHasCollector'
  <2>1. collReg'[t] = v /\ \A u \in Tasks \ {t} : collReg'[u] = collReg[u]
    BY <1>1, <1>2 DEF TypeOK, RegistryTypeOK
  <2>2. pc'[t][v] \in CollectorPcs
    BY <1>4 DEF ChainMoves, CollectorPcs
  <2>3. ASSUME NEW u \in activeCfps \ {t}, stopping.phase # "collectors"
        PROVE  collReg'[u] # 0 /\ pc'[u][collReg'[u]] \in CollectorPcs
    <3>1. u \in Tasks /\ u # t /\ collReg[u] \in Versions /\ collReg[u] # 0
          /\ pc[u][collReg[u]] \in CollectorPcs
      BY <2>3, <1>2, VersionsFact DEF IInv, TypeOK, RegistryTypeOK, CfpHasCollector
    <3> QED
      BY <3>1, <2>1, <1>4 DEF ChainMoves
  <2> QED
    BY <1>1, <2>1, <2>2, <2>3, VersionsFact DEF CfpHasCollector, stopVars
<1> QED
  BY <1>1, <1>2, <1>3, <1>4, <1>5, <1>6, ChainRuns, MoveKeeps
     DEF ChainMoves, StatusBecomes, PastBidding, ListenerPcs

\* The end of a chain that takes t's CFP with it and leaves a decided status.
LEMMA EndWithCfp ==
  ASSUME IInv, NEW t \in Tasks, NEW v \in Versions, NEW S,
         pc[t][v] # "idle", End(t, v), ForgetCfp(t), StatusBecomes(t, S),
         "EVALUATING_BIDS" \notin S, "AWARDED" \notin S,
         UNCHANGED <<lisReg, redis, stopVars>>, NetTypeOK'
  PROVE  IInv'
<1>1. TypeOK /\ MadeFirst /\ UNCHANGED stopVars
  BY DEF IInv
<1>2. ChainMoves(t, v, {"done"}) /\ ref'[t][v] = 1
  BY <1>1, EndEffect
<1>4. RegistryTypeOK' /\ CfpHasCollector'
  BY <1>1, <1>2, CollectorsForgotten DEF TypeOK, RegistryTypeOK
<1> QED
  BY <1>1, <1>2, <1>4, ChainRuns, MoveKeeps
     DEF ChainMoves, StatusBecomes, PastBidding, ListenerPcs

\* The end of a chain that leaves the CFPs alone, being none's collector.
LEMMA EndWithoutCfp ==
  ASSUME IInv, NEW t \in Tasks, NEW v \in Versions, NEW S,
         pc[t][v] # "idle", End(t, v), StatusBecomes(t, S),
         pc[t][v] \in CollectorPcs => t \notin activeCfps,
         UNCHANGED <<activeCfps, collReg, redis, stopVars>>, NetTypeOK',
         lisReg' = lisReg \/ ForgetListener(t),
         StatusOf(t)' = "EVALUATING_BIDS" =>
           pc[t][v] \notin Evaluating /\ StatusOf(t) = "EVALUATING_BIDS",
         StatusOf(t)' = "AWARDED" =>
           pc[t][v] \notin Awarding /\ StatusOf(t) = "AWARDED"
  PROVE  IInv'
<1>1. TypeOK /\ MadeFirst /\ UNCHANGED stopVars /\ UNCHANGED <<activeCfps, collReg>>
  BY DEF IInv
<1>2. ChainMoves(t, v, {"done"}) /\ ref'[t][v] = 1
  BY <1>1, EndEffect
<1>4. CfpHasCollector'
  BY <1>1, <1>2, CollectorsLeft
<1>5. /\ \A u \in Tasks : lisReg'[u] \in {0, lisReg[u]}
      /\ lisReg' \in [Tasks -> 0..(MaxUpdates + 1)]
  <2>1. lisReg \in [Tasks -> 0..(MaxUpdates + 1)] /\ MaxUpdates \in Nat
    BY <1>1, VersionsFact DEF TypeOK, RegistryTypeOK
  <2>2. CASE lisReg' = lisReg
    BY <2>1, <2>2
  <2>3. CASE ForgetListener(t)
    <3>1. lisReg' = [lisReg EXCEPT ![t] = 0]
      BY <2>3 DEF ForgetListener
    <3> QED
      BY <2>1, <3>1
  <2> QED
    BY <2>2, <2>3
<1>6. RegistryTypeOK'
  BY <1>1, <1>5 DEF TypeOK, RegistryTypeOK
<1> QED
  BY <1>1, <1>2, <1>4, <1>5, <1>6, ChainRuns, MoveKeeps
     DEF ChainMoves, StatusBecomes, PastBidding, ListenerPcs

LEMMA NetLeft ==
  ASSUME TypeOK, UNCHANGED <<workerVars, bidQ, resQ, ratings>>
  PROVE  NetTypeOK'
BY DEF TypeOK, NetTypeOK, workerVars

LEMMA PublishRaisesKeeps ==
  ASSUME IInv, NEW t \in Tasks, NEW v \in Versions, PublishRaises(t, v)
  PROVE  IInv'
<1>1. /\ pc[t][v] = "publish" /\ Store(t, v, "FAILED") /\ End(t, v)
      /\ UNCHANGED <<activeCfps, collReg, lisReg, redis, stopVars, workerVars, bidQ,
                     resQ, ratings>>
  BY DEF PublishRaises
<1>2. TypeOK /\ MadeFirst
  BY DEF IInv
<1>3. StatusBecomes(t, {"FAILED"})
  BY <1>1, <1>2, ChainRuns, StoreEffect DEF Status
<1> QED
  BY <1>1, <1>2, <1>3, NetLeft, EndWithoutCfp DEF CollectorPcs, StatusBecomes

LEMMA DeadlineReachedKeeps ==
  ASSUME IInv, NEW t \in Tasks, NEW v \in Versions, DeadlineReached(t, v)
  PROVE  IInv'
<1>1. /\ pc[t][v] = "sleep"
      /\ UNCHANGED <<lisReg, redis, stopVars, workerVars, bidQ, resQ, ratings>>
  BY DEF DeadlineReached
<1>2. TypeOK /\ MadeFirst
  BY DEF IInv
<1>3. Submitted(t) /\ cur[t] \in Versions /\ cur[t] <= made[t]
  BY <1>1, <1>2, ChainRuns
<1>4. NetTypeOK'
  BY <1>1, <1>2, NetLeft
<1>5. CASE /\ t \notin activeCfps /\ End(t, v)
           /\ UNCHANGED <<storeVars, activeCfps, collReg>>
  <2>1. StatusBecomes(t, {StatusOf(t)})
    BY <1>2, <1>3, <1>5, StoreLeft
  <2> QED
    BY <1>1, <1>4, <1>5, <2>1, EndWithoutCfp DEF StatusBecomes, Evaluating, Awarding
<1>6. CASE /\ Store(t, cur[t], "EVALUATING_BIDS")
           /\ ref' = [ref EXCEPT ![t][v] = cur[t]] /\ Goto(t, v, "lrange")
           /\ UNCHANGED <<activeCfps, collReg, held>>
  <2>1. StatusBecomes(t, {"EVALUATING_BIDS"})
    BY <1>2, <1>3, <1>6, StoreEffect DEF Status
  <2>2. ChainMoves(t, v, {"lrange"}) /\ ref'[t][v] = cur[t]
    BY <1>2, <1>3, <1>6, GotoEffect, HoldEffect
       DEF ChainMoves, LocalsTypeOK, TypeOK, Pcs, CollectorPcs
  <2>3. RegistryTypeOK'
    BY <1>1, <1>2, <1>6 DEF TypeOK, RegistryTypeOK
  <2>4. CfpHasCollector'
    <3>1. pc'[t][v] \in CollectorPcs /\ UNCHANGED stopVars
          /\ UNCHANGED <<activeCfps, collReg>>
      BY <1>1, <1>6, <2>2 DEF ChainMoves, CollectorPcs
    <3> QED
      BY <2>2, <3>1, CollectorsLeft
  <2> QED
    BY <1>1, <1>3, <1>4, <2>1, <2>2, <2>3, <2>4, MoveKeeps
       DEF ChainMoves, StatusBecomes, PastBidding, ListenerPcs, Evaluating
<1>7. CASE Store(t, cur[t], "FAILED") /\ ForgetCfp(t) /\ End(t, v)
  <2>1. StatusBecomes(t, {"FAILED"})
    BY <1>2, <1>3, <1>7, StoreEffect DEF Status
  <2> QED
    BY <1>1, <1>4, <1>7, <2>1, EndWithCfp
<1> QED
  BY <1>5, <1>6, <1>7 DEF DeadlineReached

LEMMA LrangeReturnsKeeps ==
  ASSUME IInv, NEW t \in Tasks, NEW v \in Versions, LrangeReturns(t, v)
  PROVE  IInv'
<1>1. /\ pc[t][v] = "lrange" /\ Fetched(t, v, bidQ[t]) /\ Goto(t, v, "delete")
      /\ UNCHANGED <<storeVars, activeCfps, collReg, lisReg, ref, redis, stopVars,
                     workerVars, bidQ, resQ, ratings>>
  BY DEF LrangeReturns
<1>2. TypeOK /\ MadeFirst
  BY DEF IInv
<1>3. Submitted(t) /\ ref[t][v] <= made[t]
  BY <1>1, <1>2, ChainRuns
<1>4. StatusBecomes(t, {StatusOf(t)})
  BY <1>1, <1>2, <1>3, StoreLeft
<1>5. ChainMoves(t, v, {"delete"})
  BY <1>1, <1>2, GotoEffect, FetchedEffect
     DEF ChainMoves, LocalsTypeOK, TypeOK, NetTypeOK, Pcs, CollectorPcs
<1>6. RegistryTypeOK' /\ NetTypeOK'
  BY <1>1, <1>2, NetLeft DEF TypeOK, RegistryTypeOK
<1>7. CfpHasCollector'
  BY <1>1, <1>5, CollectorsLeft DEF ChainMoves, LocalsTypeOK, CollectorPcs
<1> QED
  BY <1>1, <1>3, <1>4, <1>5, <1>6, <1>7, MoveKeeps
     DEF ChainMoves, StatusBecomes, PastBidding, ListenerPcs, Evaluating, Awarding

LEMMA CollectRaisesKeeps ==
  ASSUME IInv, NEW t \in Tasks, NEW v \in Versions, CollectRaises(t, v)
  PROVE  IInv'
<1>1. /\ pc[t][v] \in {"lrange", "delete"} /\ Store(t, ref[t][v], "FAILED")
      /\ ForgetCfp(t) /\ End(t, v)
      /\ UNCHANGED <<lisReg, redis, stopVars, workerVars, bidQ, resQ, ratings>>
  BY DEF CollectRaises
<1>2. TypeOK /\ MadeFirst
  BY DEF IInv
<1>3. StatusBecomes(t, {"FAILED"})
  BY <1>1, <1>2, ChainRuns, StoreEffect DEF Status
<1> QED
  BY <1>1, <1>2, <1>3, NetLeft, EndWithCfp

\* The award is stored and, the message not validating, taken back on the
\* object held since the deadline.
LEMMA AwardUndone ==
  ASSUME TypeOK, NEW t \in Tasks, NEW c \in Versions, NEW v \in Versions,
         v <= made[t], NEW w \in Workers,
         obj' = [obj EXCEPT ![t][c] = [status |-> "AWARDED", assigned_to |-> w],
                            ![t][v].status = "FAILED"],
         cur' = [cur EXCEPT ![t] = v], UNCHANGED made
  PROVE  StatusBecomes(t, {"FAILED"})
<1> DEFINE rec == [status |-> "AWARDED", assigned_to |-> w]
           o == [obj[t] EXCEPT ![c] = rec]
           o2 == [o EXCEPT ![v] = [o[v] EXCEPT !.status = "FAILED"]]
<1>1. StoreTypeOK
  BY DEF TypeOK
<1>2. rec \in TaskDefinition /\ obj[t] \in [Versions -> TaskDefinition]
  BY <1>1 DEF TaskDefinition, Status, StoreTypeOK
<1>3. o \in [Versions -> TaskDefinition]
  BY <1>2
<1>4. o[v] \in TaskDefinition
  BY <1>3
<1>5. [o[v] EXCEPT !.status = "FAILED"] \in TaskDefinition
      /\ [o[v] EXCEPT !.status = "FAILED"].status = "FAILED"
  BY <1>4 DEF TaskDefinition, Status
<1>6. o2 \in [Versions -> TaskDefinition] /\ o2[v].status = "FAILED"
  BY <1>3, <1>5
<1>7. obj' = [obj EXCEPT ![t] = o2]
  BY <1>1 DEF StoreTypeOK
<1> HIDE DEF o2
<1>8. StoreTypeOK'
  <2>1. obj' \in [Tasks -> [Versions -> TaskDefinition]]
    BY <1>1, <1>6, <1>7 DEF StoreTypeOK
  <2>2. v \in 0..(MaxUpdates + 1) /\ v # 0 /\ made[t] # 0
    BY <1>1, VersionsFact DEF StoreTypeOK
  <2> QED
    BY <1>1, <2>1, <2>2 DEF StoreTypeOK
<1>9. cur'[t] = v /\ obj'[t] = o2 /\ \A u \in Tasks \ {t} : cur'[u] = cur[u] /\ obj'[u] = obj[u]
  BY <1>1, <1>7 DEF StoreTypeOK
<1> QED
  <2>1. Submitted(t)' /\ StatusOf(t)' = "FAILED"
    BY <1>6, <1>9, VersionsFact DEF Submitted, StatusOf
  <2>2. \A u \in Tasks \ {t} : Submitted(u)' = Submitted(u) /\ StatusOf(u)' = StatusOf(u)
    BY <1>9 DEF Submitted, StatusOf
  <2> QED
    BY <1>8, <2>1, <2>2 DEF StatusBecomes

LEMMA DeleteReturnsKeeps ==
  ASSUME IInv, NEW t \in Tasks, NEW v \in Versions, DeleteReturns(t, v)
  PROVE  IInv'
<1> DEFINE bids == held[t][v]
<1>1. /\ pc[t][v] = "delete" /\ bidQ' = [bidQ EXCEPT ![t] = <<>>]
      /\ UNCHANGED <<lisReg, redis, stopVars, workerVars, resQ, ratings>>
  BY DEF DeleteReturns
<1>2. TypeOK /\ MadeFirst
  BY DEF IInv
<1>3. /\ Submitted(t) /\ cur[t] \in Versions /\ cur[t] <= made[t]
      /\ ref[t][v] \in Versions /\ ref[t][v] <= made[t]
  BY <1>1, <1>2, ChainRuns
<1>4. NetTypeOK'
  <2>1. <<>> \in Seq(Bid)
    OBVIOUS
  <2> QED
    BY <1>1, <1>2, <2>1 DEF TypeOK, NetTypeOK, workerVars
<1>5. CASE FailUnlessFinal(t) /\ ForgetCfp(t) /\ End(t, v)
  <2>1. StatusBecomes(t, Final)
    BY <1>2, <1>3, <1>5, FailUnlessFinalEffect
  <2> QED
    BY <1>1, <1>4, <1>5, <2>1, EndWithCfp DEF Final
<1>6. CASE Store(t, cur[t], "BIDDING_FAILED") /\ ForgetCfp(t) /\ End(t, v)
  <2>1. StatusBecomes(t, {"BIDDING_FAILED"})
    BY <1>2, <1>3, <1>6, StoreEffect DEF Status
  <2> QED
    BY <1>1, <1>4, <1>6, <2>1, EndWithCfp
<1>7. ASSUME NEW i \in SortedFirst(bids)
      PROVE  /\ bids \in Seq(Bid) /\ bids[i] \in Bid /\ bids[i].bidder \in Workers
             /\ <<bids[i]>> \in Seq(Bid) /\ <<bids[i]>> # <<>>
  <2>1. bids \in Seq(Bid) /\ i \in DOMAIN bids
    <3>1. \A S, f : Leading(bids, S, f) \subseteq S
      BY DEF Leading
    <3>2. SortedFirst(bids) \subseteq DOMAIN bids
      BY <3>1, Zenon DEF SortedFirst
    <3> QED
      BY <1>2, <3>2 DEF TypeOK, LocalsTypeOK
  <2>2. bids[i] \in Bid
    BY <2>1
  <2> QED
    BY <2>1, <2>2 DEF Bid
<1>8. ASSUME NEW i \in SortedFirst(bids),
             obj' = [obj EXCEPT
               ![t][cur[t]] = [status |-> "AWARDED", assigned_to |-> bids[i].bidder],
               ![t][ref[t][v]].status = "FAILED"],
             cur' = [cur EXCEPT ![t] = ref[t][v]], UNCHANGED made,
             ForgetCfp(t), End(t, v)
      PROVE  IInv'
  <2>1. StatusBecomes(t, {"FAILED"})
    BY <1>2, <1>3, <1>7, <1>8, AwardUndone
  <2> QED
    BY <1>1, <1>4, <1>8, <2>1, EndWithCfp
<1>9. ASSUME NEW i \in SortedFirst(bids),
             StoreAssigned(t, cur[t], "AWARDED", bids[i].bidder),
             ref' = [ref EXCEPT ![t][v] = cur[t]],
             Fetched(t, v, <<bids[i]>>), Goto(t, v, "rpush"),
             UNCHANGED <<activeCfps, collReg>>
      PROVE  IInv'
  <2>1. StatusBecomes(t, {"AWARDED"})
    BY <1>2, <1>3, <1>7, <1>9, StoreAssignedEffect DEF Status
  <2>2. /\ pc' \in [Tasks -> [Versions -> Pcs]] /\ pc'[t][v] = "rpush"
        /\ \A u \in Tasks, x \in Versions : u # t \/ x # v => pc'[u][x] = pc[u][x]
    BY <1>2, <1>9, GotoEffect DEF Pcs, CollectorPcs
  <2>3. /\ held' \in [Tasks -> [Versions -> Seq(Bid)]] /\ held'[t][v] # <<>>
        /\ \A u \in Tasks, x \in Versions : u # t \/ x # v => held'[u][x] = held[u][x]
    <3>1. <<bids[i]>> \in Seq(Bid) /\ <<bids[i]>> # <<>>
      BY <1>7
    <3> HIDE DEF bids
    <3>2. held' \in [Tasks -> [Versions -> Seq(Bid)]] /\ held'[t][v] = <<bids[i]>>
          /\ \A u \in Tasks, x \in Versions : u # t \/ x # v => held'[u][x] = held[u][x]
      BY <1>2, <1>9, <3>1, FetchedEffect
    <3> QED
      BY <3>1, <3>2
  <2>4. /\ ref' \in [Tasks -> [Versions -> Versions]] /\ ref'[t][v] = cur[t]
        /\ \A u \in Tasks, x \in Versions : u # t \/ x # v => ref'[u][x] = ref[u][x]
    BY <1>2, <1>3, <1>9 DEF TypeOK, LocalsTypeOK
  <2>5. ChainMoves(t, v, {"rpush"})
    BY <2>2, <2>3, <2>4 DEF ChainMoves, LocalsTypeOK
  <2>6. RegistryTypeOK'
    BY <1>1, <1>2, <1>9 DEF TypeOK, RegistryTypeOK
  <2>7. CfpHasCollector'
    <3>1. pc'[t][v] \in CollectorPcs /\ UNCHANGED stopVars
          /\ UNCHANGED <<activeCfps, collReg>>
      BY <1>1, <1>9, <2>2 DEF CollectorPcs
    <3> QED
      BY <2>5, <3>1, CollectorsLeft
  <2> QED
    BY <1>1, <1>3, <1>4, <2>1, <2>2, <2>3, <2>4, <2>5, <2>6, <2>7, MoveKeeps
       DEF StatusBecomes, PastBidding, ListenerPcs, Awarding
<1>10. CASE StoreAssigned(t, cur[t], "FAILED", NoWorker) /\ ForgetCfp(t) /\ End(t, v)
  <2>1. StatusBecomes(t, {"FAILED"})
    BY <1>2, <1>3, <1>10, StoreAssignedEffect DEF Status
  <2> QED
    BY <1>1, <1>4, <1>10, <2>1, EndWithCfp
<1> QED
  BY <1>5, <1>6, <1>8, <1>9, <1>10 DEF DeleteReturns

LEMMA AwardPushedKeeps ==
  ASSUME IInv, NEW t \in Tasks, NEW v \in Versions, AwardPushed(t, v)
  PROVE  IInv'
<1>1. /\ pc[t][v] = "rpush" /\ Goto(t, v, "pushed")
      /\ awards' = awards \union {<<held[t][v][1].bidder, t, v>>}
      /\ UNCHANGED <<storeVars, activeCfps, collReg, lisReg, ref, held, redis,
                     stopVars, published, bidders, replies, bidQ, resQ, ratings>>
  BY DEF AwardPushed
<1>2. TypeOK /\ MadeFirst /\ HoldsWinner
  BY DEF IInv
<1>3. Submitted(t) /\ ref[t][v] <= made[t]
  BY <1>1, <1>2, ChainRuns
<1>4. StatusBecomes(t, {StatusOf(t)})
  BY <1>1, <1>2, <1>3, StoreLeft
<1>5. ChainMoves(t, v, {"pushed"})
  BY <1>1, <1>2, OnlyGoto DEF Pcs, CollectorPcs
<1>6. held[t][v][1].bidder \in Workers
  <2>1. held[t][v] \in Seq(Bid) /\ held[t][v] # <<>>
    BY <1>1, <1>2 DEF TypeOK, LocalsTypeOK, HoldsWinner
  <2>2. held[t][v][1] \in Bid
    BY <2>1
  <2> QED
    BY <2>2 DEF Bid
<1>7. RegistryTypeOK' /\ NetTypeOK'
  <2>1. <<held[t][v][1].bidder, t, v>> \in Messages
    BY <1>6 DEF Messages
  <2> QED
    BY <1>1, <1>2, <2>1 DEF TypeOK, RegistryTypeOK, NetTypeOK
<1>8. CfpHasCollector'
  BY <1>1, <1>5, CollectorsLeft DEF ChainMoves, CollectorPcs
<1> QED
  BY <1>1, <1>3, <1>4, <1>5, <1>7, <1>8, MoveKeeps
     DEF ChainMoves, StatusBecomes, PastBidding, ListenerPcs, Awarding, Evaluating

LEMMA RpushReturnsKeeps ==
  ASSUME IInv, NEW t \in Tasks, NEW v \in Versions, RpushReturns(t, v)
  PROVE  IInv'
<1>1. /\ pc[t][v] = "pushed" /\ lisReg' = [lisReg EXCEPT ![t] = v] /\ ForgetCfp(t)
      /\ Fetched(t, v, <<>>) /\ Goto(t, v, "created")
      /\ UNCHANGED <<storeVars, ref, redis, stopVars, workerVars, bidQ, resQ, ratings>>
  BY DEF RpushReturns
<1>2. TypeOK /\ MadeFirst /\ UNCHANGED stopVars
  BY <1>1 DEF IInv
<1>3. Submitted(t) /\ ref[t][v] <= made[t]
  BY <1>1, <1>2, ChainRuns
<1>4. StatusBecomes(t, {StatusOf(t)})
  BY <1>1, <1>2, <1>3, StoreLeft
<1>5. ChainMoves(t, v, {"created"})
  <2>1. "created" \in Pcs /\ <<>> \in Seq(Bid)
    BY DEF Pcs, ListenerPcs
  <2>2. /\ pc' \in [Tasks -> [Versions -> Pcs]] /\ pc'[t][v] = "created"
        /\ \A u \in Tasks, x \in Versions : u # t \/ x # v => pc'[u][x] = pc[u][x]
    BY <1>1, <1>2, <2>1, GotoEffect
  <2>3. /\ held' \in [Tasks -> [Versions -> Seq(Bid)]]
        /\ \A u \in Tasks, x \in Versions : u # t \/ x # v => held'[u][x] = held[u][x]
    BY <1>1, <1>2, <2>1, FetchedEffect
  <2> QED
    BY <1>1, <1>2, <2>2, <2>3 DEF ChainMoves, LocalsTypeOK, TypeOK
<1>6. lisReg' \in [Tasks -> 0..(MaxUpdates + 1)]
      /\ \A u \in Tasks : lisReg'[u] = lisReg[u] \/ (u = t /\ lisReg'[u] = v)
  BY <1>1, <1>2, VersionsFact DEF TypeOK, RegistryTypeOK
<1>7. CfpHasCollector' /\ RegistryTypeOK' /\ NetTypeOK'
  <2>1. NetTypeOK'
    BY <1>1, <1>2, NetLeft
  <2>2. /\ activeCfps' \in SUBSET Tasks
        /\ collReg' \in [Tasks -> 0..(MaxUpdates + 1)]
        /\ CfpHasCollector'
    BY <1>1, <1>2, <1>5, CollectorsForgotten
  <2> QED
    BY <1>6, <2>1, <2>2 DEF RegistryTypeOK
<1>8. /\ pc[t][v] # "idle" /\ pc[t][v] \notin Evaluating /\ pc[t][v] \notin PastBidding
      /\ pc'[t][v] \in Awarding /\ pc'[t][v] \in PastBidding /\ pc'[t][v] # "rpush"
  BY <1>1, <1>5 DEF ChainMoves, Awarding, Evaluating, PastBidding, ListenerPcs
<1>9. StatusOf(t)' = StatusOf(t) /\ ref'[t][v] <= made[t] /\ UNCHANGED <<redis, stopVars>>
  BY <1>1, <1>3, <1>4 DEF StatusBecomes
<1> QED
  BY <1>4, <1>5, <1>6, <1>7, <1>8, <1>9, MoveKeeps

LEMMA RpushRaisesKeeps ==
  ASSUME IInv, NEW t \in Tasks, NEW v \in Versions, RpushRaises(t, v)
  PROVE  IInv'
<1>1. /\ pc[t][v] \in {"rpush", "pushed"}
      /\ StoreAssigned(t, ref[t][v], "FAILED", NoWorker) /\ ForgetCfp(t) /\ End(t, v)
      /\ UNCHANGED <<lisReg, redis, stopVars, workerVars, bidQ, resQ, ratings>>
  BY DEF RpushRaises
<1>2. TypeOK /\ MadeFirst
  BY DEF IInv
<1>3. StatusBecomes(t, {"FAILED"})
  BY <1>1, <1>2, ChainRuns, StoreAssignedEffect DEF Status
<1> QED
  BY <1>1, <1>2, <1>3, NetLeft, EndWithCfp

LEMMA ListenerStartsKeeps ==
  ASSUME IInv, NEW t \in Tasks, NEW v \in Versions, ListenerStarts(t, v)
  PROVE  IInv'
<1>1. /\ pc[t][v] = "created"
      /\ UNCHANGED <<activeCfps, collReg, redis, stopVars, workerVars, bidQ, resQ,
                     ratings>>
  BY DEF ListenerStarts
<1>2. TypeOK /\ MadeFirst /\ UNCHANGED stopVars /\ UNCHANGED <<activeCfps, collReg>>
  BY <1>1 DEF IInv
<1>3. Submitted(t) /\ cur[t] \in Versions /\ cur[t] <= made[t]
  BY <1>1, <1>2, ChainRuns
<1>4. NetTypeOK'
  BY <1>1, <1>2, NetLeft
<1>5. CASE /\ ref' = [ref EXCEPT ![t][v] = cur[t]] /\ Goto(t, v, "blpop")
           /\ UNCHANGED <<storeVars, lisReg, held>>
  <2>1. StatusBecomes(t, {StatusOf(t)})
    BY <1>2, <1>3, <1>5, StoreLeft
  <2>2. ChainMoves(t, v, {"blpop"}) /\ ref'[t][v] = cur[t]
    <3>1. /\ pc' \in [Tasks -> [Versions -> Pcs]] /\ pc'[t][v] = "blpop"
          /\ \A u \in Tasks, x \in Versions : u # t \/ x # v => pc'[u][x] = pc[u][x]
      BY <1>2, <1>5, GotoEffect DEF Pcs, ListenerPcs
    <3>2. /\ ref' \in [Tasks -> [Versions -> Versions]] /\ ref'[t][v] = cur[t]
          /\ \A u \in Tasks, x \in Versions : u # t \/ x # v => ref'[u][x] = ref[u][x]
      BY <1>2, <1>3, <1>5 DEF TypeOK, LocalsTypeOK
    <3> QED
      BY <1>2, <1>5, <3>1, <3>2 DEF ChainMoves, LocalsTypeOK, TypeOK
  <2>3. RegistryTypeOK'
    BY <1>2, <1>5 DEF TypeOK, RegistryTypeOK
  <2>4. CfpHasCollector'
    BY <1>1, <1>2, <2>2, CollectorsLeft DEF CollectorPcs
  <2>5. /\ pc[t][v] # "idle" /\ pc[t][v] \notin Evaluating
        /\ pc'[t][v] \in Awarding /\ pc'[t][v] \in PastBidding /\ pc'[t][v] # "rpush"
    BY <1>1, <2>2 DEF ChainMoves, Awarding, Evaluating, PastBidding, ListenerPcs
  <2>6. /\ StatusOf(t)' = StatusOf(t) /\ ref'[t][v] <= made[t]
        /\ UNCHANGED <<redis, stopVars>> /\ \A u \in Tasks : lisReg'[u] \in {0, lisReg[u]}
    BY <1>1, <1>3, <1>5, <2>1, <2>2 DEF StatusBecomes
  <2> QED
    BY <1>4, <2>1, <2>2, <2>3, <2>4, <2>5, <2>6, MoveKeeps
<1>6. CASE Store(t, cur[t], "FAILED") /\ ForgetListener(t) /\ End(t, v)
  <2>1. StatusBecomes(t, {"FAILED"})
    BY <1>2, <1>3, <1>6, StoreEffect DEF Status
  <2> QED
    BY <1>1, <1>4, <1>6, <2>1, EndWithoutCfp DEF CollectorPcs, StatusBecomes
<1> QED
  BY <1>5, <1>6 DEF ListenerStarts

LEMMA ListenerTimesOutKeeps ==
  ASSUME IInv, NEW t \in Tasks, NEW v \in Versions, ListenerTimesOut(t, v)
  PROVE  IInv'
<1>1. /\ pc[t][v] = "blpop" /\ Store(t, ref[t][v], "FAILED")
      /\ ForgetListener(t) /\ End(t, v)
      /\ UNCHANGED <<activeCfps, collReg, redis, stopVars, workerVars, bidQ, resQ,
                     ratings>>
  BY DEF ListenerTimesOut
<1>2. TypeOK /\ MadeFirst
  BY DEF IInv
<1>3. StatusBecomes(t, {"FAILED"})
  BY <1>1, <1>2, ChainRuns, StoreEffect DEF Status
<1> QED
  BY <1>1, <1>2, <1>3, NetLeft, EndWithoutCfp DEF CollectorPcs, StatusBecomes

LEMMA ListenerRaisesKeeps ==
  ASSUME IInv, NEW t \in Tasks, NEW v \in Versions, ListenerRaises(t, v)
  PROVE  IInv'
<1>1. /\ pc[t][v] = "blpop" /\ FailUnlessFinal(t) /\ ForgetListener(t) /\ End(t, v)
      /\ UNCHANGED <<activeCfps, collReg, redis, stopVars, workerVars, bidQ, resQ,
                     ratings>>
  BY DEF ListenerRaises
<1>2. TypeOK /\ MadeFirst
  BY DEF IInv
<1>3. StatusBecomes(t, Final)
  BY <1>1, <1>2, ChainRuns, FailUnlessFinalEffect
<1> QED
  BY <1>1, <1>2, <1>3, NetLeft, EndWithoutCfp DEF CollectorPcs, StatusBecomes, Final

LEMMA RatingReturnsKeeps ==
  ASSUME IInv, NEW t \in Tasks, NEW v \in Versions, RatingReturns(t, v)
  PROVE  IInv'
<1>1. /\ pc[t][v] = "rating" /\ ForgetListener(t) /\ End(t, v)
      /\ UNCHANGED <<storeVars, activeCfps, collReg, redis, stopVars, workerVars,
                     bidQ, resQ, ratings>>
  BY DEF RatingReturns
<1>2. TypeOK /\ MadeFirst
  BY DEF IInv
<1>3. StatusBecomes(t, {StatusOf(t)})
  BY <1>1, <1>2, ChainRuns, StoreLeft
<1> QED
  BY <1>1, <1>2, <1>3, NetLeft, EndWithoutCfp
     DEF CollectorPcs, StatusBecomes, Evaluating, Awarding

LEMMA ResultArrivesKeeps ==
  ASSUME IInv, NEW t \in Tasks, NEW v \in Versions, ResultArrives(t, v)
  PROVE  IInv'
<1> DEFINE result == Head(resQ[t])
           worker == obj[t][cur[t]].assigned_to
<1>1. /\ pc[t][v] = "blpop" /\ resQ[t] # <<>> /\ TakeResult(t)
      /\ UNCHANGED <<activeCfps, collReg, redis, stopVars, workerVars, bidQ>>
  BY DEF ResultArrives
<1>2. TypeOK /\ MadeFirst /\ UNCHANGED stopVars /\ UNCHANGED <<activeCfps, collReg>>
  BY <1>1 DEF IInv
<1>3. /\ Submitted(t) /\ cur[t] \in Versions /\ cur[t] <= made[t]
      /\ ref[t][v] <= made[t]
  BY <1>1, <1>2, ChainRuns
<1>4. result \in Result /\ resQ' \in [Tasks -> Seq(Result)]
  <2>1. resQ[t] \in Seq(Result) /\ resQ[t] # <<>>
    BY <1>1, <1>2 DEF TypeOK, NetTypeOK
  <2>2. Head(resQ[t]) \in Result /\ Tail(resQ[t]) \in Seq(Result)
    BY <2>1
  <2> QED
    BY <1>2, <2>2, <1>1 DEF TypeOK, NetTypeOK, TakeResult
<1>5. ratings' \in SUBSET Rating => NetTypeOK'
  BY <1>1, <1>2, <1>4 DEF TypeOK, NetTypeOK, workerVars
<1>6. ratings \in SUBSET Rating /\ pc[t][v] \notin CollectorPcs
      /\ pc[t][v] \notin Evaluating /\ pc[t][v] # "idle"
  BY <1>1, <1>2 DEF TypeOK, NetTypeOK, CollectorPcs, Evaluating
<1>7. CASE UNCHANGED <<storeVars, lisReg, locals, ratings>>
  <2>1. StatusBecomes(t, {StatusOf(t)})
    BY <1>2, <1>3, <1>7, StoreLeft
  <2>2. ChainMoves(t, v, {"blpop"}) /\ ref' = ref
    BY <1>1, <1>2, <1>7 DEF ChainMoves, locals, TypeOK, LocalsTypeOK
  <2>3. RegistryTypeOK' /\ NetTypeOK'
    BY <1>2, <1>5, <1>6, <1>7 DEF TypeOK, RegistryTypeOK
  <2>4. CfpHasCollector'
    BY <1>2, <1>6, <2>2, CollectorsLeft
  <2>5. /\ pc'[t][v] \in Awarding /\ pc'[t][v] \in PastBidding /\ pc'[t][v] # "rpush"
    BY <2>2 DEF ChainMoves, Awarding, PastBidding, ListenerPcs
  <2>6. /\ StatusOf(t)' = StatusOf(t) /\ ref'[t][v] <= made[t]
        /\ UNCHANGED <<redis, stopVars>> /\ \A u \in Tasks : lisReg'[u] \in {0, lisReg[u]}
    BY <1>1, <1>3, <1>7, <2>1, <2>2 DEF StatusBecomes
  <2> QED
    BY <1>6, <2>1, <2>2, <2>3, <2>4, <2>5, <2>6, MoveKeeps
<1>8. CASE /\ StatusOf(t) \notin {"AWARDED", "IN_PROGRESS"}
           /\ ForgetListener(t) /\ End(t, v) /\ UNCHANGED <<storeVars, ratings>>
  <2>1. StatusBecomes(t, {StatusOf(t)})
    BY <1>2, <1>3, <1>8, StoreLeft
  <2>2. StatusOf(t)' = StatusOf(t) /\ StatusOf(t)' # "AWARDED"
    BY <1>8, <2>1 DEF StatusBecomes
  <2> QED
    BY <1>1, <1>5, <1>6, <1>8, <2>1, <2>2, EndWithoutCfp
<1>9. CASE /\ Store(t, cur[t], IF result.kind = "success" THEN "COMPLETED" ELSE "FAILED")
           /\ worker # NoWorker
           /\ ratings' = ratings \union
                {[task |-> t, chain |-> v, rated |-> worker, author |-> result.worker]}
           /\ Goto(t, v, "rating") /\ UNCHANGED <<lisReg, ref, held>>
  <2>1. StatusBecomes(t, {"COMPLETED"}) \/ StatusBecomes(t, {"FAILED"})
    BY <1>2, <1>3, <1>9, StoreEffect DEF Status
  <2>2. StatusBecomes(t, {"COMPLETED", "FAILED"})
    BY <2>1 DEF StatusBecomes
  <2>3. ChainMoves(t, v, {"rating"}) /\ ref' = ref
    BY <1>2, <1>9, OnlyGoto DEF Pcs, ListenerPcs
  <2>4. worker \in Workers /\ result.worker \in Workers
    <3>1. obj[t][cur[t]] \in TaskDefinition
      BY <1>2, <1>3 DEF TypeOK, StoreTypeOK
    <3>2. obj[t][cur[t]].assigned_to \in Workers \union {NoWorker}
      BY <3>1 DEF TaskDefinition
    <3> QED
      BY <1>4, <1>9, <3>2 DEF Result
  <2>5. [task |-> t, chain |-> v, rated |-> worker, author |-> result.worker] \in Rating
    BY <2>4 DEF Rating
  <2>6. NetTypeOK'
    BY <1>5, <1>6, <1>9, <2>5
  <2>7. RegistryTypeOK'
    BY <1>2, <1>9 DEF TypeOK, RegistryTypeOK
  <2>8. CfpHasCollector'
    BY <1>2, <1>6, <2>3, CollectorsLeft
  <2>9. pc'[t][v] \in PastBidding /\ pc'[t][v] # "rpush"
    BY <2>3 DEF ChainMoves, PastBidding, ListenerPcs
  <2>10. /\ StatusOf(t)' \in {"COMPLETED", "FAILED"} /\ ref'[t][v] <= made[t]
         /\ UNCHANGED <<redis, stopVars>> /\ \A u \in Tasks : lisReg'[u] \in {0, lisReg[u]}
    BY <1>1, <1>3, <1>9, <2>2, <2>3 DEF StatusBecomes
  <2> QED
    BY <1>6, <2>2, <2>3, <2>6, <2>7, <2>8, <2>9, <2>10, MoveKeeps
<1>10. CASE /\ Store(t, cur[t], IF result.kind = "success" THEN "COMPLETED" ELSE "FAILED")
            /\ ForgetListener(t) /\ End(t, v) /\ UNCHANGED ratings
  <2>1. StatusBecomes(t, {"COMPLETED"}) \/ StatusBecomes(t, {"FAILED"})
    BY <1>2, <1>3, <1>10, StoreEffect DEF Status
  <2>2. StatusBecomes(t, {"COMPLETED", "FAILED"})
    BY <2>1 DEF StatusBecomes
  <2>3. StatusOf(t)' \in {"COMPLETED", "FAILED"}
    BY <2>2 DEF StatusBecomes
  <2> QED
    BY <1>1, <1>5, <1>6, <1>10, <2>2, <2>3, EndWithoutCfp
<1>11. CASE FailUnlessFinal(t) /\ ForgetListener(t) /\ End(t, v) /\ UNCHANGED ratings
  <2>1. StatusBecomes(t, Final)
    BY <1>2, <1>3, <1>11, FailUnlessFinalEffect
  <2>2. StatusOf(t)' \notin {"EVALUATING_BIDS", "AWARDED"}
    BY <2>1 DEF StatusBecomes, Final
  <2> QED
    BY <1>1, <1>5, <1>6, <1>11, <2>1, <2>2, EndWithoutCfp
<1> QED
  BY <1>7, <1>8, <1>9, <1>10, <1>11 DEF ResultArrives

-----------------------------------------------------------------------------
(* Calls from other agents.                                                *)

\* A step that makes one more object of t, and may start the chain of it.
LEMMA NewObjectKeeps ==
  ASSUME IInv, NEW t \in Tasks, NEW n \in Versions, n = made[t] + 1,
         StoreTypeOK', made' = [made EXCEPT ![t] = n],
         \A u \in Tasks \ {t} : Submitted(u)' = Submitted(u) /\ StatusOf(u)' = StatusOf(u),
         \/ StatusOf(t)' \notin {"EVALUATING_BIDS", "AWARDED"}
         \/ Submitted(t) /\ StatusOf(t)' = StatusOf(t),
         ProcessTaskReadiness(t, n) \/ UNCHANGED <<pc, published>>,
         UNCHANGED <<activeCfps, collReg, lisReg, ref, held, redis, stopVars,
                     bidders, awards, replies, bidQ, resQ, ratings>>
  PROVE  IInv'
<1>1. TypeOK /\ MadeFirst /\ UNCHANGED stopVars /\ UNCHANGED <<activeCfps, collReg>>
      /\ UNCHANGED <<ref, held>>
  BY DEF IInv
<1>2. made \in [Tasks -> 0..(MaxUpdates + 1)] /\ MaxUpdates \in Nat
  BY <1>1, VersionsFact DEF TypeOK, StoreTypeOK
<1>3. pc[t][n] = "idle" /\ ref[t][n] = 1
  BY <1>1, <1>2, VersionsFact DEF MadeFirst
<1>4. \/ UNCHANGED <<pc, published>>
      \/ Goto(t, n, "publish") /\ published' = published \union {<<t, n>>}
  BY DEF ProcessTaskReadiness, InitiateCfp
<1>5. ChainMoves(t, n, {"idle", "publish"}) /\ NetTypeOK'
  <2>1. CASE UNCHANGED <<pc, published>>
    BY <1>1, <1>3, <2>1 DEF ChainMoves, TypeOK, LocalsTypeOK, NetTypeOK
  <2>2. CASE Goto(t, n, "publish") /\ published' = published \union {<<t, n>>}
    <3>1. ChainMoves(t, n, {"publish"})
      BY <1>1, <2>2, OnlyGoto DEF Pcs
    <3>2. <<t, n>> \in Chains
      BY DEF Chains
    <3> QED
      BY <1>1, <2>2, <3>1, <3>2 DEF ChainMoves, TypeOK, NetTypeOK
  <2> QED
    BY <1>4, <2>1, <2>2
<1>6. ChainMoves(t, n, Pcs)
  BY <1>5 DEF ChainMoves, LocalsTypeOK
<1>7. TypeOK'
  <2>1. RegistryTypeOK' /\ StopTypeOK'
    BY <1>1 DEF TypeOK, RegistryTypeOK, StopTypeOK, stopVars
  <2> QED
    BY <1>5, <2>1 DEF TypeOK, ChainMoves
<1>8. MadeFirst'
  <2> SUFFICES ASSUME NEW u \in Tasks, NEW x \in Versions
               PROVE  IF pc'[u][x] = "idle" THEN ref'[u][x] = 1
                      ELSE x <= made'[u] /\ ref'[u][x] <= made'[u]
    BY DEF MadeFirst
  <2>1. CASE u = t /\ x = n
    BY <1>1, <1>2, <1>3, <2>1, VersionsFact
  <2>2. CASE ~(u = t /\ x = n)
    <3>1. pc'[u][x] = pc[u][x] /\ ref'[u][x] = ref[u][x]
      BY <1>5, <2>2 DEF ChainMoves
    <3>2. made[u] <= made'[u] /\ made[u] \in Nat /\ made'[u] \in Nat
      BY <1>2
    <3>3. x \in Nat /\ ref[u][x] \in Nat
      BY <1>1, VersionsFact DEF TypeOK, LocalsTypeOK
    <3> QED
      BY <1>1, <3>1, <3>2, <3>3 DEF MadeFirst
  <2> QED
    BY <2>1, <2>2
<1>9. HoldsWinner'
  BY <1>5, <1>6, HoldsWinnerKept DEF ChainMoves
<1>10. ListenersPastBidding' /\ StopCounted'
  BY <1>1, <1>3, <1>6, ListenersKept DEF PastBidding, ListenerPcs
<1>11. CfpHasCollector'
  BY <1>1, <1>3, <1>6, CollectorsLeft DEF CollectorPcs
<1>12. InHands'
  BY <1>1, <1>3, <1>6, InHandsKept DEF Evaluating, Awarding
<1> QED
  BY <1>7, <1>8, <1>9, <1>10, <1>11, <1>12 DEF IInv

LEMMA SubmitTaskKeeps ==
  ASSUME IInv, NEW t \in Tasks, NEW d \in BOOLEAN, SubmitTask(t, d)
  PROVE  IInv'
<1> DEFINE rec == [status |-> IF d THEN "PENDING" ELSE "READY", assigned_to |-> NoWorker]
<1>1. /\ made[t] = 0 /\ obj' = [obj EXCEPT ![t][1] = rec]
      /\ made' = [made EXCEPT ![t] = 1] /\ cur' = [cur EXCEPT ![t] = 1]
  BY DEF SubmitTask, Create
<1>2. StoreTypeOK /\ MaxUpdates \in Nat /\ 1 \in Versions
  BY VersionsFact DEF IInv, TypeOK
<1>3. rec \in TaskDefinition /\ rec.status \in {"PENDING", "READY"}
  BY DEF TaskDefinition, Status
<1> HIDE DEF rec
<1>4. /\ obj' \in [Tasks -> [Versions -> TaskDefinition]] /\ obj'[t][1] = rec
      /\ \A u \in Tasks \ {t} : obj'[u] = obj[u]
  BY <1>1, <1>2, <1>3 DEF StoreTypeOK
<1>5. StoreTypeOK'
  BY <1>1, <1>2, <1>4 DEF StoreTypeOK
<1>6. StatusOf(t)' \notin {"EVALUATING_BIDS", "AWARDED"}
  BY <1>1, <1>2, <1>3, <1>4 DEF StatusOf, StoreTypeOK
<1>7. \A u \in Tasks \ {t} : Submitted(u)' = Submitted(u) /\ StatusOf(u)' = StatusOf(u)
  BY <1>1, <1>2, <1>4 DEF StatusOf, Submitted, StoreTypeOK
<1>8. 1 = made[t] + 1
  BY <1>1
<1>9. /\ ProcessTaskReadiness(t, 1) \/ UNCHANGED <<pc, published>>
      /\ UNCHANGED <<activeCfps, collReg, lisReg, ref, held, redis, stopVars,
                     bidders, awards, replies, bidQ, resQ, ratings>>
  BY DEF SubmitTask
<1> QED
  BY <1>1, <1>2, <1>5, <1>6, <1>7, <1>8, <1>9, NewObjectKeeps

\* What update_task stores: a status of the request's choice or the old one.
LEMMA ReplaceEffect ==
  ASSUME TypeOK, NEW t \in Tasks, NEW s \in UpdateStatuses,
         NEW w \in UpdateAssignees, Replace(t, s, w)
  PROVE  /\ made[t] + 1 \in Versions /\ made' = [made EXCEPT ![t] = made[t] + 1]
         /\ StoreTypeOK' /\ Submitted(t)
         /\ StatusOf(t)' = Updated(t, s, w).status
         /\ \/ StatusOf(t)' \notin {"EVALUATING_BIDS", "AWARDED"}
            \/ StatusOf(t)' = StatusOf(t)
         /\ \A u \in Tasks \ {t} :
              Submitted(u)' = Submitted(u) /\ StatusOf(u)' = StatusOf(u)
<1> DEFINE n == made[t] + 1
           new == Updated(t, s, w)
<1>1. /\ Submitted(t) /\ made[t] <= MaxUpdates
      /\ obj' = [obj EXCEPT ![t][n] = new]
      /\ made' = [made EXCEPT ![t] = n] /\ cur' = [cur EXCEPT ![t] = n]
  BY DEF Replace
<1>2. /\ StoreTypeOK /\ MaxUpdates \in Nat /\ made[t] \in Nat
      /\ made[t] \in 0..(MaxUpdates + 1) /\ cur[t] \in Versions
  BY <1>1, VersionsFact DEF TypeOK, StoreTypeOK, Submitted
<1>3. n \in Versions /\ n # 0
  BY <1>1, <1>2, VersionsFact
<1>4. obj[t][cur[t]] \in TaskDefinition
  BY <1>2 DEF StoreTypeOK
<1>5. StatusOf(t) \in Status /\ obj[t][cur[t]].assigned_to \in Workers \union {NoWorker}
  BY <1>4 DEF TaskDefinition, StatusOf
<1>6. /\ s = Keep \/ s \in Status \ {"EVALUATING_BIDS", "AWARDED"}
      /\ w = Keep \/ w \in Workers
  BY ContractNetAssumption DEF Status
<1>7. /\ new.status = IF s = Keep THEN StatusOf(t) ELSE s
      /\ new \in TaskDefinition
  BY <1>5, <1>6 DEF Updated, TaskDefinition
<1> HIDE DEF n, new
<1>8. /\ obj' \in [Tasks -> [Versions -> TaskDefinition]] /\ obj'[t][n] = new
      /\ \A u \in Tasks \ {t} : obj'[u] = obj[u]
  BY <1>1, <1>2, <1>3, <1>7 DEF StoreTypeOK
<1>9. StoreTypeOK'
  <2>1. n \in 0..(MaxUpdates + 1)
    BY <1>2, <1>3, VersionsFact
  <2> QED
    BY <1>1, <1>2, <1>3, <1>8, <2>1 DEF StoreTypeOK
<1>10. StatusOf(t)' = new.status
  BY <1>1, <1>2, <1>8 DEF StatusOf, StoreTypeOK
<1>11. \A u \in Tasks \ {t} : Submitted(u)' = Submitted(u) /\ StatusOf(u)' = StatusOf(u)
  BY <1>1, <1>2, <1>8 DEF StatusOf, Submitted, StoreTypeOK
<1> QED
  BY <1>1, <1>3, <1>6, <1>7, <1>9, <1>10, <1>11 DEF n, new

\* update_task cancelling an active CFP: the collector's chain, if it is still
\* at work, ends with its entries.
LEMMA CancelKeeps ==
  ASSUME IInv, NEW t \in Tasks, StoreTypeOK', Submitted(t),
         made' = [made EXCEPT ![t] = made[t] + 1],
         StatusOf(t)' = "CANCELLED",
         \A u \in Tasks \ {t} : Submitted(u)' = Submitted(u) /\ StatusOf(u)' = StatusOf(u),
         CancelCfpProcess(t),
         UNCHANGED <<lisReg, redis, stopVars, workerVars, bidQ, resQ, ratings>>
  PROVE  IInv'
<1>1. TypeOK /\ MadeFirst /\ UNCHANGED stopVars /\ ForgetCfp(t)
  BY DEF IInv, CancelCfpProcess
<1>2. PICK v \in Versions : /\ ChainMoves(t, v, Pcs)
                            /\ \/ UNCHANGED locals
                               \/ /\ pc[t][v] \in CollectorPcs
                                  /\ pc'[t][v] = "done" /\ ref'[t][v] = 1
  <2>1. CASE UNCHANGED locals
    <3>1. ChainMoves(t, 1, Pcs)
      BY <1>1, <2>1, VersionsFact DEF ChainMoves, locals, TypeOK, LocalsTypeOK
    <3> QED
      BY <2>1, <3>1, VersionsFact
  <2>2. CASE /\ collReg[t] # 0 /\ pc[t][collReg[t]] \in CollectorPcs
             /\ End(t, collReg[t])
    <3>1. collReg[t] \in Versions
      BY <1>1, <2>2, VersionsFact DEF TypeOK, RegistryTypeOK
    <3>2. ChainMoves(t, collReg[t], {"done"}) /\ ref'[t][collReg[t]] = 1
      BY <1>1, <2>2, <3>1, EndEffect
    <3>3. ChainMoves(t, collReg[t], Pcs) /\ pc'[t][collReg[t]] = "done"
      BY <3>2 DEF ChainMoves, Pcs
    <3> QED
      BY <2>2, <3>1, <3>2, <3>3
  <2> QED
    BY <2>1, <2>2 DEF CancelCfpProcess
<1>3. /\ activeCfps' \in SUBSET Tasks
      /\ collReg' \in [Tasks -> 0..(MaxUpdates + 1)]
      /\ CfpHasCollector'
  BY <1>1, <1>2, CollectorsForgotten
<1>4. TypeOK'
  <2>1. RegistryTypeOK' /\ StopTypeOK' /\ NetTypeOK'
    BY <1>1, <1>3, NetLeft DEF TypeOK, RegistryTypeOK, StopTypeOK, stopVars
  <2> QED
    BY <1>2, <2>1 DEF TypeOK, ChainMoves
<1>5. MadeFirst'
  <2> SUFFICES ASSUME NEW u \in Tasks, NEW x \in Versions
               PROVE  IF pc'[u][x] = "idle" THEN ref'[u][x] = 1
                      ELSE x <= made'[u] /\ ref'[u][x] <= made'[u]
    BY DEF MadeFirst
  <2>1. made[u] <= made'[u] /\ made[u] \in Nat /\ made'[u] \in Nat
    BY <1>1, VersionsFact DEF TypeOK, StoreTypeOK
  <2>2. x \in Nat /\ 1 <= x /\ ref[u][x] \in Nat
    BY <1>1, VersionsFact DEF TypeOK, LocalsTypeOK
  <2>3. CASE pc'[u][x] = pc[u][x] /\ ref'[u][x] = ref[u][x]
    BY <1>1, <2>1, <2>2, <2>3 DEF MadeFirst
  <2>4. CASE pc[u][x] \in CollectorPcs /\ pc'[u][x] = "done" /\ ref'[u][x] = 1
    BY <1>1, <2>1, <2>2, <2>4 DEF MadeFirst, CollectorPcs
  <2> QED
    BY <1>2, <2>3, <2>4 DEF ChainMoves, locals
<1>6. HoldsWinner'
  BY <1>1, <1>2, HoldsWinnerKept DEF IInv, HoldsWinner, locals
<1>7. ListenersPastBidding' /\ StopCounted'
  BY <1>1, <1>2, ListenersKept DEF CollectorPcs, PastBidding, ListenerPcs, locals
<1>8. InHands'
  BY <1>1, <1>2, InHandsKept
<1> QED
  BY <1>3, <1>4, <1>5, <1>6, <1>7, <1>8 DEF IInv

LEMMA UpdateTaskKeeps ==
  ASSUME IInv, NEW t \in Tasks, NEW s \in UpdateStatuses,
         NEW w \in UpdateAssignees, UpdateTask(t, s, w)
  PROVE  IInv'
<1>1. /\ Replace(t, s, w)
      /\ UNCHANGED <<lisReg, redis, stopVars, bidders, awards, replies, bidQ, resQ,
                     ratings>>
  BY DEF UpdateTask
<1>2. TypeOK
  BY DEF IInv
<1>3. /\ made[t] + 1 \in Versions /\ made' = [made EXCEPT ![t] = made[t] + 1]
      /\ StoreTypeOK' /\ Submitted(t)
      /\ StatusOf(t)' = Updated(t, s, w).status
      /\ \/ StatusOf(t)' \notin {"EVALUATING_BIDS", "AWARDED"}
         \/ StatusOf(t)' = StatusOf(t)
      /\ \A u \in Tasks \ {t} :
           Submitted(u)' = Submitted(u) /\ StatusOf(u)' = StatusOf(u)
  BY <1>1, <1>2, ReplaceEffect
<1>4. CASE /\ ProcessTaskReadiness(t, made[t] + 1) \/ UNCHANGED <<pc, published>>
           /\ UNCHANGED <<activeCfps, collReg, ref, held>>
  BY <1>1, <1>3, <1>4, NewObjectKeeps
<1>5. CASE /\ Updated(t, s, w).status = "CANCELLED" /\ CancelCfpProcess(t)
           /\ UNCHANGED published
  BY <1>1, <1>3, <1>5, CancelKeeps DEF workerVars
<1> QED
  BY <1>4, <1>5 DEF UpdateTask, locals

-----------------------------------------------------------------------------
(* start and stop, workers, and the result.                                *)

LEMMA StopListenersKeeps ==
  ASSUME IInv, NEW chains \in SUBSET Chains,
         \A c \in chains : pc[c[1]][c[2]] \in PastBidding,
         NEW reg \in [Tasks -> 0..(MaxUpdates + 1)],
         \A u \in Tasks : reg[u] \in {0, lisReg[u]},
         StopListeners(chains, reg),
         activeCfps' \in SUBSET Tasks,
         collReg' \in [Tasks -> 0..(MaxUpdates + 1)],
         \/ activeCfps' = {}
         \/ UNCHANGED <<activeCfps, collReg>> /\ stopping.phase # "collectors",
         stops' \in 0..MaxStops, stops' > 0,
         UNCHANGED <<workerVars, bidQ, ratings>>
  PROVE  IInv'
<1>1. TypeOK /\ MadeFirst /\ MaxUpdates \in Nat
  BY VersionsFact DEF IInv
<1>2. InHands'
  BY DEF InHands
<1>3. StopCounted'
  BY DEF StopCounted
<1>4. CASE /\ stopping' = [phase |-> "down", todo |-> {}, at |-> NoChain]
           /\ redis' = FALSE /\ lisReg' = reg
           /\ UNCHANGED <<storeVars, locals, resQ>>
  <2>1. StoreTypeOK' /\ LocalsTypeOK' /\ NetTypeOK'
    BY <1>1, <1>4, NetLeft DEF TypeOK, StoreTypeOK, storeVars, LocalsTypeOK, locals
  <2>2. RegistryTypeOK'
    BY <1>1, <1>4 DEF TypeOK, RegistryTypeOK
  <2>3. StopTypeOK'
    BY <1>1, <1>4 DEF TypeOK, StopTypeOK, StopProgress, StopPhases
  <2>4. MadeFirst' /\ HoldsWinner'
    BY <1>1, <1>4 DEF IInv, MadeFirst, HoldsWinner, locals, storeVars
  <2>5. ListenersPastBidding'
    BY <1>1, <1>4 DEF IInv, ListenersPastBidding, locals
  <2>6. CfpHasCollector'
    BY <1>1, <1>4 DEF IInv, CfpHasCollector, locals
  <2> QED
    BY <1>2, <1>3, <2>1, <2>2, <2>3, <2>4, <2>5, <2>6 DEF IInv, TypeOK
<1>5. ASSUME NEW c \in chains, NEW t \in Tasks, NEW v \in Versions, c = <<t, v>>,
             stopping' = [phase |-> "listeners", todo |-> chains \ {c}, at |-> c],
             End(t, v),
             IF pc[t][v] \in {"blpop", "rating"}
               THEN FailUnlessFinal(t) /\ lisReg' = [reg EXCEPT ![t] = 0]
               ELSE UNCHANGED storeVars /\ lisReg' = reg,
             \/ UNCHANGED resQ
             \/ pc[t][v] = "blpop" /\ resQ[t] # <<>> /\ TakeResult(t),
             UNCHANGED redis
      PROVE  IInv'
  <2>1. pc[t][v] \in PastBidding /\ pc[t][v] # "idle" /\ pc[t][v] \notin CollectorPcs
    <3>1. pc[c[1]][c[2]] \in PastBidding
      BY <1>5
    <3> QED
      BY <1>5, <3>1 DEF PastBidding, ListenerPcs, CollectorPcs
  <2>2. Submitted(t)
    BY <1>1, <2>1, ChainRuns
  <2>3. StoreTypeOK' /\ made' = made
    <3>1. CASE FailUnlessFinal(t)
      BY <1>1, <2>2, <3>1, FailUnlessFinalEffect DEF StatusBecomes
    <3>2. CASE UNCHANGED storeVars
      BY <1>1, <2>2, <3>2, StoreLeft DEF StatusBecomes
    <3> QED
      BY <1>5, <3>1, <3>2
  <2>4. /\ lisReg' \in [Tasks -> 0..(MaxUpdates + 1)]
        /\ \A u \in Tasks : lisReg'[u] \in {0, lisReg[u]}
    <3>1. lisReg' = reg \/ lisReg' = [reg EXCEPT ![t] = 0]
      BY <1>5
    <3> QED
      BY <1>1, <3>1
  <2>5. ChainMoves(t, v, {"done"}) /\ ref'[t][v] = 1
    BY <1>1, <1>5, EndEffect
  <2>6. ChainMoves(t, v, Pcs) /\ pc'[t][v] = "done"
    BY <2>5 DEF ChainMoves, Pcs
  <2>7. resQ' \in [Tasks -> Seq(Result)]
    <3>1. resQ \in [Tasks -> Seq(Result)]
      BY <1>1 DEF TypeOK, NetTypeOK
    <3>2. CASE resQ[t] # <<>> /\ TakeResult(t)
      <4>1. Tail(resQ[t]) \in Seq(Result)
        BY <3>1, <3>2
      <4> QED
        BY <3>1, <3>2, <4>1 DEF TakeResult
    <3> QED
      BY <1>5, <3>1, <3>2
  <2>8. RegistryTypeOK' /\ NetTypeOK'
    BY <1>1, <2>4, <2>7 DEF TypeOK, RegistryTypeOK, NetTypeOK, workerVars
  <2>9. StopTypeOK'
    <3>1. c \in Chains /\ chains \ {c} \in SUBSET Chains
      OBVIOUS
    <3> QED
      BY <1>1, <1>5, <3>1 DEF TypeOK, StopTypeOK, StopProgress, StopPhases
  <2>10. TypeOK'
    BY <2>3, <2>5, <2>8, <2>9 DEF TypeOK, ChainMoves
  <2>11. MadeFirst'
    <3>1. ref'[t][v] <= made[t]
      BY <1>1, <2>1, <2>5, ChainRuns
    <3> QED
      BY <2>1, <2>3, <2>6, <3>1, MadeFirstKept
  <2>12. HoldsWinner'
    BY <2>6, HoldsWinnerKept
  <2>13. ListenersPastBidding'
    <3>1. \A u \in Tasks, x \in Versions :
            pc[u][x] \in PastBidding => pc'[u][x] \in PastBidding
      BY <2>6 DEF ChainMoves, PastBidding
    <3>2. ASSUME NEW u \in Tasks, lisReg'[u] # 0
          PROVE  pc'[u][lisReg'[u]] \in PastBidding
      <4>1. lisReg'[u] = lisReg[u] /\ lisReg[u] \in Versions
        BY <1>1, <2>4, <3>2, VersionsFact DEF TypeOK, RegistryTypeOK
      <4>2. pc[u][lisReg[u]] \in PastBidding
        BY <3>2, <4>1 DEF IInv, ListenersPastBidding
      <4> QED
        BY <3>1, <4>1, <4>2
    <3>3. ASSUME NEW d \in chains \ {c}
          PROVE  pc'[d[1]][d[2]] \in PastBidding
      <4>1. d[1] \in Tasks /\ d[2] \in Versions /\ pc[d[1]][d[2]] \in PastBidding
        BY DEF Chains
      <4> QED
        BY <3>1, <4>1
    <3>4. stopping'.todo = chains \ {c}
      BY <1>5
    <3> QED
      BY <3>2, <3>3, <3>4 DEF ListenersPastBidding
  <2>14. CfpHasCollector'
    <3>1. CASE activeCfps' = {}
      BY <3>1 DEF CfpHasCollector
    <3>2. CASE UNCHANGED <<activeCfps, collReg>> /\ stopping.phase # "collectors"
      <4>1. ASSUME NEW u \in activeCfps
            PROVE  collReg[u] # 0 /\ pc'[u][collReg[u]] \in CollectorPcs
        <5>1. u \in Tasks /\ collReg[u] # 0 /\ collReg[u] \in Versions
              /\ pc[u][collReg[u]] \in CollectorPcs
          BY <1>1, <3>2, VersionsFact DEF IInv, CfpHasCollector, TypeOK, RegistryTypeOK
        <5> QED
          BY <2>1, <2>6, <5>1 DEF ChainMoves
      <4> QED
        BY <3>2, <4>1 DEF CfpHasCollector
    <3> QED
      BY <3>1, <3>2
  <2> QED
    BY <1>2, <1>3, <2>10, <2>11, <2>12, <2>13, <2>14 DEF IInv
<1> QED
  <2>1. \A c \in chains : c[1] \in Tasks /\ c[2] \in Versions /\ c = <<c[1], c[2]>>
    BY DEF Chains
  <2> QED
    BY <1>4, <1>5, <2>1 DEF StopListeners

LEMMA RegisteredFact ==
  ASSUME NEW reg \in [Tasks -> 0..(MaxUpdates + 1)]
  PROVE  /\ Registered(reg) \in SUBSET Chains
         /\ \A c \in Registered(reg) : c[1] \in Tasks /\ reg[c[1]] # 0 /\ c[2] = reg[c[1]]
BY VersionsFact DEF Registered, Chains

LEMMA StopCollectorsKeeps ==
  ASSUME IInv, NEW chains \in SUBSET Chains, StopCollectors(chains),
         collReg' \in [Tasks -> 0..(MaxUpdates + 1)],
         stops' \in 0..MaxStops, stops' > 0,
         UNCHANGED <<workerVars, bidQ, ratings>>
  PROVE  IInv'
<1>1. TypeOK /\ MadeFirst
  BY DEF IInv
<1>2. CASE /\ activeCfps' = {} /\ StopListeners(Registered(lisReg), lisReg)
  <2>1. lisReg \in [Tasks -> 0..(MaxUpdates + 1)]
    BY <1>1 DEF TypeOK, RegistryTypeOK
  <2>2. /\ Registered(lisReg) \in SUBSET Chains
        /\ \A c \in Registered(lisReg) : pc[c[1]][c[2]] \in PastBidding
    BY <2>1, RegisteredFact DEF IInv, ListenersPastBidding
  <2>3. \A u \in Tasks : lisReg[u] \in {0, lisReg[u]}
    OBVIOUS
  <2> QED
    BY <1>2, <2>1, <2>2, <2>3, StopListenersKeeps
<1>3. ASSUME NEW c \in chains, NEW t \in Tasks, NEW v \in Versions, c = <<t, v>>,
             stopping' = [phase |-> "collectors", todo |-> chains \ {c}, at |-> c],
             IF pc[t][v] \in CollectorPcs THEN End(t, v) ELSE UNCHANGED locals,
             UNCHANGED <<storeVars, activeCfps, lisReg, redis, resQ>>
      PROVE  IInv'
  <2>1. /\ ChainMoves(t, v, Pcs)
        /\ \/ UNCHANGED locals
           \/ pc[t][v] \in CollectorPcs /\ pc'[t][v] = "done" /\ ref'[t][v] = 1
    <3>1. CASE End(t, v) /\ pc[t][v] \in CollectorPcs
      <4>1. ChainMoves(t, v, {"done"}) /\ ref'[t][v] = 1
        BY <1>1, <3>1, EndEffect
      <4> QED
        BY <3>1, <4>1 DEF ChainMoves, Pcs
    <3>2. CASE UNCHANGED locals
      BY <1>1, <3>2 DEF ChainMoves, locals, TypeOK, LocalsTypeOK
    <3> QED
      BY <1>3, <3>1, <3>2
  <2>2. StoreTypeOK' /\ NetTypeOK' /\ RegistryTypeOK' /\ made' = made
    BY <1>1, <1>3, NetLeft DEF TypeOK, StoreTypeOK, storeVars, RegistryTypeOK
  <2>3. StopTypeOK'
    <3>1. c \in Chains /\ chains \ {c} \in SUBSET Chains
      OBVIOUS
    <3> QED
      BY <1>1, <1>3, <3>1 DEF TypeOK, StopTypeOK, StopProgress, StopPhases
  <2>4. TypeOK'
    BY <2>1, <2>2, <2>3 DEF TypeOK, ChainMoves
  <2>5. MadeFirst' /\ HoldsWinner'
    <3>1. CASE UNCHANGED locals
      BY <2>2, <3>1 DEF IInv, MadeFirst, HoldsWinner, locals
    <3>2. CASE pc[t][v] \in CollectorPcs /\ pc'[t][v] = "done" /\ ref'[t][v] = 1
      <4>1. pc[t][v] # "idle"
        BY <3>2 DEF CollectorPcs
      <4>2. ref'[t][v] <= made[t]
        BY <1>1, <3>2, <4>1, ChainRuns
      <4> QED
        BY <2>1, <2>2, <3>2, <4>1, <4>2, MadeFirstKept, HoldsWinnerKept
    <3> QED
      BY <2>1, <3>1, <3>2
  <2>6. ListenersPastBidding'
    <3>1. \A u \in Tasks, x \in Versions :
            pc[u][x] \in PastBidding => pc'[u][x] \in PastBidding
      BY <2>1 DEF ChainMoves, PastBidding, locals
    <3>2. \A u \in Tasks : lisReg[u] # 0 => lisReg[u] \in Versions
      BY <1>1, VersionsFact DEF TypeOK, RegistryTypeOK
    <3>3. lisReg' = lisReg /\ stopping'.phase = "collectors"
      BY <1>3
    <3> QED
      BY <3>1, <3>2, <3>3 DEF IInv, ListenersPastBidding
  <2>7. StopCounted' /\ InHands' /\ CfpHasCollector'
    BY <1>3 DEF StopCounted, InHands, CfpHasCollector
  <2> QED
    BY <2>4, <2>5, <2>6, <2>7 DEF IInv
<1> QED
  <2>1. \A c \in chains : c[1] \in Tasks /\ c[2] \in Versions /\ c = <<c[1], c[2]>>
    BY DEF Chains
  <2> QED
    BY <1>2, <1>3, <2>1 DEF StopCollectors

LEMMA EntryGone ==
  ASSUME NEW reg \in [Tasks -> 0..(MaxUpdates + 1)], NEW x
  PROVE  /\ [reg EXCEPT ![x] = 0] \in [Tasks -> 0..(MaxUpdates + 1)]
         /\ \A u \in Tasks : [reg EXCEPT ![x] = 0][u] \in {0, reg[u]}
<1>1. 0 \in 0..(MaxUpdates + 1)
  BY VersionsFact
<1>2. CASE x \in Tasks
  BY <1>1, <1>2
<1>3. CASE x \notin Tasks
  BY <1>1, <1>3
<1> QED
  BY <1>2, <1>3

LEMMA StopStepsKeep ==
  ASSUME IInv, Stop \/ CollectorStopped \/ ListenerStopped
  PROVE  IInv'
<1>1. /\ TypeOK /\ StopCounted /\ stops \in 0..MaxStops /\ MaxStops \in Nat
      /\ stopping \in StopProgress
      /\ collReg \in [Tasks -> 0..(MaxUpdates + 1)]
      /\ lisReg \in [Tasks -> 0..(MaxUpdates + 1)]
  BY ContractNetAssumption DEF IInv, TypeOK, StopTypeOK, RegistryTypeOK
<1>2. CASE Stop
  BY <1>1, <1>2, RegisteredFact, StopCollectorsKeeps DEF Stop
<1>3. stopping.todo \in SUBSET Chains
  BY <1>1 DEF StopProgress
<1>4. CASE CollectorStopped
  <2>1. /\ stopping.phase = "collectors" /\ StopCollectors(stopping.todo)
        /\ collReg' = [collReg EXCEPT ![stopping.at[1]] = 0]
        /\ UNCHANGED <<stops, workerVars, bidQ, ratings>>
    BY <1>4 DEF CollectorStopped
  <2>2. collReg' \in [Tasks -> 0..(MaxUpdates + 1)]
    BY <1>1, <2>1, EntryGone
  <2>3. stops' \in 0..MaxStops /\ stops' > 0
    BY <1>1, <2>1 DEF StopCounted
  <2> QED
    BY <1>3, <2>1, <2>2, <2>3, StopCollectorsKeeps
<1>5. CASE ListenerStopped
  <2> DEFINE reg == [lisReg EXCEPT ![stopping.at[1]] = 0]
  <2>1. /\ stopping.phase = "listeners" /\ StopListeners(stopping.todo, reg)
        /\ UNCHANGED <<activeCfps, collReg, stops, workerVars, bidQ, ratings>>
    BY <1>5 DEF ListenerStopped
  <2>2. /\ reg \in [Tasks -> 0..(MaxUpdates + 1)]
        /\ \A u \in Tasks : reg[u] \in {0, lisReg[u]}
    BY <1>1, EntryGone
  <2>3. stops' \in 0..MaxStops /\ stops' > 0
    BY <1>1, <2>1 DEF StopCounted
  <2>4. /\ \A c \in stopping.todo : pc[c[1]][c[2]] \in PastBidding
        /\ activeCfps' \in SUBSET Tasks /\ UNCHANGED <<activeCfps, collReg>>
        /\ collReg' \in [Tasks -> 0..(MaxUpdates + 1)]
    BY <1>1, <2>1 DEF IInv, ListenersPastBidding, TypeOK, RegistryTypeOK
  <2>5. UNCHANGED <<workerVars, bidQ, ratings>> /\ stopping.phase # "collectors"
    BY <2>1
  <2> HIDE DEF reg
  <2> QED
    BY <1>3, <2>1, <2>2, <2>3, <2>4, <2>5, StopListenersKeeps
<1> QED
  BY <1>2, <1>4, <1>5

\* Nothing that the strengthening speaks of changes.
LEMMA OutsideKeeps ==
  ASSUME IInv, NetTypeOK', StopTypeOK', stops' = stops,
         UNCHANGED <<storeVars, activeCfps, collReg, lisReg, locals>>,
         \/ UNCHANGED stopping
         \/ stopping.phase = "down" /\ stopping'.phase = "up"
  PROVE  IInv'
<1>1. TypeOK'
  BY DEF IInv, TypeOK, StoreTypeOK, storeVars, RegistryTypeOK, LocalsTypeOK, locals
<1>2. MadeFirst' /\ HoldsWinner'
  BY DEF IInv, MadeFirst, HoldsWinner, storeVars, locals
<1>3. ListenersPastBidding' /\ StopCounted' /\ CfpHasCollector'
  BY DEF IInv, ListenersPastBidding, StopCounted, CfpHasCollector, locals
<1>4. InHands'
  BY DEF IInv, InHands, Submitted, StatusOf, storeVars, locals
<1> QED
  BY <1>1, <1>2, <1>3, <1>4 DEF IInv

LEMMA StartKeeps ==
  ASSUME IInv, Start
  PROVE  IInv'
<1>1. NetTypeOK'
  BY DEF IInv, Start, TypeOK, NetTypeOK, workerVars
<1>2. StopTypeOK' /\ stopping.phase = "down" /\ stopping'.phase = "up"
  BY DEF IInv, Start, TypeOK, StopTypeOK, StopProgress, StopPhases
<1> QED
  BY <1>1, <1>2, OutsideKeeps DEF Start, locals

LEMMA WorkersKeep ==
  ASSUME IInv, NEW w \in Workers, NEW t \in Tasks, NEW v \in Versions,
         \/ \E d \in BidDetails : WorkerBids(w, t, v, d)
         \/ \E k \in ReplyKinds : WorkerReplies(w, t, v, k)
  PROVE  IInv'
<1>1. NetTypeOK
  BY DEF IInv, TypeOK
<1>2. ASSUME NEW d \in BidDetails, WorkerBids(w, t, v, d)
      PROVE  NetTypeOK'
  <2>1. [bidder |-> w, details |-> d] \in Bid /\ <<w, t, v>> \in Messages
    BY DEF Bid, Messages
  <2>2. Append(bidQ[t], [bidder |-> w, details |-> d]) \in Seq(Bid)
    BY <1>1, <2>1 DEF NetTypeOK
  <2> QED
    BY <1>1, <1>2, <2>1, <2>2 DEF NetTypeOK, WorkerBids
<1>3. ASSUME NEW k \in ReplyKinds, WorkerReplies(w, t, v, k)
      PROVE  NetTypeOK'
  <2>1. [worker |-> w, kind |-> k] \in Result
    BY DEF Result
  <2>2. Append(resQ[t], [worker |-> w, kind |-> k]) \in Seq(Result)
    BY <1>1, <2>1 DEF NetTypeOK
  <2> QED
    BY <1>1, <1>3, <2>1, <2>2 DEF NetTypeOK, WorkerReplies
<1>4. UNCHANGED <<storeVars, agentVars, stopVars>>
  BY DEF WorkerBids, WorkerReplies
<1>5. StopTypeOK' /\ stops' = stops /\ UNCHANGED stopping
      /\ UNCHANGED <<storeVars, activeCfps, collReg, lisReg, locals>>
  BY <1>4 DEF IInv, TypeOK, StopTypeOK, agentVars, stopVars
<1> QED
  BY <1>2, <1>3, <1>5, OutsideKeeps

LEMMA InitIInv == Init => IInv
<1> SUFFICES ASSUME Init PROVE IInv
  OBVIOUS
<1>1. StoreTypeOK
  BY VersionsFact, StoreAssumption
     DEF Init, StoreInit, StoreTypeOK, TaskDefinition, Status
<1>2. RegistryTypeOK /\ LocalsTypeOK
  BY VersionsFact DEF Init, RegistryTypeOK, LocalsTypeOK, Pcs
<1>3. StopTypeOK /\ NetTypeOK
  <2>1. stopping \in StopProgress
    <3>1. stopping = [phase |-> "down", todo |-> {}, at |-> NoChain]
      BY DEF Init
    <3>2. "down" \in StopPhases /\ {} \in SUBSET Chains /\ NoChain \in Chains \union {NoChain}
      BY DEF StopPhases
    <3> QED
      BY <3>1, <3>2 DEF StopProgress
  <2>2. StopTypeOK
    <3>1. stops \in 0..MaxStops
      BY ContractNetAssumption DEF Init
    <3>2. redis \in BOOLEAN
      BY DEF Init
    <3> QED
      BY <2>1, <3>1, <3>2 DEF StopTypeOK
  <2>3. NetTypeOK
    <3>1. /\ published = {} /\ bidders = {} /\ awards = {} /\ replies = {} /\ ratings = {}
          /\ bidQ = [t \in Tasks |-> <<>>] /\ resQ = [t \in Tasks |-> <<>>]
      BY DEF Init
    <3>2. <<>> \in Seq(Bid) /\ <<>> \in Seq(Result)
      OBVIOUS
    <3> QED
      BY <3>1, <3>2 DEF NetTypeOK
  <2> QED
    BY <2>2, <2>3
<1>4. MadeFirst /\ HoldsWinner /\ ListenersPastBidding /\ StopCounted
  BY DEF Init, MadeFirst, HoldsWinner, ListenersPastBidding, StopCounted
<1>5. CfpHasCollector /\ InHands
  BY DEF Init, StoreInit, CfpHasCollector, InHands, Submitted
<1> QED
  BY <1>1, <1>2, <1>3, <1>4, <1>5 DEF IInv, TypeOK

LEMMA NextIInv == IInv /\ [Next]_vars => IInv'
<1> SUFFICES ASSUME IInv, [Next]_vars PROVE IInv'
  OBVIOUS
<1>1. ASSUME NEW t \in Tasks, NEW v \in Versions, ChainStep(t, v)
      PROVE  IInv'
  BY <1>1, PublishReturnsKeeps, PublishRaisesKeeps, DeadlineReachedKeeps,
     LrangeReturnsKeeps, CollectRaisesKeeps, DeleteReturnsKeeps, AwardPushedKeeps,
     RpushReturnsKeeps, RpushRaisesKeeps, ListenerStartsKeeps, ListenerTimesOutKeeps,
     ListenerRaisesKeeps, ResultArrivesKeeps, RatingReturnsKeeps DEF ChainStep
<1>2. CASE UNCHANGED vars
  <2>1. NetTypeOK' /\ StopTypeOK'
    BY <1>2 DEF IInv, TypeOK, NetTypeOK, StopTypeOK, vars, agentVars, stopVars,
                workerVars
  <2> QED
    BY <1>2, <2>1, OutsideKeeps DEF vars, agentVars, stopVars
<1> QED
  BY <1>1, <1>2, SubmitTaskKeeps, UpdateTaskKeeps, StartKeeps, StopStepsKeep,
     WorkersKeep DEF Next

-----------------------------------------------------------------------------

LEMMA Inductive == Spec => []IInv
  BY InitIInv, NextIInv, PTL DEF Spec

\* Every variable keeps to its domain, whatever the interleaving: no handler
\* meets a status, a registry entry or a message it has no branch for.
THEOREM TypeCorrect == Spec => []TypeOK
<1>1. IInv => TypeOK
  BY DEF IInv
<1> QED
  BY <1>1, Inductive, PTL

\* No active call for proposals is orphaned: unless stop() is half-way, its
\* collector is alive and registered under its name.
THEOREM CollectorsAlive == Spec => []CfpHasCollector
<1>1. IInv => CfpHasCollector
  BY DEF IInv
<1> QED
  BY <1>1, Inductive, PTL

\* Before the first stop(), no task is left in EVALUATING_BIDS or AWARDED with
\* no coroutine to take it on.
THEOREM TasksInHands == Spec => []InHands
<1>1. IInv => InHands
  BY DEF IInv
<1> QED
  BY <1>1, Inductive, PTL

-----------------------------------------------------------------------------
(* Who was told of an award.  AwardOnItsWay is inductive together with     *)
(* IInv: an award that shows in the task is held by a chain that is about  *)
(* to push it or has pushed it and goes on to wait for the result, and     *)
(* every way out of that chain stores another status.                      *)

Told == {"pushed", "created", "blpop"}

\* A live chain of t is sending, or has sent, w its award.
Telling(t, w) ==
  \E v \in Versions : \/ pc[t][v] = "rpush" /\ held[t][v][1].bidder = w
                      \/ pc[t][v] \in Told /\ <<w, t, v>> \in awards

\* AwardeeIsTold in these words.
AwardOnItsWay ==
  stops = 0 =>
    \A t \in Tasks : Submitted(t) /\ StatusOf(t) = "AWARDED" =>
      Telling(t, obj[t][cur[t]].assigned_to)

\* The award t shows after the step, if any, is the one it showed before.
AwardStands(t) ==
  Submitted(t)' /\ StatusOf(t)' = "AWARDED" =>
    /\ Submitted(t) /\ StatusOf(t) = "AWARDED"
    /\ obj'[t][cur'[t]].assigned_to = obj[t][cur[t]].assigned_to

\* No chain of t drops the award it is sending or has sent.
SendersGoOn(t) ==
  \A v \in Versions :
    /\ pc[t][v] = "rpush" =>
         \/ pc'[t][v] = "rpush" /\ held'[t][v] = held[t][v]
         \/ pc'[t][v] \in Told /\ <<held[t][v][1].bidder, t, v>> \in awards'
    /\ pc[t][v] \in Told => pc'[t][v] \in Told

LEMMA AwardsKept ==
  ASSUME AwardOnItsWay, stops' = 0 => stops = 0, awards \subseteq awards',
         \A t \in Tasks :
           \/ Submitted(t)' => StatusOf(t)' # "AWARDED"
           \/ AwardStands(t) /\ SendersGoOn(t)
           \/ Telling(t, obj[t][cur[t]].assigned_to)'
  PROVE  AwardOnItsWay'
<1> SUFFICES ASSUME NEW t \in Tasks, stops' = 0, Submitted(t)', StatusOf(t)' = "AWARDED"
             PROVE  Telling(t, obj[t][cur[t]].assigned_to)'
  BY DEF AwardOnItsWay
<1>1. CASE AwardStands(t) /\ SendersGoOn(t)
  <2> DEFINE w == obj[t][cur[t]].assigned_to
  <2>1. Telling(t, w) /\ obj'[t][cur'[t]].assigned_to = w
    BY <1>1 DEF AwardOnItsWay, AwardStands
  <2>2. PICK v \in Versions : \/ pc[t][v] = "rpush" /\ held[t][v][1].bidder = w
                              \/ pc[t][v] \in Told /\ <<w, t, v>> \in awards
    BY <2>1 DEF Telling
  <2>3. \/ pc'[t][v] = "rpush" /\ held'[t][v][1].bidder = w
        \/ pc'[t][v] \in Told /\ <<w, t, v>> \in awards'
    BY <1>1, <2>2 DEF SendersGoOn
  <2> QED
    BY <2>1, <2>3 DEF Telling
<1> QED
  BY <1>1


\* The tasks but t, and their chains, are as they were.
OthersLeft(t) ==
  \A u \in Tasks \ {t} :
    obj'[u] = obj[u] /\ cur'[u] = cur[u] /\ pc'[u] = pc[u] /\ held'[u] = held[u]

\* What the step of a chain of t has to show.
LEMMA MoveKeepsAwards ==
  ASSUME AwardOnItsWay, stops' = stops, awards \subseteq awards',
         NEW t \in Tasks, OthersLeft(t),
         \/ StatusOf(t)' # "AWARDED"
         \/ AwardStands(t) /\ SendersGoOn(t)
         \/ Telling(t, obj[t][cur[t]].assigned_to)'
  PROVE  AwardOnItsWay'
<1>1. \A u \in Tasks \ {t} : AwardStands(u) /\ SendersGoOn(u)
  BY DEF OthersLeft, AwardStands, SendersGoOn, Submitted, StatusOf
<1> QED
  BY <1>1, AwardsKept

\* A store of t leaves the other tasks; its status is the one stored.
LEMMA StoreLeaves ==
  ASSUME TypeOK, NEW t \in Tasks, NEW v \in Versions, NEW s,
         \/ Store(t, v, s)
         \/ \E w : StoreAssigned(t, v, s, w)
  PROVE  /\ cur'[t] = v /\ StatusOf(t)' = s
         /\ \A u \in Tasks \ {t} : obj'[u] = obj[u] /\ cur'[u] = cur[u]
BY DEF TypeOK, StoreTypeOK, Store, StoreAssigned, StatusOf, TaskDefinition

LEMMA FailUnlessFinalLeaves ==
  ASSUME TypeOK, NEW t \in Tasks, cur[t] \in Versions, FailUnlessFinal(t)
  PROVE  /\ StatusOf(t)' \in Final
         /\ \A u \in Tasks \ {t} : obj'[u] = obj[u] /\ cur'[u] = cur[u]
<1>1. CASE StatusOf(t) \in Final
  BY <1>1 DEF FailUnlessFinal, storeVars, StatusOf
<1>2. CASE StatusOf(t) \notin Final
  <2>1. Store(t, cur[t], "FAILED") /\ "FAILED" \in Final
    BY <1>2 DEF FailUnlessFinal, Final
  <2> QED
    BY <2>1, StoreLeaves
<1> QED
  BY <1>1, <1>2

\* The locals of the chains of other tasks stay.
LEMMA LocalsLeft ==
  ASSUME TypeOK, NEW t \in Tasks, NEW v,
         \/ \E p, b : Goto(t, v, p) /\ (Fetched(t, v, b) \/ held' = held)
         \/ End(t, v)
         \/ UNCHANGED locals
  PROVE  \A u \in Tasks \ {t} : pc'[u] = pc[u] /\ held'[u] = held[u]
BY DEF TypeOK, LocalsTypeOK, Goto, Fetched, End, locals

\* A chain that is not about an award, or goes on waiting for the result of
\* its own, moves and no other chain does.
LEMMA SendersLeft ==
  ASSUME TypeOK, NEW t \in Tasks, NEW v \in Versions, pc[t][v] # "rpush",
         pc[t][v] \in Told => pc'[t][v] \in Told,
         \/ \E p, b : Goto(t, v, p) /\ (Fetched(t, v, b) \/ held' = held)
         \/ End(t, v)
         \/ UNCHANGED locals
  PROVE  SendersGoOn(t)
<1>1. \A u \in Versions \ {v} : pc'[t][u] = pc[t][u] /\ held'[t][u] = held[t][u]
  BY DEF TypeOK, LocalsTypeOK, Goto, Fetched, End, locals
<1> QED
  BY <1>1 DEF SendersGoOn, Told


\* A step of the chain that leaves the store alone and is not the award's.
LEMMA MoveLeavesAward ==
  ASSUME TypeOK, NEW t \in Tasks, NEW v \in Versions, pc[t][v] # "rpush",
         pc[t][v] \in Told => pc'[t][v] \in Told, UNCHANGED storeVars,
         \/ \E p, b : Goto(t, v, p) /\ (Fetched(t, v, b) \/ held' = held)
         \/ End(t, v)
         \/ UNCHANGED locals
  PROVE  AwardStands(t) /\ SendersGoOn(t)
<1>1. AwardStands(t)
  BY DEF AwardStands, storeVars, Submitted, StatusOf
<1> QED
  BY <1>1, SendersLeft

\* What a step of chain <<t, v>> does to the award that t shows.
LEMMA AwardOfChain ==
  ASSUME IInv, NEW t \in Tasks, NEW v \in Versions, ChainStep(t, v)
  PROVE  \/ StatusOf(t)' # "AWARDED"
         \/ AwardStands(t) /\ SendersGoOn(t)
         \/ Telling(t, obj[t][cur[t]].assigned_to)'
<1>1. TypeOK /\ MadeFirst /\ pc[t][v] # "idle"
  BY DEF IInv, ChainStep, PublishReturns, PublishRaises, DeadlineReached, LrangeReturns,
         CollectRaises, DeleteReturns, AwardPushed, RpushReturns, RpushRaises,
         ListenerStarts, ListenerTimesOut, ListenerRaises, ResultArrives, RatingReturns
<1>2. cur[t] \in Versions /\ ref[t][v] \in Versions
  BY <1>1, ChainRuns
<1>3. CASE \/ PublishReturns(t, v) \/ PublishRaises(t, v) \/ CollectRaises(t, v)
           \/ RpushRaises(t, v) \/ ListenerTimesOut(t, v)
  <2>1. \E o \in Versions, s \in Status \ {"AWARDED"} :
          Store(t, o, s) \/ \E w : StoreAssigned(t, o, s, w)
    BY <1>2, <1>3 DEF PublishReturns, PublishRaises, CollectRaises, RpushRaises,
                      ListenerTimesOut, Status
  <2> QED
    BY <1>1, <2>1, StoreLeaves
<1>4. CASE LrangeReturns(t, v) \/ RpushReturns(t, v) \/ RatingReturns(t, v)
  <2>1. pc[t][v] # "rpush" /\ (pc[t][v] \in Told => pc'[t][v] \in Told)
    BY <1>1, <1>4 DEF LrangeReturns, RpushReturns, RatingReturns, Goto, Told, TypeOK,
                      LocalsTypeOK
  <2> QED
    BY <1>1, <1>4, <2>1, MoveLeavesAward
       DEF LrangeReturns, RpushReturns, RatingReturns, storeVars
<1>5. CASE ListenerRaises(t, v)
  BY <1>1, <1>2, <1>5, FailUnlessFinalLeaves DEF ListenerRaises, Final
<1>6. CASE DeadlineReached(t, v)
  BY <1>1, <1>2, <1>6, MoveLeavesAward, StoreLeaves DEF DeadlineReached, Told
<1>7. CASE ListenerStarts(t, v)
  <2>1. CASE ~redis
    BY <1>1, <1>2, <1>7, <2>1, StoreLeaves DEF ListenerStarts
  <2>2. CASE redis
    <3>1. /\ pc[t][v] = "created" /\ Goto(t, v, "blpop")
          /\ UNCHANGED storeVars /\ held' = held
      BY <1>7, <2>2 DEF ListenerStarts
    <3>2. pc'[t][v] = "blpop"
      BY <1>1, <3>1 DEF Goto, TypeOK, LocalsTypeOK
    <3> QED
      BY <1>1, <3>1, <3>2, MoveLeavesAward DEF Told
  <2> QED
    BY <2>1, <2>2
<1>8. CASE ResultArrives(t, v)
  <2>1. CASE FailUnlessFinal(t)
    BY <1>1, <1>2, <1>8, <2>1, FailUnlessFinalLeaves DEF ResultArrives, Final
  <2>2. CASE UNCHANGED storeVars /\ UNCHANGED locals
    BY <1>1, <1>8, <2>2, MoveLeavesAward DEF ResultArrives, locals
  <2>3. CASE UNCHANGED storeVars /\ StatusOf(t) # "AWARDED"
    BY <2>3 DEF storeVars, StatusOf
  <2>4. CASE Store(t, cur[t], "COMPLETED") \/ Store(t, cur[t], "FAILED")
    BY <1>1, <1>2, <2>4, StoreLeaves
  <2> QED
    BY <1>8, <2>1, <2>2, <2>3, <2>4 DEF ResultArrives
<1>9. CASE AwardPushed(t, v)
  <2>1. SendersGoOn(t)
    BY <1>1, <1>9 DEF AwardPushed, SendersGoOn, Goto, TypeOK, LocalsTypeOK, Told
  <2>2. AwardStands(t)
    BY <1>9 DEF AwardPushed, AwardStands, storeVars, Submitted, StatusOf
  <2> QED
    BY <2>1, <2>2
<1>10. CASE DeleteReturns(t, v)
  <2>1. CASE FailUnlessFinal(t)
    BY <1>1, <1>2, <2>1, FailUnlessFinalLeaves DEF Final
  <2>2. CASE Store(t, cur[t], "BIDDING_FAILED")
    BY <1>1, <1>2, <2>2, StoreLeaves
  <2>3. CASE StoreAssigned(t, cur[t], "FAILED", NoWorker)
    <3>1. \E o \in Versions, s \in {"FAILED"} :
            Store(t, o, s) \/ \E w : StoreAssigned(t, o, s, w)
      BY <1>2, <2>3
    <3> QED
      BY <1>1, <3>1, StoreLeaves
  <2>4. ASSUME NEW w,
               obj' = [obj EXCEPT ![t][cur[t]] = [status |-> "AWARDED", assigned_to |-> w],
                                  ![t][ref[t][v]].status = "FAILED"],
               cur' = [cur EXCEPT ![t] = ref[t][v]]
        PROVE  StatusOf(t)' = "FAILED"
    BY <1>1, <1>2, <2>4 DEF TypeOK, StoreTypeOK, StatusOf, TaskDefinition
  <2>5. ASSUME NEW b, StoreAssigned(t, cur[t], "AWARDED", b.bidder),
               Fetched(t, v, <<b>>), Goto(t, v, "rpush")
        PROVE  Telling(t, obj[t][cur[t]].assigned_to)'
    <3>1. obj'[t][cur'[t]].assigned_to = b.bidder
      BY <1>1, <1>2, <2>5 DEF TypeOK, StoreTypeOK, StoreAssigned
    <3>2. pc'[t][v] = "rpush" /\ held'[t][v][1] = b
      BY <1>1, <2>5 DEF TypeOK, LocalsTypeOK, Goto, Fetched
    <3> QED
      BY <3>1, <3>2 DEF Telling
  <2> QED
    BY <1>10, <2>1, <2>2, <2>3, <2>4, <2>5 DEF DeleteReturns
<1> QED
  BY <1>3, <1>4, <1>5, <1>6, <1>7, <1>8, <1>9, <1>10 DEF ChainStep

LEMMA ChainKeepsAwards ==
  ASSUME IInv, AwardOnItsWay, NEW t \in Tasks, NEW v \in Versions, ChainStep(t, v)
  PROVE  AwardOnItsWay'
<1>1. TypeOK /\ MadeFirst /\ pc[t][v] # "idle"
  BY DEF IInv, ChainStep, PublishReturns, PublishRaises, DeadlineReached, LrangeReturns,
         CollectRaises, DeleteReturns, AwardPushed, RpushReturns, RpushRaises,
         ListenerStarts, ListenerTimesOut, ListenerRaises, ResultArrives, RatingReturns
<1>2. cur[t] \in Versions /\ ref[t][v] \in Versions
  BY <1>1, ChainRuns
<1>3. \A u \in Tasks \ {t} : pc'[u] = pc[u] /\ held'[u] = held[u]
  <2>1. \/ \E p, b : Goto(t, v, p) /\ (Fetched(t, v, b) \/ held' = held)
        \/ End(t, v)
        \/ UNCHANGED locals
    BY DEF ChainStep, PublishReturns, PublishRaises, DeadlineReached, LrangeReturns,
         CollectRaises, DeleteReturns, AwardPushed, RpushReturns, RpushRaises,
         ListenerStarts, ListenerTimesOut, ListenerRaises, ResultArrives, RatingReturns
  <2> QED
    BY <1>1, <2>1, LocalsLeft
<1>4. stops' = stops /\ awards \subseteq awards'
  BY DEF ChainStep, PublishReturns, PublishRaises, DeadlineReached, LrangeReturns,
         CollectRaises, DeleteReturns, AwardPushed, RpushReturns, RpushRaises,
         ListenerStarts, ListenerTimesOut, ListenerRaises, ResultArrives, RatingReturns,
         stopVars, workerVars
<1>5. \A u \in Tasks \ {t} : obj'[u] = obj[u] /\ cur'[u] = cur[u]
  <2>1. \/ UNCHANGED storeVars
        \/ FailUnlessFinal(t)
        \/ \E o \in Versions : \E s : Store(t, o, s) \/ \E w : StoreAssigned(t, o, s, w)
        \/ \E o, p : /\ obj' = [obj EXCEPT ![t][cur[t]] = o, ![t][ref[t][v]].status = p]
                     /\ cur' = [cur EXCEPT ![t] = ref[t][v]]
    BY <1>2 DEF ChainStep, PublishReturns, PublishRaises, DeadlineReached, LrangeReturns,
         CollectRaises, DeleteReturns, AwardPushed, RpushReturns, RpushRaises,
         ListenerStarts, ListenerTimesOut, ListenerRaises, ResultArrives, RatingReturns,
         storeVars
  <2>2. CASE UNCHANGED storeVars
    BY <2>2 DEF storeVars
  <2>3. CASE FailUnlessFinal(t)
    BY <1>1, <1>2, <2>3, FailUnlessFinalLeaves
  <2>4. CASE \E o \in Versions : \E s : Store(t, o, s) \/ \E w : StoreAssigned(t, o, s, w)
    BY <1>1, <2>4, StoreLeaves
  <2>5. CASE \E o, p : /\ obj' = [obj EXCEPT ![t][cur[t]] = o, ![t][ref[t][v]].status = p]
                       /\ cur' = [cur EXCEPT ![t] = ref[t][v]]
    BY <1>1, <2>5 DEF TypeOK, StoreTypeOK
  <2> QED
    BY <2>1, <2>2, <2>3, <2>4, <2>5
<1> QED
  BY <1>3, <1>4, <1>5, AwardOfChain, MoveKeepsAwards DEF OthersLeft

\* Without a caller who sets assigned_to, an update copies the award.
LEMMA UpdateKeepsAwards ==
  ASSUME UpdateAssignees \subseteq {Keep}, IInv, AwardOnItsWay, NEW t \in Tasks,
         NEW s \in UpdateStatuses, NEW w \in UpdateAssignees, UpdateTask(t, s, w)
  PROVE  AwardOnItsWay'
<1>1. TypeOK /\ w = Keep /\ Submitted(t) /\ cur[t] \in Versions
      /\ made[t] + 1 \in Versions /\ Replace(t, s, w)
  BY VersionsFact DEF IInv, UpdateTask, Replace, Submitted, TypeOK, StoreTypeOK
<1>2. /\ cur'[t] = made[t] + 1 /\ obj'[t][cur'[t]] = Updated(t, s, w)
      /\ \A u \in Tasks \ {t} : obj'[u] = obj[u] /\ cur'[u] = cur[u]
  BY <1>1 DEF Replace, TypeOK, StoreTypeOK
<1>3. UNCHANGED <<stopVars, awards>>
  BY DEF UpdateTask, stopVars
<1>4. \A u \in Tasks \ {t} : pc'[u] = pc[u] /\ held'[u] = held[u]
  BY <1>1 DEF UpdateTask, ProcessTaskReadiness, InitiateCfp, CancelCfpProcess, Goto, End,
              Fetched, locals, TypeOK, LocalsTypeOK
<1>5. CASE StatusOf(t)' # "AWARDED"
  BY <1>2, <1>3, <1>4, <1>5, MoveKeepsAwards DEF OthersLeft, stopVars
<1>6. CASE StatusOf(t)' = "AWARDED"
  <2>1. /\ s = Keep
        /\ Updated(t, s, w) = [status |-> "AWARDED", assigned_to |-> obj[t][cur[t]].assigned_to]
        /\ StatusOf(t) = "AWARDED"
    BY <1>1, <1>2, <1>6, ContractNetAssumption DEF StatusOf, Updated, Status
  <2>2. AwardStands(t)
    BY <1>1, <1>2, <2>1 DEF AwardStands
  <2>3. s # "READY"
    BY <2>1, ContractNetAssumption DEF Status
  <2>4. UNCHANGED locals
    BY <2>1, <2>3 DEF UpdateTask, locals
  <2>5. SendersGoOn(t)
    BY <2>4 DEF SendersGoOn, locals
  <2> QED
    BY <1>2, <1>3, <1>4, <2>2, <2>5, MoveKeepsAwards DEF OthersLeft, stopVars
<1> QED
  BY <1>5, <1>6

\* A step that leaves the store, the chains and what was awarded.
LEMMA OutsideKeepsAwards ==
  ASSUME AwardOnItsWay, UNCHANGED <<storeVars, locals, stops, awards>>
  PROVE  AwardOnItsWay'
BY DEF AwardOnItsWay, Telling, Submitted, StatusOf, storeVars, locals

LEMMA NextKeepsAwards ==
  ASSUME UpdateAssignees \subseteq {Keep}, IInv, AwardOnItsWay, [Next]_vars
  PROVE  AwardOnItsWay'
<1>1. ASSUME NEW t \in Tasks, NEW d \in BOOLEAN, SubmitTask(t, d)
      PROVE  AwardOnItsWay'
  <2>1. TypeOK /\ Create(t, d) /\ UNCHANGED <<held, stopVars, awards>>
    BY <1>1 DEF SubmitTask, IInv
  <2>2. /\ StatusOf(t)' # "AWARDED"
        /\ \A u \in Tasks \ {t} : obj'[u] = obj[u] /\ cur'[u] = cur[u]
    BY <2>1, VersionsFact DEF TypeOK, StoreTypeOK, Create, StatusOf
  <2>3. \A u \in Tasks \ {t} : pc'[u] = pc[u] /\ held'[u] = held[u]
    BY <1>1, <2>1 DEF SubmitTask, ProcessTaskReadiness, InitiateCfp, Goto, TypeOK, LocalsTypeOK
  <2> QED
    BY <2>1, <2>2, <2>3, MoveKeepsAwards DEF OthersLeft, stopVars
<1>2. ASSUME NEW t \in Tasks, NEW s \in UpdateStatuses, NEW w \in UpdateAssignees,
             UpdateTask(t, s, w)
      PROVE  AwardOnItsWay'
  BY <1>2, UpdateKeepsAwards
<1>3. ASSUME NEW t \in Tasks, NEW v \in Versions, ChainStep(t, v)
      PROVE  AwardOnItsWay'
  BY <1>3, ChainKeepsAwards
<1>4. CASE Start
  BY <1>4, OutsideKeepsAwards DEF Start, locals, workerVars
<1>5. CASE Stop \/ CollectorStopped \/ ListenerStopped
  <2>1. stops' > 0
    BY <1>5 DEF IInv, TypeOK, StopTypeOK, StopCounted, Stop, CollectorStopped, ListenerStopped
  <2> QED
    BY <2>1 DEF AwardOnItsWay
<1>6. ASSUME NEW w \in Workers, NEW t \in Tasks, NEW v \in Versions,
             \/ \E d \in BidDetails : WorkerBids(w, t, v, d)
             \/ \E k \in ReplyKinds : WorkerReplies(w, t, v, k)
      PROVE  AwardOnItsWay'
  BY <1>6, OutsideKeepsAwards DEF WorkerBids, WorkerReplies, agentVars, stopVars
<1>7. CASE UNCHANGED vars
  BY <1>7, OutsideKeepsAwards DEF vars, agentVars, stopVars, workerVars
<1> QED
  BY <1>1, <1>2, <1>3, <1>4, <1>5, <1>6, <1>7 DEF Next

\* The winner of an award that still stands was told, or is being told, by a
\* chain that waits for its result, as long as no caller of update_task
\* reassigns the task: a failed push, a stale object or a later round never
\* leaves the task with a worker who was never sent its award.
THEOREM WinnersTold ==
  ASSUME UpdateAssignees \subseteq {Keep}
  PROVE  Spec => []AwardeeIsTold
<1>1. Init => AwardOnItsWay
  BY DEF Init, StoreInit, AwardOnItsWay, Submitted
<1>2. IInv /\ AwardOnItsWay /\ [Next]_vars => AwardOnItsWay'
  BY NextKeepsAwards
<1>3. AwardOnItsWay => AwardeeIsTold
  BY DEF AwardOnItsWay, AwardeeIsTold, Telling, Told
<1> QED
  BY <1>1, <1>2, <1>3, Inductive, PTL DEF Spec

-----------------------------------------------------------------------------
(* The bookkeeping of replies.  What waits in the result list counts, so   *)
(* that a message popped pays for the rating it gives rise to.             *)

RatingsOf(t) == {r \in ratings : r.task = t}
RepliesOf(t) == {m \in replies : m[2] = t}

\* A reply is in its result list, rated or dropped.
RepliesLast ==
  /\ IsFiniteSet(replies) /\ IsFiniteSet(ratings)
  /\ \A t \in Tasks :
       Len(resQ[t]) + Cardinality(RatingsOf(t)) <= Cardinality(RepliesOf(t))

LEMMA CountsAreNumbers ==
  ASSUME TypeOK, RepliesLast, NEW t \in Tasks
  PROVE  /\ IsFiniteSet(RatingsOf(t)) /\ IsFiniteSet(RepliesOf(t))
         /\ Cardinality(RatingsOf(t)) \in Nat /\ Cardinality(RepliesOf(t)) \in Nat
         /\ resQ[t] \in Seq(Result) /\ Len(resQ[t]) \in Nat
<1>1. RatingsOf(t) \in SUBSET ratings /\ RepliesOf(t) \in SUBSET replies
  BY DEF RatingsOf, RepliesOf
<1>2. IsFiniteSet(RatingsOf(t)) /\ IsFiniteSet(RepliesOf(t))
  BY <1>1, FS_Subset DEF RepliesLast
<1>3. resQ[t] \in Seq(Result)
  BY DEF TypeOK, NetTypeOK
<1> QED
  BY <1>2, <1>3, FS_CardinalityType

\* Nobody replies and nothing is rated; result lists only lose messages.
LEMMA RepliesLeft ==
  ASSUME TypeOK, RepliesLast, UNCHANGED <<replies, ratings>>,
         NEW t \in Tasks,
         \/ UNCHANGED resQ
         \/ resQ[t] # <<>> /\ TakeResult(t)
  PROVE  RepliesLast'
<1>1. \A u \in Tasks : Len(resQ'[u]) \in Nat /\ Len(resQ'[u]) <= Len(resQ[u])
  <2>1. resQ \in [Tasks -> Seq(Result)]
    BY DEF TypeOK, NetTypeOK
  <2>2. CASE resQ[t] # <<>> /\ TakeResult(t)
    <3>1. Tail(resQ[t]) \in Seq(Result) /\ Len(Tail(resQ[t])) <= Len(resQ[t])
      BY <2>1, <2>2
    <3> QED
      BY <2>1, <2>2, <3>1 DEF TakeResult
  <2> QED
    BY <2>1, <2>2
<1>2. \A u \in Tasks : RatingsOf(u)' = RatingsOf(u) /\ RepliesOf(u)' = RepliesOf(u)
  BY DEF RatingsOf, RepliesOf
<1>3. \A u \in Tasks : Len(resQ[u]) \in Nat /\ Cardinality(RatingsOf(u)) \in Nat
                       /\ Cardinality(RepliesOf(u)) \in Nat
  BY CountsAreNumbers
<1>4. ASSUME NEW u \in Tasks
      PROVE  (Len(resQ[u]) + Cardinality(RatingsOf(u)) <= Cardinality(RepliesOf(u)))'
  <2>1. Len(resQ[u]) + Cardinality(RatingsOf(u)) <= Cardinality(RepliesOf(u))
    BY DEF RepliesLast
  <2> QED
    BY <1>1, <1>2, <1>3, <2>1
<1> QED
  BY <1>4 DEF RepliesLast

\* The same when there may be no task to name.
LEMMA QueuesLeft ==
  ASSUME RepliesLast, UNCHANGED <<replies, ratings, resQ>>
  PROVE  RepliesLast'
BY DEF RepliesLast, RatingsOf, RepliesOf

\* A message is taken from the list and rated at most once.
LEMMA RatingCounted ==
  ASSUME TypeOK, RepliesLast, NEW t \in Tasks, resQ[t] # <<>>, TakeResult(t),
         NEW r, r.task = t, ratings' = ratings \union {r}, UNCHANGED replies
  PROVE  RepliesLast'
<1>1. resQ \in [Tasks -> Seq(Result)]
  BY DEF TypeOK, NetTypeOK
<1>2. /\ Len(resQ'[t]) = Len(resQ[t]) - 1
      /\ \A u \in Tasks \ {t} : resQ'[u] = resQ[u]
  BY <1>1 DEF TakeResult
<1>3. IsFiniteSet(ratings') /\ IsFiniteSet(replies')
  BY FS_AddElement DEF RepliesLast
<1>4. /\ RatingsOf(t)' = RatingsOf(t) \union {r}
      /\ \A u \in Tasks \ {t} : RatingsOf(u)' = RatingsOf(u)
      /\ \A u \in Tasks : RepliesOf(u)' = RepliesOf(u)
  BY DEF RatingsOf, RepliesOf
<1>5. /\ Cardinality(RatingsOf(t))' \in Nat
      /\ Cardinality(RatingsOf(t))' <= Cardinality(RatingsOf(t)) + 1
  <2>1. IsFiniteSet(RatingsOf(t)) /\ Cardinality(RatingsOf(t)) \in Nat
    BY CountsAreNumbers
  <2>2. Cardinality(RatingsOf(t) \union {r})
          = IF r \in RatingsOf(t) THEN Cardinality(RatingsOf(t)) ELSE Cardinality(RatingsOf(t)) + 1
    BY <2>1, FS_AddElement
  <2> QED
    BY <1>4, <2>1, <2>2
<1>6. ASSUME NEW u \in Tasks
      PROVE  (Len(resQ[u]) + Cardinality(RatingsOf(u)) <= Cardinality(RepliesOf(u)))'
  <2>1. /\ Len(resQ[u]) + Cardinality(RatingsOf(u)) <= Cardinality(RepliesOf(u))
        /\ Len(resQ[u]) \in Nat /\ Cardinality(RatingsOf(u)) \in Nat
        /\ Cardinality(RepliesOf(u)) \in Nat
    BY CountsAreNumbers DEF RepliesLast
  <2>2. CASE u = t
    <3>1. RepliesOf(t)' = RepliesOf(t)
      BY <1>4
    <3> QED
      BY <1>2, <1>5, <2>1, <2>2, <3>1
  <2>3. CASE u # t
    <3>1. resQ'[u] = resQ[u] /\ RatingsOf(u)' = RatingsOf(u) /\ RepliesOf(u)' = RepliesOf(u)
      BY <1>2, <1>4, <2>3
    <3> QED
      BY <2>1, <3>1
  <2> QED
    BY <2>2, <2>3
<1> QED
  BY <1>3, <1>6 DEF RepliesLast

LEMMA ReplyCounted ==
  ASSUME TypeOK, RepliesLast, NEW w \in Workers, NEW t \in Tasks, NEW v \in Versions,
         NEW k \in ReplyKinds, WorkerReplies(w, t, v, k)
  PROVE  RepliesLast'
<1>1. resQ \in [Tasks -> Seq(Result)] /\ [worker |-> w, kind |-> k] \in Result
  BY DEF TypeOK, NetTypeOK, Result
<1>2. /\ Len(resQ'[t]) = Len(resQ[t]) + 1
      /\ \A u \in Tasks \ {t} : resQ'[u] = resQ[u]
  BY <1>1 DEF WorkerReplies
<1>3. IsFiniteSet(ratings') /\ IsFiniteSet(replies')
  BY FS_AddElement DEF RepliesLast, WorkerReplies
<1>4. /\ RepliesOf(t)' = RepliesOf(t) \union {<<w, t, v>>}
      /\ <<w, t, v>> \notin RepliesOf(t)
      /\ \A u \in Tasks \ {t} : RepliesOf(u)' = RepliesOf(u)
      /\ \A u \in Tasks : RatingsOf(u)' = RatingsOf(u)
  BY DEF RatingsOf, RepliesOf, WorkerReplies
<1>5. Cardinality(RepliesOf(t))' = Cardinality(RepliesOf(t)) + 1
  <2>1. IsFiniteSet(RepliesOf(t))
    BY CountsAreNumbers
  <2> QED
    BY <1>4, <2>1, FS_AddElement
<1>6. ASSUME NEW u \in Tasks
      PROVE  (Len(resQ[u]) + Cardinality(RatingsOf(u)) <= Cardinality(RepliesOf(u)))'
  <2>1. /\ Len(resQ[u]) + Cardinality(RatingsOf(u)) <= Cardinality(RepliesOf(u))
        /\ Len(resQ[u]) \in Nat /\ Cardinality(RatingsOf(u)) \in Nat
        /\ Cardinality(RepliesOf(u)) \in Nat
    BY CountsAreNumbers DEF RepliesLast
  <2>2. CASE u = t
    <3>1. RatingsOf(t)' = RatingsOf(t)
      BY <1>4
    <3> QED
      BY <1>2, <1>5, <2>1, <2>2, <3>1
  <2>3. CASE u # t
    <3>1. resQ'[u] = resQ[u] /\ RatingsOf(u)' = RatingsOf(u) /\ RepliesOf(u)' = RepliesOf(u)
      BY <1>2, <1>4, <2>3
    <3> QED
      BY <2>1, <3>1
  <2> QED
    BY <2>2, <2>3
<1> QED
  BY <1>3, <1>6 DEF RepliesLast

LEMMA StopTakesResult ==
  ASSUME TypeOK,
         \/ \E chains \in SUBSET Chains : \E reg : StopListeners(chains, reg)
         \/ \E chains \in SUBSET Chains : StopCollectors(chains)
  PROVE  \/ UNCHANGED resQ
         \/ \E t \in Tasks : resQ[t] # <<>> /\ TakeResult(t)
<1>1. ASSUME NEW chains \in SUBSET Chains, NEW reg, StopListeners(chains, reg)
      PROVE  \/ UNCHANGED resQ
             \/ \E t \in Tasks : resQ[t] # <<>> /\ TakeResult(t)
  BY <1>1 DEF StopListeners, Chains
<1>2. Registered(lisReg) \in SUBSET Chains
  BY RegisteredFact DEF TypeOK, RegistryTypeOK
<1>3. ASSUME NEW chains \in SUBSET Chains, StopCollectors(chains)
      PROVE  UNCHANGED resQ \/ StopListeners(Registered(lisReg), lisReg)
  BY <1>3 DEF StopCollectors
<1> QED
  BY <1>1, <1>2, <1>3

LEMMA NextKeepsReplies ==
  ASSUME TypeOK, RepliesLast, [Next]_vars
  PROVE  RepliesLast'
<1>1. ASSUME NEW t \in Tasks, NEW v \in Versions, ChainStep(t, v)
      PROVE  RepliesLast'
  <2>1. CASE UNCHANGED <<replies, ratings, resQ>>
    BY <2>1, QueuesLeft
  <2>2. CASE ResultArrives(t, v)
    <3>1. UNCHANGED replies /\ resQ[t] # <<>> /\ TakeResult(t)
      BY <2>2 DEF ResultArrives, workerVars
    <3>2. \/ UNCHANGED ratings
          \/ \E r : r.task = t /\ ratings' = ratings \union {r}
      BY <2>2 DEF ResultArrives
    <3> QED
      BY <3>1, <3>2, RepliesLeft, RatingCounted
  <2> QED
    BY <1>1, <2>1, <2>2
       DEF ChainStep, PublishReturns, PublishRaises, DeadlineReached, LrangeReturns,
           CollectRaises, DeleteReturns, AwardPushed, RpushReturns, RpushRaises,
           ListenerStarts, ListenerTimesOut, ListenerRaises, RatingReturns, workerVars
<1>2. ASSUME NEW t \in Tasks, NEW d, SubmitTask(t, d)
      PROVE  RepliesLast'
  BY <1>2, QueuesLeft DEF SubmitTask
<1>3. ASSUME NEW t \in Tasks, NEW s, NEW w, UpdateTask(t, s, w)
      PROVE  RepliesLast'
  BY <1>3, QueuesLeft DEF UpdateTask
<1>4. CASE Start \/ Stop \/ CollectorStopped \/ ListenerStopped
  <2>1. UNCHANGED <<replies, ratings>>
    BY <1>4 DEF Start, Stop, CollectorStopped, ListenerStopped, workerVars
  <2>2. \/ UNCHANGED resQ
        \/ \E chains \in SUBSET Chains : \E reg : StopListeners(chains, reg)
        \/ \E chains \in SUBSET Chains : StopCollectors(chains)
    <3>1. Registered(collReg) \in SUBSET Chains /\ stopping.todo \in SUBSET Chains
      BY RegisteredFact DEF TypeOK, RegistryTypeOK, StopTypeOK, StopProgress
    <3> QED
      BY <1>4, <3>1 DEF Start, Stop, CollectorStopped, ListenerStopped
  <2>3. UNCHANGED resQ \/ \E t \in Tasks : resQ[t] # <<>> /\ TakeResult(t)
    BY <2>2, StopTakesResult
  <2>4. CASE UNCHANGED resQ
    BY <2>1, <2>4, QueuesLeft
  <2> QED
    BY <2>1, <2>3, <2>4, RepliesLeft
<1>5. ASSUME NEW w \in Workers, NEW t \in Tasks, NEW v \in Versions, NEW c,
             WorkerBids(w, t, v, c)
      PROVE  RepliesLast'
  BY <1>5, QueuesLeft DEF WorkerBids
<1>6. ASSUME NEW w \in Workers, NEW t \in Tasks, NEW v \in Versions,
             NEW k \in ReplyKinds, WorkerReplies(w, t, v, k)
      PROVE  RepliesLast'
  BY <1>6, ReplyCounted
<1>7. CASE UNCHANGED vars
  BY <1>7, QueuesLeft DEF vars, workerVars
<1> QED
  BY <1>1, <1>2, <1>3, <1>4, <1>5, <1>6, <1>7 DEF Next

\* No result is rated twice: a task never has more ratings than replies, even
\* when two listeners share its result list or stop() drops a message.
THEOREM RatingsBacked == Spec => []RatingsBackedByReplies
<1>1. Init => RepliesLast
  <2> SUFFICES ASSUME Init PROVE RepliesLast
    OBVIOUS
  <2>1. replies = {} /\ ratings = {} /\ \A t \in Tasks : resQ[t] = <<>>
    BY DEF Init
  <2>2. \A t \in Tasks : RatingsOf(t) = {} /\ RepliesOf(t) = {}
    BY <2>1 DEF RatingsOf, RepliesOf
  <2>3. Cardinality({}) = 0 /\ IsFiniteSet({})
    BY FS_EmptySet
  <2>4. ASSUME NEW t \in Tasks
        PROVE  Len(resQ[t]) + Cardinality(RatingsOf(t)) <= Cardinality(RepliesOf(t))
    <3>1. Len(<<>>) = 0
      OBVIOUS
    <3>2. Len(resQ[t]) = 0
      BY <2>1, <3>1, Zenon
    <3>3. Cardinality(RatingsOf(t)) = 0 /\ Cardinality(RepliesOf(t)) = 0
      BY <2>2, <2>3, Zenon
    <3> QED
      BY <3>2, <3>3
  <2> QED
    BY <2>1, <2>3, <2>4 DEF RepliesLast
<1>2. TypeOK /\ RepliesLast /\ [Next]_vars => RepliesLast'
  BY NextKeepsReplies
<1>3. TypeOK /\ RepliesLast => RatingsBackedByReplies
  <2> SUFFICES ASSUME TypeOK, RepliesLast, NEW t \in Tasks
               PROVE  Cardinality(RatingsOf(t)) <= Cardinality(RepliesOf(t))
    BY DEF RatingsBackedByReplies, RatingsOf, RepliesOf
  <2> QED
    BY CountsAreNumbers DEF RepliesLast
<1>4. Spec => []TypeOK
  BY TypeCorrect
<1> QED
  BY <1>1, <1>2, <1>3, <1>4, PTL DEF Spec

=============================================================================
