------------------------ MODULE DirectDispatchProofs ------------------------
(***************************************************************************)
(* What holds of DirectDispatch for every set of tasks and workers and     *)
(* every bound.  InProgressIsWorkedOn is inductive once it is known that   *)
(* a dispatch in flight is that of an object already made.  The last part  *)
(* shows that the direct dispatch implements TaskOffers.                   *)
(***************************************************************************)
EXTENDS DirectDispatch, TLAPS

\* _direct_dispatch_task runs for an object that has been made.
DispatchedExists ==
  \A t \in Tasks, v \in Versions : disp[t][v] # "idle" => v <= made[t]

IInv == TypeOK /\ DispatchedExists /\ InProgressIsWorkedOn

-----------------------------------------------------------------------------
(* What the operations of TaskStore change.                                *)

LEMMA VersionsFact ==
  /\ MaxUpdates \in Nat /\ Versions = 1..(MaxUpdates + 1)
  /\ Versions \subseteq Nat /\ 1 \in Versions
BY StoreAssumption DEF Versions

\* The step stores object number v, with value o, as task t; objects are not
\* unmade and no other task is touched.
Stores(t, v, o) ==
  /\ StoreTypeOK' /\ Submitted(t)' /\ obj'[t][cur'[t]] = o
  /\ v <= made'[t]
  /\ \A u \in Tasks : made[u] <= made'[u]
  /\ \A u \in Tasks \ {t} : cur'[u] = cur[u] /\ obj'[u] = obj[u]

LEMMA StoreEffect ==
  ASSUME TypeOK, NEW t \in Tasks, NEW v \in Versions, v <= made[t],
         Store(t, v, "FAILED")
  PROVE  \E o \in TaskDefinition : Stores(t, v, o) /\ o.status = "FAILED"
<1> DEFINE o == [obj[t][v] EXCEPT !.status = "FAILED"]
<1>1. StoreTypeOK
  BY DEF TypeOK
<1>2. obj[t] \in [Versions -> TaskDefinition] /\ obj[t][v] \in TaskDefinition
  BY <1>1 DEF StoreTypeOK
<1>3. o \in TaskDefinition /\ o.status = "FAILED"
  BY <1>2 DEF TaskDefinition, Status
<1>4. obj' = [obj EXCEPT ![t] = [obj[t] EXCEPT ![v] = o]]
  BY DEF Store
<1>5. [obj[t] EXCEPT ![v] = o] \in [Versions -> TaskDefinition]
  BY <1>2, <1>3
<1>6. obj' \in [Tasks -> [Versions -> TaskDefinition]] /\ obj'[t][v] = o
  <2> HIDE DEF o
  <2> QED BY <1>1, <1>2, <1>4, <1>5 DEF StoreTypeOK
<1>7. cur' = [cur EXCEPT ![t] = v] /\ made' = made
  BY DEF Store
<1>8. StoreTypeOK' /\ cur'[t] = v
  BY <1>1, <1>6, <1>7, VersionsFact DEF StoreTypeOK
<1>9. \A u \in Tasks \ {t} : cur'[u] = cur[u] /\ obj'[u] = obj[u]
  BY <1>1, <1>4, <1>7 DEF StoreTypeOK
<1>10. \A u \in Tasks : made[u] <= made'[u]
  BY <1>1, <1>7, VersionsFact DEF StoreTypeOK
<1>11. Submitted(t)' /\ v <= made'[t]
  BY <1>7, <1>8, VersionsFact DEF Submitted
<1> QED
  BY <1>3, <1>6, <1>8, <1>9, <1>10, <1>11 DEF Stores

\* Create and Replace store a new object.
LEMMA NewObjectEffect ==
  ASSUME TypeOK, NEW t \in Tasks, made[t] <= MaxUpdates, NEW o \in TaskDefinition,
         obj' = [obj EXCEPT ![t][made[t] + 1] = o],
         made' = [made EXCEPT ![t] = made[t] + 1],
         cur' = [cur EXCEPT ![t] = made[t] + 1]
  PROVE  Stores(t, made[t] + 1, o) /\ made[t] + 1 \in Versions
<1> DEFINE v == made[t] + 1
<1>1. StoreTypeOK
  BY DEF TypeOK
<1>2. made[t] \in 0..(MaxUpdates + 1) /\ v \in Versions
  BY <1>1, VersionsFact DEF StoreTypeOK
<1>3. obj[t] \in [Versions -> TaskDefinition]
  BY <1>1 DEF StoreTypeOK
<1>4. obj' = [obj EXCEPT ![t] = [obj[t] EXCEPT ![v] = o]]
  OBVIOUS
<1>5. [obj[t] EXCEPT ![v] = o] \in [Versions -> TaskDefinition]
  BY <1>3
<1>6. /\ obj' \in [Tasks -> [Versions -> TaskDefinition]] /\ obj'[t][v] = o
      /\ \A u \in Tasks \ {t} : obj'[u] = obj[u]
  <2> HIDE DEF v
  <2> QED BY <1>1, <1>2, <1>3, <1>4, <1>5 DEF StoreTypeOK
<1>7. /\ made' \in [Tasks -> 0..(MaxUpdates + 1)] /\ cur' \in [Tasks -> 0..(MaxUpdates + 1)]
      /\ made'[t] = v /\ cur'[t] = v
      /\ \A u \in Tasks \ {t} : cur'[u] = cur[u] /\ made'[u] = made[u]
  BY <1>1, <1>2, VersionsFact DEF StoreTypeOK
<1>8. StoreTypeOK'
  BY <1>1, <1>2, <1>6, <1>7, VersionsFact DEF StoreTypeOK
<1>9. Submitted(t)' /\ v <= made'[t]
  BY <1>2, <1>7, VersionsFact DEF Submitted
<1>10. \A u \in Tasks : made[u] <= made'[u]
  <2>1. \A u \in Tasks : made[u] \in Nat
    BY <1>1, VersionsFact DEF StoreTypeOK
  <2> QED BY <1>7, <2>1
<1> QED
  BY <1>2, <1>6, <1>7, <1>8, <1>9, <1>10 DEF Stores

LEMMA ReplaceEffect ==
  ASSUME TypeOK, NEW t \in Tasks, NEW s \in Status \union {Keep},
         NEW w \in Workers \union {Keep}, Replace(t, s, w)
  PROVE  /\ Updated(t, s, w) \in TaskDefinition
         /\ Stores(t, made[t] + 1, Updated(t, s, w))
         /\ made[t] + 1 \in Versions
<1>1. StoreTypeOK /\ Keep \notin Status /\ Keep \notin Workers
  BY DirectDispatchAssumption DEF TypeOK
<1>2. cur[t] \in Versions
  BY <1>1, VersionsFact DEF StoreTypeOK, Replace, Submitted
<1>3. obj[t][cur[t]] \in TaskDefinition
  BY <1>1, <1>2 DEF StoreTypeOK
<1>4. Updated(t, s, w) \in TaskDefinition
  BY <1>1, <1>3 DEF Updated, StatusOf, TaskDefinition
<1> QED
  BY <1>4, NewObjectEffect DEF Replace

\* What Stores says of the invariant: other tasks keep it, and so does t when
\* its new status is not IN_PROGRESS.
LEMMA StoresKeeps ==
  ASSUME IInv, NEW t \in Tasks, NEW v, NEW o, Stores(t, v, o),
         \A w \in Workers : downs'[w] >= downs[w],
         \A w \in Workers, u \in Tasks \ {t} :
           working[w] = u => working'[w] = u,
         o.status = "IN_PROGRESS" =>
           \E w \in Workers : o.assigned_to = w /\ (working'[w] = t \/ downs'[w] > 0),
         downs \in [Workers -> Nat], downs' \in [Workers -> Nat]
  PROVE  InProgressIsWorkedOn'
<1> SUFFICES ASSUME NEW u \in Tasks, InProgress(u)'
             PROVE  \E w \in Workers :
                      obj'[u][cur'[u]].assigned_to = w
                        /\ (working'[w] = u \/ downs'[w] > 0)
  BY DEF InProgressIsWorkedOn
<1>1. CASE u = t
  BY <1>1 DEF Stores, InProgress, StatusOf
<1>2. CASE u # t
  <2>1. cur'[u] = cur[u] /\ obj'[u] = obj[u]
    BY <1>2 DEF Stores
  <2>2. InProgress(u)
    BY <2>1 DEF InProgress, Submitted, StatusOf
  <2>3. PICK w \in Workers :
          obj[u][cur[u]].assigned_to = w /\ (working[w] = u \/ downs[w] > 0)
    BY <2>2 DEF IInv, InProgressIsWorkedOn
  <2>4. downs[w] > 0 => downs'[w] > 0
    <3>1. downs[w] \in Nat /\ downs'[w] \in Nat /\ downs'[w] >= downs[w]
      OBVIOUS
    <3> QED BY <3>1
  <2> QED
    BY <1>2, <2>1, <2>3, <2>4
<1> QED
  BY <1>1, <1>2

LEMMA DownsNat == ASSUME TypeOK PROVE downs \in [Workers -> Nat]
BY DirectDispatchAssumption DEF TypeOK

\* A step that leaves the workers' work alone.
LEMMA OthersWork ==
  ASSUME TypeOK, UNCHANGED <<working, downs>>
  PROVE  /\ \A w \in Workers : downs'[w] >= downs[w]
         /\ \A w \in Workers, u \in Tasks : working[w] = u => working'[w] = u
         /\ downs \in [Workers -> Nat] /\ downs' \in [Workers -> Nat]
<1>1. downs \in [Workers -> Nat] /\ downs' = downs
  BY DownsNat
<1>2. \A w \in Workers : downs[w] \in Nat
  BY <1>1
<1> QED
  BY <1>1, <1>2

\* A step of one dispatch.
LEMMA DispEffect ==
  ASSUME TypeOK, NEW t \in Tasks, NEW v \in Versions,
         NEW p \in {"idle", "publish", "published"},
         disp' = [disp EXCEPT ![t][v] = p]
  PROVE  /\ disp' \in [Tasks -> [Versions -> {"idle", "publish", "published"}]]
         /\ disp'[t][v] = p
         /\ \A u \in Tasks, x \in Versions :
              u # t \/ x # v => disp'[u][x] = disp[u][x]
<1>1. disp[t] \in [Versions -> {"idle", "publish", "published"}]
  BY DEF TypeOK
<1>2. disp' = [disp EXCEPT ![t] = [disp[t] EXCEPT ![v] = p]]
  OBVIOUS
<1>3. [disp[t] EXCEPT ![v] = p] \in [Versions -> {"idle", "publish", "published"}]
  BY <1>1
<1> QED
  BY <1>1, <1>2, <1>3 DEF TypeOK

\* A dispatch starts for an object that has been made.
LEMMA DispatchedKeeps ==
  ASSUME IInv, StoreTypeOK', \A u \in Tasks : made[u] <= made'[u],
         \A u \in Tasks, x \in Versions :
           disp'[u][x] # "idle" => disp[u][x] # "idle" \/ x <= made'[u]
  PROVE  DispatchedExists'
<1> SUFFICES ASSUME NEW u \in Tasks, NEW x \in Versions, disp'[u][x] # "idle"
             PROVE  x <= made'[u]
  BY DEF DispatchedExists
<1>1. made[u] \in Nat /\ made'[u] \in Nat /\ x \in Nat
  BY VersionsFact DEF IInv, TypeOK, StoreTypeOK
<1>2. CASE disp[u][x] # "idle"
  <2>1. x <= made[u] /\ made[u] <= made'[u]
    BY <1>2 DEF IInv, DispatchedExists
  <2> QED BY <1>1, <2>1
<1> QED
  BY <1>2

\* _process_task_readiness of a new object.
LEMMA ReadinessKeeps ==
  ASSUME IInv, NEW t \in Tasks, NEW v \in Versions, NEW o, Stores(t, v, o),
         disp' = disp \/ ProcessTaskReadiness(t, v)
  PROVE  /\ disp' \in [Tasks -> [Versions -> {"idle", "publish", "published"}]]
         /\ DispatchedExists'
<1>1. TypeOK
  BY DEF IInv
<1>2. CASE disp' = disp
  <2>1. disp' \in [Tasks -> [Versions -> {"idle", "publish", "published"}]]
    BY <1>1, <1>2 DEF TypeOK
  <2> QED BY <1>2, <2>1, DispatchedKeeps DEF Stores
<1>3. CASE disp' = [disp EXCEPT ![t][v] = "publish"]
  <2>1. /\ disp' \in [Tasks -> [Versions -> {"idle", "publish", "published"}]]
        /\ \A u \in Tasks, x \in Versions :
             u # t \/ x # v => disp'[u][x] = disp[u][x]
    BY <1>1, <1>3, DispEffect
  <2>2. \A u \in Tasks, x \in Versions :
          disp'[u][x] # "idle" => disp[u][x] # "idle" \/ x <= made'[u]
    BY <2>1 DEF Stores
  <2> QED BY <2>1, <2>2, DispatchedKeeps DEF Stores
<1> QED
  BY <1>2, <1>3 DEF ProcessTaskReadiness

-----------------------------------------------------------------------------
(* Initial states, and one lemma per action.                               *)

LEMMA InitIInv == Init => IInv
<1> SUFFICES ASSUME Init PROVE IInv
  OBVIOUS
<1>1. StoreTypeOK
  BY VersionsFact DEF Init, StoreInit, StoreTypeOK, TaskDefinition, Status
<1>2. TypeOK
  <2>1. redis \in BOOLEAN
    BY DEF Init
  <2>2. disp \in [Tasks -> [Versions -> {"idle", "publish", "published"}]]
    BY DEF Init
  <2>3. /\ loop \in [Workers -> {"off", "listening", "executing"}]
        /\ \A w \in Workers : loop[w] = "off"
    BY DEF Init
  <2>4. inbox \in [Workers -> Seq(Tasks)]
    BY DEF Init
  <2>5. /\ working \in [Workers -> Tasks \union {NoTask}]
        /\ \A w \in Workers : working[w] = NoTask
    BY DEF Init
  <2>6. calls \in [Tasks -> 0..MaxCalls] /\ downs \in [Workers -> 0..MaxDowns]
    BY DirectDispatchAssumption DEF Init
  <2> QED
    BY <1>1, <2>1, <2>2, <2>3, <2>4, <2>5, <2>6 DEF TypeOK
<1>3. DispatchedExists
  BY DEF Init, DispatchedExists
<1>4. InProgressIsWorkedOn
  BY DEF Init, StoreInit, InProgressIsWorkedOn, InProgress, Submitted
<1> QED
  BY <1>2, <1>3, <1>4 DEF IInv

LEMMA SubmitTaskKeeps ==
  ASSUME IInv, NEW t \in Tasks, NEW d \in BOOLEAN, SubmitTask(t, d)
  PROVE  IInv'
<1> DEFINE o == [status |-> IF d THEN "PENDING" ELSE "READY", assigned_to |-> NoWorker]
<1>1. TypeOK /\ StoreTypeOK
  BY DEF IInv, TypeOK
<1>2. o \in TaskDefinition /\ o.status # "IN_PROGRESS"
  BY DEF TaskDefinition, Status
<1>3. /\ made[t] = 0 /\ made[t] + 1 = 1 /\ made[t] <= MaxUpdates
      /\ obj' = [obj EXCEPT ![t][made[t] + 1] = o]
      /\ made' = [made EXCEPT ![t] = made[t] + 1]
      /\ cur' = [cur EXCEPT ![t] = made[t] + 1]
  BY VersionsFact DEF SubmitTask, Create
<1> HIDE DEF o
<1>4. Stores(t, 1, o)
  BY <1>1, <1>2, <1>3, NewObjectEffect
<1>5. UNCHANGED <<redis, calls, loop, inbox, working, downs>>
  BY DEF SubmitTask, workerVars
<1>6. disp' = disp \/ ProcessTaskReadiness(t, 1)
  BY DEF SubmitTask
<1>7. /\ disp' \in [Tasks -> [Versions -> {"idle", "publish", "published"}]]
      /\ DispatchedExists'
  BY <1>4, <1>6, ReadinessKeeps, VersionsFact
<1>8. TypeOK'
  BY <1>1, <1>4, <1>5, <1>7 DEF TypeOK, Stores
<1>9. InProgressIsWorkedOn'
  BY <1>1, <1>2, <1>4, <1>5, OthersWork, StoresKeeps
<1> QED
  BY <1>7, <1>8, <1>9 DEF IInv

LEMMA UpdateTaskKeeps ==
  ASSUME IInv, NEW t \in Tasks, NEW s \in CallerStatuses, UpdateTask(t, s)
  PROVE  IInv'
<1> DEFINE v == made[t] + 1
           o == Updated(t, s, Keep)
<1>1. TypeOK /\ StoreTypeOK
  BY DEF IInv, TypeOK
<1>2. s \in Status \union {Keep} /\ s # "IN_PROGRESS"
  BY DirectDispatchAssumption DEF Status
<1>3. v \in Versions /\ Stores(t, v, o)
  BY <1>1, <1>2, ReplaceEffect DEF UpdateTask
<1>4. UNCHANGED <<redis, loop, inbox, working, downs>>
  BY DEF UpdateTask, workerVars
<1>5. disp' = disp \/ ProcessTaskReadiness(t, v)
  BY DEF UpdateTask
<1>6. calls' \in [Tasks -> 0..MaxCalls]
  <2>1. /\ calls[t] \in 0..MaxCalls /\ calls[t] < MaxCalls /\ MaxCalls \in Nat
        /\ calls \in [Tasks -> 0..MaxCalls]
        /\ calls' = [calls EXCEPT ![t] = calls[t] + 1]
    BY <1>1, DirectDispatchAssumption DEF TypeOK, UpdateTask
  <2>2. calls[t] + 1 \in 0..MaxCalls
    BY <2>1
  <2> QED BY <2>1, <2>2
<1>7. o.status = "IN_PROGRESS" =>
        \E w \in Workers : o.assigned_to = w /\ (working'[w] = t \/ downs'[w] > 0)
  <2>1. SUFFICES ASSUME o.status = "IN_PROGRESS"
                 PROVE  \E w \in Workers :
                          o.assigned_to = w /\ (working[w] = t \/ downs[w] > 0)
    BY <1>4
  <2>2. StatusOf(t) = "IN_PROGRESS" /\ o.assigned_to = obj[t][cur[t]].assigned_to
    BY <1>2, <2>1 DEF Updated
  <2>3. InProgress(t)
    BY <2>2 DEF InProgress, UpdateTask, Replace
  <2> QED BY <2>2, <2>3 DEF IInv, InProgressIsWorkedOn
<1> HIDE DEF v, o
<1>8. /\ disp' \in [Tasks -> [Versions -> {"idle", "publish", "published"}]]
      /\ DispatchedExists'
  BY <1>3, <1>5, ReadinessKeeps
<1>9. TypeOK'
  BY <1>1, <1>3, <1>4, <1>6, <1>8 DEF TypeOK, Stores
<1>10. InProgressIsWorkedOn'
  BY <1>1, <1>3, <1>4, <1>7, OthersWork, StoresKeeps
<1> QED
  BY <1>8, <1>9, <1>10 DEF IInv

\* A step of the dispatch or of a loop that leaves the store alone.
LEMMA NoStoreKeeps ==
  ASSUME IInv, UNCHANGED storeVars,
         \A w \in Workers : (working'[w] = working[w] /\ downs'[w] = downs[w])
                               \/ downs'[w] > 0
  PROVE  StoreTypeOK' /\ InProgressIsWorkedOn'
<1>1. StoreTypeOK'
  BY DEF IInv, TypeOK, StoreTypeOK, storeVars
<1>2. ASSUME NEW t \in Tasks, InProgress(t)'
      PROVE  \E w \in Workers : obj'[t][cur'[t]].assigned_to = w
                                  /\ (working'[w] = t \/ downs'[w] > 0)
  <2>1. obj' = obj /\ cur' = cur
    BY DEF storeVars
  <2>2. InProgress(t)
    BY <1>2, <2>1 DEF InProgress, Submitted, StatusOf
  <2>3. PICK w \in Workers :
          obj[t][cur[t]].assigned_to = w /\ (working[w] = t \/ downs[w] > 0)
    BY <2>2 DEF IInv, InProgressIsWorkedOn
  <2> QED
    BY <2>1, <2>3
<1> QED
  BY <1>1, <1>2 DEF InProgressIsWorkedOn

LEMMA MadeGrows ==
  ASSUME IInv, UNCHANGED storeVars
  PROVE  \A u \in Tasks : made[u] <= made'[u]
<1>1. made' = made
  BY DEF storeVars
<1>2. \A u \in Tasks : made[u] \in Nat
  BY VersionsFact DEF IInv, TypeOK, StoreTypeOK
<1> QED
  BY <1>1, <1>2

\* The steps of a dispatch that only move it.
LEMMA DispatchMoves ==
  ASSUME IInv, NEW t \in Tasks, NEW v \in Versions, disp[t][v] # "idle",
         NEW p \in {"idle", "publish", "published"},
         disp' = [disp EXCEPT ![t][v] = p],
         StoreTypeOK', \A u \in Tasks : made[u] <= made'[u]
  PROVE  /\ disp' \in [Tasks -> [Versions -> {"idle", "publish", "published"}]]
         /\ DispatchedExists'
<1>1. /\ disp' \in [Tasks -> [Versions -> {"idle", "publish", "published"}]]
      /\ \A u \in Tasks, x \in Versions :
           u # t \/ x # v => disp'[u][x] = disp[u][x]
  <2>1. disp[t] \in [Versions -> {"idle", "publish", "published"}]
    BY DEF IInv, TypeOK
  <2>2. disp' = [disp EXCEPT ![t] = [disp[t] EXCEPT ![v] = p]]
    OBVIOUS
  <2>3. [disp[t] EXCEPT ![v] = p] \in [Versions -> {"idle", "publish", "published"}]
    BY <2>1
  <2> QED BY <2>1, <2>2, <2>3 DEF IInv, TypeOK
<1>2. \A u \in Tasks, x \in Versions :
        disp'[u][x] # "idle" => disp[u][x] # "idle" \/ x <= made'[u]
  <2> SUFFICES ASSUME NEW u \in Tasks, NEW x \in Versions, disp'[u][x] # "idle"
               PROVE  disp[u][x] # "idle"
    OBVIOUS
  <2>1. CASE u = t /\ x = v
    BY <2>1
  <2>2. CASE u # t \/ x # v
    BY <1>1, <2>2
  <2> QED BY <2>1, <2>2
<1> QED
  BY <1>1, <1>2, DispatchedKeeps

LEMMA DeliveredKeeps ==
  ASSUME IInv, NEW t \in Tasks, NEW v \in Versions, Delivered(t, v)
  PROVE  IInv'
<1>1. UNCHANGED <<storeVars, redis, calls, loop, working, downs>>
  BY DEF Delivered
<1>2. StoreTypeOK' /\ InProgressIsWorkedOn'
  BY <1>1, NoStoreKeeps
<1>3. /\ disp' \in [Tasks -> [Versions -> {"idle", "publish", "published"}]]
      /\ DispatchedExists'
  BY <1>1, <1>2, DispatchMoves, MadeGrows DEF Delivered
<1>4. inbox' \in [Workers -> Seq(Tasks)]
  <2>1. \A w \in Workers : inbox[w] \in Seq(Tasks) /\ Append(inbox[w], t) \in Seq(Tasks)
    BY DEF IInv, TypeOK
  <2> QED
    BY <2>1 DEF Delivered
<1>5. TypeOK'
  BY <1>1, <1>2, <1>3, <1>4 DEF IInv, TypeOK
<1> QED
  BY <1>2, <1>3, <1>5 DEF IInv

LEMMA PublishReturnsKeeps ==
  ASSUME IInv, NEW t \in Tasks, NEW v \in Versions, PublishReturns(t, v)
  PROVE  IInv'
<1>1. UNCHANGED <<storeVars, redis, calls, loop, inbox, working, downs>>
  BY DEF PublishReturns, workerVars
<1>2. StoreTypeOK' /\ InProgressIsWorkedOn'
  BY <1>1, NoStoreKeeps
<1>3. /\ disp' \in [Tasks -> [Versions -> {"idle", "publish", "published"}]]
      /\ DispatchedExists'
  BY <1>1, <1>2, DispatchMoves, MadeGrows DEF PublishReturns
<1>4. TypeOK'
  BY <1>1, <1>2, <1>3 DEF IInv, TypeOK
<1> QED
  BY <1>2, <1>3, <1>4 DEF IInv

LEMMA PublishRaisesKeeps ==
  ASSUME IInv, NEW t \in Tasks, NEW v \in Versions, PublishRaises(t, v)
  PROVE  IInv'
<1>1. TypeOK /\ v <= made[t] /\ disp[t][v] # "idle"
  BY DEF IInv, DispatchedExists, PublishRaises
<1>2. UNCHANGED <<redis, calls, loop, inbox, working, downs>>
  BY DEF PublishRaises, workerVars
<1>3. PICK o \in TaskDefinition : Stores(t, v, o) /\ o.status = "FAILED"
  BY <1>1, StoreEffect DEF PublishRaises
<1>4. /\ disp' \in [Tasks -> [Versions -> {"idle", "publish", "published"}]]
      /\ DispatchedExists'
  BY <1>1, <1>3, DispatchMoves DEF PublishRaises, Stores
<1>5. TypeOK'
  BY <1>1, <1>2, <1>3, <1>4 DEF TypeOK, Stores
<1>6. InProgressIsWorkedOn'
  BY <1>1, <1>2, <1>3, OthersWork, StoresKeeps
<1> QED
  BY <1>4, <1>5, <1>6 DEF IInv

LEMMA DispUnchanged ==
  ASSUME IInv, UNCHANGED <<storeVars, disp>>
  PROVE  DispatchedExists'
BY DEF IInv, DispatchedExists, storeVars

LEMMA OrchestratorTogglesKeeps ==
  ASSUME IInv, OrchestratorToggles
  PROVE  IInv'
<1>1. UNCHANGED <<storeVars, disp, calls, loop, inbox, working, downs>>
  BY DEF OrchestratorToggles, workerVars
<1>2. StoreTypeOK' /\ InProgressIsWorkedOn' /\ DispatchedExists'
  BY <1>1, NoStoreKeeps, DispUnchanged
<1>3. redis' \in BOOLEAN
  BY DEF OrchestratorToggles
<1>4. TypeOK'
  BY <1>1, <1>2, <1>3 DEF IInv, TypeOK
<1> QED
  BY <1>2, <1>4 DEF IInv

LEMMA WorkerStartsKeeps ==
  ASSUME IInv, NEW w \in Workers, WorkerStarts(w)
  PROVE  IInv'
<1>1. UNCHANGED <<storeVars, redis, disp, calls, inbox, working, downs>>
  BY DEF WorkerStarts, agentVars
<1>2. StoreTypeOK' /\ InProgressIsWorkedOn' /\ DispatchedExists'
  BY <1>1, NoStoreKeeps, DispUnchanged
<1>3. /\ loop' \in [Workers -> {"off", "listening", "executing"}]
      /\ \A x \in Workers : loop'[x] = "executing" <=> loop[x] = "executing"
  BY DEF IInv, TypeOK, WorkerStarts
<1>4. TypeOK'
  BY <1>1, <1>2, <1>3 DEF IInv, TypeOK
<1> QED
  BY <1>2, <1>4 DEF IInv

LEMMA WorkerStopsKeeps ==
  ASSUME IInv, NEW w \in Workers, WorkerStops(w)
  PROVE  IInv'
<1>1. UNCHANGED <<storeVars, redis, disp, calls>>
  BY DEF WorkerStops, agentVars
<1>2. /\ downs' \in [Workers -> 0..MaxDowns] /\ downs'[w] > 0
      /\ \A x \in Workers \ {w} : downs'[x] = downs[x]
  <2>1. /\ downs \in [Workers -> 0..MaxDowns] /\ downs[w] < MaxDowns
        /\ downs' = [downs EXCEPT ![w] = downs[w] + 1] /\ MaxDowns \in Nat
    BY DirectDispatchAssumption DEF IInv, TypeOK, WorkerStops
  <2>2. downs[w] + 1 \in 0..MaxDowns /\ downs[w] + 1 > 0
    BY <2>1
  <2> QED BY <2>1, <2>2
<1>3. /\ working' \in [Workers -> Tasks \union {NoTask}] /\ working'[w] = NoTask
      /\ loop' \in [Workers -> {"off", "listening", "executing"}] /\ loop'[w] = "off"
      /\ \A x \in Workers \ {w} : working'[x] = working[x] /\ loop'[x] = loop[x]
  BY DEF IInv, TypeOK, WorkerStops
<1>4. inbox' \in [Workers -> Seq(Tasks)]
  BY DEF IInv, TypeOK, WorkerStops
<1>5. StoreTypeOK' /\ InProgressIsWorkedOn' /\ DispatchedExists'
  BY <1>1, <1>2, <1>3, NoStoreKeeps, DispUnchanged
<1>6. \A x \in Workers : loop'[x] = "executing" <=> working'[x] # NoTask
  BY <1>3 DEF IInv, TypeOK
<1>7. TypeOK'
  BY <1>1, <1>2, <1>3, <1>4, <1>5, <1>6 DEF IInv, TypeOK
<1> QED
  BY <1>5, <1>7 DEF IInv

LEMMA TakeOfferKeeps ==
  ASSUME IInv, NEW w \in Workers, TakeOffer(w)
  PROVE  IInv'
<1> DEFINE t == Head(inbox[w])
<1>1. UNCHANGED <<redis, disp, calls, downs>> /\ loop[w] = "listening"
  BY DEF TakeOffer, agentVars
<1>2. t \in Tasks /\ inbox' \in [Workers -> Seq(Tasks)]
  <2>1. inbox[w] \in Seq(Tasks) /\ inbox[w] # <<>>
    BY DEF IInv, TypeOK, TakeOffer, HasOffer
  <2>2. t \in Tasks /\ Tail(inbox[w]) \in Seq(Tasks)
    BY <2>1
  <2> QED BY <2>2 DEF IInv, TypeOK, TakeOffer, HasOffer
<1>3. CASE UNCHANGED <<storeVars, loop, working>>
  <2>1. StoreTypeOK' /\ InProgressIsWorkedOn' /\ DispatchedExists'
    BY <1>1, <1>3, NoStoreKeeps, DispUnchanged
  <2>2. TypeOK'
    BY <1>1, <1>2, <1>3, <2>1 DEF IInv, TypeOK
  <2> QED BY <2>1, <2>2 DEF IInv
<1>4. CASE /\ Replace(t, "IN_PROGRESS", w)
           /\ loop' = [loop EXCEPT ![w] = "executing"]
           /\ working' = [working EXCEPT ![w] = t]
  <2> DEFINE o == Updated(t, "IN_PROGRESS", w)
  <2>1. o \in TaskDefinition /\ Stores(t, made[t] + 1, o)
    BY <1>2, <1>4, ReplaceEffect DEF IInv, Status
  <2>2. o.assigned_to = w
    BY DirectDispatchAssumption DEF Updated
  <2>3. /\ working' \in [Workers -> Tasks \union {NoTask}] /\ working'[w] = t
        /\ loop' \in [Workers -> {"off", "listening", "executing"}]
        /\ loop'[w] = "executing" /\ working[w] = NoTask
        /\ \A x \in Workers \ {w} : working'[x] = working[x] /\ loop'[x] = loop[x]
    BY <1>1, <1>2, <1>4 DEF IInv, TypeOK
  <2>4. \A x \in Workers : loop'[x] = "executing" <=> working'[x] # NoTask
    BY <1>2, <2>3, DirectDispatchAssumption DEF IInv, TypeOK
  <2> HIDE DEF t, o
  <2>5. TypeOK'
    BY <1>1, <1>2, <2>1, <2>3, <2>4 DEF IInv, TypeOK, Stores
  <2>6. \A x \in Workers, u \in Tasks \ {t} : working[x] = u => working'[x] = u
    BY <2>3, DirectDispatchAssumption
  <2>7. /\ \A x \in Workers : downs'[x] >= downs[x]
        /\ downs \in [Workers -> Nat] /\ downs' \in [Workers -> Nat]
    <3>1. downs' = downs /\ downs \in [Workers -> Nat]
      BY <1>1, DownsNat DEF IInv
    <3>2. \A x \in Workers : downs[x] \in Nat
      BY <3>1
    <3> QED BY <3>1, <3>2
  <2>8. InProgressIsWorkedOn'
    BY <1>2, <2>1, <2>2, <2>3, <2>6, <2>7, StoresKeeps
  <2>9. DispatchedExists'
    BY <1>1, <2>1, DispatchedKeeps DEF Stores
  <2> QED
    BY <2>5, <2>8, <2>9 DEF IInv
<1> QED
  BY <1>3, <1>4 DEF TakeOffer

LEMMA FinishTaskKeeps ==
  ASSUME IInv, NEW w \in Workers, NEW ok \in BOOLEAN, FinishTask(w, ok)
  PROVE  IInv'
<1> DEFINE t == working[w]
           o == Updated(t, FinalStatus(ok), Keep)
<1>1. UNCHANGED <<redis, disp, calls, inbox, downs>> /\ loop[w] = "executing"
  BY DEF FinishTask, agentVars
<1>2. t \in Tasks
  BY <1>1 DEF IInv, TypeOK
<1>3. FinalStatus(ok) \in {"COMPLETED", "FAILED"}
  BY DEF FinalStatus
<1>4. FinalStatus(ok) \in Status /\ Replace(t, FinalStatus(ok), Keep)
  BY <1>3 DEF FinishTask, Status
<1>5. o \in TaskDefinition /\ Stores(t, made[t] + 1, o)
  BY <1>2, <1>4, ReplaceEffect DEF IInv
<1>6. o.status # "IN_PROGRESS"
  <2>1. FinalStatus(ok) # Keep
    BY <1>4, DirectDispatchAssumption
  <2> QED BY <1>3, <2>1 DEF Updated
<1>7. /\ working' \in [Workers -> Tasks \union {NoTask}] /\ working'[w] = NoTask
      /\ loop' \in [Workers -> {"off", "listening", "executing"}]
      /\ loop'[w] = "listening"
      /\ \A x \in Workers \ {w} : working'[x] = working[x] /\ loop'[x] = loop[x]
  BY DEF IInv, TypeOK, FinishTask
<1>8. \A x \in Workers : loop'[x] = "executing" <=> working'[x] # NoTask
  BY <1>7 DEF IInv, TypeOK
<1>9. \A x \in Workers, u \in Tasks \ {t} : working[x] = u => working'[x] = u
  BY <1>7
<1> HIDE DEF t, o
<1>10. TypeOK'
  BY <1>1, <1>5, <1>7, <1>8 DEF IInv, TypeOK, Stores
<1>11. /\ \A x \in Workers : downs'[x] >= downs[x]
       /\ downs \in [Workers -> Nat] /\ downs' \in [Workers -> Nat]
  <2>1. downs' = downs /\ downs \in [Workers -> Nat]
    BY <1>1, DownsNat DEF IInv
  <2>2. \A x \in Workers : downs[x] \in Nat
    BY <2>1
  <2> QED BY <2>1, <2>2
<1>12. InProgressIsWorkedOn'
  BY <1>2, <1>5, <1>6, <1>9, <1>11, StoresKeeps
<1>13. DispatchedExists'
  BY <1>1, <1>5, DispatchedKeeps DEF Stores
<1> QED
  BY <1>10, <1>12, <1>13 DEF IInv

-----------------------------------------------------------------------------
(* The invariant and its consequences.                                     *)

LEMMA StutterKeeps == IInv /\ UNCHANGED vars => IInv'
<1> SUFFICES ASSUME IInv, UNCHANGED vars PROVE IInv'
  OBVIOUS
<1>1. UNCHANGED <<storeVars, redis, disp, calls, loop, inbox, working, downs>>
  BY DEF vars, agentVars, workerVars
<1>2. StoreTypeOK' /\ InProgressIsWorkedOn' /\ DispatchedExists'
  BY <1>1, NoStoreKeeps, DispUnchanged
<1>3. TypeOK'
  BY <1>1, <1>2 DEF IInv, TypeOK
<1> QED
  BY <1>2, <1>3 DEF IInv

LEMMA NextIInv == IInv /\ [Next]_vars => IInv'
<1> SUFFICES ASSUME IInv, [Next]_vars PROVE IInv'
  OBVIOUS
<1>1. CASE \E t \in Tasks, d \in BOOLEAN : SubmitTask(t, d)
  BY <1>1, SubmitTaskKeeps
<1>2. CASE \E t \in Tasks, s \in CallerStatuses : UpdateTask(t, s)
  BY <1>2, UpdateTaskKeeps
<1>3. CASE \E t \in Tasks, v \in Versions :
             Delivered(t, v) \/ PublishReturns(t, v) \/ PublishRaises(t, v)
  BY <1>3, DeliveredKeeps, PublishReturnsKeeps, PublishRaisesKeeps
<1>4. CASE OrchestratorToggles
  BY <1>4, OrchestratorTogglesKeeps
<1>5. CASE \E w \in Workers : WorkerStarts(w) \/ WorkerStops(w) \/ WorkerStep(w)
  BY <1>5, WorkerStartsKeeps, WorkerStopsKeeps, TakeOfferKeeps, FinishTaskKeeps
     DEF WorkerStep
<1>6. CASE UNCHANGED vars
  BY <1>6, StutterKeeps
<1> QED
  BY <1>1, <1>2, <1>3, <1>4, <1>5, <1>6 DEF Next

LEMMA Invariance == Spec => []IInv
<1> QED
  BY InitIInv, NextIInv, PTL DEF Spec

\* Type correctness of the direct dispatch, the messages in flight included.
THEOREM TypeCorrect == Spec => []TypeOK
<1>1. IInv => TypeOK
  BY DEF IInv
<1> QED
  BY <1>1, Invariance, PTL

\* A task shown IN_PROGRESS is being executed by its assignee, or that worker
\* went down: for every number of tasks, workers, calls and interleavings of
\* claims, reports and failed dispatches.
THEOREM StartedTasksAreWorkedOn == Spec => []InProgressIsWorkedOn
<1>1. IInv => InProgressIsWorkedOn
  BY DEF IInv
<1> QED
  BY <1>1, Invariance, PTL

-----------------------------------------------------------------------------
(* The direct dispatch implements TaskOffers.  Each action is one abstract *)
(* step or a stutter; the invariant is needed where the abstract           *)
(* specification asks for a fresh announcement (a new object was never     *)
(* dispatched) and for an idle worker (a listening worker executes         *)
(* nothing).                                                               *)

Unsent == Dispatches("publish")
Sent == Dispatches("published")

-----------------------------------------------------------------------------
(* How the abstract state changes with the concrete one.                   *)

\* A stored object is what its task is shown as.
LEMMA ShownStores ==
  ASSUME NEW t \in Tasks, NEW v, NEW o, Stores(t, v, o)
  PROVE  Shown' = [Shown EXCEPT ![t] = ShownAs(o.status)]
<1>1. Shown'[t] = ShownAs(o.status)
  BY DEF Shown, Stores, StatusOf
<1>2. \A u \in Tasks \ {t} : Shown'[u] = Shown[u]
  BY DEF Shown, Stores, StatusOf, Submitted
<1> QED
  BY <1>1, <1>2, Zenon DEF Shown

LEMMA ShownUnchanged == ASSUME UNCHANGED storeVars PROVE Shown' = Shown
BY DEF storeVars, Shown, Submitted, StatusOf

LEMMA DispatchesUnchanged ==
  ASSUME UNCHANGED disp PROVE Unsent' = Unsent /\ Sent' = Sent
BY DEF Unsent, Sent, Dispatches

LEMMA HeldUnchanged == ASSUME UNCHANGED inbox PROVE Held' = Held
BY DEF Held, Holds

LEMMA DoingUnchanged == ASSUME UNCHANGED working PROVE Doing' = Doing
BY DEF Doing

\* A dispatch that moves to p is a member of that set only.
LEMMA DispatchesMove ==
  ASSUME TypeOK, NEW t \in Tasks, NEW v \in Versions,
         NEW p \in {"idle", "publish", "published"},
         disp' = [disp EXCEPT ![t][v] = p]
  PROVE  /\ Unsent' = IF p = "publish" THEN Unsent \union {<<t, v>>}
                                       ELSE Unsent \ {<<t, v>>}
         /\ Sent' = IF p = "published" THEN Sent \union {<<t, v>>}
                                       ELSE Sent \ {<<t, v>>}
<1>1. /\ disp'[t][v] = p
      /\ \A u \in Tasks, x \in Versions :
           u # t \/ x # v => disp'[u][x] = disp[u][x]
  <2>1. disp[t] \in [Versions -> {"idle", "publish", "published"}]
    BY DEF TypeOK
  <2>2. disp' = [disp EXCEPT ![t] = [disp[t] EXCEPT ![v] = p]]
    OBVIOUS
  <2> QED BY <2>1, <2>2 DEF TypeOK
<1>2. ASSUME NEW q
      PROVE  Dispatches(q)' = IF p = q THEN Dispatches(q) \union {<<t, v>>}
                                       ELSE Dispatches(q) \ {<<t, v>>}
  <2>1. ASSUME NEW d \in Tasks \X Versions
        PROVE  disp'[d[1]][d[2]] = q <=>
                 (d = <<t, v>> /\ p = q) \/ (d # <<t, v>> /\ disp[d[1]][d[2]] = q)
    BY <1>1
  <2>2. <<t, v>> \in Tasks \X Versions
    OBVIOUS
  <2> QED
    BY <2>1, <2>2 DEF Dispatches
<1> QED
  BY <1>2 DEF Unsent, Sent

\* _process_task_readiness of a new object announces it once or not at all.
LEMMA ReadinessAnnounces ==
  ASSUME IInv, NEW t \in Tasks, made[t] + 1 \in Versions,
         ProcessTaskReadiness(t, made[t] + 1)
  PROVE  Offers!Announces(t) /\ Sent' = Sent
<1> DEFINE v == made[t] + 1
<1>1. CASE disp' = disp
  BY <1>1, DispatchesUnchanged DEF Offers!Announces, Unsent
<1>2. CASE disp' = [disp EXCEPT ![t][v] = "publish"]
  <2>1. disp[t][v] = "idle"
    <3>1. made[t] \in Nat /\ ~(v <= made[t])
      BY VersionsFact DEF IInv, TypeOK, StoreTypeOK
    <3> QED BY <3>1 DEF IInv, DispatchedExists
  <2>2. <<t, v>> \notin Unsent \union Sent
    BY <2>1 DEF Unsent, Sent, Dispatches
  <2>3. Unsent' = Unsent \union {<<t, v>>} /\ Sent' = Sent \ {<<t, v>>}
    BY <1>2, DispatchesMove DEF IInv
  <2> QED
    BY <2>2, <2>3 DEF Offers!Announces, Unsent, Sent
<1> QED
  BY <1>1, <1>2 DEF ProcessTaskReadiness

\* The next message read: the offer is used up, unless there is another one.
LEMMA TakenFromQueue ==
  ASSUME NEW q \in Seq(Tasks), q # <<>>
  PROVE  /\ Head(q) \in Tasks /\ Tail(q) \in Seq(Tasks)
         /\ \E i \in DOMAIN q : q[i] = Head(q)
         /\ \A u \in Tasks \ {Head(q)} :
              (\E i \in DOMAIN Tail(q) : Tail(q)[i] = u) <=> \E i \in DOMAIN q : q[i] = u
<1>1. /\ Head(q) \in Tasks /\ Tail(q) \in Seq(Tasks) /\ Head(q) = q[1]
      /\ Len(q) \in Nat /\ Len(q) >= 1 /\ Len(Tail(q)) = Len(q) - 1
      /\ DOMAIN q = 1..Len(q) /\ DOMAIN Tail(q) = 1..Len(Tail(q))
      /\ \A i \in 1..Len(q) - 1 : Tail(q)[i] = q[i + 1]
  OBVIOUS
<1>2. ASSUME NEW u \in Tasks \ {Head(q)}, NEW i \in DOMAIN q, q[i] = u
      PROVE  \E j \in DOMAIN Tail(q) : Tail(q)[j] = u
  <2>1. i - 1 \in DOMAIN Tail(q) /\ Tail(q)[i - 1] = q[i]
    BY <1>1, <1>2
  <2> QED BY <1>2, <2>1
<1>3. ASSUME NEW u \in Tasks, NEW i \in DOMAIN Tail(q), Tail(q)[i] = u
      PROVE  \E j \in DOMAIN q : q[j] = u
  <2>1. i + 1 \in DOMAIN q /\ Tail(q)[i] = q[i + 1]
    BY <1>1
  <2> QED BY <1>3, <2>1
<1>4. \E i \in DOMAIN q : q[i] = Head(q)
  BY <1>1
<1> QED
  BY <1>1, <1>2, <1>3, <1>4

LEMMA OfferUsedUp ==
  ASSUME TypeOK, NEW w \in Workers, inbox[w] # <<>>,
         inbox' = [inbox EXCEPT ![w] = Tail(@)]
  PROVE  Head(inbox[w]) \in Tasks /\ Offers!UsesUp(w, Head(inbox[w]))
<1> DEFINE q == inbox[w]
           t == Head(q)
           old == [x \in Workers |-> {u \in Tasks : \E i \in DOMAIN inbox[x] : inbox[x][i] = u}]
           new == [x \in Workers |-> {u \in Tasks : \E i \in DOMAIN inbox'[x] : inbox'[x][i] = u}]
<1>1. q \in Seq(Tasks) /\ q # <<>>
  BY DEF TypeOK
<1>2. inbox'[w] = Tail(q) /\ \A x \in Workers \ {w} : inbox'[x] = inbox[x]
  BY DEF TypeOK
<1>3. t \in Tasks /\ t \in old[w]
  <2>1. t \in Tasks /\ \E i \in DOMAIN q : q[i] = t
    BY <1>1, TakenFromQueue
  <2> QED BY <2>1
<1>4. \A x \in Workers \ {w} : new[x] = old[x]
  BY <1>2
<1>5. \A u \in Tasks \ {t} : u \in new[w] <=> u \in old[w]
  <2>1. \A u \in Tasks \ {t} :
          (\E i \in DOMAIN Tail(q) : Tail(q)[i] = u) <=> \E i \in DOMAIN q : q[i] = u
    <3> HIDE DEF q
    <3> QED BY <1>1, TakenFromQueue
  <2>2. \A u \in Tasks : u \in new[w] <=> \E i \in DOMAIN Tail(q) : Tail(q)[i] = u
    BY <1>2
  <2>3. \A u \in Tasks : u \in old[w] <=> \E i \in DOMAIN q : q[i] = u
    OBVIOUS
  <2> HIDE DEF q, old, new
  <2> QED BY <2>1, <2>2, <2>3
<1>6. /\ Held = {o \in Workers \X Tasks : o[2] \in old[o[1]]}
      /\ Held' = {o \in Workers \X Tasks : o[2] \in new[o[1]]}
  BY DEF Held, Holds
<1> HIDE DEF q, t, old, new
<1>7. <<w, t>> \in Held
  BY <1>3, <1>6
<1>8. \A o \in Workers \X Tasks : o # <<w, t>> => (o \in Held' <=> o \in Held)
  BY <1>4, <1>5, <1>6
<1>9. Held \subseteq Workers \X Tasks /\ Held' \subseteq Workers \X Tasks
  BY <1>6
<1>10. Held' \in {Held, Held \ {<<w, t>>}}
  <2> SUFFICES ASSUME NEW A, NEW B, A = Held, B = Held', <<w, t>> \in A,
                      A \subseteq Workers \X Tasks, B \subseteq Workers \X Tasks,
                      \A o \in Workers \X Tasks : o # <<w, t>> => (o \in B <=> o \in A)
               PROVE  B \in {A, A \ {<<w, t>>}}
    BY <1>7, <1>8, <1>9
  <2>1. CASE <<w, t>> \in B
    <3>1. \A o : o \in B <=> o \in A
      BY <2>1
    <3>2. B = A
      BY <3>1
    <3> QED BY <3>2
  <2>2. CASE <<w, t>> \notin B
    <3>1. \A o : o \in B <=> o \in A \ {<<w, t>>}
      BY <2>2
    <3>2. B = A \ {<<w, t>>}
      BY <3>1
    <3> QED BY <3>2
  <2> QED BY <2>1, <2>2
<1> QED
  BY <1>3, <1>7, <1>10 DEF Offers!UsesUp, Held, q, t

-----------------------------------------------------------------------------
(* One lemma per action: the abstract step it is.                          *)

LEMMA SubmitIsChange ==
  ASSUME IInv, NEW t \in Tasks, NEW d \in BOOLEAN, SubmitTask(t, d)
  PROVE  Offers!Change(t, IF d THEN "waiting" ELSE "open")
<1> DEFINE o == [status |-> IF d THEN "PENDING" ELSE "READY", assigned_to |-> NoWorker]
           s == IF d THEN "waiting" ELSE "open"
<1>1. TypeOK /\ StoreTypeOK
  BY DEF IInv, TypeOK
<1>2. o \in TaskDefinition /\ ShownAs(o.status) = s
  BY DEF TaskDefinition, Status, ShownAs
<1>3. /\ made[t] = 0 /\ made[t] + 1 = 1 /\ made[t] <= MaxUpdates
      /\ obj' = [obj EXCEPT ![t][made[t] + 1] = o]
      /\ made' = [made EXCEPT ![t] = made[t] + 1]
      /\ cur' = [cur EXCEPT ![t] = made[t] + 1]
  BY VersionsFact DEF SubmitTask, Create
<1>4. Shown[t] = "none"
  BY <1>1, <1>3 DEF StoreTypeOK, Shown, Submitted
<1> HIDE DEF o
<1>5. Stores(t, 1, o)
  BY <1>1, <1>2, <1>3, NewObjectEffect
<1>6. Shown' = [Shown EXCEPT ![t] = s]
  BY <1>2, <1>5, ShownStores
<1>7. Held' = Held /\ Doing' = Doing
  BY HeldUnchanged, DoingUnchanged DEF SubmitTask, workerVars
<1>8. CASE d
  <2>1. Unsent' = Unsent /\ Sent' = Sent
    BY <1>8, DispatchesUnchanged DEF SubmitTask
  <2> QED BY <1>4, <1>6, <1>7, <1>8, <2>1 DEF Offers!Change, Unsent, Sent
<1>9. CASE ~d
  <2>1. Offers!Announces(t) /\ Sent' = Sent
    BY <1>3, <1>9, VersionsFact, ReadinessAnnounces DEF SubmitTask
  <2> QED BY <1>4, <1>6, <1>7, <1>9, <2>1 DEF Offers!Change, Sent
<1> QED
  BY <1>8, <1>9

\* Nothing an abstract client can see.
Stutters ==
  Shown' = Shown /\ Unsent' = Unsent /\ Sent' = Sent /\ Held' = Held /\ Doing' = Doing

LEMMA UpdateIsChange ==
  ASSUME IInv, NEW t \in Tasks, NEW s \in CallerStatuses, UpdateTask(t, s)
  PROVE  Stutters \/ \E z \in Offers!Shown : Offers!Change(t, z)
<1> DEFINE o == Updated(t, s, Keep)
           z == ShownAs(o.status)
<1>1. TypeOK /\ StoreTypeOK /\ Submitted(t)
  BY DEF IInv, TypeOK, UpdateTask, Replace
<1>2. s \in Status \union {Keep} /\ s # "IN_PROGRESS" /\ Keep \notin Status
  BY DirectDispatchAssumption DEF Status
<1>3. made[t] + 1 \in Versions /\ Stores(t, made[t] + 1, o)
  BY <1>1, <1>2, ReplaceEffect DEF UpdateTask
<1>4. Shown' = [Shown EXCEPT ![t] = z] /\ Shown[t] = ShownAs(StatusOf(t))
  BY <1>1, <1>3, ShownStores DEF Shown
<1>5. Held' = Held /\ Doing' = Doing
  BY HeldUnchanged, DoingUnchanged DEF UpdateTask, workerVars
<1>6. o.status = IF s = Keep THEN StatusOf(t) ELSE s
  BY DEF Updated
<1>7. CASE s = "READY" /\ StatusOf(t) # "READY"
  <2>1. Offers!Announces(t) /\ Sent' = Sent
    BY <1>3, <1>7, ReadinessAnnounces DEF UpdateTask
  <2>2. z = "open" /\ Shown[t] # "open"
    BY <1>2, <1>4, <1>6, <1>7 DEF ShownAs, Status
  <2>3. Offers!Change(t, "open")
    BY <1>4, <1>5, <2>1, <2>2 DEF Offers!Change, Sent
  <2> QED BY <2>3 DEF Offers!Shown
<1>8. CASE ~(s = "READY" /\ StatusOf(t) # "READY")
  <2>1. Unsent' = Unsent /\ Sent' = Sent
    <3>1. UNCHANGED disp
      BY <1>8 DEF UpdateTask
    <3> QED BY <3>1, DispatchesUnchanged
  <2>2. CASE z = Shown[t]
    <3>1. Shown' = Shown
      BY <1>4, <2>2 DEF Shown
    <3> QED BY <1>5, <2>1, <3>1 DEF Stutters
  <2>3. CASE z # Shown[t]
    <3>1. s # Keep /\ z \in Offers!Shown \ {"none", "busy"} /\ z # "open"
      BY <1>2, <1>4, <1>6, <1>8, <2>3, DirectDispatchAssumption
         DEF ShownAs, Offers!Shown, Status
    <3>2. Offers!Change(t, z)
      BY <1>4, <1>5, <2>1, <2>3, <3>1 DEF Offers!Change, Unsent, Sent
    <3> QED BY <3>1, <3>2
  <2> QED BY <2>2, <2>3
<1> QED
  BY <1>7, <1>8

\* The broadcast reaches those who are subscribed.
LEMMA DeliveredIsSend ==
  ASSUME IInv, NEW t \in Tasks, NEW v \in Versions, Delivered(t, v)
  PROVE  \E W \in SUBSET Workers : Offers!Send(t, v, W)
<1> DEFINE W == {w \in Workers : loop[w] # "off" /\ WorkerChannel = DispatchChannel}
<1>1. TypeOK
  BY DEF IInv
<1>2. Shown' = Shown /\ Doing' = Doing
  BY ShownUnchanged, DoingUnchanged DEF Delivered
<1>3. /\ Unsent' = Unsent \ {<<t, v>>} /\ Sent' = Sent \union {<<t, v>>}
      /\ <<t, v>> \in Unsent
  BY <1>1, DispatchesMove DEF Delivered, Unsent, Dispatches
<1>4. Held' = Held \union (W \X {t})
  <2> DEFINE old == [x \in Workers |-> {u \in Tasks : \E i \in DOMAIN inbox[x] : inbox[x][i] = u}]
             new == [x \in Workers |-> {u \in Tasks : \E i \in DOMAIN inbox'[x] : inbox'[x][i] = u}]
  <2>1. ASSUME NEW x \in Workers
        PROVE  new[x] = IF x \in W THEN old[x] \union {t} ELSE old[x]
    <3>1. CASE x \in W
      <4>1. inbox'[x] = Append(inbox[x], t) /\ inbox[x] \in Seq(Tasks)
        BY <1>1, <3>1 DEF TypeOK, Delivered
      <4>2. ASSUME NEW s \in Seq(Tasks), NEW u
            PROVE  (\E i \in DOMAIN Append(s, t) : Append(s, t)[i] = u)
                     <=> u = t \/ \E i \in DOMAIN s : s[i] = u
        <5>1. /\ Len(s) \in Nat /\ DOMAIN s = 1..Len(s)
              /\ DOMAIN Append(s, t) = 1..(Len(s) + 1)
              /\ Append(s, t)[Len(s) + 1] = t
              /\ \A i \in 1..Len(s) : Append(s, t)[i] = s[i]
          OBVIOUS
        <5>2. \A i \in 1..(Len(s) + 1) : i \in 1..Len(s) \/ i = Len(s) + 1
          BY <5>1
        <5>3. Len(s) + 1 \in 1..(Len(s) + 1) /\ 1..Len(s) \subseteq 1..(Len(s) + 1)
          BY <5>1
        <5> QED BY <5>1, <5>2, <5>3
      <4>3. \A u \in Tasks : (\E i \in DOMAIN inbox'[x] : inbox'[x][i] = u)
                              <=> u = t \/ \E i \in DOMAIN inbox[x] : inbox[x][i] = u
        <5>1. \A u \in Tasks :
                (\E i \in DOMAIN Append(inbox[x], t) : Append(inbox[x], t)[i] = u)
                  <=> u = t \/ \E i \in DOMAIN inbox[x] : inbox[x][i] = u
          BY <4>1, <4>2, Zenon
        <5> QED BY <4>1, <5>1, Zenon
      <4> QED BY <3>1, <4>3
    <3>2. CASE x \notin W
      <4>1. inbox'[x] = inbox[x]
        BY <3>2 DEF Delivered
      <4> QED BY <3>2, <4>1
    <3> QED BY <3>1, <3>2
  <2>2. /\ Held = {o \in Workers \X Tasks : o[2] \in old[o[1]]}
        /\ Held' = {o \in Workers \X Tasks : o[2] \in new[o[1]]}
    BY DEF Held, Holds
  <2>3. W \subseteq Workers
    OBVIOUS
  <2> HIDE DEF W, old, new
  <2> QED BY <2>1, <2>2, <2>3
<1>5. W \in SUBSET Workers
  OBVIOUS
<1> HIDE DEF W
<1>6. Offers!Send(t, v, W)
  BY <1>2, <1>3, <1>4 DEF Offers!Send, Unsent, Sent
<1> QED
  BY <1>5, <1>6

LEMMA PublishEndsIsSettle ==
  ASSUME IInv, NEW t \in Tasks, NEW v \in Versions,
         PublishReturns(t, v) \/ PublishRaises(t, v)
  PROVE  \E failed \in BOOLEAN : Offers!Settle(t, v, failed)
<1>1. TypeOK /\ disp' = [disp EXCEPT ![t][v] = "idle"]
  BY DEF IInv, PublishReturns, PublishRaises
<1>2. /\ Unsent' = Unsent \ {<<t, v>>} /\ Sent' = Sent \ {<<t, v>>}
  BY <1>1, DispatchesMove
<1>3. Held' = Held /\ Doing' = Doing
  BY HeldUnchanged, DoingUnchanged DEF PublishReturns, PublishRaises, workerVars
<1>4. CASE PublishReturns(t, v)
  <2>1. Shown' = Shown /\ <<t, v>> \in Sent
    BY <1>4, ShownUnchanged DEF PublishReturns, Sent, Dispatches
  <2>2. Offers!Settle(t, v, FALSE)
    BY <1>2, <1>3, <2>1 DEF Offers!Settle, Unsent, Sent
  <2> QED BY <2>2
<1>5. CASE PublishRaises(t, v)
  <2>1. v <= made[t] /\ disp[t][v] \in {"publish", "published"}
    BY <1>1, <1>5 DEF IInv, DispatchedExists, TypeOK, PublishRaises
  <2>2. <<t, v>> \in Unsent \union Sent
    BY <2>1 DEF Unsent, Sent, Dispatches
  <2>3. PICK o \in TaskDefinition : Stores(t, v, o) /\ o.status = "FAILED"
    BY <1>1, <1>5, <2>1, StoreEffect DEF PublishRaises
  <2>4. Shown' = [Shown EXCEPT ![t] = "ended"]
    BY <2>3, ShownStores DEF ShownAs
  <2>5. Offers!Settle(t, v, TRUE)
    BY <1>2, <1>3, <2>2, <2>4 DEF Offers!Settle, Unsent, Sent
  <2> QED BY <2>5
<1> QED
  BY <1>4, <1>5

\* A worker reads its next message: it declines or begins.
LEMMA TakeIsDeclineOrBegin ==
  ASSUME IInv, NEW w \in Workers, TakeOffer(w)
  PROVE  \E t \in Tasks : Offers!Decline(w, t) \/ Offers!Begin(w, t)
<1> DEFINE t == Head(inbox[w])
<1>1. TypeOK /\ inbox[w] # <<>> /\ loop[w] = "listening"
  BY DEF IInv, TakeOffer, HasOffer
<1>2. t \in Tasks /\ Offers!UsesUp(w, t)
  BY <1>1, OfferUsedUp DEF TakeOffer
<1>3. Unsent' = Unsent /\ Sent' = Sent
  BY DispatchesUnchanged DEF TakeOffer, agentVars
<1>4. CASE UNCHANGED <<storeVars, loop, working>>
  <2>1. Shown' = Shown /\ Doing' = Doing
    BY <1>4, ShownUnchanged, DoingUnchanged
  <2>2. Offers!Decline(w, t)
    BY <1>2, <1>3, <2>1 DEF Offers!Decline, Unsent, Sent
  <2> QED BY <1>2, <2>2
<1>5. CASE Replace(t, "IN_PROGRESS", w) /\ working' = [working EXCEPT ![w] = t]
  <2> DEFINE o == Updated(t, "IN_PROGRESS", w)
  <2>1. Stores(t, made[t] + 1, o)
    BY <1>1, <1>2, <1>5, ReplaceEffect DEF Status
  <2>2. o.status = "IN_PROGRESS"
    BY DirectDispatchAssumption DEF Updated, Status
  <2>3. Shown' = [Shown EXCEPT ![t] = "busy"]
    <3>1. ShownAs(o.status) = "busy"
      BY <2>2 DEF ShownAs
    <3> HIDE DEF t, o
    <3> QED BY <1>2, <2>1, <3>1, ShownStores
  <2>4. working[w] = NoTask /\ NoTask \notin Tasks
    BY <1>1, DirectDispatchAssumption DEF TypeOK
  <2> HIDE DEF t, o
  <2>5. Doing' = Doing \union {<<w, t>>}
    <3>1. \A x \in Workers : working'[x] = IF x = w THEN t ELSE working[x]
      BY <1>1, <1>5 DEF TypeOK
    <3> QED BY <1>2, <2>4, <3>1 DEF Doing
  <2>6. Offers!Idle(w)
    BY <2>4 DEF Offers!Idle, Doing
  <2>7. Offers!Begin(w, t)
    BY <1>2, <1>3, <2>3, <2>5, <2>6 DEF Offers!Begin, Unsent, Sent
  <2> QED BY <1>2, <2>7
<1> QED
  BY <1>4, <1>5 DEF TakeOffer

LEMMA FinishIsEnd ==
  ASSUME IInv, NEW w \in Workers, NEW ok \in BOOLEAN, FinishTask(w, ok)
  PROVE  \E t \in Tasks : Offers!End(w, t)
<1> DEFINE t == working[w]
           o == Updated(t, FinalStatus(ok), Keep)
<1>1. TypeOK /\ t \in Tasks
  BY DEF IInv, TypeOK, FinishTask
<1>2. FinalStatus(ok) \in {"COMPLETED", "FAILED"} /\ FinalStatus(ok) \in Status
  BY DEF FinalStatus, Status
<1>3. Stores(t, made[t] + 1, o)
  BY <1>1, <1>2, ReplaceEffect DEF FinishTask
<1>4. o.status = FinalStatus(ok)
  BY <1>2, DirectDispatchAssumption DEF Updated
<1>5. Shown' = [Shown EXCEPT ![t] = "ended"]
  <2>1. ShownAs(o.status) = "ended"
    BY <1>2, <1>4 DEF ShownAs
  <2> HIDE DEF t, o
  <2> QED BY <1>1, <1>3, <2>1, ShownStores
<1>6. Unsent' = Unsent /\ Sent' = Sent /\ Held' = Held
  BY DispatchesUnchanged, HeldUnchanged DEF FinishTask, agentVars
<1>7. Doing' = Doing \ {<<w, t>>} /\ <<w, t>> \in Doing
  <2>1. \A x \in Workers : working'[x] = IF x = w THEN NoTask ELSE working[x]
    BY <1>1 DEF TypeOK, FinishTask
  <2>2. NoTask \notin Tasks
    BY DirectDispatchAssumption
  <2> QED BY <1>1, <2>1, <2>2 DEF Doing
<1> HIDE DEF t, o
<1>8. Offers!End(w, t)
  BY <1>5, <1>6, <1>7 DEF Offers!End, Unsent, Sent
<1> QED
  BY <1>1, <1>8

LEMMA StopIsVanish ==
  ASSUME IInv, NEW w \in Workers, WorkerStops(w)
  PROVE  Offers!Vanish(w)
<1>1. TypeOK
  BY DEF IInv
<1>2. Shown' = Shown /\ Unsent' = Unsent /\ Sent' = Sent
  BY ShownUnchanged, DispatchesUnchanged DEF WorkerStops, agentVars
<1>3. Held' = Held \ ({w} \X Tasks)
  <2>1. \A x \in Workers : inbox'[x] = IF x = w THEN <<>> ELSE inbox[x]
    BY <1>1 DEF TypeOK, WorkerStops
  <2>2. DOMAIN <<>> = {}
    OBVIOUS
  <2> QED BY <2>1, <2>2 DEF Held, Holds
<1>4. Doing' = Doing \ ({w} \X Tasks)
  <2>1. \A x \in Workers : working'[x] = IF x = w THEN NoTask ELSE working[x]
    BY <1>1 DEF TypeOK, WorkerStops
  <2>2. NoTask \notin Tasks
    BY DirectDispatchAssumption
  <2> QED BY <2>1, <2>2 DEF Doing
<1> QED
  BY <1>2, <1>3, <1>4 DEF Offers!Vanish, Unsent, Sent

-----------------------------------------------------------------------------
(* The theorem.                                                            *)

LEMMA InitImplements == Init => Offers!Init
<1> SUFFICES ASSUME Init PROVE Offers!Init
  OBVIOUS
<1>1. Shown = [t \in Tasks |-> "none"]
  BY DEF Init, StoreInit, Shown, Submitted
<1>2. Unsent = {} /\ Sent = {}
  BY DEF Init, Unsent, Sent, Dispatches
<1>3. Held = {}
  <2>1. DOMAIN <<>> = {}
    OBVIOUS
  <2> QED BY <2>1 DEF Init, Held, Holds
<1>4. Doing = {}
  BY DirectDispatchAssumption DEF Init, Doing
<1> QED
  BY <1>1, <1>2, <1>3, <1>4 DEF Offers!Init, Unsent, Sent

LEMMA StepImplements == IInv /\ [Next]_vars => [Offers!Next]_(Offers!vars)
<1> SUFFICES ASSUME IInv, [Next]_vars PROVE Offers!Next \/ Stutters
  BY DEF Stutters, Offers!vars, Unsent, Sent
<1>1. CASE \E t \in Tasks, d \in BOOLEAN : SubmitTask(t, d)
  <2>1. PICK t \in Tasks, d \in BOOLEAN : SubmitTask(t, d)
    BY <1>1
  <2>2. Offers!Change(t, IF d THEN "waiting" ELSE "open")
    BY <2>1, SubmitIsChange
  <2>3. (IF d THEN "waiting" ELSE "open") \in Offers!Shown
    BY DEF Offers!Shown
  <2> QED BY <2>2, <2>3 DEF Offers!Next
<1>2. CASE \E t \in Tasks, s \in CallerStatuses : UpdateTask(t, s)
  BY <1>2, UpdateIsChange DEF Offers!Next
<1>3. CASE \E t \in Tasks, v \in Versions :
             Delivered(t, v) \/ PublishReturns(t, v) \/ PublishRaises(t, v)
  BY <1>3, DeliveredIsSend, PublishEndsIsSettle DEF Offers!Next
<1>4. CASE UNCHANGED <<storeVars, disp, inbox, working>>
  BY <1>4, ShownUnchanged, DispatchesUnchanged, HeldUnchanged, DoingUnchanged
     DEF Stutters
<1>5. CASE OrchestratorToggles \/ UNCHANGED vars
  BY <1>4, <1>5 DEF OrchestratorToggles, vars, agentVars, workerVars
<1>6. CASE \E w \in Workers : WorkerStarts(w) \/ WorkerStops(w) \/ WorkerStep(w)
  <2>1. PICK w \in Workers : WorkerStarts(w) \/ WorkerStops(w) \/ WorkerStep(w)
    BY <1>6
  <2>2. CASE WorkerStarts(w)
    BY <1>4, <2>2 DEF WorkerStarts, agentVars
  <2>3. CASE WorkerStops(w)
    BY <2>3, StopIsVanish DEF Offers!Next
  <2>4. CASE WorkerStep(w)
    BY <2>4, TakeIsDeclineOrBegin, FinishIsEnd DEF Offers!Next, WorkerStep
  <2> QED BY <2>1, <2>2, <2>3, <2>4
<1> QED
  BY <1>1, <1>2, <1>3, <1>5, <1>6 DEF Next

\* The direct dispatch implements TaskOffers: work is announced at most once
\* each time its task becomes READY, begun only by a worker that was offered
\* it, and every execution that ends is shown.
THEOREM DispatchImplementsOffers == Spec => ImplementsTaskOffers
<1> QED
  BY InitImplements, StepImplements, Invariance, PTL
     DEF Spec, ImplementsTaskOffers, Offers!Spec

=============================================================================
