----------------------------- MODULE TaskStore -----------------------------
(***************************************************************************)
(* The task dictionary of TaskOrchestrationAgent and the TaskDefinition    *)
(* objects it points to.  Objects matter: update_task does not change the  *)
(* stored object, it stores a modified copy, while a coroutine that picked *)
(* the earlier object up before an await goes on assigning to that one and *)
(* stores it again with self.tasks[id] = task.                             *)
(***************************************************************************)
EXTENDS Integers

CONSTANTS
  Tasks,       \* task ids
  Workers,     \* agent ids that may appear in assigned_to
  NoWorker,    \* assigned_to is None
  Keep,        \* a field the update request leaves unset
  MaxUpdates   \* bound: calls of update_task per task

ASSUME StoreAssumption ==
  /\ MaxUpdates \in Nat
  /\ NoWorker \notin Workers

VARIABLES
  obj,    \* obj[t][v]: the v-th TaskDefinition object made for t
  made,   \* made[t]: how many objects were made for t
  cur     \* cur[t]: the object tasks[t] refers to, 0 before submission

storeVars == <<obj, made, cur>>

Status == {"PENDING", "READY", "CFP_ISSUED", "EVALUATING_BIDS", "AWARDED",
           "IN_PROGRESS", "COMPLETED", "FAILED", "CANCELLED", "BIDDING_FAILED"}

\* The list the handlers compare a status with before they overwrite it.
Final == {"COMPLETED", "FAILED", "CANCELLED"}

TaskDefinition == [status : Status, assigned_to : Workers \union {NoWorker}]

\* One object from submit_task and one from every update_task.
Versions == 1..(MaxUpdates + 1)

StoreTypeOK ==
  /\ obj \in [Tasks -> [Versions -> TaskDefinition]]
  /\ made \in [Tasks -> 0..(MaxUpdates + 1)]
  /\ cur \in [Tasks -> 0..(MaxUpdates + 1)]
  /\ \A t \in Tasks : cur[t] <= made[t] /\ (cur[t] = 0 <=> made[t] = 0)

StoreInit ==
  /\ obj = [t \in Tasks |-> [v \in Versions |->
              [status |-> "PENDING", assigned_to |-> NoWorker]]]
  /\ made = [t \in Tasks |-> 0]
  /\ cur = [t \in Tasks |-> 0]

-----------------------------------------------------------------------------

Submitted(t) == cur[t] # 0

\* tasks[t].status; meaningful once t is submitted.
StatusOf(t) == obj[t][cur[t]].status

\* task.status = s; self.tasks[t] = task, on the object the coroutine holds.
Store(t, v, s) ==
  /\ obj' = [obj EXCEPT ![t][v].status = s]
  /\ cur' = [cur EXCEPT ![t] = v]
  /\ UNCHANGED made

\* The same with an assignment of assigned_to.
StoreAssigned(t, v, s, w) ==
  /\ obj' = [obj EXCEPT ![t][v] = [status |-> s, assigned_to |-> w]]
  /\ cur' = [cur EXCEPT ![t] = v]
  /\ UNCHANGED made

\* Mutant of FailUnlessFinal: the handler only logs.
LeaveStatus(t) == UNCHANGED storeVars

\* if task and task.status not in [...]: the guarded overwrite with FAILED.
FailUnlessFinal(t) ==
  IF StatusOf(t) \in Final THEN UNCHANGED storeVars
                           ELSE Store(t, cur[t], "FAILED")

\* submit_task: the first object, READY at once when it has no dependency.
Create(t, hasDependencies) ==
  /\ made[t] = 0
  /\ obj' = [obj EXCEPT ![t][1] =
               [status |-> IF hasDependencies THEN "PENDING" ELSE "READY",
                assigned_to |-> NoWorker]]
  /\ made' = [made EXCEPT ![t] = 1]
  /\ cur' = [cur EXCEPT ![t] = 1]

\* Mutant of Updated: the unset fields of the request are copied too.
UpdatedWithUnset(t, s, w) == [status |-> s, assigned_to |-> w]

\* The object update_task makes: task.copy(update = ...) with the set fields.
Updated(t, s, w) ==
  [status |-> IF s = Keep THEN StatusOf(t) ELSE s,
   assigned_to |-> IF w = Keep THEN obj[t][cur[t]].assigned_to ELSE w]

\* update_task up to its dispatch on the new status; MaxUpdates bounds it.
Replace(t, s, w) ==
  /\ Submitted(t) /\ made[t] <= MaxUpdates
  /\ obj' = [obj EXCEPT ![t][made[t] + 1] = Updated(t, s, w)]
  /\ made' = [made EXCEPT ![t] = made[t] + 1]
  /\ cur' = [cur EXCEPT ![t] = made[t] + 1]

=============================================================================
