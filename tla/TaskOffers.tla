----------------------------- MODULE TaskOffers -----------------------------
(***************************************************************************)
(* What handing out work by broadcast promises, whatever objects, queues   *)
(* and calls carry it: work is announced when a task becomes open and at   *)
(* no other time, a worker begins only what was offered to it, a task is   *)
(* shown busy only by a worker that begins it, and a worker that gets to   *)
(* the end of a task shows it.  A worker may vanish at any time with its   *)
(* offers and its work; a claim is not exclusive.                          *)
(***************************************************************************)
CONSTANTS
  Tasks,
  Workers,
  Rounds    \* names for the announcements of a task

VARIABLES
  shown,    \* shown[t]: what a task looks like to its clients
  unsent,   \* <<t, r>>: announcements that have reached nobody yet
  sent,     \* <<t, r>>: announcements whose sender does not know of it yet
  offers,   \* <<w, t>>: w holds an announcement of t
  doing     \* <<w, t>>: w executes t

vars == <<shown, unsent, sent, offers, doing>>

Shown == {"none", "waiting", "open", "busy", "ended"}

Init ==
  /\ shown = [t \in Tasks |-> "none"]
  /\ unsent = {} /\ sent = {} /\ offers = {} /\ doing = {}

Idle(w) == \A t \in Tasks : <<w, t>> \notin doing

\* A task is announced once when it becomes open, or not at all when there
\* is nothing to announce it with.
Announces(t) ==
  \/ UNCHANGED unsent
  \/ \E r \in Rounds :
       <<t, r>> \notin unsent \union sent /\ unsent' = unsent \union {<<t, r>>}

\* A client submits a task or changes it; it cannot make it busy.
Change(t, s) ==
  /\ s \notin {"none", "busy"} /\ s # shown[t]
  /\ shown' = [shown EXCEPT ![t] = s]
  /\ IF s = "open" THEN Announces(t) ELSE UNCHANGED unsent
  /\ UNCHANGED <<sent, offers, doing>>

\* An announcement reaches some workers, once.
Send(t, r, W) ==
  /\ <<t, r>> \in unsent
  /\ unsent' = unsent \ {<<t, r>>} /\ sent' = sent \union {<<t, r>>}
  /\ offers' = offers \union (W \X {t})
  /\ UNCHANGED <<shown, doing>>

\* The sender knows: a failure ends the task.
Settle(t, r, failed) ==
  /\ <<t, r>> \in IF failed THEN unsent \union sent ELSE sent
  /\ unsent' = unsent \ {<<t, r>>} /\ sent' = sent \ {<<t, r>>}
  /\ shown' = IF failed THEN [shown EXCEPT ![t] = "ended"] ELSE shown
  /\ UNCHANGED <<offers, doing>>

\* The offer is gone unless the worker holds another one of the same task.
UsesUp(w, t) ==
  <<w, t>> \in offers /\ offers' \in {offers, offers \ {<<w, t>>}}

Decline(w, t) == UsesUp(w, t) /\ UNCHANGED <<shown, unsent, sent, doing>>

Begin(w, t) ==
  /\ Idle(w) /\ UsesUp(w, t)
  /\ doing' = doing \union {<<w, t>>}
  /\ shown' = [shown EXCEPT ![t] = "busy"]
  /\ UNCHANGED <<unsent, sent>>

End(w, t) ==
  /\ <<w, t>> \in doing
  /\ doing' = doing \ {<<w, t>>}
  /\ shown' = [shown EXCEPT ![t] = "ended"]
  /\ UNCHANGED <<unsent, sent, offers>>

Vanish(w) ==
  /\ offers' = offers \ ({w} \X Tasks) /\ doing' = doing \ ({w} \X Tasks)
  /\ UNCHANGED <<shown, unsent, sent>>

Next ==
  \/ \E t \in Tasks, s \in Shown : Change(t, s)
  \/ \E t \in Tasks, r \in Rounds, W \in SUBSET Workers : Send(t, r, W)
  \/ \E t \in Tasks, r \in Rounds, failed \in BOOLEAN : Settle(t, r, failed)
  \/ \E w \in Workers, t \in Tasks : Decline(w, t) \/ Begin(w, t) \/ End(w, t)
  \/ \E w \in Workers : Vanish(w)

Spec == Init /\ [][Next]_vars

=============================================================================
