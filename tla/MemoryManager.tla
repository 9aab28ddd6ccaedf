---------------------------- MODULE MemoryManager ---------------------------
(***************************************************************************)
(* MemoryManager: the coroutine that watches the memory of the process and *)
(* cleans up under pressure, the periodic one, whose work is not there,    *)
(* callers that ask for a clean-up themselves, and shutdown().  Clean-ups  *)
(* run under _cleanup_lock, an asyncio lock: first come, first served.     *)
(* _eviction_lock is taken only inside it, and _cleanup_tasks stays empty. *)
(***************************************************************************)
EXTENDS Integers, Sequences, FiniteSets

CONSTANTS
  Callers,   \* coroutines that call handle_memory_pressure, once each
  MaxPasses  \* bound: passes of the monitor that find pressure

VARIABLES
  monitor,   \* the await _monitor_memory is suspended in
  periodic,  \* and _periodic_cleanup
  cancelled, \* which of the two has a cancellation under way
  lock,      \* _cleanup_lock: its holder and those who wait for it, in order
  level,     \* level[p]: the pressure p handles
  at,        \* at[p]: the event it is sending, counted along Strategy[level[p]]
  dying,     \* p finishes its clean-up with a CancelledError
  open,      \* clean-ups whose begin was told, and of whose end nothing was sent
  down,      \* shutdown()
  early,     \* those who had asked for a clean-up when it was called
  swallowed, \* the cancellation of the monitor was replaced by another exception
  passes, asked

vars == <<monitor, periodic, cancelled, lock, level, at, dying, open, down, early,
          swallowed, passes, asked>>

-----------------------------------------------------------------------------
(* The events handle_memory_pressure sends at each level, one await each.  *)

CriticalCleanup == <<"pressure", "triggered", "eviction", "completed">>
HighCleanup == <<"pressure", "triggered", "eviction", "completed">>
MediumCleanup == <<"pressure", "triggered", "completed">>
Strategy == [CRITICAL |-> CriticalCleanup, HIGH |-> HighCleanup, MEDIUM |-> MediumCleanup,
             LOW |-> <<"pressure">>]
Levels == DOMAIN Strategy

Handlers == {"monitor"} \union Callers
Holds(p) == lock # <<>> /\ Head(lock) = p
Sends(p, e) == Holds(p) /\ at[p] > 0 /\ Strategy[level[p]][at[p]] = e
Waiting == {lock[i] : i \in 1..Len(lock)}

TypeOK ==
  /\ monitor \in {"none", "usage", "pressure", "sleep", "retry", "ended"}
  /\ periodic \in {"none", "sleep", "retry", "ended"}
  /\ cancelled \in SUBSET {"monitor", "periodic"}
  /\ lock \in Seq(Handlers \union {"shutdown"})
  /\ level \in [Handlers -> Levels] /\ at \in [Handlers -> 0..4]
  /\ dying \in SUBSET Handlers /\ open \in SUBSET Handlers
  /\ down \in {"no", "lock", "gather", "close", "done"} /\ early \in SUBSET Handlers
  /\ swallowed \in BOOLEAN
  /\ passes \in 0..MaxPasses /\ asked \in SUBSET Callers

Init ==
  /\ monitor = "none" /\ periodic = "none" /\ cancelled = {} /\ lock = <<>>
  /\ level = [p \in Handlers |-> "LOW"] /\ at = [p \in Handlers |-> 0]
  /\ dying = {} /\ open = {} /\ down = "no" /\ early = {} /\ swallowed = FALSE
  /\ passes = 0 /\ asked = {}

-----------------------------------------------------------------------------
(* handle_memory_pressure.                                                 *)

\* p joins the queue of the lock; Enter follows when it is its turn.
Ask(p, l) == lock' = Append(lock, p) /\ level' = [level EXCEPT ![p] = l]

Enter(p) ==
  /\ Holds(p) /\ at[p] = 0 /\ p \notin cancelled
  /\ at' = [at EXCEPT ![p] = 1]
  /\ UNCHANGED <<monitor, periodic, cancelled, lock, level, dying, open, down, early,
                 swallowed, passes, asked>>

\* What ends p when it leaves: a CancelledError on its way.  In the finally of a
\* clean-up an exception of its event takes the place of the CancelledError, and
\* handle_memory_pressure swallows that one.
Ends(p, raised) == p \in dying /\ ~raised

\* The lock is released and handle_memory_pressure is over.
Leave(p, raised) ==
  /\ lock' = Tail(lock) /\ at' = [at EXCEPT ![p] = 0]
  /\ dying' = dying \ {p} /\ early' = early \ {p}
  /\ swallowed' = (swallowed \/ (p \in dying /\ ~Ends(p, raised)))
  /\ monitor' = IF p # "monitor" THEN monitor ELSE IF Ends(p, raised) THEN "ended" ELSE "sleep"

\* The next await: another event, or after the last one the end.
Proceed(p) ==
  IF at[p] = Len(Strategy[level[p]]) THEN Leave(p, FALSE)
    ELSE /\ at' = [at EXCEPT ![p] = @ + 1]
         /\ UNCHANGED <<lock, dying, early, swallowed, monitor>>

\* The event was sent.
Sent(p) ==
  /\ Holds(p) /\ at[p] > 0 /\ p \notin cancelled
  /\ open' = IF Sends(p, "triggered") THEN open \union {p}
               ELSE IF Sends(p, "completed") THEN open \ {p} ELSE open
  /\ Proceed(p)
  /\ UNCHANGED <<periodic, cancelled, level, down, passes, asked>>

\* Sending raises: an eviction swallows that, everything else ends the handling
\* in its own except.
SendRaises(p) ==
  /\ Holds(p) /\ at[p] > 0 /\ p \notin cancelled
  /\ IF Sends(p, "eviction") THEN Proceed(p) ELSE Leave(p, TRUE)
  /\ open' = IF Sends(p, "completed") THEN open \ {p} ELSE open
  /\ UNCHANGED <<periodic, cancelled, level, down, passes, asked>>

\* A caller, at any time, with any level.
CallerAsks(p, l) ==
  /\ p \notin asked /\ asked' = asked \union {p}
  /\ Ask(p, l)
  /\ UNCHANGED <<monitor, periodic, cancelled, at, dying, open, down, early, swallowed,
                 passes>>

-----------------------------------------------------------------------------
(* The two coroutines initialize() starts.                                 *)

rest == <<open, down, early, swallowed, asked>>

\* The ping is answered; otherwise initialize() raises and nothing has changed.
Initialize ==
  /\ monitor = "none" /\ down = "no"
  /\ monitor' = "usage" /\ periodic' = "sleep"
  /\ UNCHANGED <<cancelled, lock, level, at, dying, rest, passes>>

Undisturbed(task) == task \notin cancelled

\* The usage event is sent; under pressure the clean-up follows.
UsageTold ==
  /\ monitor = "usage" /\ Undisturbed("monitor")
  /\ \/ monitor' = "sleep" /\ UNCHANGED <<lock, level, passes>>
     \/ /\ passes < MaxPasses /\ passes' = passes + 1
        /\ monitor' = "pressure"
        /\ \E l \in Levels \ {"LOW"} : Ask("monitor", l)
  /\ UNCHANGED <<periodic, cancelled, at, dying, rest>>

UsageRaises ==
  /\ monitor = "usage" /\ Undisturbed("monitor")
  /\ monitor' = "retry"
  /\ UNCHANGED <<periodic, cancelled, lock, level, at, dying, rest, passes>>

MonitorWakes ==
  /\ monitor \in {"sleep", "retry"} /\ Undisturbed("monitor")
  /\ monitor' = "usage"
  /\ UNCHANGED <<periodic, cancelled, lock, level, at, dying, rest, passes>>

\* trigger_cleanup does not exist: the AttributeError is logged and followed by
\* a sleep of its own.
PeriodicWakes ==
  /\ periodic \in {"sleep", "retry"} /\ Undisturbed("periodic")
  /\ periodic' = IF periodic = "retry" THEN IF down = "no" THEN "sleep" ELSE "ended"
                 ELSE IF down = "no" THEN "retry" ELSE "ended"
  /\ UNCHANGED <<monitor, cancelled, lock, level, at, dying, rest, passes>>

PeriodicCancelled ==
  /\ "periodic" \in cancelled /\ cancelled' = cancelled \ {"periodic"}
  /\ periodic' = "ended"
  /\ UNCHANGED <<monitor, lock, level, at, dying, rest, passes>>

\* A CancelledError in the eviction leads through the finally of the clean-up.
Survives(p) == Sends(p, "eviction")

\* p's entry is taken out of the lock, wherever in the queue it is.
Withdraw(p) ==
  IF p \in Waiting
    THEN \E i \in 1..Len(lock) :
           /\ lock[i] = p
           /\ lock' = SubSeq(lock, 1, i - 1) \o SubSeq(lock, i + 1, Len(lock))
    ELSE UNCHANGED lock

\* CancelledError in the await of the monitor: one that waits for the lock is
\* out of the queue, one that holds it releases it.
MonitorCancelled ==
  /\ "monitor" \in cancelled /\ cancelled' = cancelled \ {"monitor"}
  /\ IF Survives("monitor")
       THEN /\ dying' = dying \union {"monitor"}
            /\ at' = [at EXCEPT !["monitor"] = @ + 1]
            /\ UNCHANGED <<monitor, lock, early>>
       ELSE /\ monitor' = "ended"
            /\ Withdraw("monitor")
            /\ at' = [at EXCEPT !["monitor"] = 0]
            /\ early' = early \ {"monitor"}
            /\ UNCHANGED dying
  /\ UNCHANGED swallowed
  /\ open' = IF Sends("monitor", "completed") THEN open \ {"monitor"} ELSE open
  /\ UNCHANGED <<periodic, level, down, passes, asked>>

-----------------------------------------------------------------------------
(* shutdown().                                                             *)

tasks == <<monitor, periodic, level, at, dying, open, swallowed, passes, asked>>

Runs(t) == (IF t = "monitor" THEN monitor ELSE periodic) \notin {"none", "ended"}

\* Mutant of Cancels: the monitor is left to its loop.
CancelsPeriodic == {t \in {"periodic"} : Runs(t)}
\* The tasks that task.cancel() reaches.
Cancels == {t \in {"monitor", "periodic"} : Runs(t)}

Shutdown ==
  /\ down = "no" /\ down' = "lock"
  /\ cancelled' = Cancels
  /\ lock' = Append(lock, "shutdown")
  /\ early' = Waiting
  /\ UNCHANGED tasks

ShutdownLocks ==
  /\ down = "lock" /\ Holds("shutdown")
  /\ lock' = Tail(lock) /\ down' = "gather"
  /\ UNCHANGED <<tasks, cancelled, early>>

\* Mutant of TasksEnded: only the periodic task is gathered.
PeriodicEnded == periodic \in {"none", "ended"}
TasksEnded == monitor \in {"none", "ended"} /\ periodic \in {"none", "ended"}

Gathered ==
  /\ down = "gather" /\ TasksEnded
  /\ down' = "close"
  /\ UNCHANGED <<tasks, cancelled, lock, early>>

\* The connection is closed, or an error of that is logged.
Closed ==
  /\ down = "close" /\ down' = "done"
  /\ UNCHANGED <<tasks, cancelled, lock, early>>

-----------------------------------------------------------------------------

\* The steps of coroutines and of their events; callers come when they like.
CoroutineStep ==
  \/ MonitorWakes \/ MonitorCancelled \/ UsageTold
  \/ PeriodicWakes \/ PeriodicCancelled
  \/ \E p \in Handlers : Enter(p) \/ Sent(p)
  \/ ShutdownLocks \/ Gathered \/ Closed

Next ==
  \/ CoroutineStep \/ Initialize \/ UsageRaises \/ Shutdown
  \/ \E p \in Handlers : SendRaises(p)
  \/ \E p \in Callers, l \in Levels : CallerAsks(p, l)

Spec == Init /\ [][Next]_vars

\* The event loop resumes some coroutine whose timer fired, whose event was
\* taken or whose turn with the lock it is.  After shutdown() each of them has
\* finitely many steps left, so that no fairness for each is needed.
Fairness == WF_vars(CoroutineStep)

-----------------------------------------------------------------------------
(* Properties.                                                             *)

\* shutdown() closes the connection when both tasks have ended, in whatever
\* await it has cancelled them, and when the clean-ups that were asked for before
\* it are over; those of callers it can only wait for.
ClosedIsQuiet ==
  down \in {"close", "done"} =>
    monitor \in {"none", "ended"} /\ periodic \in {"none", "ended"} /\ early = {}

\* A clean-up whose begin was told is still under way, or its end was told,
\* whatever raised and although shutdown() cancelled it, unless the very event
\* that tells the end did not get through.
BegunIsEnded == \A p \in open : Holds(p) /\ at[p] > 0

\* A monitor that shutdown() found running still has the cancellation before it
\* or is on its way out with it, unless the event in the finally of its clean-up
\* raised and the cancellation is lost for good.
CancellationArrives ==
  down # "no" /\ Runs("monitor") => "monitor" \in cancelled \union dying \/ swallowed

\* What shutdown() leaves behind, wherever it finds the clean-ups: all of the
\* above.
ShutdownIsOrderly == ClosedIsQuiet /\ BegunIsEnded /\ CancellationArrives

\* shutdown() returns, whatever the monitor and the callers were doing when it
\* was called and although other events raise, as long as its cancellation of the
\* monitor is not swallowed: then the monitor goes on, and gather waits for ever.
ShutdownReturns == down = "lock" ~> (down = "done" \/ swallowed)

=============================================================================
