---------------------------- MODULE QueueWorkers ----------------------------
(***************************************************************************)
(* The workers of the marketing crew that take a message from a Redis list *)
(* with blpop, announce it on api_queue, run a crew over it and push what  *)
(* the crew wrote to one or two lists.  blpop takes the message away for   *)
(* good: what happens to it afterwards is up to the error paths of each    *)
(* worker, which differ.                                                   *)
(***************************************************************************)
EXTENDS Integers, Sequences, FiniteSets

CONSTANTS
  Jobs,         \* messages
  Garbled,      \* those of them that are not JSON
  MaxFailures,  \* bound: pushes that raise
  MaxCrashes    \* bound: worker processes that die

VARIABLES
  queue,     \* queue[q]: the messages in the list q
  doing,     \* doing[w][j]: how far worker w is with message j
  told,      \* <<w, j, k>>: w pushed an entry of kind k about j to api_queue
  failures, crashes

vars == <<queue, doing, told, failures, crashes>>

-----------------------------------------------------------------------------
(* The workers: the list each reads, the lists it pushes its result to, in *)
(* the order of the code, how often it tries to report when a push of the  *)
(* result raises, and how many messages it has in its hands at once.       *)

Row(in, out, tries, hands) == [in |-> in, out |-> out, tries |-> tries, hands |-> hands]

Simulation == Row("simulation_queue", <<"results_queue", "api_queue">>, 2, 1)
CornFlakes == Row("corn_flakes_queue", <<"product_agent_queue", "api_queue">>, 1, 1)
InventoryExecution == Row("inventory_execution_queue", <<"api_queue">>, 1, 1)
PromotionExecution == Row("promotional_execution_queue", <<"api_queue">>, 1, 1)

\* Mutant of PromotionalTranslation: the next worker is served first.
PromotionalForwarded ==
  Row("promotional_translation_queue", <<"promotional_execution_queue", "api_queue">>, 2, 1)
PromotionalTranslation ==
  Row("promotional_translation_queue", <<"api_queue", "promotional_execution_queue">>, 2, 1)

\* Its messages are handled by a pool of five threads.
InventoryTranslation ==
  Row("inventory_translation_queue", <<"api_queue", "inventory_execution_queue">>, 1, 5)

\* The rule layer it calls after the push is not defined: the message ends
\* there, and no error of this worker is reported to anybody.
Marketing == Row("marketing_queue", <<"api_queue">>, 0, 1)

Workers ==
  {"simulation", "cornFlakes", "inventoryExecution", "promotionExecution",
   "promotionalTranslation", "inventoryTranslation", "marketing"}

Worker(w) ==
  CASE w = "simulation" -> Simulation
    [] w = "cornFlakes" -> CornFlakes
    [] w = "inventoryExecution" -> InventoryExecution
    [] w = "promotionExecution" -> PromotionExecution
    [] w = "promotionalTranslation" -> PromotionalTranslation
    [] w = "inventoryTranslation" -> InventoryTranslation
    [] OTHER -> Marketing

Reads(w) == Worker(w).in
Lists == {Reads(w) : w \in Workers}
Translators == {"promotionalTranslation", "inventoryTranslation"}
\* The list a translator pushes to for another worker.
Forwarded(w) == CHOOSE q \in {Worker(w).out[n] : n \in 1..2} : q # "api_queue"
\* The lists other programs push to.
Entries == Lists \ {Forwarded(w) : w \in Translators}

-----------------------------------------------------------------------------

\* n: the next push of the result, or the tries left to report an error.
Progress ==
  [pc : {"none", "begin", "crew", "publish", "report", "over", "lost"}, n : 0..2]
At(pc, n) == [pc |-> pc, n |-> n]
Busy(w) == {j \in Jobs : doing[w][j].pc \in {"begin", "crew", "publish", "report"}}
InList(q, j) == \E i \in 1..Len(queue[q]) : queue[q][i] = j
Set(w, j, pc, n) == doing' = [doing EXCEPT ![w][j] = At(pc, n)]

TypeOK ==
  /\ queue \in [Lists -> Seq(Jobs)]
  /\ doing \in [Workers -> [Jobs -> Progress]]
  /\ told \in SUBSET (Workers \X Jobs \X {"notification", "answer", "error"})
  /\ failures \in 0..MaxFailures /\ crashes \in 0..MaxCrashes

Init ==
  /\ queue = [q \in Lists |-> <<>>]
  /\ doing = [w \in Workers |-> [j \in Jobs |-> At("none", 0)]]
  /\ told = {} /\ failures = 0 /\ crashes = 0

\* Another program pushes a message, each one once.
Submit(q, j) ==
  /\ \A l \in Lists : ~InList(l, j)
  /\ \A w \in Workers : doing[w][j].pc = "none"
  /\ queue' = [queue EXCEPT ![q] = Append(@, j)]
  /\ UNCHANGED <<doing, told, failures, crashes>>

\* A message that is not JSON: one worker passes it on undecoded, and one takes
\* it as a string and fails after the first entry.
Undecodable(w, j) ==
  /\ j \in Garbled /\ Reads(w) \in Entries
  /\ w \notin {"inventoryTranslation", "marketing"}

\* Of the workers that decode it, only one reports it.
Opened(w, j) ==
  CASE ~Undecodable(w, j) -> At("begin", 0)
    [] Undecodable(w, j) /\ w = "promotionalTranslation" -> At("report", 1)
    [] OTHER -> At("over", 0)

\* Mutant of Ready: the loop of a worker ends with its first message.
ReadyOnce(w) == \A j \in Jobs : doing[w][j].pc = "none"
Ready(w) == Cardinality(Busy(w)) < Worker(w).hands

\* blpop.  An error of blpop itself is logged and the loop goes on.
Take(w) ==
  /\ queue[Reads(w)] # <<>> /\ Ready(w)
  /\ LET j == Head(queue[Reads(w)]) IN
       doing' = [doing EXCEPT ![w][j] = Opened(w, j)]
  /\ queue' = [queue EXCEPT ![Reads(w)] = Tail(@)]
  /\ UNCHANGED <<told, failures, crashes>>

Tell(w, j, kind) == told' = told \union {<<w, j, kind>>}

\* The notification that the worker has begun.
Begin(w, j) ==
  /\ doing[w][j].pc = "begin"
  /\ Tell(w, j, "notification")
  /\ IF w = "marketing" /\ j \in Garbled THEN Set(w, j, "over", 0) ELSE Set(w, j, "crew", 0)
  /\ UNCHANGED <<queue, failures, crashes>>

\* crew.kickoff() returns.
CrewReturns(w, j) ==
  /\ doing[w][j].pc = "crew"
  /\ Set(w, j, "publish", 1)
  /\ UNCHANGED <<queue, told, failures, crashes>>

\* Mutant of Fails: the outer except only logs.
FailsUnreported(w, j, tries) == Set(w, j, "over", 0)
\* The outer except of the handler: report, where the worker does that.
Fails(w, j, tries) == IF tries = 0 THEN Set(w, j, "over", 0) ELSE Set(w, j, "report", tries)

OneTry(w) == IF w = "marketing" THEN 0 ELSE 1

\* crew.kickoff() raises.
CrewRaises(w, j) ==
  /\ doing[w][j].pc = "crew"
  /\ Fails(w, j, OneTry(w))
  /\ UNCHANGED <<queue, told, failures, crashes>>

\* The effect of the push of a result.
Push(w, j, q) ==
  IF q = "api_queue" THEN Tell(w, j, "answer") /\ UNCHANGED queue
  ELSE /\ queue' = IF q \in Lists THEN [queue EXCEPT ![q] = Append(@, j)] ELSE queue
       /\ UNCHANGED told

Publish(w, j) ==
  /\ doing[w][j].pc = "publish"
  /\ LET n == doing[w][j].n IN
       /\ Push(w, j, Worker(w).out[n])
       /\ IF n < Len(Worker(w).out) THEN Set(w, j, "publish", n + 1) ELSE Set(w, j, "over", 0)
  /\ UNCHANGED <<failures, crashes>>

\* The error entry; the one of the inventory translator goes to error_queue.
Report(w, j) ==
  /\ doing[w][j].pc = "report"
  /\ Tell(w, j, "error")
  /\ Set(w, j, "over", 0)
  /\ UNCHANGED <<queue, failures, crashes>>

\* rpush raises a RedisError, whether or not it has reached the list.
PushRaises(w, j, reached) ==
  /\ failures < MaxFailures /\ failures' = failures + 1
  /\ LET at == doing[w][j] IN
     \/ /\ at.pc = "begin" /\ Fails(w, j, OneTry(w))
        /\ IF reached THEN Tell(w, j, "notification") ELSE UNCHANGED told
        /\ UNCHANGED queue
     \/ /\ at.pc = "publish" /\ Fails(w, j, Worker(w).tries)
        /\ IF reached THEN Push(w, j, Worker(w).out[at.n]) ELSE UNCHANGED <<queue, told>>
     \/ /\ at.pc = "report" /\ Fails(w, j, at.n - 1)
        /\ IF reached THEN Tell(w, j, "error") ELSE UNCHANGED told
        /\ UNCHANGED queue
  /\ UNCHANGED crashes

\* The process dies and is started again: its messages were popped.
Crash(w) ==
  /\ crashes < MaxCrashes /\ crashes' = crashes + 1 /\ Busy(w) # {}
  /\ doing' = [doing EXCEPT ![w] =
                 [j \in Jobs |-> IF j \in Busy(w) THEN At("lost", 0) ELSE @[j]]]
  /\ UNCHANGED <<queue, told, failures>>

-----------------------------------------------------------------------------

Work(w, j) ==
  Begin(w, j) \/ CrewReturns(w, j) \/ CrewRaises(w, j) \/ Publish(w, j) \/ Report(w, j)

Next ==
  \/ \E q \in Entries, j \in Jobs : Submit(q, j)
  \/ \E w \in Workers : Take(w) \/ Crash(w)
  \/ \E w \in Workers, j \in Jobs :
       Work(w, j) \/ \E reached \in BOOLEAN : PushRaises(w, j, reached)

Spec == Init /\ [][Next]_vars

\* The workers go on: lists are polled, and crews return or raise.  As every
\* message is handled in finitely many steps, no fairness for each is needed.
FairStep == \E w \in Workers : Take(w) \/ \E j \in Jobs : Work(w, j)
Fairness == WF_vars(FairStep)

-----------------------------------------------------------------------------
(* Properties.                                                             *)

Reached(w, j) == \E v \in Workers : Reads(v) = Forwarded(w) /\
                   (InList(Forwarded(w), j) \/ doing[v][j].pc # "none")

\* What a translator hands to an execution worker it has shown to the user
\* before, whatever pushes raised in between.
ForwardedIsShown ==
  \A w \in Translators, j \in Jobs : Reached(w, j) => <<w, j, "answer">> \in told

\* As long as Redis takes every push, a message a worker is through with was
\* answered, or its error was reported.  The marketing worker reports none.
EndedIsTold ==
  \A w \in Workers \ {"marketing"}, j \in Jobs \ Garbled :
    doing[w][j].pc = "over" /\ failures = 0 =>
      <<w, j, "answer">> \in told \/ <<w, j, "error">> \in told

\* What the user learns from the workers: both of the above.
UserIsTold == ForwardedIsShown /\ EndedIsTold

\* Whatever raises, the workers come back for the next message: once no more
\* messages are pushed, each comes to an end, at the last worker it reaches.
Pending(j) == \E w \in Workers : InList(Reads(w), j) \/ j \in Busy(w)
QueuedIsServed == (\E j \in Jobs : Pending(j)) ~> (\A j \in Jobs : ~Pending(j))

=============================================================================
