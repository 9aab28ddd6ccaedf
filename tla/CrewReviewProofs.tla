-------------------------- MODULE CrewReviewProofs --------------------------
(***************************************************************************)
(* What the review tells, for every timeline.  The analyzer never looks    *)
(* back at the timeline: it has the starts that wait for their end, the    *)
(* tasks it has seen executed and the entries of its log.  IInv says what  *)
(* the two sets know of the timeline, ReviewInv also what the log counts   *)
(* and what report, challenges and rewards have of it.                     *)
(***************************************************************************)
EXTENDS CrewReview, FiniteSetTheorems, TLAPS

\* An end of the task t follows a start of it in the timeline T; T has a start.
RanIn(T, t) ==
  \E i, j \in 1..Len(T) :
    /\ i < j
    /\ T[i].type = "task_started" /\ T[i].task = t
    /\ T[j].type = "task_finished" /\ T[j].task = t
StartedIn(T, t) == \E i \in 1..Len(T) : T[i].type = "task_started" /\ T[i].task = t

Bookkeeping ==
  /\ timeline \in Seq(Events)
  /\ taskStarts \subseteq TaskNames /\ executed \subseteq TaskNames
  /\ \A t \in TaskNames :
       /\ t \in executed <=> RanIn(timeline, t)
       /\ t \in taskStarts \union executed <=> StartedIn(timeline, t)

Reporting ==
  /\ pc = "run" => timeline = <<>>
  /\ report.made => pc = "reported"
  /\ report.made /\ timeline # <<>> => report.completed = executed

IInv == Bookkeeping /\ Reporting

-----------------------------------------------------------------------------
(* What one more event changes of a timeline.                              *)

LEMMA StartAppended ==
  ASSUME NEW T \in Seq(Events), NEW e \in Events, NEW t
  PROVE  StartedIn(Append(T, e), t)
           <=> StartedIn(T, t) \/ (e.type = "task_started" /\ e.task = t)
<1> DEFINE A == Append(T, e)
<1>1. /\ Len(T) \in Nat /\ Len(A) = Len(T) + 1 /\ A[Len(T) + 1] = e
      /\ \A i \in 1..Len(T) : A[i] = T[i]
  OBVIOUS
<1> HIDE DEF A
<1>2. ASSUME StartedIn(A, t)
      PROVE  StartedIn(T, t) \/ (e.type = "task_started" /\ e.task = t)
  <2>1. PICK i \in 1..Len(A) : A[i].type = "task_started" /\ A[i].task = t
    BY <1>2 DEF StartedIn
  <2>2. i \in 1..Len(T) \/ i = Len(T) + 1
    BY <1>1
  <2> QED BY <1>1, <2>1, <2>2 DEF StartedIn
<1>3. ASSUME StartedIn(T, t) PROVE StartedIn(A, t)
  <2>1. PICK i \in 1..Len(T) : T[i].type = "task_started" /\ T[i].task = t
    BY <1>3 DEF StartedIn
  <2>2. i \in 1..Len(A) /\ A[i] = T[i]
    BY <1>1
  <2> QED BY <2>1, <2>2 DEF StartedIn
<1>4. ASSUME e.type = "task_started", e.task = t PROVE StartedIn(A, t)
  <2>1. Len(T) + 1 \in 1..Len(A)
    BY <1>1
  <2> QED BY <1>1, <1>4, <2>1 DEF StartedIn
<1> QED BY <1>2, <1>3, <1>4 DEF A

LEMMA RunAppended ==
  ASSUME NEW T \in Seq(Events), NEW e \in Events, NEW t
  PROVE  RanIn(Append(T, e), t)
           <=> RanIn(T, t) \/ (e.type = "task_finished" /\ e.task = t /\ StartedIn(T, t))
<1> DEFINE A == Append(T, e)
<1>1. /\ Len(T) \in Nat /\ Len(A) = Len(T) + 1 /\ A[Len(T) + 1] = e
      /\ \A i \in 1..Len(T) : A[i] = T[i]
  OBVIOUS
<1> HIDE DEF A
<1>2. ASSUME RanIn(A, t)
      PROVE  RanIn(T, t) \/ (e.type = "task_finished" /\ e.task = t /\ StartedIn(T, t))
  <2>1. PICK i, j \in 1..Len(A) :
          /\ i < j
          /\ A[i].type = "task_started" /\ A[i].task = t
          /\ A[j].type = "task_finished" /\ A[j].task = t
    BY <1>2 DEF RanIn
  <2>2. i \in 1..Len(T) /\ (j \in 1..Len(T) \/ j = Len(T) + 1)
    BY <1>1, <2>1
  <2>3. CASE j \in 1..Len(T)
    BY <1>1, <2>1, <2>2, <2>3 DEF RanIn
  <2>4. CASE j = Len(T) + 1
    BY <1>1, <2>1, <2>2, <2>4 DEF StartedIn
  <2> QED BY <2>2, <2>3, <2>4
<1>3. ASSUME RanIn(T, t) PROVE RanIn(A, t)
  <2>1. PICK i, j \in 1..Len(T) :
          /\ i < j
          /\ T[i].type = "task_started" /\ T[i].task = t
          /\ T[j].type = "task_finished" /\ T[j].task = t
    BY <1>3 DEF RanIn
  <2>2. i \in 1..Len(A) /\ j \in 1..Len(A) /\ A[i] = T[i] /\ A[j] = T[j]
    BY <1>1
  <2> QED BY <2>1, <2>2 DEF RanIn
<1>4. ASSUME e.type = "task_finished", e.task = t, StartedIn(T, t) PROVE RanIn(A, t)
  <2>1. PICK i \in 1..Len(T) : T[i].type = "task_started" /\ T[i].task = t
    BY <1>4 DEF StartedIn
  <2>2. i \in 1..Len(A) /\ A[i] = T[i] /\ i < Len(T) + 1 /\ Len(T) + 1 \in 1..Len(A)
    BY <1>1
  <2> QED BY <1>1, <1>4, <2>1, <2>2 DEF RanIn
<1> QED BY <1>2, <1>3, <1>4 DEF A

-----------------------------------------------------------------------------
(* The invariant.                                                          *)

LEMMA InitHolds == Init => IInv
<1> SUFFICES ASSUME Init PROVE IInv
  OBVIOUS
<1>1. timeline = <<>> /\ taskStarts = {} /\ executed = {}
  BY DEF Init
<1>2. \A t : ~RanIn(<<>>, t) /\ ~StartedIn(<<>>, t)
  BY DEF RanIn, StartedIn
<1>3. Bookkeeping
  BY <1>1, <1>2 DEF Bookkeeping
<1>4. Reporting
  BY DEF Init, Reporting, NoReport
<1> QED BY <1>3, <1>4 DEF IInv

\* Everything but the steps of the analyzer leaves the books alone.
LEMMA BooksUntouched ==
  ASSUME Bookkeeping, UNCHANGED <<timeline, taskStarts, executed>>
  PROVE  Bookkeeping'
BY DEF Bookkeeping

LEMMA Untouched ==
  ASSUME IInv, UNCHANGED <<timeline, taskStarts, executed, pc, report>>
  PROVE  IInv'
<1>1. Bookkeeping'
  BY BooksUntouched DEF IInv
<1>2. Reporting'
  BY DEF IInv, Reporting
<1> QED BY <1>1, <1>2 DEF IInv

\* What an event does to the two sets, task by task.
LEMMA ProcessedTask ==
  ASSUME NEW e \in Events, Process(e), NEW t \in TaskNames
  PROVE  /\ t \in executed' <=>
              t \in executed \/ (e.type = "task_finished" /\ e.task = t /\ t \in taskStarts)
         /\ t \in taskStarts' <=>
              \/ t \in taskStarts /\ ~(e.type = "task_finished" /\ e.task = t)
              \/ e.type = "task_started" /\ e.task = t
<1>1. t # Nothing
  BY DEF TaskNames
<1>2. t \in Executed(e) <=> e.type = "task_finished" /\ e.task = t /\ t \in taskStarts
  BY <1>1 DEF Executed, TaskIf
<1>3. t \in TaskIf(e, e.type = "task_started") <=> e.type = "task_started" /\ e.task = t
  BY <1>1 DEF TaskIf
<1>4. /\ executed' = executed \union Executed(e)
      /\ taskStarts' = (taskStarts \ Executed(e)) \union TaskIf(e, e.type = "task_started")
  BY DEF Process
<1> QED BY <1>2, <1>3, <1>4

LEMMA ProcessKeepsBooks ==
  ASSUME Bookkeeping, NEW e \in Events, Process(e)
  PROVE  Bookkeeping'
<1>1. timeline \in Seq(Events) /\ timeline' = Append(timeline, e)
  BY DEF Bookkeeping, Process
<1>2. timeline' \in Seq(Events)
  BY <1>1
<1>3. taskStarts' \subseteq TaskNames /\ executed' \subseteq TaskNames
  <2>1. TaskIf(e, e.type = "task_started") \subseteq TaskNames /\ Executed(e) \subseteq TaskNames
    BY DEF TaskIf, TaskNames, Executed
  <2> QED BY <2>1 DEF Bookkeeping, Process
<1>4. ASSUME NEW t \in TaskNames
      PROVE  /\ t \in executed' <=> RanIn(timeline', t)
             /\ t \in taskStarts' \union executed' <=> StartedIn(timeline', t)
  <2> DEFINE Starts == e.type = "task_started" /\ e.task = t
             Ends == e.type = "task_finished" /\ e.task = t
  <2>1. /\ t \in executed <=> RanIn(timeline, t)
        /\ t \in taskStarts \/ t \in executed <=> StartedIn(timeline, t)
    BY DEF Bookkeeping
  <2>2. RanIn(timeline', t) <=> RanIn(timeline, t) \/ (Ends /\ StartedIn(timeline, t))
    BY <1>1, RunAppended
  <2>3. StartedIn(timeline', t) <=> StartedIn(timeline, t) \/ Starts
    BY <1>1, StartAppended
  <2>4. /\ t \in executed' <=> t \in executed \/ (Ends /\ t \in taskStarts)
        /\ t \in taskStarts' <=> (t \in taskStarts /\ ~Ends) \/ Starts
    BY ProcessedTask
  <2>5. t \in taskStarts' \union executed' <=> t \in taskStarts' \/ t \in executed'
    OBVIOUS
  <2> HIDE DEF Starts, Ends
  <2> QED BY <2>1, <2>2, <2>3, <2>4, <2>5
<1> QED BY <1>2, <1>3, <1>4 DEF Bookkeeping

\* The events that raise are not about the start or the end of a task.
LEMMA RaisesKeepsBooks ==
  ASSUME Bookkeeping, NEW e \in Events, ProcessRaises(e)
  PROVE  Bookkeeping'
<1>1. /\ timeline \in Seq(Events) /\ timeline' = Append(timeline, e)
      /\ taskStarts' = taskStarts /\ executed' = executed
  BY DEF Bookkeeping, ProcessRaises
<1>2. timeline' \in Seq(Events)
  BY <1>1
<1>3. e.type # "task_started" /\ e.type # "task_finished"
  BY DEF ProcessRaises, Raises
<1>4. \A t : /\ RanIn(timeline', t) <=> RanIn(timeline, t)
             /\ StartedIn(timeline', t) <=> StartedIn(timeline, t)
  BY <1>1, <1>3, RunAppended, StartAppended
<1> QED BY <1>1, <1>2, <1>4 DEF Bookkeeping

LEMMA NextKeeps == IInv /\ [Next]_vars => IInv'
<1> SUFFICES ASSUME IInv, [Next]_vars PROVE IInv'
  OBVIOUS
<1> USE DEF IInv
<1>1. CASE Observe
  BY <1>1, Untouched DEF Observe, analyzerVars
<1>2. CASE NothingToAnalyze
  <2>1. UNCHANGED <<timeline, taskStarts, executed>> /\ timeline = <<>> /\ pc' = "reported"
    BY <1>2 DEF NothingToAnalyze, analyzerVars, Reporting
  <2> QED BY <2>1, BooksUntouched DEF Reporting
<1>3. CASE SortRaises
  <2>1. UNCHANGED <<timeline, taskStarts, executed, report>> /\ pc = "run" /\ pc' = "raised"
    BY <1>3 DEF SortRaises, analyzerVars
  <2> QED BY <2>1, BooksUntouched DEF Reporting
<1>4. CASE EndOfTimeline
  <2>1. UNCHANGED <<timeline, taskStarts, executed>> /\ pc = "timeline"
    BY <1>4 DEF EndOfTimeline
  <2>2. \/ pc' = "raised" /\ report' = report
        \/ /\ pc' = "reported"
           /\ report' = Report(logged', logged', executed, agents, timeline # <<>>, Remarks)
    BY <1>4 DEF EndOfTimeline
  <2>3. Reporting'
    BY <2>1, <2>2 DEF Reporting, Report
  <2> QED BY <2>1, <2>3, BooksUntouched
<1>5. CASE RedTeam
  BY <1>5, Untouched DEF RedTeam, analyzerVars
<1>6. CASE ParseReport
  BY <1>6, Untouched DEF ParseReport, analyzerVars
<1>7. CASE EndEvaluation
  BY <1>7, Untouched DEF EndEvaluation, analyzerVars
<1>8. ASSUME NEW n \in 0..MaxUndated, NEW u \in {0, 1}, Begin(n, u)
      PROVE  IInv'
  <2>1. UNCHANGED <<timeline, taskStarts, executed, report>> /\ pc = "run" /\ pc' = "timeline"
    BY <1>8 DEF Begin
  <2> QED BY <2>1, BooksUntouched DEF Reporting
<1>9. ASSUME NEW e \in Events, Process(e)
      PROVE  IInv'
  <2>1. pc = "timeline" /\ pc' = pc /\ report' = report
    BY <1>9 DEF Process
  <2>2. Reporting'
    BY <2>1 DEF Reporting
  <2> QED BY <1>9, <2>2, ProcessKeepsBooks
<1>10. ASSUME NEW e \in Events, ProcessRaises(e)
       PROVE  IInv'
  <2>1. pc = "timeline" /\ pc' = "raised" /\ report' = report
    BY <1>10 DEF ProcessRaises
  <2>2. Reporting'
    BY <2>1 DEF Reporting
  <2> QED BY <1>10, <2>2, RaisesKeepsBooks
<1>11. ASSUME NEW inTime \in BOOLEAN, Evaluate(inTime)
       PROVE  IInv'
  BY <1>11, Untouched DEF Evaluate, analyzerVars
<1>12. CASE UNCHANGED vars
  BY <1>12, Untouched DEF vars, analyzerVars
<1> QED
  BY <1>1, <1>2, <1>3, <1>4, <1>5, <1>6, <1>7, <1>8, <1>9, <1>10, <1>11, <1>12 DEF Next

LEMMA BooksTellRuns == IInv => CompletedRan
<1> SUFFICES ASSUME IInv PROVE CompletedRan
  OBVIOUS
<1>1. \A t : Ran(t) <=> RanIn(timeline, t)
  BY DEF Ran, RanIn, Happened
<1>2. executed = RanTasks
  <2>1. \A t : t \in executed <=> t \in RanTasks
    BY <1>1 DEF IInv, Bookkeeping, RanTasks
  <2> QED BY <2>1
<1> QED BY <1>2 DEF IInv, Reporting, CompletedRan

\* However starts and ends follow each other, repeat or are missing, a report
\* that is made of a timeline has exactly the tasks as completed of which an end
\* came after a start (_process_event_timeline, _analyze_task_performance).
THEOREM CompletedTasksRan == Spec => []CompletedRan
<1> QED BY InitHolds, NextKeeps, BooksTellRuns, PTL DEF Spec

-----------------------------------------------------------------------------
(* What the log counts.                                                    *)

ErrorsIn(T) == {i \in 1..Len(T) : T[i].type = "error"}
\* No end of the task t follows its last start.
OpenIn(T, t) ==
  \E i \in 1..Len(T) :
    /\ T[i].type = "task_started" /\ T[i].task = t
    /\ \A j \in 1..Len(T) : T[j].type = "task_finished" /\ T[j].task = t => j < i

\* The variables have their types; what waits is open, and the tasks are known.
Waiting ==
  /\ IsFiniteSet(taskStarts)
  /\ \A t \in TaskNames : t \in taskStarts <=> OpenIn(timeline, t)
  /\ executed \subseteq tasks /\ described \subseteq tasks

\* Unless it raised, an error is in the log; what is in the log came from an event,
\* twice at most, or from the beginning; a task left open has its entry to come.
Counted ==
  /\ Len(timeline) =< MaxEvents
  /\ logged \in Nat /\ logged =< 2 * MaxEvents + MaxUndated + 1
  /\ pc # "raised" => Cardinality(ErrorsIn(timeline)) =< logged
  /\ pc = "run" => logged = 0 /\ taskStarts = {} /\ timeline = <<>>
  /\ pc \in {"run", "timeline"} =>
       logged + Cardinality(taskStarts) =< 2 * Len(timeline) + MaxUndated + 1

Mishaps == Cardinality(ErrorsIn(timeline)) + Cardinality(taskStarts)

Told ==
  /\ report.made <=> pc = "reported"
  /\ report.made =>
       /\ report.errors \in Nat /\ report.errors >= Mishaps
       /\ report.timed => report.identified = report.errors
       /\ report.timed <=> timeline # <<>>
       /\ report.completed = executed
  /\ challenges # {} =>
       /\ report.made
       /\ timeline # <<>> =>
            \E c \in challenges : c.kind = "GeneralError" /\ c.count = report.errors

Granted ==
  /\ at \in 1..(Len(Milestones) + 1) /\ granted \subseteq 1..(at - 1)
  /\ qa = "evaluating" \/ granted # {} => report.made
  /\ \A n \in granted :
       Milestones[n].kind = "crew" =>
         /\ Milestones[n].tasks # Nothing => Cardinality(report.completed) >= Milestones[n].tasks
         /\ Milestones[n].errors # Nothing => report.errors =< Milestones[n].errors
         /\ Milestones[n].duration # Nothing => report.timed

Simple ==
  /\ store \in 0..MaxSteps /\ pc \in {"run", "timeline", "reported", "raised"}
  /\ models \in BOOLEAN /\ qa \in {"idle", "evaluating", "over", "raised"}

ReviewInv == IInv /\ Simple /\ Waiting /\ Counted /\ Told /\ Granted

LEMMA OpenAppended ==
  ASSUME NEW T \in Seq(Events), NEW e \in Events, NEW t
  PROVE  OpenIn(Append(T, e), t)
           <=> \/ OpenIn(T, t) /\ ~(e.type = "task_finished" /\ e.task = t)
               \/ e.type = "task_started" /\ e.task = t
<1> DEFINE A == Append(T, e)
<1>1. /\ Len(T) \in Nat /\ Len(A) = Len(T) + 1 /\ A[Len(T) + 1] = e
      /\ \A i \in 1..Len(T) : A[i] = T[i]
      /\ \A i \in 1..Len(A) : i \in 1..Len(T) \/ i = Len(T) + 1
      /\ \A i \in 1..Len(T) : i \in 1..Len(A) /\ i < Len(T) + 1
      /\ Len(T) + 1 \in 1..Len(A)
  OBVIOUS
<1> HIDE DEF A
<1>2. ASSUME OpenIn(A, t)
      PROVE  \/ OpenIn(T, t) /\ ~(e.type = "task_finished" /\ e.task = t)
             \/ e.type = "task_started" /\ e.task = t
  <2>1. PICK i \in 1..Len(A) :
          /\ A[i].type = "task_started" /\ A[i].task = t
          /\ \A j \in 1..Len(A) : A[j].type = "task_finished" /\ A[j].task = t => j < i
    BY <1>2 DEF OpenIn
  <2>2. CASE i = Len(T) + 1
    BY <1>1, <2>1, <2>2
  <2>3. CASE i \in 1..Len(T)
    <3>1. OpenIn(T, t)
      <4>1. ASSUME NEW j \in 1..Len(T), T[j].type = "task_finished", T[j].task = t
            PROVE  j < i
        BY <1>1, <2>1, <4>1
      <4> QED
        BY <1>1, <2>1, <2>3, <4>1 DEF OpenIn
    <3>2. ~(e.type = "task_finished" /\ e.task = t)
      <4>1. ~(Len(T) + 1 < i)
        BY <1>1, <2>3
      <4> QED
        BY <1>1, <2>1, <4>1
    <3> QED
      BY <3>1, <3>2
  <2> QED
    BY <1>1, <2>2, <2>3
<1>3. ASSUME OpenIn(T, t), ~(e.type = "task_finished" /\ e.task = t) PROVE OpenIn(A, t)
  <2>1. PICK i \in 1..Len(T) :
          /\ T[i].type = "task_started" /\ T[i].task = t
          /\ \A j \in 1..Len(T) : T[j].type = "task_finished" /\ T[j].task = t => j < i
    BY <1>3 DEF OpenIn
  <2>2. ASSUME NEW j \in 1..Len(A), A[j].type = "task_finished", A[j].task = t
        PROVE  j < i
    BY <1>1, <1>3, <2>1, <2>2
  <2> QED
    BY <1>1, <2>1, <2>2 DEF OpenIn
<1>4. ASSUME e.type = "task_started", e.task = t PROVE OpenIn(A, t)
  <2>1. ASSUME NEW j \in 1..Len(A), A[j].type = "task_finished", A[j].task = t
        PROVE  j < Len(T) + 1
    BY <1>1, <1>4, <2>1
  <2> QED
    BY <1>1, <1>4, <2>1 DEF OpenIn
<1> QED
  BY <1>2, <1>3, <1>4 DEF A

LEMMA ErrorsFinite ==
  ASSUME NEW T \in Seq(Events)
  PROVE  IsFiniteSet(ErrorsIn(T)) /\ Cardinality(ErrorsIn(T)) \in Nat
<1>1. 1 \in Int /\ Len(T) \in Int
  OBVIOUS
<1>2. IsFiniteSet(1..Len(T))
  BY <1>1, FS_Interval
<1>3. IsFiniteSet(ErrorsIn(T))
  BY <1>2, FS_Subset DEF ErrorsIn
<1> QED
  BY <1>3, FS_CardinalityType

LEMMA ErrorsAppended ==
  ASSUME NEW T \in Seq(Events), NEW e \in Events
  PROVE  Cardinality(ErrorsIn(Append(T, e)))
           = Cardinality(ErrorsIn(T)) + (IF e.type = "error" THEN 1 ELSE 0)
<1> DEFINE A == Append(T, e)
<1>1. /\ Len(T) \in Nat /\ Len(A) = Len(T) + 1 /\ A[Len(T) + 1] = e
      /\ \A i \in 1..Len(T) : A[i] = T[i]
      /\ \A i : i \in 1..Len(A) <=> i \in 1..Len(T) \/ i = Len(T) + 1
      /\ Len(T) + 1 \notin 1..Len(T)
  OBVIOUS
<1> HIDE DEF A
<1>2. IsFiniteSet(ErrorsIn(T)) /\ Cardinality(ErrorsIn(T)) \in Nat
  BY ErrorsFinite
<1>3. CASE e.type = "error"
  <2>1. ErrorsIn(A) = ErrorsIn(T) \union {Len(T) + 1}
    <3>1. \A i : i \in ErrorsIn(A) <=> i \in ErrorsIn(T) \/ i = Len(T) + 1
      BY <1>1, <1>3 DEF ErrorsIn
    <3> QED
      BY <3>1
  <2>2. Len(T) + 1 \notin ErrorsIn(T)
    BY <1>1 DEF ErrorsIn
  <2>3. Cardinality(ErrorsIn(A)) = Cardinality(ErrorsIn(T)) + 1
    BY <1>2, <2>1, <2>2, FS_AddElement
  <2> QED
    BY <1>3, <2>3 DEF A
<1>4. CASE e.type # "error"
  <2>1. ErrorsIn(A) = ErrorsIn(T)
    <3>1. \A i : i \in ErrorsIn(A) <=> i \in ErrorsIn(T)
      BY <1>1, <1>4 DEF ErrorsIn
    <3> QED
      BY <3>1
  <2> QED
    BY <1>2, <1>4, <2>1 DEF A
<1> QED
  BY <1>3, <1>4

\* How many starts wait after an event, with its entries in the log: at most two
\* more than before.
LEMMA StartsAfter ==
  ASSUME IInv, Waiting, NEW e \in Events, Process(e)
  PROVE  /\ IsFiniteSet(taskStarts') /\ Cardinality(taskStarts') \in Nat
         /\ Entries(e) \in 0..2
         /\ e.type = "error" => Entries(e) = 2
         /\ Cardinality(taskStarts') + Entries(e) =< Cardinality(taskStarts) + 2
<1>1. IsFiniteSet(taskStarts) /\ Cardinality(taskStarts) \in Nat
  BY FS_CardinalityType DEF Waiting
<1>2. taskStarts' = (taskStarts \ Executed(e)) \union TaskIf(e, e.type = "task_started")
  BY DEF Process
<1> DEFINE old == taskStarts \ Executed(e)
<1>3. /\ IsFiniteSet(old) /\ Cardinality(old) \in Nat
      /\ Cardinality(old) =< Cardinality(taskStarts)
  <2>1. old \subseteq taskStarts
    OBVIOUS
  <2> HIDE DEF old
  <2> QED
    BY <1>1, <2>1, FS_Subset, FS_CardinalityType
<1>4. CASE e.type = "task_started"
  <2>1. Entries(e) = 0
    BY <1>4 DEF Entries
  <2>2. taskStarts' = old \/ taskStarts' = old \union {e.task}
    BY <1>2, <1>4 DEF TaskIf
  <2>3. /\ IsFiniteSet(old \union {e.task})
        /\ Cardinality(old \union {e.task}) = Cardinality(old)
             \/ Cardinality(old \union {e.task}) = Cardinality(old) + 1
    <3> HIDE DEF old
    <3> QED
      BY <1>3, FS_AddElement
  <2> HIDE DEF old
  <2> QED
    BY <1>1, <1>3, <1>4, <2>1, <2>2, <2>3
<1>5. CASE e.type # "task_started"
  <2>1. taskStarts' = old
    BY <1>2, <1>5 DEF TaskIf
  <2>2. Entries(e) \in 0..2 /\ (e.type = "error" => Entries(e) = 2)
    <3>1. CASE e.type = "error"
      BY <3>1 DEF Entries
    <3>2. CASE e.type = "unknown"
      BY <3>2 DEF Entries
    <3>3. CASE e.type = "task_finished"
      BY <3>3 DEF Entries
    <3>4. CASE e.type \notin {"error", "unknown", "task_finished"}
      BY <3>4 DEF Entries
    <3> QED
      BY <3>1, <3>2, <3>3, <3>4
  <2> HIDE DEF old
  <2> QED
    BY <1>1, <1>3, <2>1, <2>2
<1> QED
  BY <1>4, <1>5

LEMMA ProcessKeepsReview ==
  ASSUME ConfigAssumption, ReviewInv, NEW e \in Events, Process(e), IInv'
  PROVE  ReviewInv'
<1>1. /\ timeline \in Seq(Events) /\ timeline' = Append(timeline, e)
      /\ pc = "timeline" /\ Len(timeline) < MaxEvents
      /\ UNCHANGED <<store, pc, report, challenges, qaVars>>
      /\ logged' = logged + Entries(e)
  BY DEF ReviewInv, IInv, Bookkeeping, Process
<1>2. Simple'
  BY <1>1 DEF ReviewInv, Simple, qaVars
<1>3. /\ IsFiniteSet(taskStarts') /\ Cardinality(taskStarts') \in Nat
      /\ Entries(e) \in 0..2
      /\ e.type = "error" => Entries(e) = 2
      /\ Cardinality(taskStarts') + Entries(e) =< Cardinality(taskStarts) + 2
  BY StartsAfter DEF ReviewInv
<1>4. Waiting'
  <2>1. ASSUME NEW t \in TaskNames PROVE t \in taskStarts' <=> OpenIn(timeline', t)
    <3>1. t \in taskStarts' <=>
            \/ t \in taskStarts /\ ~(e.type = "task_finished" /\ e.task = t)
            \/ e.type = "task_started" /\ e.task = t
      BY ProcessedTask
    <3>2. OpenIn(timeline', t)
            <=> \/ OpenIn(timeline, t) /\ ~(e.type = "task_finished" /\ e.task = t)
                \/ e.type = "task_started" /\ e.task = t
      BY <1>1, OpenAppended
    <3>3. t \in taskStarts <=> OpenIn(timeline, t)
      BY DEF ReviewInv, Waiting
    <3> QED
      BY <3>1, <3>2, <3>3
  <2>2. executed' \subseteq tasks' /\ described' \subseteq tasks'
    <3>1. Executed(e) \subseteq
            TaskIf(e, Describes(e) \/ e.type \in {"task_finished", "tool_finished"})
      BY DEF Executed, TaskIf
    <3>2. TaskIf(e, Describes(e)) \subseteq
            TaskIf(e, Describes(e) \/ e.type \in {"task_finished", "tool_finished"})
      BY DEF TaskIf
    <3>3. /\ executed' = executed \union Executed(e)
          /\ tasks' = tasks \union
               TaskIf(e, Describes(e) \/ e.type \in {"task_finished", "tool_finished"})
          /\ described' = described \union TaskIf(e, Describes(e))
      BY DEF Process
    <3> QED
      BY <3>1, <3>2, <3>3 DEF ReviewInv, Waiting
  <2> QED
    BY <1>3, <2>1, <2>2 DEF Waiting
<1>5. Counted'
  <2>1. Len(timeline') = Len(timeline) + 1 /\ Len(timeline) \in Nat
    BY <1>1
  <2>2. Cardinality(ErrorsIn(timeline'))
           = Cardinality(ErrorsIn(timeline)) + (IF e.type = "error" THEN 1 ELSE 0)
    BY <1>1, ErrorsAppended
  <2>3. Cardinality(ErrorsIn(timeline)) \in Nat
    BY <1>1, ErrorsFinite
  <2>4. /\ logged \in Nat /\ Cardinality(ErrorsIn(timeline)) =< logged
        /\ logged + Cardinality(taskStarts) =< 2 * Len(timeline) + MaxUndated + 1
    BY <1>1 DEF ReviewInv, Counted
  <2>5. MaxEvents \in Nat /\ MaxUndated \in Nat
    BY DEF ConfigAssumption
  <2>6. Cardinality(taskStarts) \in Nat
    BY FS_CardinalityType DEF ReviewInv, Waiting
  <2>7. Cardinality(ErrorsIn(timeline')) =< logged'
    BY <1>1, <1>3, <2>2, <2>3, <2>4
  <2>8. logged' + Cardinality(taskStarts') =< 2 * Len(timeline') + MaxUndated + 1
    BY <1>1, <1>3, <2>1, <2>4, <2>5, <2>6
  <2>9. Len(timeline') =< MaxEvents
    BY <1>1, <2>1, <2>5
  <2>10. logged' \in Nat /\ logged' =< 2 * MaxEvents + MaxUndated + 1
    BY <1>1, <1>3, <2>1, <2>4, <2>5, <2>8, <2>9
  <2>11. pc' = "timeline"
    BY <1>1
  <2> QED
    BY <2>7, <2>8, <2>9, <2>10, <2>11 DEF Counted
<1>6. Told' /\ Granted'
  <2>1. ~report.made /\ challenges = {} /\ granted = {} /\ qa # "evaluating"
    BY <1>1 DEF ReviewInv, Told, Granted
  <2> QED
    BY <1>1, <2>1 DEF ReviewInv, Told, Granted, qaVars
<1> QED
  BY <1>2, <1>4, <1>5, <1>6 DEF ReviewInv

\* An event that raises ends the analysis: there is no report to tell anything.
LEMMA RaisesKeepsReview ==
  ASSUME ConfigAssumption, ReviewInv, NEW e \in Events, ProcessRaises(e), IInv'
  PROVE  ReviewInv'
<1>1. /\ timeline \in Seq(Events) /\ timeline' = Append(timeline, e)
      /\ pc = "timeline" /\ pc' = "raised" /\ Len(timeline) < MaxEvents
      /\ UNCHANGED <<store, taskStarts, tasks, described, executed, logged, report,
                     challenges, qaVars>>
  BY DEF ReviewInv, IInv, Bookkeeping, ProcessRaises
<1>2. Simple'
  BY <1>1 DEF ReviewInv, Simple, qaVars
<1>3. e.type # "task_started" /\ e.type # "task_finished"
  BY DEF ProcessRaises, Raises
<1>4. Waiting'
  <2>1. \A t : OpenIn(timeline', t) <=> OpenIn(timeline, t)
    BY <1>1, <1>3, OpenAppended
  <2> QED
    BY <1>1, <2>1 DEF ReviewInv, Waiting
<1>5. Counted'
  <2>1. /\ Len(timeline) \in Nat /\ Len(timeline') = Len(timeline) + 1
        /\ MaxEvents \in Nat /\ MaxUndated \in Nat
    BY <1>1 DEF ConfigAssumption
  <2>2. logged \in Nat /\ logged =< 2 * MaxEvents + MaxUndated + 1
    BY DEF ReviewInv, Counted
  <2> QED
    BY <1>1, <2>1, <2>2 DEF Counted
<1>6. Told' /\ Granted'
  <2>1. ~report.made /\ challenges = {} /\ granted = {} /\ qa # "evaluating"
    BY <1>1 DEF ReviewInv, Told, Granted
  <2> QED
    BY <1>1, <2>1 DEF ReviewInv, Told, Granted, qaVars
<1> QED
  BY <1>2, <1>4, <1>5, <1>6 DEF ReviewInv

\* What a step does that leaves the timeline and what was read of it.
LEMMA SameTimeline ==
  ASSUME ReviewInv, UNCHANGED <<timeline, taskStarts, tasks, described, executed>>
  PROVE  Waiting'
BY DEF ReviewInv, Waiting

LEMMA NothingIn == Cardinality(ErrorsIn(<<>>)) = 0
<1>1. ErrorsIn(<<>>) = {}
  BY DEF ErrorsIn
<1> QED
  BY <1>1, FS_EmptySet

\* Before there is a report nobody has challenged or granted anything.
LEMMA NotYetReported ==
  ASSUME ReviewInv, pc # "reported", UNCHANGED <<report, challenges, qaVars>>
  PROVE  /\ ~report.made /\ challenges = {} /\ granted = {} /\ qa # "evaluating"
         /\ Granted'
         /\ pc' # "reported" => Told'
<1>1. ~report.made /\ challenges = {} /\ granted = {} /\ qa # "evaluating"
  BY DEF ReviewInv, Told, Granted
<1>2. Granted'
  BY <1>1 DEF ReviewInv, Granted, qaVars
<1>3. pc' # "reported" => Told'
  BY <1>1 DEF Told
<1> QED
  BY <1>1, <1>2, <1>3

LEMMA BeginKeepsReview ==
  ASSUME ConfigAssumption, ReviewInv, NEW n \in 0..MaxUndated, NEW u \in {0, 1}, Begin(n, u),
         IInv'
  PROVE  ReviewInv'
<1>1. /\ pc = "run" /\ pc' = "timeline" /\ logged' = n + u
      /\ UNCHANGED <<store, timeline, taskStarts, tasks, described, executed, report,
                     challenges, qaVars>>
  BY DEF Begin
<1>2. Simple' /\ Waiting'
  BY <1>1, SameTimeline DEF ReviewInv, Simple, qaVars
<1>3. Counted'
  <2>1. timeline = <<>> /\ taskStarts = {} /\ Len(timeline) = 0
    BY <1>1 DEF ReviewInv, Counted
  <2>2. Cardinality(ErrorsIn(timeline)) = 0 /\ Cardinality(taskStarts) = 0
    BY <2>1, NothingIn, FS_EmptySet
  <2>3. MaxEvents \in Nat /\ MaxUndated \in Nat /\ n + u \in 0..(MaxUndated + 1)
    BY DEF ConfigAssumption
  <2> QED
    BY <1>1, <2>1, <2>2, <2>3 DEF Counted
<1>4. Told' /\ Granted'
  BY <1>1, NotYetReported
<1> QED
  BY <1>2, <1>3, <1>4 DEF ReviewInv

LEMMA NothingKeepsReview ==
  ASSUME ConfigAssumption, ReviewInv, NothingToAnalyze, IInv'
  PROVE  ReviewInv'
<1>1. /\ pc = "run" /\ pc' = "reported"
      /\ UNCHANGED <<store, timeline, taskStarts, tasks, described, executed, logged,
                     challenges, qaVars>>
  BY DEF NothingToAnalyze, analyzerVars
<1>2. PICK n, remarks : report' = Report(1, n, {}, {}, FALSE, remarks)
  BY DEF NothingToAnalyze
<1>3. Simple' /\ Waiting'
  BY <1>1, SameTimeline DEF ReviewInv, Simple, qaVars
<1>4. timeline = <<>> /\ taskStarts = {} /\ logged = 0
  BY <1>1 DEF ReviewInv, Counted
<1>5. Cardinality(ErrorsIn(timeline)) = 0 /\ Cardinality(taskStarts) = 0
  BY <1>4, NothingIn, FS_EmptySet
<1>6. Counted'
  BY <1>1, <1>4, <1>5 DEF ReviewInv, Counted
<1>7. executed = {}
  <2>1. ASSUME NEW t \in executed PROVE FALSE
    <3>1. t \in TaskNames /\ RanIn(timeline, t)
      BY DEF ReviewInv, IInv, Bookkeeping
    <3> QED
      BY <1>4, <3>1 DEF RanIn
  <2> QED
    BY <2>1
<1>8. ~report.made /\ challenges = {} /\ granted = {} /\ qa # "evaluating"
  BY <1>1 DEF ReviewInv, Told, Granted
<1>9. /\ report'.made = TRUE /\ report'.errors = 1 /\ report'.completed = {}
      /\ report'.timed = FALSE
  BY <1>2 DEF Report
<1>10. Told'
  <2>1. Mishaps' = 0
    BY <1>1, <1>5 DEF Mishaps
  <2> QED
    BY <1>1, <1>4, <1>7, <1>8, <1>9, <2>1 DEF Told
<1>11. Granted'
  BY <1>1, <1>8, <1>9 DEF ReviewInv, Granted, qaVars
<1> QED
  BY <1>3, <1>6, <1>10, <1>11 DEF ReviewInv

LEMMA EndKeepsReview ==
  ASSUME ConfigAssumption, ReviewInv, EndOfTimeline, IInv'
  PROVE  ReviewInv'
<1>1. /\ pc = "timeline"
      /\ UNCHANGED <<store, timeline, taskStarts, tasks, described, executed, challenges, qaVars>>
  BY DEF EndOfTimeline
<1>2. Waiting'
  BY <1>1, SameTimeline
<1>3. ~report.made /\ challenges = {} /\ granted = {} /\ qa # "evaluating"
  BY <1>1 DEF ReviewInv, Told, Granted
<1>4. CASE EndRaises
  <2>1. pc' = "raised" /\ UNCHANGED <<logged, report>>
    BY <1>4 DEF EndOfTimeline
  <2>2. Simple'
    BY <1>1, <2>1 DEF ReviewInv, Simple, qaVars
  <2>3. Counted'
    BY <1>1, <2>1 DEF ReviewInv, Counted
  <2>4. Told' /\ Granted'
    BY <1>1, <2>1, NotYetReported
  <2> QED
    BY <1>2, <2>2, <2>3, <2>4 DEF ReviewInv
<1>5. CASE ~EndRaises
  <2>1. /\ pc' = "reported" /\ logged' = logged + Cardinality(taskStarts)
        /\ report' = Report(logged', logged', executed, agents, timeline # <<>>, Remarks)
    BY <1>5 DEF EndOfTimeline
  <2>2. Simple'
    BY <1>1, <2>1 DEF ReviewInv, Simple, qaVars
  <2>3. /\ Cardinality(taskStarts) \in Nat /\ logged \in Nat
        /\ Cardinality(ErrorsIn(timeline)) \in Nat
        /\ Cardinality(ErrorsIn(timeline)) =< logged
        /\ Len(timeline) \in Nat /\ Len(timeline) =< MaxEvents
        /\ logged + Cardinality(taskStarts) =< 2 * Len(timeline) + MaxUndated + 1
    <3>1. Cardinality(taskStarts) \in Nat
      BY FS_CardinalityType DEF ReviewInv, Waiting
    <3>2. timeline \in Seq(Events)
      BY DEF ReviewInv, IInv, Bookkeeping
    <3> QED
      BY <1>1, <3>1, <3>2, ErrorsFinite DEF ReviewInv, Counted
  <2>4. MaxEvents \in Nat /\ MaxUndated \in Nat
    BY DEF ConfigAssumption
  <2>5. /\ logged' \in Nat /\ logged' =< 2 * MaxEvents + MaxUndated + 1
        /\ Cardinality(ErrorsIn(timeline)) =< logged'
        /\ logged' >= Cardinality(ErrorsIn(timeline)) + Cardinality(taskStarts)
    BY <2>1, <2>3, <2>4
  <2>6. Counted'
    BY <1>1, <2>1, <2>3, <2>5 DEF Counted
  <2>7. /\ report'.made = TRUE /\ report'.errors = logged' /\ report'.completed = executed
        /\ report'.identified = report'.errors /\ report'.timed = (timeline # <<>>)
    BY <2>1 DEF Report
  <2>8. Told'
    BY <1>1, <1>3, <2>1, <2>5, <2>7 DEF Told, Mishaps
  <2>9. Granted'
    BY <1>1, <1>3, <2>7 DEF ReviewInv, Granted, qaVars
  <2> QED
    BY <1>2, <2>2, <2>6, <2>8, <2>9 DEF ReviewInv
<1> QED
  BY <1>4, <1>5

LEMMA RedTeamKeepsReview ==
  ASSUME ReviewInv, RedTeam, IInv'
  PROVE  ReviewInv'
<1>1. /\ report.made
      /\ UNCHANGED <<store, pc, timeline, taskStarts, tasks, described, executed, logged,
                     report, qaVars>>
  BY DEF RedTeam, analyzerVars
<1>2. Simple' /\ Waiting' /\ Counted' /\ Granted'
  <2>1. Waiting'
    BY <1>1, SameTimeline
  <2> QED
    BY <1>1, <2>1 DEF ReviewInv, Simple, Counted, Granted, qaVars
<1>3. timeline # <<>> => \E c \in challenges' : c.kind = "GeneralError" /\ c.count = report.errors
  <2> SUFFICES ASSUME timeline # <<>>
               PROVE  \E c \in challenges' : c.kind = "GeneralError" /\ c.count = report.errors
    OBVIOUS
  <2>1. report.identified = report.errors
    BY <1>1 DEF ReviewInv, Told
  <2>2. Challenge("GeneralError", report.identified) \in challenges'
    BY DEF RedTeam
  <2>3. Challenge("GeneralError", report.errors) \in challenges'
    BY <2>1, <2>2
  <2> QED
    BY <2>3 DEF Challenge
<1>4. Told'
  BY <1>1, <1>3 DEF ReviewInv, Told, Mishaps
<1> QED
  BY <1>2, <1>4 DEF ReviewInv

\* The milestone of which a reward is granted.
LEMMA RewardOf ==
  ASSUME ConfigAssumption, ReviewInv, report.made, NEW inTime \in BOOLEAN,
         NEW n \in 1..Len(Milestones),
         ~RewardRaises(Milestones[n], inTime), Reached(Milestones[n], inTime),
         Milestones[n].kind = "crew"
  PROVE  /\ Milestones[n].tasks # Nothing => Cardinality(report.completed) >= Milestones[n].tasks
         /\ Milestones[n].errors # Nothing => report.errors =< Milestones[n].errors
         /\ Milestones[n].duration # Nothing => report.timed
<1> DEFINE m == Milestones[n]
<1>1. \A c \in Stated(m) : Holds(m, c, inTime)
  BY DEF Reached
<1>2. ~("duration" \in Stated(m) /\ ~report.timed)
  BY DEF RewardRaises
<1>3. ASSUME m.tasks # Nothing PROVE Cardinality(report.completed) >= m.tasks
  <2>1. "tasks" \in Stated(m)
    BY <1>3 DEF Stated
  <2>2. Holds(m, "tasks", inTime)
    BY <1>1, <2>1
  <2> QED
    BY <2>2 DEF Holds
<1>4. ASSUME m.errors # Nothing PROVE report.errors =< m.errors
  <2>1. "errors" \in Stated(m)
    BY <1>4 DEF Stated
  <2>2. Holds(m, "errors", inTime)
    BY <1>1, <2>1
  <2> QED
    BY <2>2 DEF Holds
<1>5. ASSUME m.duration # Nothing PROVE report.timed
  <2>1. "duration" \in Stated(m)
    BY <1>5 DEF Stated
  <2> QED
    BY <1>2, <2>1
<1> QED
  BY <1>3, <1>4, <1>5

LEMMA EvaluateKeepsReview ==
  ASSUME ConfigAssumption, ReviewInv, NEW inTime \in BOOLEAN, Evaluate(inTime), IInv'
  PROVE  ReviewInv'
<1>1. /\ qa = "evaluating" /\ at =< Len(Milestones)
      /\ UNCHANGED <<store, pc, timeline, taskStarts, tasks, described, executed, logged,
                     report, challenges, models>>
  BY DEF Evaluate, analyzerVars
<1>2. Waiting' /\ Counted' /\ Told'
  <2>1. Waiting'
    BY <1>1, SameTimeline
  <2> QED
    BY <1>1, <2>1 DEF ReviewInv, Counted, Told, Mishaps
<1>3. /\ report.made /\ Len(Milestones) \in Nat
      /\ at \in 1..Len(Milestones) /\ granted \subseteq 1..(at - 1)
  BY <1>1 DEF ReviewInv, Granted, ConfigAssumption
<1> DEFINE m == Milestones[at]
<1>4. CASE RewardRaises(m, inTime)
  <2>1. qa' = "raised" /\ UNCHANGED <<at, granted>>
    BY <1>4 DEF Evaluate
  <2> QED
    BY <1>1, <1>2, <2>1 DEF ReviewInv, Simple, Granted
<1>5. CASE ~RewardRaises(m, inTime)
  <2>1. /\ at' = at + 1 /\ qa' = qa
        /\ granted' = IF Reached(m, inTime) THEN granted \union {at} ELSE granted
    BY <1>5 DEF Evaluate
  <2>2. at' \in 1..(Len(Milestones) + 1) /\ granted' \subseteq 1..(at' - 1)
    BY <1>3, <2>1
  <2>3. ASSUME NEW n \in granted', Milestones[n].kind = "crew"
        PROVE  /\ Milestones[n].tasks # Nothing
                    => Cardinality(report.completed) >= Milestones[n].tasks
               /\ Milestones[n].errors # Nothing => report.errors =< Milestones[n].errors
               /\ Milestones[n].duration # Nothing => report.timed
    <3>1. CASE n \in granted
      BY <2>3, <3>1 DEF ReviewInv, Granted
    <3>2. CASE n \notin granted
      <4>1. n = at /\ Reached(m, inTime)
        BY <2>1, <3>2
      <4> QED
        BY <1>3, <1>5, <2>3, <4>1, RewardOf
    <3> QED
      BY <3>1, <3>2
  <2>4. Granted'
    BY <1>1, <1>3, <2>1, <2>2, <2>3 DEF Granted
  <2> QED
    BY <1>1, <1>2, <2>1, <2>4 DEF ReviewInv, Simple
<1> QED
  BY <1>4, <1>5

LEMMA ReviewInit == ConfigAssumption /\ Init => ReviewInv
<1> SUFFICES ASSUME ConfigAssumption, Init PROVE ReviewInv
  OBVIOUS
<1>1. Cardinality({}) = 0 /\ IsFiniteSet({})
  BY FS_EmptySet
<1>2. Simple
  BY DEF ConfigAssumption, Init, Simple
<1>3. Waiting
  <2>1. \A t : ~OpenIn(<<>>, t)
    BY DEF OpenIn
  <2> QED
    BY <1>1, <2>1 DEF Init, Waiting
<1>4. Counted
  BY <1>1, NothingIn DEF ConfigAssumption, Init, Counted
<1>5. Told /\ Granted
  BY DEF ConfigAssumption, Init, NoReport, Told, Granted
<1> QED
  BY <1>2, <1>3, <1>4, <1>5, InitHolds DEF ReviewInv

LEMMA ReviewNext == ConfigAssumption /\ ReviewInv /\ [Next]_vars => ReviewInv'
<1> SUFFICES ASSUME ConfigAssumption, ReviewInv, [Next]_vars PROVE ReviewInv'
  OBVIOUS
<1>0. IInv'
  BY NextKeeps DEF ReviewInv
<1>1. CASE Observe
  <2>1. /\ store' \in 0..MaxSteps
        /\ UNCHANGED <<pc, analyzerVars, report, challenges, qaVars>>
    BY <1>1 DEF Observe, ReviewInv, Simple, ConfigAssumption
  <2> QED
    BY <1>0, <2>1 DEF ReviewInv, Simple, Waiting, Counted, Told, Mishaps, Granted,
                      analyzerVars, qaVars
<1>2. CASE NothingToAnalyze
  BY <1>0, <1>2, NothingKeepsReview
<1>3. CASE SortRaises
  <2>1. /\ pc = "run" /\ pc' = "raised"
        /\ UNCHANGED <<store, timeline, taskStarts, tasks, described, executed, logged, report,
                       challenges, qaVars>>
    BY <1>3 DEF SortRaises, analyzerVars
  <2>2. Told' /\ Granted'
    BY <2>1, NotYetReported
  <2>3. Waiting'
    BY <2>1, SameTimeline
  <2> QED
    BY <1>0, <2>1, <2>2, <2>3 DEF ReviewInv, Simple, Counted, qaVars
<1>4. CASE EndOfTimeline
  BY <1>0, <1>4, EndKeepsReview
<1>5. CASE RedTeam
  BY <1>0, <1>5, RedTeamKeepsReview
<1>6. CASE ParseReport
  BY <1>0, <1>6 DEF ParseReport, ReviewInv, Simple, Waiting, Counted, Told, Mishaps, Granted,
                    analyzerVars
<1>7. CASE EndEvaluation
  BY <1>0, <1>7 DEF EndEvaluation, ReviewInv, Simple, Waiting, Counted, Told, Mishaps, Granted,
                    analyzerVars
<1>8. ASSUME NEW n \in 0..MaxUndated, NEW u \in {0, 1}, Begin(n, u)
      PROVE  ReviewInv'
  BY <1>0, <1>8, BeginKeepsReview
<1>9. ASSUME NEW e \in Events, Process(e) PROVE ReviewInv'
  BY <1>0, <1>9, ProcessKeepsReview
<1>10. ASSUME NEW e \in Events, ProcessRaises(e) PROVE ReviewInv'
  BY <1>0, <1>10, RaisesKeepsReview
<1>11. ASSUME NEW inTime \in BOOLEAN, Evaluate(inTime) PROVE ReviewInv'
  BY <1>0, <1>11, EvaluateKeepsReview
<1>12. CASE UNCHANGED vars
  BY <1>0, <1>12 DEF vars, ReviewInv, Simple, Waiting, Counted, Told, Mishaps, Granted,
                     analyzerVars, qaVars
<1> QED
  BY <1>1, <1>2, <1>3, <1>4, <1>5, <1>6, <1>7, <1>8, <1>9, <1>10, <1>11, <1>12 DEF Next

\* What the invariant says of the timeline is what the properties say of it.
LEMMA ReviewTells == ConfigAssumption /\ ReviewInv => TypeOK /\ ReviewIsTrue
<1> SUFFICES ASSUME ConfigAssumption, ReviewInv PROVE TypeOK /\ ReviewIsTrue
  OBVIOUS
<1>1. CompletedRan
  BY BooksTellRuns DEF ReviewInv
<1>2. RanTasks = executed
  <2>1. \A t : Ran(t) <=> RanIn(timeline, t)
    BY DEF Ran, RanIn, Happened
  <2>2. \A t : t \in executed <=> t \in RanTasks
    BY <2>1 DEF ReviewInv, IInv, Bookkeeping, RanTasks
  <2> QED
    BY <2>2
<1>3. {t \in TaskNames : LeftOpen(t)} = taskStarts
  <2>1. \A t : LeftOpen(t) <=> OpenIn(timeline, t)
    BY DEF LeftOpen, OpenIn, Happened
  <2>2. \A t : t \in taskStarts <=> t \in TaskNames /\ LeftOpen(t)
    BY <2>1 DEF ReviewInv, IInv, Bookkeeping, Waiting
  <2> QED
    BY <2>2
<1>4. Happened("error") = ErrorsIn(timeline)
  BY DEF Happened, ErrorsIn
<1>5. ErrorsAreTold
  BY <1>3, <1>4 DEF ReviewInv, Told, Mishaps, ErrorsAreTold
<1>6. ASSUME NEW n \in granted, Milestones[n].kind = "crew"
      PROVE  /\ Milestones[n].tasks # Nothing => Cardinality(RanTasks) >= Milestones[n].tasks
             /\ Milestones[n].errors # Nothing
                  => Cardinality(Happened("error")) =< Milestones[n].errors
             /\ Milestones[n].duration # Nothing => timeline # <<>>
  <2>1. n \in 1..Len(Milestones)
    BY DEF ReviewInv, Granted, ConfigAssumption
  <2>2. Milestones[n].errors # Nothing => Milestones[n].errors \in Nat
    BY <1>6, <2>1 DEF ConfigAssumption
  <2>3. /\ report.made /\ report.errors \in Nat
        /\ report.errors >= Cardinality(ErrorsIn(timeline)) + Cardinality(taskStarts)
        /\ report.timed <=> timeline # <<>>
        /\ report.completed = executed
    BY DEF ReviewInv, Told, Granted, Mishaps
  <2>4. /\ Milestones[n].tasks # Nothing => Cardinality(report.completed) >= Milestones[n].tasks
        /\ Milestones[n].errors # Nothing => report.errors =< Milestones[n].errors
        /\ Milestones[n].duration # Nothing => report.timed
    BY <1>6 DEF ReviewInv, Granted
  <2>5. Cardinality(ErrorsIn(timeline)) \in Nat /\ Cardinality(taskStarts) \in Nat
    BY ErrorsFinite, FS_CardinalityType DEF ReviewInv, IInv, Bookkeeping, Waiting
  <2>6. Cardinality(ErrorsIn(timeline)) =< report.errors
    BY <2>3, <2>5
  <2>7. Milestones[n].errors # Nothing => Cardinality(ErrorsIn(timeline)) =< Milestones[n].errors
    BY <2>2, <2>3, <2>4, <2>5, <2>6
  <2> QED
    BY <1>2, <1>4, <2>3, <2>4, <2>7
<1>7. RewardIsEarned
  BY <1>6 DEF RewardIsEarned
<1>8. TypeOK
  BY DEF ReviewInv, IInv, Bookkeeping, Simple, Waiting, Counted, Told, Granted, TypeOK
<1> QED
  BY <1>1, <1>5, <1>7, <1>8 DEF ReviewIsTrue

\* Every variable of the review keeps its type; the log stays bounded by the events.
THEOREM ReviewTypeCorrect ==
  ASSUME ConfigAssumption
  PROVE  Spec => []TypeOK
<1> QED BY ReviewInit, ReviewNext, ReviewTells, PTL DEF Spec

\* Whatever the timeline, a report has the tasks that ran and at least the errors
\* and the open tasks there were, the red team challenges them, and a crew
\* milestone's reward was earned (_calculate_overall_metrics, evaluate_and_reward).
THEOREM ReviewTellsTheTruth ==
  ASSUME ConfigAssumption
  PROVE  Spec => []ReviewIsTrue
<1> QED BY ReviewInit, ReviewNext, ReviewTells, PTL DEF Spec

=============================================================================
