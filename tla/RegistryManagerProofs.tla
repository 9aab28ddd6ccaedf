----------------------- MODULE RegistryManagerProofs -----------------------
(***************************************************************************)
(* What holds of the registry and of what TLC runs beside it, for any      *)
(* number of services, ratings, failures, experiences and updates.  The    *)
(* index entries resolve by themselves (IInv).  Profiles are real because  *)
(* what a call has read is already real when it is read (RealRatings).     *)
(* The replay buffer needs the pairing of its two deques (ReplayInv).  The *)
(* training and the review are proved about in modules of their own, and   *)
(* instanced here.                                                         *)
(***************************************************************************)
EXTENDS MCRegistryManager, FoldLemmas

\* The part of TypeOK that the service keys and their indexes need.
ServiceTypeOK ==
  /\ record \in [Services -> {"absent", "fresh", "old"}]
  /\ index \in SUBSET Services
  /\ (monitor \in {"get", "delete"} => at \in Services)

\* The inductive invariant.
IInv == ServiceTypeOK /\ IndexEntriesResolve

\* Removing a service's key together with its index entries keeps the others.
LEMMA UnregisterKeeps ==
  ASSUME IInv, NEW s \in Services, Unregister(s)
  PROVE  /\ record' \in [Services -> {"absent", "fresh", "old"}]
         /\ index' \in SUBSET Services
         /\ \A u \in index' : record'[u] # "absent"
BY DEF IInv, ServiceTypeOK, IndexEntriesResolve, Unregister

\* The invariant speaks of these variables only.
LEMMA Untouched ==
  ASSUME IInv, UNCHANGED <<record, index>>,
         monitor' \in {"get", "delete"} => at' \in Services
  PROVE  IInv'
BY DEF IInv, ServiceTypeOK, IndexEntriesResolve

\* Every step keeps the invariant.
LEMMA StepKeeps == IInv /\ [Next]_vars => IInv'
<1> SUFFICES ASSUME IInv, [Next]_vars PROVE IInv'
  OBVIOUS
<1> USE DEF serviceVars, monitorVars, reputationVars, learningVars
<1>1. ASSUME NEW s \in Services, RegisterService(s) PROVE IInv'
  BY <1>1 DEF IInv, ServiceTypeOK, IndexEntriesResolve, RegisterService
<1>2. ASSUME NEW s \in Services, HeartbeatAges(s) PROVE IInv'
  BY <1>2 DEF IInv, ServiceTypeOK, IndexEntriesResolve, HeartbeatAges
<1>3. ASSUME NEW s \in Services, HeartbeatReads(s) \/ UnregisterReads(s) PROVE IInv'
  BY <1>3, Untouched DEF IInv, ServiceTypeOK, HeartbeatReads, UnregisterReads
<1>4. ASSUME NEW s \in Services, HeartbeatSets(s) PROVE IInv'
  <2>1. CASE record' = [record EXCEPT ![s] = "fresh"]
    BY <1>4, <2>1 DEF IInv, ServiceTypeOK, IndexEntriesResolve, HeartbeatSets
  <2>2. CASE UNCHANGED record
    BY <1>4, <2>2, Untouched DEF IInv, ServiceTypeOK, HeartbeatSets
  <2>3. QED
    BY <1>4, <2>1, <2>2 DEF HeartbeatSets
<1>5. ASSUME NEW s \in Services, UnregisterDeletes(s) PROVE IInv'
  <2>1. CASE Unregister(s)
    BY <1>5, <2>1, UnregisterKeeps DEF UnregisterDeletes, IInv, ServiceTypeOK,
                                       IndexEntriesResolve
  <2>2. CASE UNCHANGED <<record, index>>
    BY <1>5, <2>2, Untouched DEF UnregisterDeletes, IInv, ServiceTypeOK
  <2>3. QED
    BY <1>5, <2>1, <2>2 DEF UnregisterDeletes
<1>6. CASE PruneScans \/ PassEnds \/ WaitEnds \/ PruneRaises
  BY <1>6, Untouched DEF IInv, ServiceTypeOK, PruneScans, PassEnds, WaitEnds, PruneRaises
<1>7. ASSUME NEW s \in Services, PruneChecks(s) PROVE IInv'
  BY <1>7, Untouched DEF IInv, ServiceTypeOK, PruneChecks
<1>8. CASE PruneReads
  BY <1>8, Untouched DEF IInv, ServiceTypeOK, PruneReads
<1>9. CASE PruneDeletes
  <2>1. at \in Services /\ monitor' = "check"
    BY <1>9 DEF PruneDeletes, IInv, ServiceTypeOK
  <2>2. CASE Unregister(at)
    BY <2>1, <2>2, UnregisterKeeps DEF IInv, ServiceTypeOK, IndexEntriesResolve
  <2>3. CASE UNCHANGED <<record, index>>
    BY <2>1, <2>3, Untouched
  <2>4. QED
    BY <1>9, <2>2, <2>3 DEF PruneDeletes
<1>10. CASE StartMonitor \/ StopMonitor \/ StopTimesOut
  BY <1>10, Untouched DEF IInv, ServiceTypeOK, StartMonitor, StopMonitor, StopTimesOut
<1>11. ASSUME NEW c \in RatingCalls, NEW a \in Agents, NEW score \in Scores,
              RatingReads(c, a, score)
       PROVE  IInv'
  BY <1>11, Untouched DEF IInv, ServiceTypeOK, RatingReads
<1>12. ASSUME NEW c \in RatingCalls, RatingExecutes(c) PROVE IInv'
  BY <1>12, Untouched DEF IInv, ServiceTypeOK, RatingExecutes
<1>13. ASSUME NEW l \in Learnings, NEW k \in Keywords, PublishLearning(l, k) PROVE IInv'
  BY <1>13, Untouched DEF IInv, ServiceTypeOK, PublishLearning
<1>14. ASSUME NEW l \in Learnings, DeleteLearning(l) PROVE IInv'
  BY <1>14, Untouched DEF IInv, ServiceTypeOK, DeleteLearning, vars
<1>15. CASE UNCHANGED vars
  BY <1>15, Untouched DEF IInv, ServiceTypeOK, vars
<1>16. QED
  BY <1>1, <1>2, <1>3, <1>4, <1>5, <1>6, <1>7, <1>8, <1>9, <1>10, <1>11, <1>12,
     <1>13, <1>14, <1>15 DEF Next, MonitorStep

\* find_services_by_crew and find_services_by_capability never meet an id whose
\* service is gone.
THEOREM IndexesResolve == Spec => []IndexEntriesResolve
<1>1. Init => IInv
  BY DEF Init, IInv, ServiceTypeOK, IndexEntriesResolve
<1>2. IInv => IndexEntriesResolve
  BY DEF IInv
<1>3. QED
  BY <1>1, <1>2, StepKeeps, PTL DEF Spec

-----------------------------------------------------------------------------
(* Types, and profiles of real ratings.                                    *)

\* A call that has read the profile has its arguments.
Executing ==
  \A c \in RatingCalls :
    call[c].pc = "exec" => call[c].agent \in Agents /\ call[c].score \in Scores

TypeInv == TypeOK /\ Executing

\* Trimming leaves a list of at most KeptRatings of its elements.
LEMMA TrimmedKeeps ==
  ASSUME NEW S, NEW list \in Seq(S)
  PROVE  Trimmed(list) \in Seq(S) /\ Len(Trimmed(list)) =< KeptRatings
<1> DEFINE m == IF Len(list) < KeptRatings THEN Len(list) ELSE KeptRatings
<1>1. m \in Nat /\ m =< Len(list) /\ m =< KeptRatings
  BY RegistryAssumption
<1>2. Trimmed(list) = SubSeq(list, 1, m)
  BY DEF Trimmed
<1> HIDE DEF m
<1>3. SubSeq(list, 1, m) \in Seq(S) /\ Len(SubSeq(list, 1, m)) = m
  BY <1>1
<1> QED
  BY <1>1, <1>2, <1>3

\* A profile with one more rating is a profile.
LEMMA RatedIsProfile ==
  ASSUME NEW p \in Profile, NEW score \in Nat
  PROVE  Rated(p, score) \in Profile
BY DEF Profile, Rated

\* Failures stay within their bound.
LEMMA FailuresBounded ==
  ASSUME TypeOK, Fails \/ UNCHANGED failures
  PROVE  failures' \in 0..MaxFailures
BY RegistryAssumption DEF TypeOK, Fails

\* record_rating keeps the types.
LEMMA RatingTypes ==
  ASSUME TypeInv, NEW c \in RatingCalls, RatingExecutes(c)
  PROVE  TypeInv'
<1> DEFINE a == call[c].agent
           done == [call EXCEPT ![c].pc = "done"]
           failed == [call EXCEPT ![c].pc = "failed"]
<1>1. /\ call \in [RatingCalls -> RatingCall] /\ call[c].pc = "exec" /\ a \in Agents
      /\ call[c] \in RatingCall /\ call[c].score \in Scores /\ call[c].score \in Nat
      /\ call[c].seen \in Profile
  BY RegistryAssumption DEF TypeInv, TypeOK, Executing, RatingExecutes, RatingCall
<1>2. /\ done \in [RatingCalls -> RatingCall] /\ failed \in [RatingCalls -> RatingCall]
      /\ done[c].pc = "done" /\ failed[c].pc = "failed"
      /\ \A d \in RatingCalls : d # c => done[d] = call[d] /\ failed[d] = call[d]
  BY <1>1 DEF RatingCall
<1>3. CASE call' = done \/ call' = failed
  <2>1. call' \in [RatingCalls -> RatingCall] /\ Executing'
    BY <1>2, <1>3 DEF TypeInv, Executing
  <2>2. profile' \in [Agents -> Profile] /\ failures' \in 0..MaxFailures
    <3>1. Rated(call[c].seen, call[c].score) \in Profile
      BY <1>1, RatedIsProfile
    <3>2. profile' \in [Agents -> Profile]
      BY <1>1, <3>1 DEF TypeInv, TypeOK, RatingExecutes
    <3>3. failures' \in 0..MaxFailures
      BY FailuresBounded DEF TypeInv, RatingExecutes
    <3> QED
      BY <3>2, <3>3
  <2>3. /\ ratingsList' \in [Agents -> Seq(Scores)]
        /\ \A b \in Agents : Len(ratingsList'[b]) =< KeptRatings
    <3> DEFINE list == <<call[c].score>> \o ratingsList[a]
    <3>1. list \in Seq(Scores)
      BY <1>1 DEF TypeInv, TypeOK
    <3>2. \/ ratingsList' = [ratingsList EXCEPT ![a] = Trimmed(list)]
          \/ UNCHANGED ratingsList
      BY DEF RatingExecutes
    <3> HIDE DEF list
    <3>3. Trimmed(list) \in Seq(Scores) /\ Len(Trimmed(list)) =< KeptRatings
      BY <3>1, TrimmedKeeps
    <3> QED
      BY <3>2, <3>3 DEF TypeInv, TypeOK
  <2>4. UNCHANGED <<serviceVars, monitorVars, learningVars>>
    BY DEF RatingExecutes
  <2> QED
    BY <2>1, <2>2, <2>3, <2>4 DEF TypeInv, TypeOK, serviceVars, monitorVars, learningVars
<1> QED
  BY <1>3 DEF RatingExecutes

LEMMA TypesKept == TypeInv /\ [Next]_vars => TypeInv'
<1> SUFFICES ASSUME TypeInv, [Next]_vars PROVE TypeInv'
  OBVIOUS
<1> USE RegistryAssumption DEF serviceVars, monitorVars, reputationVars, learningVars
<1>1. ASSUME NEW s \in Services, RegisterService(s) \/ HeartbeatAges(s) PROVE TypeInv'
  BY <1>1 DEF TypeInv, TypeOK, Executing, RegisterService, HeartbeatAges
<1>2. ASSUME NEW s \in Services, HeartbeatReads(s) \/ UnregisterReads(s) PROVE TypeInv'
  <2>1. CASE HeartbeatReads(s)
    <3>1. beats' \in [Services -> 0..MaxBeats]
      <4>1. beats \in [Services -> 0..MaxBeats] /\ beats[s] + 1 \in 0..MaxBeats
        BY <2>1 DEF TypeInv, TypeOK, HeartbeatReads
      <4>2. beats' = [beats EXCEPT ![s] = beats[s] + 1]
        BY <2>1 DEF HeartbeatReads
      <4> QED
        BY <4>1, <4>2
    <3>2. beat' \in [Services -> {"idle", "set"}]
      BY <2>1 DEF TypeInv, TypeOK, HeartbeatReads
    <3> QED
      BY <2>1, <3>1, <3>2 DEF TypeInv, TypeOK, Executing, HeartbeatReads
  <2>2. CASE UnregisterReads(s)
    BY <2>2 DEF TypeInv, TypeOK, Executing, UnregisterReads
  <2> QED
    BY <1>2, <2>1, <2>2
<1>3. ASSUME NEW s \in Services, HeartbeatSets(s) PROVE TypeInv'
  <2>1. failures' \in 0..MaxFailures
    BY <1>3, FailuresBounded DEF TypeInv, HeartbeatSets
  <2>2. record' \in [Services -> {"absent", "fresh", "old"}]
    BY <1>3 DEF TypeInv, TypeOK, HeartbeatSets
  <2> QED
    BY <1>3, <2>1, <2>2 DEF TypeInv, TypeOK, Executing, HeartbeatSets
<1>4. ASSUME NEW s \in Services, UnregisterDeletes(s) PROVE TypeInv'
  <2>1. failures' \in 0..MaxFailures
    BY <1>4, FailuresBounded DEF TypeInv, UnregisterDeletes
  <2>2. record' \in [Services -> {"absent", "fresh", "old"}] /\ index' \in SUBSET Services
    BY <1>4 DEF TypeInv, TypeOK, UnregisterDeletes, Unregister
  <2> QED
    BY <1>4, <2>1, <2>2 DEF TypeInv, TypeOK, Executing, UnregisterDeletes
<1>5. CASE PruneScans \/ PassEnds \/ WaitEnds
  BY <1>5 DEF TypeInv, TypeOK, Executing, PruneScans, PassEnds, WaitEnds
<1>6. ASSUME NEW s \in Services, PruneChecks(s) PROVE TypeInv'
  BY <1>6 DEF TypeInv, TypeOK, Executing, PruneChecks
<1>7. CASE PruneReads
  BY <1>7 DEF TypeInv, TypeOK, Executing, PruneReads
<1>8. CASE PruneDeletes
  <2>1. failures' \in 0..MaxFailures
    BY <1>8, FailuresBounded DEF TypeInv, PruneDeletes
  <2>2. record' \in [Services -> {"absent", "fresh", "old"}] /\ index' \in SUBSET Services
    BY <1>8 DEF TypeInv, TypeOK, PruneDeletes, Unregister
  <2> QED
    BY <1>8, <2>1, <2>2 DEF TypeInv, TypeOK, Executing, PruneDeletes
<1>9. CASE PruneRaises
  <2>1. failures' \in 0..MaxFailures
    BY <1>9, FailuresBounded DEF TypeInv, PruneRaises
  <2> QED
    BY <1>9, <2>1 DEF TypeInv, TypeOK, Executing, PruneRaises
<1>10. CASE StartMonitor \/ StopMonitor \/ StopTimesOut
  BY <1>10 DEF TypeInv, TypeOK, Executing, StartMonitor, StopMonitor, StopTimesOut
<1>11. ASSUME NEW c \in RatingCalls, NEW a \in Agents, NEW score \in Scores,
              RatingReads(c, a, score)
       PROVE  TypeInv'
  <2> DEFINE new == [pc |-> "exec", agent |-> a, score |-> score, seen |-> profile[a]]
  <2>1. new \in RatingCall /\ new.agent \in Agents /\ new.score \in Scores
    BY DEF TypeInv, TypeOK, RatingCall
  <2>2. call' = [call EXCEPT ![c] = new] /\ call \in [RatingCalls -> RatingCall]
    BY <1>11 DEF RatingReads, TypeInv, TypeOK
  <2> HIDE DEF new
  <2>3. call' \in [RatingCalls -> RatingCall] /\ Executing'
    BY <2>1, <2>2 DEF TypeInv, Executing
  <2> QED
    BY <1>11, <2>3 DEF TypeInv, TypeOK, RatingReads
<1>12. ASSUME NEW c \in RatingCalls, RatingExecutes(c) PROVE TypeInv'
  BY <1>12, RatingTypes
<1>13. ASSUME NEW l \in Learnings, NEW k \in Keywords, PublishLearning(l, k) PROVE TypeInv'
  BY <1>13 DEF TypeInv, TypeOK, Executing, PublishLearning
<1>14. ASSUME NEW l \in Learnings, DeleteLearning(l) PROVE TypeInv'
  BY <1>14 DEF TypeInv, TypeOK, Executing, DeleteLearning, vars
<1>15. CASE UNCHANGED vars
  BY <1>15 DEF TypeInv, TypeOK, Executing, vars
<1>16. QED
  BY <1>1, <1>2, <1>3, <1>4, <1>5, <1>6, <1>7, <1>8, <1>9, <1>10, <1>11, <1>12,
     <1>13, <1>14, <1>15 DEF Next, MonitorStep

LEMMA InitTypes == Init => TypeInv
<1> SUFFICES ASSUME Init PROVE TypeInv
  OBVIOUS
<1>1. <<>> \in Seq(Scores) /\ Len(<<>>) =< KeptRatings
  BY RegistryAssumption
<1>2. /\ ratingsList \in [Agents -> Seq(Scores)]
      /\ \A a \in Agents : Len(ratingsList[a]) =< KeptRatings
  BY <1>1 DEF Init
<1>3. /\ call \in [RatingCalls -> RatingCall] /\ Executing /\ profile \in [Agents -> Profile]
  BY DEF Init, RatingCall, NewProfile, Profile, Executing
<1> QED
  <2>1. /\ record \in [Services -> {"absent", "fresh", "old"}]
        /\ beat \in [Services -> {"idle", "set"}] /\ beats \in [Services -> 0..MaxBeats]
        /\ unreg \in [Services -> {"idle", "delete"}] /\ failures \in 0..MaxFailures
    BY RegistryAssumption DEF Init
  <2>2. learning \in [Learnings -> Keywords \union {NoKeyword}]
    BY DEF Init
  <2> QED
    BY <1>2, <1>3, <2>1, <2>2 DEF Init, TypeInv, TypeOK

\* Every variable of the registry keeps its type, and the list of ratings stays
\* trimmed (registry_manager_agent.py).
THEOREM RegistryTypeCorrect == Spec => []TypeOK
<1>1. TypeInv => TypeOK
  BY DEF TypeInv
<1> QED
  BY <1>1, InitTypes, TypesKept, PTL DEF Spec

-----------------------------------------------------------------------------

\* The calls executed for an agent and their scores, of a value of call.
Done(cs, a) == {c \in RatingCalls : cs[c].pc = "done" /\ cs[c].agent = a}
Given(cs) == [c \in RatingCalls |-> cs[c].score]
RealIn(p, a, cs) ==
  \E calls \in SUBSET Done(cs, a) :
    p = [n |-> Cardinality(calls), sum |-> Sum(Given(cs), calls)]

\* What a call has read is as real as what is stored.
RealRatings ==
  /\ \A a \in Agents : RealIn(profile[a], a, call)
  /\ \A c \in RatingCalls :
       call[c].pc = "exec" => RealIn(call[c].seen, call[c].agent, call)

\* A profile stays real while the executed calls stay as they are.
LEMMA RealStays ==
  ASSUME NEW p, NEW a, NEW cs, NEW ds, RealIn(p, a, cs),
         \A c \in Done(cs, a) : c \in Done(ds, a) /\ ds[c].score = cs[c].score
  PROVE  RealIn(p, a, ds)
<1>1. PICK calls \in SUBSET Done(cs, a) :
        p = [n |-> Cardinality(calls), sum |-> Sum(Given(cs), calls)]
  BY DEF RealIn
<1>2. calls \in SUBSET Done(ds, a) /\ calls \in SUBSET RatingCalls
  BY DEF Done
<1>3. IsFiniteSet(calls)
  BY <1>2, RegistryAssumption, FS_Subset
<1>4. \A c \in calls : Given(cs)[c] = Given(ds)[c]
  BY <1>2 DEF Given
<1>5. Sum(Given(cs), calls) = Sum(Given(ds), calls)
  BY <1>3, <1>4, SumSame
<1> QED
  BY <1>1, <1>2, <1>5 DEF RealIn

\* Counting a call that was not counted yet makes a real profile of a real one.
LEMMA RatedIsReal ==
  ASSUME NEW p, NEW a, NEW cs \in [RatingCalls -> RatingCall], NEW c \in RatingCalls,
         RealIn(p, a, cs), cs[c].pc = "exec", cs[c].agent = a
  PROVE  RealIn(Rated(p, cs[c].score), a, [cs EXCEPT ![c].pc = "done"])
<1> DEFINE ds == [cs EXCEPT ![c].pc = "done"]
           score == cs[c].score
<1>1. PICK calls \in SUBSET Done(cs, a) :
        p = [n |-> Cardinality(calls), sum |-> Sum(Given(cs), calls)]
  BY DEF RealIn
<1>2. /\ ds[c].pc = "done" /\ ds[c].agent = a /\ ds[c].score = score
      /\ \A d \in RatingCalls : d # c => ds[d] = cs[d]
      /\ \A d \in RatingCalls : ds[d].score = cs[d].score /\ cs[d].score \in Nat
  BY RegistryAssumption DEF RatingCall
<1> HIDE DEF ds
<1> DEFINE new == calls \union {c}
<1>3. c \notin calls /\ new \in SUBSET Done(ds, a) /\ new \in SUBSET RatingCalls
      /\ calls \in SUBSET RatingCalls /\ new \ {c} = calls /\ c \in new
  BY <1>2 DEF Done
<1>4. IsFiniteSet(calls) /\ IsFiniteSet(new)
  BY <1>3, RegistryAssumption, FS_Subset
<1>5. Cardinality(new) = Cardinality(calls) + 1 /\ Cardinality(calls) \in Nat
  BY <1>3, <1>4, FS_AddElement, FS_CardinalityType
<1>6. Sum(Given(ds), calls) = Sum(Given(cs), calls)
  <2>1. \A d \in calls : Given(ds)[d] = Given(cs)[d]
    BY <1>2, <1>3 DEF Given
  <2> QED
    BY <1>4, <2>1, SumSame
<1>7. Sum(Given(ds), new) = score + Sum(Given(cs), calls)
  <2>1. \A d \in new : Given(ds)[d] \in Nat
    BY <1>2, <1>3 DEF Given
  <2>2. Given(ds)[c] = score
    BY <1>2 DEF Given
  <2> HIDE DEF new
  <2>3. Sum(Given(ds), new) = Given(ds)[c] + Sum(Given(ds), new \ {c})
    BY <1>3, <1>4, <2>1, SumRemove
  <2> QED
    BY <1>3, <1>6, <2>2, <2>3
<1>8. Sum(Given(cs), calls) \in Nat /\ score \in Nat
  <2>1. \A d \in calls : Given(cs)[d] \in Nat
    BY <1>2, <1>3 DEF Given
  <2> QED
    BY <1>2, <1>4, <2>1, SumNat
<1>9. Cardinality(calls) = 0 => Sum(Given(cs), calls) = 0
  BY <1>4, FS_EmptySet, SumEmpty
<1> HIDE DEF new, score
<1>10. Rated(p, score) = [n |-> Cardinality(new), sum |-> Sum(Given(ds), new)]
  <2> DEFINE k == Cardinality(calls)
             t == Sum(Given(cs), calls)
  <2>1. p.n = k /\ p.sum = t
    BY <1>1
  <2>2. k \in Nat /\ t \in Nat /\ score \in Nat /\ (k = 0 => t = 0)
    BY <1>5, <1>8, <1>9
  <2>3. Cardinality(new) = k + 1 /\ Sum(Given(ds), new) = score + t
    BY <1>5, <1>7
  <2> HIDE DEF k, t
  <2>4. Rated(p, score) = [n |-> k + 1, sum |-> score + t]
    BY <2>1, <2>2 DEF Rated
  <2> QED
    BY <2>3, <2>4
<1>11. RealIn(Rated(p, score), a, ds)
  BY <1>3, <1>10 DEF RealIn
<1> QED
  BY <1>11 DEF ds, score

LEMMA RealRatingsKept == TypeInv /\ RealRatings /\ [Next]_vars => RealRatings'
<1> SUFFICES ASSUME TypeInv, RealRatings, [Next]_vars PROVE RealRatings'
  OBVIOUS
<1> DEFINE Same == UNCHANGED <<profile, call>>
<1>1. ASSUME NEW c \in RatingCalls, NEW a \in Agents, NEW score \in Scores,
             RatingReads(c, a, score)
      PROVE  RealRatings'
  <2>1. /\ call[c].pc = "idle" /\ UNCHANGED profile /\ call \in [RatingCalls -> RatingCall]
        /\ call' = [call EXCEPT ![c] =
                     [pc |-> "exec", agent |-> a, score |-> score, seen |-> profile[a]]]
    BY <1>1 DEF RatingReads, TypeInv, TypeOK
  <2>2. /\ call'[c].pc = "exec" /\ call'[c].agent = a /\ call'[c].seen = profile[a]
        /\ \A d \in RatingCalls : d # c => call'[d] = call[d]
    BY <2>1
  <2>3. \A b : \A d \in Done(call, b) : d \in Done(call', b) /\ call'[d].score = call[d].score
    BY <2>1, <2>2 DEF Done
  <2>4. \A b \in Agents : RealIn(profile[b], b, call')
    BY <2>3, RealStays DEF RealRatings
  <2>5. ASSUME NEW d \in RatingCalls, call'[d].pc = "exec"
        PROVE  RealIn(call'[d].seen, call'[d].agent, call')
    <3>1. CASE d = c
      BY <2>2, <2>4, <3>1
    <3>2. CASE d # c
      <4>1. RealIn(call[d].seen, call[d].agent, call)
        BY <2>2, <2>5, <3>2 DEF RealRatings
      <4> QED
        BY <2>2, <2>3, <3>2, <4>1, RealStays
    <3> QED
      BY <3>1, <3>2
  <2> QED
    BY <2>1, <2>4, <2>5 DEF RealRatings
<1>2. ASSUME NEW c \in RatingCalls, RatingExecutes(c) PROVE RealRatings'
  <2> DEFINE a == call[c].agent
  <2>1. /\ call[c].pc = "exec" /\ call \in [RatingCalls -> RatingCall] /\ a \in Agents
        /\ profile \in [Agents -> Profile]
    BY <1>2 DEF RatingExecutes, TypeInv, TypeOK, Executing
  <2>2. \/ /\ call' = [call EXCEPT ![c].pc = "done"]
           /\ profile' = [profile EXCEPT ![a] = Rated(call[c].seen, call[c].score)]
        \/ call' = [call EXCEPT ![c].pc = "failed"] /\ UNCHANGED profile
    BY <1>2 DEF RatingExecutes
  <2>3. /\ \A d \in RatingCalls : d # c => call'[d] = call[d]
        /\ call'[c].pc # "exec"
    <3>1. CASE call' = [call EXCEPT ![c].pc = "done"]
      BY <2>1, <3>1 DEF RatingCall
    <3>2. CASE call' = [call EXCEPT ![c].pc = "failed"]
      BY <2>1, <3>2 DEF RatingCall
    <3> QED
      BY <2>2, <3>1, <3>2
  <2>4. \A b : \A d \in Done(call, b) : d \in Done(call', b) /\ call'[d].score = call[d].score
    BY <2>1, <2>3 DEF Done
  <2>5. \A b \in Agents : RealIn(profile[b], b, call')
    BY <2>4, RealStays DEF RealRatings
  <2>6. ASSUME NEW d \in RatingCalls, call'[d].pc = "exec"
        PROVE  RealIn(call'[d].seen, call'[d].agent, call')
    <3>1. call'[d] = call[d] /\ RealIn(call[d].seen, call[d].agent, call)
      BY <2>3, <2>6 DEF RealRatings
    <3> QED
      BY <2>4, <3>1, RealStays
  <2>7. ASSUME NEW b \in Agents PROVE RealIn(profile'[b], b, call')
    <3>1. CASE profile'[b] = profile[b]
      BY <2>5, <3>1
    <3>2. CASE profile'[b] # profile[b]
      <4>1. /\ b = a /\ call' = [call EXCEPT ![c].pc = "done"]
            /\ profile'[b] = Rated(call[c].seen, call[c].score)
        BY <2>1, <2>2, <3>2
      <4>2. RealIn(call[c].seen, a, call)
        BY <2>1 DEF RealRatings
      <4>3. RealIn(Rated(call[c].seen, call[c].score), a, [call EXCEPT ![c].pc = "done"])
        BY <2>1, <4>2, RatedIsReal
      <4> QED
        BY <4>1, <4>3
    <3> QED
      BY <3>1, <3>2
  <2> QED
    BY <2>6, <2>7 DEF RealRatings
<1>3. CASE UNCHANGED reputationVars
  BY <1>3 DEF RealRatings, reputationVars
<1>4. ASSUME NEW s \in Services,
             \/ RegisterService(s) \/ HeartbeatAges(s) \/ HeartbeatReads(s)
             \/ HeartbeatSets(s) \/ UnregisterReads(s) \/ UnregisterDeletes(s)
      PROVE  UNCHANGED reputationVars
  BY <1>4 DEF RegisterService, HeartbeatAges, HeartbeatReads, HeartbeatSets,
              UnregisterReads, UnregisterDeletes
<1>5. MonitorStep => UNCHANGED reputationVars
  BY DEF MonitorStep, PruneScans, PruneChecks, PruneReads, PruneDeletes, PassEnds, WaitEnds
<1>6. PruneRaises \/ StartMonitor \/ StopMonitor \/ StopTimesOut => UNCHANGED reputationVars
  BY DEF PruneRaises, StartMonitor, StopMonitor, StopTimesOut
<1>7. ASSUME NEW l \in Learnings,
             (\E k \in Keywords : PublishLearning(l, k)) \/ DeleteLearning(l)
      PROVE  UNCHANGED reputationVars
  BY <1>7 DEF PublishLearning, DeleteLearning, vars
<1>8. UNCHANGED vars => UNCHANGED reputationVars
  BY DEF vars
<1> QED
  BY <1>1, <1>2, <1>3, <1>4, <1>5, <1>6, <1>7, <1>8 DEF Next

LEMMA InitReal == Init => RealRatings
<1> SUFFICES ASSUME Init PROVE RealRatings
  OBVIOUS
<1>1. \A a \in Agents : profile[a] = NewProfile
  BY DEF Init
<1>2. \A c \in RatingCalls : call[c].pc = "idle"
  BY DEF Init
<1>3. ASSUME NEW a \in Agents PROVE RealIn(NewProfile, a, call)
  <2>1. NewProfile = [n |-> Cardinality({}), sum |-> Sum(Given(call), {})]
    BY FS_EmptySet, SumEmpty DEF NewProfile
  <2> QED
    BY <2>1 DEF RealIn
<1> QED
  BY <1>1, <1>2, <1>3 DEF RealRatings

\* The fold of the model is the sum of the lemmas.
LEMMA RealIsProfile == RealRatings => ProfileOfRealRatings
<1> SUFFICES ASSUME RealRatings, NEW a \in Agents
             PROVE  \E calls \in SUBSET Executed(a) :
                      profile[a] = [n |-> Cardinality(calls), sum |-> SumOver(calls)]
  BY DEF ProfileOfRealRatings
<1>1. PICK calls \in SUBSET Done(call, a) :
        profile[a] = [n |-> Cardinality(calls), sum |-> Sum(Given(call), calls)]
  BY DEF RealRatings, RealIn
<1>2. Done(call, a) = Executed(a) /\ Executed(a) \in SUBSET RatingCalls
  BY DEF Done, Executed
<1>3. IsFiniteSet(calls)
  BY <1>2, RegistryAssumption, FS_Subset
<1>4. SumOver(calls) = FoldFunctionOnSet(+, 0, Given(call), calls)
  BY DEF SumOver, Given, ScoreOf
<1>5. SumOver(calls) = Sum(Given(call), calls)
  BY <1>3, <1>4, FoldIsSum
<1> QED
  BY <1>1, <1>2, <1>5

\* Whatever calls of record_rating overlap or fail, a profile counts some of the
\* executed ratings, each once (registry_manager_agent.py, record_rating).
THEOREM ProfilesAreReal == Spec => []ProfileOfRealRatings
<1>1. Init => TypeInv /\ RealRatings
  BY InitTypes, InitReal
<1>2. TypeInv /\ RealRatings /\ [Next]_vars => (TypeInv /\ RealRatings)'
  BY TypesKept, RealRatingsKept
<1> QED
  BY <1>1, <1>2, RealIsProfile, PTL DEF Spec

-----------------------------------------------------------------------------
(* The replay buffer and the versions of the policies.                     *)

\* A filter of a sequence of the model is the one the lemmas are about.
LEMMA ReplayFilters ==
  ASSUME NEW S, NEW seq \in Seq(S), NEW E
  PROVE  Replay!Only(seq, E) = Filter(seq, E)
<1>1. Replay!Only(seq, E)
        = FoldLeft(LAMBDA kept, e : IF e \in E THEN Append(kept, e) ELSE kept, <<>>, seq)
  BY DEF Replay!Only, Replay!FoldLeft, Replay!MapThenFoldSet, Replay!Max,
         FoldLeft, MapThenFoldSet, Max
<1> QED
  BY <1>1, FoldIsFilter

\* The two deques drop their oldest together.
LEMMA BoundedKeeps ==
  ASSUME NEW S, NEW seq \in Seq(S), MaxSize \in Nat, Len(seq) =< MaxSize + 1
  PROVE  /\ Replay!Bounded(seq) \in Seq(S) /\ Len(Replay!Bounded(seq)) =< MaxSize
         /\ Len(seq) =< MaxSize => Replay!Bounded(seq) = seq
         /\ Len(seq) > MaxSize =>
              /\ Len(Replay!Bounded(seq)) = Len(seq) - 1
              /\ \A i \in 1..(Len(seq) - 1) : Replay!Bounded(seq)[i] = seq[i + 1]
<1>1. CASE Len(seq) > MaxSize
  <2>1. seq # <<>>
    BY <1>1
  <2> DEFINE T == Tail(seq)
  <2>2. /\ T \in Seq(S) /\ Len(T) = Len(seq) - 1
        /\ \A i \in 1..(Len(seq) - 1) : T[i] = seq[i + 1]
    BY <2>1
  <2>3. Replay!Bounded(seq) = T
    BY <1>1 DEF Replay!Bounded
  <2> HIDE DEF T
  <2> QED
    BY <1>1, <2>2, <2>3
<1>2. CASE ~(Len(seq) > MaxSize)
  BY <1>2 DEF Replay!Bounded
<1> QED
  BY <1>1, <1>2

\* The experiences in the buffer are distinct and among those added so far.
Numbered ==
  /\ \A i \in 1..Len(buffer) : buffer[i].id =< added
  /\ \A i, j \in 1..Len(buffer) : i # j => buffer[i].id # buffer[j].id

\* There are as many priorities as experiences, and each has its own.
Paired ==
  prioritized =>
    /\ Len(priorities) = Len(buffer)
    /\ ~shifted => \A i \in 1..Len(buffer) : priorities[i] = own[buffer[i].id]

\* The updates of an agent end with those up to its current version.
Following ==
  /\ Len(updates) =< MaxUpdates
  /\ \A a \in Learners :
       /\ versions[a] =< Len(Replay!UpdatesOf(a))
       /\ \A n \in 1..versions[a] :
            Replay!UpdatesOf(a)[Len(Replay!UpdatesOf(a)) - versions[a] + n].version = n

ReplayInv == Replay!TypeOK /\ Numbered /\ Paired /\ Following

LEMMA HighestIn ==
  ASSUME Replay!ConfigAssumption, priorities \in Seq(Priorities)
  PROVE  Replay!Highest \in Priorities
<1>1. CASE priorities = <<>>
  BY <1>1 DEF Replay!Highest, Replay!ConfigAssumption
<1>2. CASE priorities # <<>>
  <2> DEFINE R == {priorities[i] : i \in DOMAIN priorities}
  <2>1. Replay!ToSet(priorities) = R
    BY DEF Replay!ToSet
  <2>2. R \subseteq Priorities /\ R \in SUBSET Int /\ R # {}
    <3>1. /\ DOMAIN priorities = 1..Len(priorities)
          /\ \A i \in 1..Len(priorities) : priorities[i] \in Priorities
      OBVIOUS
    <3>2. 1 \in DOMAIN priorities
      BY <1>2, <3>1
    <3> QED
      BY <3>1, <3>2 DEF Replay!ConfigAssumption
  <2>3. IsFiniteSet(R)
    <3>1. DOMAIN priorities = 1..Len(priorities) /\ Len(priorities) \in Nat
      OBVIOUS
    <3>2. IsFiniteSet(DOMAIN priorities)
      BY <3>1, IntervalFinite
    <3>3. priorities \in Surjection(DOMAIN priorities, R)
      BY <3>1 DEF Surjection
    <3> HIDE DEF R
    <3> QED
      BY <3>2, <3>3, FS_Surjection
  <2> HIDE DEF R
  <2>4. \E p \in R : \A q \in R : q =< p
    BY <2>2, <2>3, LargestExists
  <2>5. Replay!Highest = CHOOSE p \in R : \A q \in R : q =< p
    BY <1>2, <2>1 DEF Replay!Highest
  <2> QED
    BY <2>2, <2>4, <2>5
<1> QED
  BY <1>1, <1>2

LEMMA FollowingSame ==
  ASSUME ReplayInv, UNCHANGED <<versions, updates>>
  PROVE  Following'
BY DEF ReplayInv, Following, Replay!UpdatesOf

LEMMA AddKeeps ==
  ASSUME Replay!ConfigAssumption, ReplayInv, NEW a \in Learners, NEW given,
         given = {} \/ \E p \in Priorities : given = {p}, Replay!Add(a, given)
  PROVE  ReplayInv'
<1> DEFINE p == IF given = {} THEN Replay!Highest ELSE CHOOSE q \in given : TRUE
           e == [agent |-> a, id |-> added + 1]
           B == Append(buffer, e)
           P == Append(priorities, p)
           n == Len(buffer)
           Exps == [agent : Learners, id : 1..MaxExperiences]
<1>1. /\ buffer \in Seq(Exps) /\ n =< MaxSize /\ n \in Nat
      /\ priorities \in Seq(Priorities) /\ added \in Nat /\ added < MaxExperiences
      /\ own \in [1..MaxExperiences -> Priorities]
      /\ MaxSize \in Nat /\ MaxExperiences \in Nat
  BY DEF ReplayInv, Replay!TypeOK, Replay!Experiences, Replay!ConfigAssumption, Replay!Add
<1>2. p \in Priorities
  <2>1. CASE given = {}
    BY <1>1, <2>1, HighestIn
  <2>2. CASE given # {}
    BY <2>2
  <2> QED
    BY <2>1, <2>2
<1>3. /\ added' = added + 1
      /\ buffer' = Replay!Bounded(B)
      /\ priorities' = IF prioritized THEN Replay!Bounded(P) ELSE priorities
      /\ own' = IF prioritized THEN [own EXCEPT ![added + 1] = p] ELSE own
      /\ UNCHANGED <<prioritized, shifted, versions, updates>>
  BY DEF Replay!Add, Replay!policyVars
<1>4. e \in Exps /\ e.id = added + 1 /\ added + 1 \in 1..MaxExperiences
  BY <1>1
<1> HIDE DEF p
<1>5. /\ B \in Seq(Exps) /\ Len(B) = n + 1 /\ Len(B) =< MaxSize + 1
      /\ \A i \in 1..n : B[i] = buffer[i]
      /\ B[n + 1] = e
  BY <1>1, <1>4
<1>6. /\ P \in Seq(Priorities) /\ Len(P) = Len(priorities) + 1
      /\ \A i \in 1..Len(priorities) : P[i] = priorities[i]
      /\ P[Len(priorities) + 1] = p
      /\ Len(priorities) \in Nat
  BY <1>1, <1>2
<1> DEFINE C == Replay!Bounded(B)
           Q == Replay!Bounded(P)
<1> HIDE DEF B, P, e, n
<1>7. /\ C \in Seq(Exps) /\ Len(C) =< MaxSize
      /\ n + 1 =< MaxSize => C = B
      /\ n + 1 > MaxSize => Len(C) = n /\ \A i \in 1..n : C[i] = B[i + 1]
  <2> HIDE DEF Exps
  <2>1. n + 1 - 1 = n
    BY <1>1
  <2> QED
    BY <1>1, <1>5, <2>1, BoundedKeeps
<1> HIDE DEF C
\* Where an experience of the new buffer was.
<1>8. PICK d \in {0, 1} :
        /\ Len(C) = n + 1 - d
        /\ \A i \in 1..Len(C) : i + d \in 1..(n + 1) /\ C[i] = B[i + d]
        /\ d = 0 <=> n + 1 =< MaxSize
  <2>1. CASE n + 1 =< MaxSize
    <3>1. C = B /\ Len(C) = n + 1
      BY <1>5, <1>7, <2>1
    <3>2. \A i \in 1..Len(C) : i + 0 \in 1..(n + 1) /\ C[i] = B[i + 0]
      BY <1>1, <3>1
    <3> QED
      BY <1>1, <2>1, <3>1, <3>2
  <2>2. CASE ~(n + 1 =< MaxSize)
    <3>1. Len(C) = n /\ \A i \in 1..n : C[i] = B[i + 1]
      BY <1>1, <1>7, <2>2
    <3>2. \A i \in 1..Len(C) : i + 1 \in 1..(n + 1) /\ C[i] = B[i + 1]
      BY <1>1, <3>1
    <3> QED
      BY <1>1, <2>2, <3>1, <3>2
  <2> QED
    BY <2>1, <2>2
<1>9. /\ \A i \in 1..n : B[i].id =< added
      /\ \A i, j \in 1..n : i # j => B[i].id # B[j].id
      /\ B[n + 1].id = added + 1
      /\ \A i \in 1..n : B[i].id \in 1..MaxExperiences
  <2>1. \A i \in 1..n : buffer[i].id =< added /\ buffer[i].id \in 1..MaxExperiences
    <3>1. ASSUME NEW i \in 1..n PROVE buffer[i].id =< added /\ buffer[i].id \in 1..MaxExperiences
      <4>1. buffer[i] \in Exps
        <5> HIDE DEF Exps
        <5> QED
          BY <1>1 DEF n
      <4> QED
        BY <4>1 DEF ReplayInv, Numbered, n
    <3> QED
      BY <3>1
  <2>2. \A i, j \in 1..n : i # j => buffer[i].id # buffer[j].id
    BY DEF ReplayInv, Numbered, n
  <2> QED
    BY <1>4, <1>5, <2>1, <2>2
<1>10. /\ \A i \in 1..(n + 1) : B[i].id =< added + 1
       /\ \A i, j \in 1..(n + 1) : i # j => B[i].id # B[j].id
  <2>1. \A i \in 1..(n + 1) : i \in 1..n \/ i = n + 1
    BY <1>1
  <2>2. \A i \in 1..n : B[i].id =< added + 1 /\ B[i].id # added + 1
    BY <1>1, <1>9
  <2>3. \A i \in 1..(n + 1) : B[i].id =< added + 1
    BY <1>1, <1>9, <2>1, <2>2
  <2>4. ASSUME NEW i \in 1..(n + 1), NEW j \in 1..(n + 1), i # j PROVE B[i].id # B[j].id
    <3>1. CASE i \in 1..n /\ j \in 1..n
      BY <1>9, <2>4, <3>1
    <3>2. CASE i = n + 1
      BY <1>9, <2>1, <2>2, <2>4, <3>2
    <3>3. CASE j = n + 1
      BY <1>9, <2>1, <2>2, <2>4, <3>3
    <3> QED
      BY <2>1, <3>1, <3>2, <3>3
  <2> QED
    BY <2>3, <2>4
<1>11. Numbered'
  <2>1. \A i \in 1..Len(C) : C[i].id =< added + 1
    BY <1>8, <1>10
  <2>2. ASSUME NEW i \in 1..Len(C), NEW j \in 1..Len(C), i # j PROVE C[i].id # C[j].id
    <3>1. i + d # j + d
      BY <2>2
    <3> QED
      BY <1>8, <1>10, <3>1
  <2>3. buffer' = C /\ added' = added + 1
    BY <1>3 DEF C
  <2> QED
    BY <2>1, <2>2, <2>3 DEF Numbered
<1>12. Paired' /\ priorities' \in Seq(Priorities) /\ own' \in [1..MaxExperiences -> Priorities]
  <2>1. CASE ~prioritized
    BY <1>1, <1>3, <2>1 DEF Paired
  <2>2. CASE prioritized
    <3>1. Len(priorities) = n /\ (~shifted => \A i \in 1..n : priorities[i] = own[buffer[i].id])
      BY <2>2 DEF ReplayInv, Paired, n
    <3>2. /\ Q \in Seq(Priorities)
          /\ n + 1 =< MaxSize => Q = P
          /\ n + 1 > MaxSize => Len(Q) = n /\ \A i \in 1..n : Q[i] = P[i + 1]
      <4>1. P \in Seq(Priorities) /\ Len(P) = n + 1 /\ Len(P) =< MaxSize + 1 /\ Len(P) - 1 = n
        BY <1>1, <1>6, <3>1
      <4>2. /\ Q \in Seq(Priorities)
            /\ Len(P) =< MaxSize => Q = P
            /\ Len(P) > MaxSize =>
                 Len(Q) = Len(P) - 1 /\ \A i \in 1..(Len(P) - 1) : Q[i] = P[i + 1]
        BY <1>1, <4>1, BoundedKeeps
      <4> HIDE DEF Q
      <4>3. n + 1 =< MaxSize => Q = P
        BY <4>1, <4>2
      <4>4. n + 1 > MaxSize => Len(Q) = n /\ \A i \in 1..n : Q[i] = P[i + 1]
        BY <4>1, <4>2
      <4> QED
        BY <4>2, <4>3, <4>4
    <3>3. priorities' = Q /\ own' = [own EXCEPT ![added + 1] = p]
      BY <1>3, <2>2
    <3> HIDE DEF Q
    <3>4. Len(Q) = Len(C) /\ \A i \in 1..Len(C) : Q[i] = P[i + d]
      <4>1. CASE d = 0
        <5>1. Q = P /\ Len(Q) = n + 1 /\ Len(C) = n + 1
          BY <1>1, <1>6, <1>8, <3>1, <3>2, <4>1
        <5> QED
          BY <4>1, <5>1
      <4>2. CASE d = 1
        <5>1. n + 1 > MaxSize /\ Len(C) = n
          BY <1>1, <1>8, <4>2
        <5> QED
          BY <3>2, <4>2, <5>1
      <4> QED
        BY <4>1, <4>2
    <3>5. own' \in [1..MaxExperiences -> Priorities]
      BY <1>1, <1>2, <3>3
    <3>6. ~shifted => \A i \in 1..(n + 1) : P[i] = own'[B[i].id]
      <4> SUFFICES ASSUME ~shifted, NEW i \in 1..(n + 1) PROVE P[i] = own'[B[i].id]
        OBVIOUS
      <4>1. CASE i = n + 1
        <5>1. P[i] = p /\ B[i].id = added + 1
          BY <1>6, <1>9, <3>1, <4>1
        <5>2. own'[added + 1] = p
          BY <1>1, <1>4, <3>3
        <5> QED
          BY <5>1, <5>2
      <4>2. CASE i # n + 1
        <5>1. i \in 1..n
          BY <1>1, <4>2
        <5>2. P[i] = priorities[i] /\ B[i] = buffer[i] /\ priorities[i] = own[buffer[i].id]
          BY <1>5, <1>6, <3>1, <5>1
        <5>3. B[i].id # added + 1 /\ B[i].id \in 1..MaxExperiences
          BY <1>1, <1>9, <5>1
        <5>4. own'[B[i].id] = own[B[i].id]
          BY <1>1, <3>3, <5>3
        <5> QED
          BY <5>2, <5>4
      <4> QED
        BY <4>1, <4>2
    <3>7. ~shifted => \A i \in 1..Len(C) : Q[i] = own'[C[i].id]
      BY <1>8, <3>4, <3>6
    <3>8. buffer' = C /\ shifted' = shifted
      BY <1>3 DEF C
    <3> QED
      BY <3>2, <3>3, <3>4, <3>5, <3>7, <3>8 DEF Paired
  <2> QED
    BY <2>1, <2>2
<1>13. Replay!TypeOK'
  <2>1. buffer' \in Seq(Exps) /\ Len(buffer') =< MaxSize
    BY <1>3, <1>7 DEF C
  <2>2. added' \in 0..MaxExperiences
    BY <1>1, <1>3
  <2> QED
    BY <1>3, <1>12, <2>1, <2>2 DEF ReplayInv, Replay!TypeOK, Replay!Experiences
<1>14. Following'
  BY <1>3, FollowingSame
<1> QED
  BY <1>11, <1>12, <1>13, <1>14 DEF ReplayInv

LEMMA UpdatePriorityKeeps ==
  ASSUME Replay!ConfigAssumption, ReplayInv, NEW place \in 1..MaxSize, NEW p \in Priorities,
         Replay!UpdatePriority(place, p)
  PROVE  ReplayInv'
<1> DEFINE Exps == [agent : Learners, id : 1..MaxExperiences]
           n == Len(buffer)
<1>1. /\ prioritized /\ place \in 1..Len(priorities)
      /\ priorities' = [priorities EXCEPT ![place] = p]
      /\ own' = [own EXCEPT ![buffer[place].id] = p]
      /\ UNCHANGED <<prioritized, buffer, added, shifted, versions, updates>>
  BY DEF Replay!UpdatePriority, Replay!policyVars
<1>2. /\ buffer \in Seq(Exps) /\ priorities \in Seq(Priorities) /\ n \in Nat
      /\ own \in [1..MaxExperiences -> Priorities] /\ Len(priorities) = n
  BY <1>1 DEF ReplayInv, Replay!TypeOK, Replay!Experiences, Paired
<1>3. /\ priorities' \in Seq(Priorities) /\ Len(priorities') = n /\ priorities'[place] = p
      /\ \A i \in 1..n : i # place => priorities'[i] = priorities[i]
  BY <1>1, <1>2
<1>4. own' \in [1..MaxExperiences -> Priorities]
  BY <1>1, <1>2
<1>5. \A i \in 1..n : buffer[i].id \in 1..MaxExperiences
  <2>1. ASSUME NEW i \in 1..n PROVE buffer[i] \in Exps
    <3> HIDE DEF Exps
    <3> QED
      BY <1>2
  <2> QED
    BY <2>1
<1>6. \A i, j \in 1..n : i # j => buffer[i].id # buffer[j].id
  BY DEF ReplayInv, Numbered
<1>7. ASSUME ~shifted, NEW i \in 1..n PROVE priorities'[i] = own'[buffer[i].id]
  <2>1. CASE i = place
    BY <1>1, <1>2, <1>3, <1>5, <2>1
  <2>2. CASE i # place
    <3>1. buffer[i].id # buffer[place].id
      BY <1>1, <1>2, <1>6, <2>2
    <3>2. priorities[i] = own[buffer[i].id]
      BY <1>1, <1>7 DEF ReplayInv, Paired
    <3> QED
      BY <1>1, <1>2, <1>3, <1>5, <2>2, <3>1, <3>2
  <2> QED
    BY <2>1, <2>2
<1>8. Paired'
  BY <1>1, <1>3, <1>7 DEF Paired
<1>9. Numbered' /\ Following'
  BY <1>1, FollowingSame DEF ReplayInv, Numbered
<1>10. Replay!TypeOK'
  BY <1>1, <1>3, <1>4 DEF ReplayInv, Replay!TypeOK, Replay!Experiences
<1> QED
  BY <1>8, <1>9, <1>10 DEF ReplayInv

LEMMA ClearAgentKeeps ==
  ASSUME Replay!ConfigAssumption, ReplayInv, NEW a \in Learners, Replay!ClearAgent(a)
  PROVE  ReplayInv'
<1> DEFINE Exps == [agent : Learners, id : 1..MaxExperiences]
           E == [agent : Learners \ {a}, id : 1..MaxExperiences]
           O == Filter(buffer, E)
           n == Len(buffer)
           l == Len(O)
<1>1. /\ buffer \in Seq(Exps) /\ priorities \in Seq(Priorities) /\ n \in Nat /\ n =< MaxSize
      /\ MaxSize \in Nat
  BY DEF ReplayInv, Replay!TypeOK, Replay!Experiences, Replay!ConfigAssumption
<1>2. /\ buffer' = O
      /\ priorities' = IF prioritized THEN SubSeq(priorities, 1, l) ELSE priorities
      /\ shifted' = (shifted \/ Replay!Shifts(a))
      /\ UNCHANGED <<prioritized, added, own, versions, updates>>
  <2>1. Replay!OthersThan(a) = Replay!Only(buffer, E)
    BY DEF Replay!OthersThan, Replay!Experiences
  <2> HIDE DEF Exps, E
  <2>2. Replay!Only(buffer, E) = O
    BY <1>1, ReplayFilters
  <2> QED
    BY <2>1, <2>2 DEF Replay!ClearAgent, Replay!Rebuilt, Replay!policyVars
<1>3. \A i \in 1..n : buffer[i] \in Exps
  <2> HIDE DEF Exps
  <2> QED
    BY <1>1
<1>4. \A i \in 1..n : buffer[i] \in E <=> buffer[i].agent # a
  BY <1>3
<1>5. E \subseteq Exps
  OBVIOUS
<1> HIDE DEF Exps, E
<1>6. IsFiltered(O, buffer, E)
  BY <1>1, FilterIs
<1> HIDE DEF O
<1>7. O \in Seq(E) /\ l \in Nat /\ l =< n
  BY <1>6 DEF IsFiltered
<1>8. PICK m \in [1..l -> 1..n] :
        /\ \A k \in 1..l : O[k] = buffer[m[k]]
        /\ \A j, k \in 1..l : j < k => m[j] < m[k]
  BY <1>6 DEF IsFiltered
<1>9. ASSUME ~Replay!Shifts(a), NEW k \in 1..l PROVE O[k] = buffer[k]
  <2>1. ASSUME NEW i \in 1..n, NEW j \in 1..n, i < j, buffer[j] \in E PROVE buffer[i] \in E
    <3>1. ~(buffer[i].agent = a /\ buffer[j].agent # a)
      BY <1>9, <2>1 DEF Replay!Shifts
    <3> QED
      BY <1>4, <2>1, <3>1
  <2> QED
    BY <1>6, <2>1 DEF IsFiltered
<1>10. Numbered'
  <2>1. \A k \in 1..l : O[k].id =< added
    BY <1>8 DEF ReplayInv, Numbered
  <2>2. ASSUME NEW j \in 1..l, NEW k \in 1..l, j # k PROVE O[j].id # O[k].id
    <3>1. m[j] # m[k] /\ m[j] \in 1..n /\ m[k] \in 1..n
      <4>1. j < k \/ k < j
        BY <2>2
      <4>2. m[j] < m[k] \/ m[k] < m[j]
        BY <1>8, <4>1
      <4> QED
        BY <1>8, <4>2
    <3> QED
      BY <1>8, <3>1 DEF ReplayInv, Numbered
  <2> QED
    BY <1>2, <2>1, <2>2 DEF Numbered
<1>11. Paired' /\ priorities' \in Seq(Priorities)
  <2>1. CASE ~prioritized
    BY <1>1, <1>2, <2>1 DEF Paired
  <2>2. CASE prioritized
    <3>1. Len(priorities) = n /\ (~shifted => \A i \in 1..n : priorities[i] = own[buffer[i].id])
      BY <2>2 DEF ReplayInv, Paired
    <3> DEFINE P == SubSeq(priorities, 1, l)
    <3>2. P \in Seq(Priorities) /\ Len(P) = l /\ \A i \in 1..l : P[i] = priorities[i]
      BY <1>1, <1>7, <3>1
    <3> HIDE DEF P
    <3>3. ASSUME ~shifted', NEW i \in 1..l PROVE P[i] = own[O[i].id]
      <4>1. ~shifted /\ ~Replay!Shifts(a)
        BY <1>2, <3>3
      <4>2. O[i] = buffer[i]
        BY <1>9, <4>1
      <4>3. i \in 1..n
        BY <1>1, <1>7
      <4> QED
        BY <3>1, <3>2, <4>1, <4>2, <4>3
    <3>4. priorities' = P
      BY <1>2, <2>2 DEF P
    <3> QED
      BY <1>2, <3>2, <3>3, <3>4 DEF Paired
  <2> QED
    BY <2>1, <2>2
<1>12. Replay!TypeOK'
  <2>1. O \in Seq(Exps) /\ l =< MaxSize
    BY <1>1, <1>5, <1>7
  <2>2. shifted' \in BOOLEAN
    BY <1>2 DEF ReplayInv, Replay!TypeOK, Replay!Shifts
  <2> QED
    BY <1>2, <1>11, <2>1, <2>2 DEF ReplayInv, Replay!TypeOK, Replay!Experiences, Exps
<1>13. Following'
  BY <1>2, FollowingSame
<1> QED
  BY <1>10, <1>11, <1>12, <1>13 DEF ReplayInv

LEMMA ClearKeeps ==
  ASSUME Replay!ConfigAssumption, ReplayInv, Replay!Clear
  PROVE  ReplayInv'
<1>1. /\ buffer' = <<>> /\ priorities' = (IF prioritized THEN <<>> ELSE priorities)
      /\ shifted' = FALSE
      /\ UNCHANGED <<prioritized, added, own, versions, updates>>
  BY DEF Replay!Clear, Replay!policyVars
<1>2. Len(<<>>) = 0 /\ \A i : i \notin 1..0
  OBVIOUS
<1>3. Numbered' /\ Paired'
  BY <1>1, <1>2 DEF Numbered, Paired
<1>4. Replay!TypeOK'
  <2>1. /\ <<>> \in Seq(Replay!Experiences(Learners)) /\ <<>> \in Seq(Priorities)
        /\ Len(<<>>) =< MaxSize
    BY DEF Replay!ConfigAssumption
  <2>2. /\ buffer' \in Seq(Replay!Experiences(Learners)) /\ Len(buffer') =< MaxSize
        /\ priorities' \in Seq(Priorities) /\ shifted' \in BOOLEAN
    BY <1>1, <2>1 DEF ReplayInv, Replay!TypeOK
  <2> QED
    BY <1>1, <2>2 DEF ReplayInv, Replay!TypeOK
<1>5. Following'
  BY <1>1, FollowingSame
<1> QED
  BY <1>3, <1>4, <1>5 DEF ReplayInv

\* The updates of an agent, as the filter the lemmas are about.
LEMMA UpdatesFiltered ==
  ASSUME Replay!TypeOK, NEW a \in Learners
  PROVE  /\ Replay!UpdatesOf(a) = Filter(updates, [agent : {a}, version : 1..MaxUpdates])
         /\ Len(Replay!UpdatesOf(a)) \in Nat /\ Len(Replay!UpdatesOf(a)) =< Len(updates)
         /\ Replay!UpdatesOf(a) \in Seq([agent : {a}, version : 1..MaxUpdates])
<1> DEFINE S == [agent : Learners, version : 1..MaxUpdates]
           E == [agent : {a}, version : 1..MaxUpdates]
<1>1. updates \in Seq(S)
  BY DEF Replay!TypeOK
<1>2. Replay!UpdatesOf(a) = Replay!Only(updates, E)
  BY DEF Replay!UpdatesOf
<1> HIDE DEF S, E
<1>3. Replay!UpdatesOf(a) = Filter(updates, E)
  BY <1>1, <1>2, ReplayFilters
<1>4. IsFiltered(Filter(updates, E), updates, E)
  BY <1>1, FilterIs
<1>5. Filter(updates, E) \in Seq(E) /\ Len(Filter(updates, E)) =< Len(updates)
  BY <1>4 DEF IsFiltered
<1> QED
  BY <1>3, <1>5 DEF E

LEMMA UpdatePolicyKeeps ==
  ASSUME Replay!ConfigAssumption, ReplayInv, NEW b \in Learners, Replay!UpdatePolicy(b)
  PROVE  ReplayInv'
<1> DEFINE S == [agent : Learners, version : 1..MaxUpdates]
           E(a) == [agent : {a}, version : 1..MaxUpdates]
           v == versions[b]
           u == [agent |-> b, version |-> v + 1]
           U(a) == Filter(updates, E(a))
<1>1. /\ Len(updates) < MaxUpdates
      /\ versions' = [versions EXCEPT ![b] = v + 1]
      /\ updates' = Append(updates, [agent |-> b, version |-> versions'[b]])
      /\ UNCHANGED <<prioritized, buffer, priorities, added, own, shifted>>
  BY DEF Replay!UpdatePolicy, Replay!bufferVars
<1>2. /\ updates \in Seq(S) /\ versions \in [Learners -> 0..MaxUpdates] /\ MaxUpdates \in Nat
      /\ Len(updates) \in Nat
  BY DEF ReplayInv, Replay!TypeOK, Replay!ConfigAssumption
<1>3. \A a \in Learners :
        /\ Replay!UpdatesOf(a) = U(a) /\ Len(U(a)) \in Nat /\ Len(U(a)) =< Len(updates)
        /\ U(a) \in Seq(E(a))
  BY UpdatesFiltered DEF ReplayInv
<1>4. /\ \A a \in Learners : versions[a] \in Nat /\ versions[a] =< Len(U(a))
      /\ \A a \in Learners : \A n \in 1..versions[a] : U(a)[Len(U(a)) - versions[a] + n].version = n
  <2>1. ASSUME NEW a \in Learners
        PROVE  /\ versions[a] \in Nat /\ versions[a] =< Len(U(a))
               /\ \A n \in 1..versions[a] : U(a)[Len(U(a)) - versions[a] + n].version = n
    <3>1. Replay!UpdatesOf(a) = U(a)
      BY <1>3
    <3>3. versions[a] \in Nat
      BY <1>2
    <3>2. /\ versions[a] =< Len(Replay!UpdatesOf(a))
          /\ \A n \in 1..versions[a] :
               Replay!UpdatesOf(a)[Len(Replay!UpdatesOf(a)) - versions[a] + n].version = n
      BY DEF ReplayInv, Following
    <3> HIDE DEF U
    <3> QED
      BY <3>1, <3>2, <3>3
  <2> HIDE DEF U
  <2> QED
    BY <2>1
<1>5. v \in Nat /\ v + 1 \in 1..MaxUpdates
  <2> DEFINE L == Len(U(b))
  <2>1. v \in Nat /\ v =< L /\ L \in Nat /\ L =< Len(updates)
    BY <1>3, <1>4
  <2> HIDE DEF U, v, L
  <2> QED
    BY <1>1, <1>2, <2>1
<1>6. /\ versions'[b] = v + 1 /\ \A a \in Learners : a # b => versions'[a] = versions[a]
      /\ updates' = Append(updates, u)
  BY <1>1, <1>2
<1>7. u \in S /\ u \in E(b) /\ u.version = v + 1 /\ \A a \in Learners : a # b => u \notin E(a)
  BY <1>5
<1>8. Replay!TypeOK'
  <2>1. versions' \in [Learners -> 0..MaxUpdates]
    BY <1>1, <1>2, <1>5
  <2>2. updates' \in Seq(S)
    BY <1>2, <1>6, <1>7
  <2> QED
    BY <1>1, <2>1, <2>2 DEF ReplayInv, Replay!TypeOK
<1>9. ASSUME NEW a \in Learners
      PROVE  Replay!UpdatesOf(a)' = IF a = b THEN Append(U(a), u) ELSE U(a)
  <2>1. Replay!UpdatesOf(a)' = Filter(updates', E(a))
    <3>1. Replay!UpdatesOf(a)' = Replay!Only(updates', E(a))
      BY DEF Replay!UpdatesOf, Replay!Only, Replay!FoldLeft, Replay!MapThenFoldSet
    <3>2. updates' \in Seq(S)
      BY <1>8 DEF Replay!TypeOK
    <3> HIDE DEF S, E
    <3> QED
      BY <3>1, <3>2, ReplayFilters
  <2>2. Filter(Append(updates, u), E(a)) = Grown(U(a), u, E(a))
    <3> HIDE DEF S, E, u
    <3> QED
      BY <1>2, <1>7, FilterAppend
  <2> HIDE DEF E, u, U
  <2> QED
    BY <1>6, <1>7, <2>1, <2>2 DEF Grown
<1>10. Len(updates') = Len(updates) + 1
  <2> HIDE DEF S, u
  <2> QED
    BY <1>2, <1>6, <1>7
<1>11. ASSUME NEW a \in Learners
       PROVE  /\ versions'[a] =< Len(Replay!UpdatesOf(a)')
              /\ \A n \in 1..versions'[a] :
                   Replay!UpdatesOf(a)'[Len(Replay!UpdatesOf(a)') - versions'[a] + n].version = n
  <2>1. CASE a # b
    <3>1. Replay!UpdatesOf(a)' = U(a) /\ versions'[a] = versions[a]
      BY <1>6, <1>9, <2>1
    <3> HIDE DEF U
    <3> QED
      BY <1>4, <3>1
  <2>2. CASE a = b
    <3> DEFINE W == U(b)
               A == Append(W, u)
    <3>1. Replay!UpdatesOf(a)' = A /\ versions'[a] = v + 1
      BY <1>6, <1>9, <2>2
    <3>2. /\ W \in Seq(E(b)) /\ Len(W) \in Nat /\ v =< Len(W)
          /\ \A n \in 1..v : W[Len(W) - v + n].version = n
      BY <1>3, <1>4
    <3>3. /\ Len(A) = Len(W) + 1 /\ A[Len(W) + 1] = u
          /\ \A i \in 1..Len(W) : A[i] = W[i]
      <4> HIDE DEF W, E, u
      <4> QED
        BY <1>7, <3>2
    <3>6. v \in Nat /\ Len(W) \in Nat /\ Len(A) = Len(W) + 1
      BY <1>5, <3>2, <3>3
    <3> HIDE DEF A, W
    <3>4. ASSUME NEW n \in 1..(v + 1) PROVE A[Len(A) - (v + 1) + n].version = n
      <4>1. Len(A) - (v + 1) + n = Len(W) - v + n
        <5> HIDE DEF v
        <5> QED
          BY <3>6
      <4>2. CASE n = v + 1
        <5>1. Len(W) - v + n = Len(W) + 1
          BY <1>5, <3>2, <4>2
        <5> QED
          BY <1>7, <3>3, <4>1, <4>2, <5>1
      <4>3. CASE n # v + 1
        <5>1. n \in 1..v /\ Len(W) - v + n \in 1..Len(W)
          BY <1>5, <3>2, <4>3
        <5> QED
          BY <3>2, <3>3, <4>1, <5>1
      <4> QED
        BY <4>2, <4>3
    <3>5. v + 1 =< Len(A)
      BY <1>5, <3>2, <3>3
    <3> QED
      BY <3>1, <3>4, <3>5
  <2> QED
    BY <2>1, <2>2
<1>12. Following'
  BY <1>1, <1>2, <1>10, <1>11 DEF Following
<1>13. Numbered' /\ Paired'
  BY <1>1 DEF ReplayInv, Numbered, Paired
<1> QED
  BY <1>8, <1>12, <1>13 DEF ReplayInv

LEMMA ResetPolicyKeeps ==
  ASSUME Replay!ConfigAssumption, ReplayInv, NEW b \in Learners, Replay!ResetPolicy(b)
  PROVE  ReplayInv'
<1>1. /\ versions' = [versions EXCEPT ![b] = 0]
      /\ UNCHANGED <<prioritized, buffer, priorities, added, own, shifted, updates>>
  BY DEF Replay!ResetPolicy, Replay!bufferVars
<1>2. versions \in [Learners -> 0..MaxUpdates] /\ MaxUpdates \in Nat
  BY DEF ReplayInv, Replay!TypeOK, Replay!ConfigAssumption
<1>3. Replay!TypeOK'
  BY <1>1, <1>2 DEF ReplayInv, Replay!TypeOK
<1>4. Numbered' /\ Paired'
  BY <1>1 DEF ReplayInv, Numbered, Paired
<1>5. ASSUME NEW a \in Learners
      PROVE  /\ versions'[a] =< Len(Replay!UpdatesOf(a)')
             /\ \A n \in 1..versions'[a] :
                  Replay!UpdatesOf(a)'[Len(Replay!UpdatesOf(a)') - versions'[a] + n].version = n
  <2>1. Replay!UpdatesOf(a)' = Replay!UpdatesOf(a) /\ Len(Replay!UpdatesOf(a)) \in Nat
    BY <1>1, UpdatesFiltered DEF ReplayInv, Replay!UpdatesOf
  <2>2. CASE a = b
    BY <1>1, <1>2, <2>1, <2>2
  <2>3. CASE a # b
    BY <1>1, <1>2, <2>1, <2>3 DEF ReplayInv, Following
  <2> QED
    BY <2>2, <2>3
<1>6. Following'
  BY <1>1, <1>5 DEF ReplayInv, Following
<1> QED
  BY <1>3, <1>4, <1>6 DEF ReplayInv

LEMMA ReplayInit == Replay!ConfigAssumption /\ Replay!Init => ReplayInv
<1> SUFFICES ASSUME Replay!ConfigAssumption, Replay!Init PROVE ReplayInv
  OBVIOUS
<1>1. Replay!TypeOK
  <2>1. /\ <<>> \in Seq(Replay!Experiences(Learners)) /\ <<>> \in Seq(Priorities)
        /\ <<>> \in Seq([agent : Learners, version : 1..MaxUpdates])
        /\ Len(<<>>) =< MaxSize
    BY DEF Replay!ConfigAssumption
  <2>2. /\ versions \in [Learners -> 0..MaxUpdates] /\ added \in 0..MaxExperiences
        /\ own \in [1..MaxExperiences -> Priorities]
    BY DEF Replay!ConfigAssumption, Replay!Init
  <2>3. /\ prioritized \in BOOLEAN /\ shifted \in BOOLEAN
        /\ buffer = <<>> /\ priorities = <<>> /\ updates = <<>>
    BY DEF Replay!Init
  <2> QED
    BY <2>1, <2>2, <2>3 DEF Replay!TypeOK
<1>2. Len(<<>>) = 0 /\ \A i : i \notin 1..0
  OBVIOUS
<1>3. Numbered /\ Paired
  BY <1>2 DEF Replay!Init, Numbered, Paired
<1>4. Following
  <2>1. \A a \in Learners : versions[a] = 0 /\ Len(Replay!UpdatesOf(a)) \in Nat
    BY <1>1, UpdatesFiltered DEF Replay!Init
  <2> QED
    BY <1>2, <2>1 DEF Replay!Init, Replay!ConfigAssumption, Following
<1> QED
  BY <1>1, <1>3, <1>4 DEF ReplayInv

LEMMA ReplayNext ==
  Replay!ConfigAssumption /\ ReplayInv /\ [Replay!Next]_(Replay!vars) => ReplayInv'
<1> SUFFICES ASSUME Replay!ConfigAssumption, ReplayInv, [Replay!Next]_(Replay!vars)
             PROVE  ReplayInv'
  OBVIOUS
<1>1. ASSUME NEW a \in Learners, NEW p \in Priorities, Replay!Add(a, {}) \/ Replay!Add(a, {p})
      PROVE  ReplayInv'
  BY <1>1, AddKeeps
<1>2. ASSUME NEW i \in 1..MaxSize, NEW p \in Priorities, Replay!UpdatePriority(i, p)
      PROVE  ReplayInv'
  BY <1>2, UpdatePriorityKeeps
<1>3. ASSUME NEW a \in Learners,
             Replay!ClearAgent(a) \/ Replay!UpdatePolicy(a) \/ Replay!ResetPolicy(a)
      PROVE  ReplayInv'
  BY <1>3, ClearAgentKeeps, UpdatePolicyKeeps, ResetPolicyKeeps
<1>4. CASE Replay!Clear
  BY <1>4, ClearKeeps
<1>5. CASE UNCHANGED Replay!vars
  <2>1. UNCHANGED <<prioritized, buffer, priorities, added, own, shifted, versions, updates>>
    BY <1>5 DEF Replay!vars, Replay!bufferVars, Replay!policyVars
  <2>2. Following'
    BY <2>1, FollowingSame
  <2> QED
    BY <2>1, <2>2 DEF ReplayInv, Replay!TypeOK, Numbered, Paired
<1> QED
  BY <1>1, <1>2, <1>3, <1>4, <1>5 DEF Replay!Next

LEMMA ReplayHolds ==
  Replay!ConfigAssumption /\ ReplayInv => Replay!TypeOK /\ ReplayIsConsistent
<1> SUFFICES ASSUME Replay!ConfigAssumption, ReplayInv PROVE ReplayIsConsistent
  BY DEF ReplayInv
<1>1. Replay!VersionsFollow
  BY DEF ReplayInv, Following, Replay!VersionsFollow
<1>2. ASSUME prioritized, NEW a \in Learners PROVE Len(Replay!Available({a})) =< Len(priorities)
  <2> DEFINE Exps == [agent : Learners, id : 1..MaxExperiences]
             E == [agent : {a}, id : 1..MaxExperiences]
  <2>1. Replay!Available({a}) = Replay!Only(buffer, E)
    BY DEF Replay!Available, Replay!Experiences
  <2>2. buffer \in Seq(Exps) /\ Len(priorities) = Len(buffer)
    BY <1>2 DEF ReplayInv, Replay!TypeOK, Replay!Experiences, Paired
  <2> HIDE DEF Exps, E
  <2>3. Replay!Available({a}) = Filter(buffer, E)
    BY <2>1, <2>2, ReplayFilters
  <2>4. IsFiltered(Filter(buffer, E), buffer, E)
    BY <2>2, FilterIs
  <2> QED
    BY <2>2, <2>3, <2>4 DEF IsFiltered
<1>3. ASSUME prioritized, ~shifted, NEW i \in 1..Len(Replay!Available({}))
      PROVE  Replay!Weight({}, i) = own[Replay!Available({})[i].id]
  <2>1. Replay!Available({}) = buffer
    BY DEF Replay!Available
  <2>2. Replay!Weight({}, i) = priorities[i]
    BY <1>3 DEF Replay!Weight
  <2> QED
    BY <1>3, <2>1, <2>2 DEF ReplayInv, Paired
<1>4. Replay!DrawnByOwnPriority
  BY <1>2, <1>3 DEF Replay!DrawnByOwnPriority
<1> QED
  BY <1>1, <1>4 DEF ReplayIsConsistent, Replay!ReplayIsConsistent

\* However often the two deques have dropped their oldest and priorities were set, an
\* experience is drawn with its own priority until an agent's clear shifts them, and
\* the versions of a policy follow each other (experience_buffer.py,
\* policy_optimization.py).
THEOREM ReplayStaysConsistent == Replay!Spec => []ReplayIsConsistent
<1>1. Replay!ConfigAssumption
  BY PartsAssumption
<1> QED
  BY <1>1, ReplayInit, ReplayNext, ReplayHolds, PTL DEF Replay!Spec

LEMMA ReplayTypeCorrect == Replay!Spec => []Replay!TypeOK
<1>1. Replay!ConfigAssumption
  BY PartsAssumption
<1> QED
  BY <1>1, ReplayInit, ReplayNext, ReplayHolds, PTL DEF Replay!Spec

-----------------------------------------------------------------------------
(* The training and the review, as instances of the modules that prove      *)
(* about them.                                                             *)

SimP == INSTANCE InventorySimProofs WITH
          InitialInventory <- MCInventory, Capacity <- MCCapacity, LeadTime <- MCLeadTime,
          pc <- trainer
ReviewP == INSTANCE CrewReviewProofs WITH
             Events <- MCEvents, Milestones <- MCMilestones, pc <- analysis,
             agents <- roles, at <- milestone

\* The training as it was proved about is the one of the run.
LEMMA SameTraining ==
  /\ SimP!ConfigAssumption
  /\ SimP!Init <=> Sim!Init
  /\ [SimP!Next]_(SimP!vars) <=> [Sim!Next]_(Sim!vars)
  /\ SimP!TypeOK <=> Sim!TypeOK
  /\ SimP!StockBooksBalance <=> StockBooksBalance
<1>1. SimP!ConfigAssumption
  BY PartsAssumption DEF SimP!ConfigAssumption, Sim!ConfigAssumption
<1>2. SimP!Init <=> Sim!Init
  BY DEF SimP!Init, Sim!Init, SimP!AfterEpisodes, Sim!AfterEpisodes
<1>3. [SimP!Next]_(SimP!vars) <=> [Sim!Next]_(Sim!vars)
  BY DEF SimP!Next, Sim!Next, SimP!vars, Sim!vars, SimP!simVars, Sim!simVars,
         SimP!Reset, Sim!Reset, SimP!EndEpisode, Sim!EndEpisode,
         SimP!SaveRaises, Sim!SaveRaises, SimP!Step, Sim!Step, SimP!Save, Sim!Save,
         SimP!NextToSave, Sim!NextToSave, SimP!Policies, Sim!Policies, SimP!Kinds, Sim!Kinds,
         SimP!AfterEpisodes, Sim!AfterEpisodes, SimP!Received, Sim!Received,
         SimP!Sold, Sim!Sold, SimP!Accepted, Sim!Accepted, SimP!Arrival, Sim!Arrival,
         SimP!Arriving, Sim!Arriving, SimP!Remaining, Sim!Remaining,
         SimP!Units, Sim!Units, SimP!Lesser, Sim!Lesser, SimP!Order, Sim!Order,
         SimP!MapThenSumSet, Sim!MapThenSumSet, SimP!MapThenFoldSet, Sim!MapThenFoldSet
<1>4. SimP!TypeOK <=> Sim!TypeOK
  BY DEF SimP!TypeOK, Sim!TypeOK, SimP!Policies, Sim!Policies, SimP!Kinds, Sim!Kinds
<1>5. SimP!StockBooksBalance <=> StockBooksBalance
  BY DEF StockBooksBalance, SimP!StockBooksBalance, Sim!StockBooksBalance,
         SimP!NothingLost, Sim!NothingLost, SimP!NoOrderIsLate, Sim!NoOrderIsLate,
         SimP!OnOrder, Sim!OnOrder, SimP!Lesser, Sim!Lesser, SimP!Units, Sim!Units,
         SimP!MapThenSumSet, Sim!MapThenSumSet, SimP!MapThenFoldSet, Sim!MapThenFoldSet
<1> QED
  BY <1>1, <1>2, <1>3, <1>4, <1>5

\* The review as it was proved about is the one of the run.
LEMMA SameReview ==
  /\ ReviewP!ConfigAssumption
  /\ ReviewP!Init <=> Review!Init
  /\ [ReviewP!Next]_(ReviewP!vars) <=> [Review!Next]_(Review!vars)
  /\ ReviewP!TypeOK <=> Review!TypeOK
  /\ ReviewP!ReviewIsTrue <=> ReviewIsTrue
<1> USE DEF ReviewP!vars, Review!vars, ReviewP!analyzerVars, Review!analyzerVars,
            ReviewP!qaVars, Review!qaVars
<1>1. ReviewP!ConfigAssumption
  BY PartsAssumption DEF ReviewP!ConfigAssumption, Review!ConfigAssumption
<1>2. ReviewP!Init <=> Review!Init
  BY DEF ReviewP!Init, Review!Init, ReviewP!NoReport, Review!NoReport
<1>3. [ReviewP!Next]_(ReviewP!vars) <=> [Review!Next]_(Review!vars)
  <2>1. /\ ReviewP!Observe <=> Review!Observe
        /\ ReviewP!NothingToAnalyze <=> Review!NothingToAnalyze
        /\ ReviewP!SortRaises <=> Review!SortRaises
        /\ ReviewP!ParseReport <=> Review!ParseReport
        /\ ReviewP!EndEvaluation <=> Review!EndEvaluation
        /\ \A n, u : ReviewP!Begin(n, u) <=> Review!Begin(n, u)
    BY DEF ReviewP!Observe, Review!Observe, ReviewP!NothingToAnalyze, Review!NothingToAnalyze,
           ReviewP!SortRaises, Review!SortRaises, ReviewP!ParseReport, Review!ParseReport,
           ReviewP!EndEvaluation, Review!EndEvaluation, ReviewP!Begin, Review!Begin,
           ReviewP!Report, Review!Report, ReviewP!Remarks, Review!Remarks
  <2>2. ReviewP!EndOfTimeline <=> Review!EndOfTimeline
    BY DEF ReviewP!Cardinality, Review!Cardinality,
           ReviewP!EndOfTimeline, Review!EndOfTimeline, ReviewP!EndRaises, Review!EndRaises,
           ReviewP!Report, Review!Report, ReviewP!Remarks, Review!Remarks
  <2>3. ReviewP!RedTeam <=> Review!RedTeam
    BY DEF ReviewP!Cardinality, Review!Cardinality,
           ReviewP!RedTeam, Review!RedTeam, ReviewP!Challenge, Review!Challenge
  <2>4. ASSUME NEW e
        PROVE  /\ ReviewP!Process(e) <=> Review!Process(e)
               /\ ReviewP!ProcessRaises(e) <=> Review!ProcessRaises(e)
    BY DEF ReviewP!Process, Review!Process, ReviewP!ProcessRaises, Review!ProcessRaises,
           ReviewP!Raises, Review!Raises, ReviewP!Uses, Review!Uses, ReviewP!UseOf, Review!UseOf,
           ReviewP!TaskIf, Review!TaskIf, ReviewP!ActsOn, Review!ActsOn,
           ReviewP!Describes, Review!Describes, ReviewP!Executed, Review!Executed,
           ReviewP!Entries, Review!Entries
  <2>5. ASSUME NEW inTime PROVE ReviewP!Evaluate(inTime) <=> Review!Evaluate(inTime)
    BY DEF ReviewP!Evaluate, Review!Evaluate, ReviewP!RewardRaises, Review!RewardRaises,
           ReviewP!Reached, Review!Reached, ReviewP!Stated, Review!Stated,
           ReviewP!Holds, Review!Holds, ReviewP!Cardinality, Review!Cardinality
  <2> QED
    BY <2>1, <2>2, <2>3, <2>4, <2>5 DEF ReviewP!Next, Review!Next
<1>4. ReviewP!TypeOK <=> Review!TypeOK
  BY DEF ReviewP!TypeOK, Review!TypeOK
<1>5. ReviewP!ReviewIsTrue <=> ReviewIsTrue
  BY DEF ReviewIsTrue, ReviewP!ReviewIsTrue, Review!ReviewIsTrue,
         ReviewP!Cardinality, Review!Cardinality,
         ReviewP!CompletedRan, Review!CompletedRan, ReviewP!ErrorsAreTold, Review!ErrorsAreTold,
         ReviewP!RewardIsEarned, Review!RewardIsEarned, ReviewP!RanTasks, Review!RanTasks,
         ReviewP!TaskNames, Review!TaskNames, ReviewP!Ran, Review!Ran,
         ReviewP!LeftOpen, Review!LeftOpen, ReviewP!Happened, Review!Happened
<1> QED
  BY <1>1, <1>2, <1>3, <1>4, <1>5

\* The stock of the training run: the books balance for every demand and every order
\* (marl_trainer.py).
THEOREM StockIsBalanced == Sim!Spec => []StockBooksBalance
<1>1. SimP!Spec => []SimP!StockBooksBalance
  BY SameTraining, SimP!BooksBalance
<1> QED
  BY <1>1, SameTraining, PTL DEF Sim!Spec, SimP!Spec

\* The review of a run tells what happened in it, for every timeline
\* (qa_sub_crew).
THEOREM ReviewsAreTrue == Review!Spec => []ReviewIsTrue
<1>1. ReviewP!Spec => []ReviewP!ReviewIsTrue
  BY SameReview, ReviewP!ReviewTellsTheTruth
<1> QED
  BY <1>1, SameReview, PTL DEF Review!Spec, ReviewP!Spec

-----------------------------------------------------------------------------
(* The parts side by side: each of them runs as its own specification says. *)

LEMMA PartsStart == PartsInit => Init /\ Sim!Init /\ Replay!Init /\ Review!Init
BY DEF PartsInit

LEMMA PartsStep ==
  [RegistryStep \/ SimStep \/ ReplayStep \/ ReviewStep]_partsVars =>
    /\ [Next]_vars /\ [Sim!Next]_(Sim!vars)
    /\ [Replay!Next]_(Replay!vars) /\ [Review!Next]_(Review!vars)
<1> SUFFICES ASSUME [RegistryStep \/ SimStep \/ ReplayStep \/ ReviewStep]_partsVars
             PROVE  /\ [Next]_vars /\ [Sim!Next]_(Sim!vars)
                    /\ [Replay!Next]_(Replay!vars) /\ [Review!Next]_(Review!vars)
  OBVIOUS
<1>1. /\ UNCHANGED simVars => UNCHANGED Sim!vars
      /\ UNCHANGED replayVars => UNCHANGED Replay!vars
      /\ UNCHANGED reviewVars => UNCHANGED Review!vars
  BY DEF simVars, replayVars, reviewVars, Sim!vars, Sim!simVars,
         Replay!vars, Replay!bufferVars, Replay!policyVars,
         Review!vars, Review!analyzerVars, Review!qaVars
<1>2. UNCHANGED partsVars =>
        UNCHANGED vars /\ UNCHANGED simVars /\ UNCHANGED replayVars /\ UNCHANGED reviewVars
  BY DEF partsVars
<1>3. RegistryStep =>
        Next /\ UNCHANGED simVars /\ UNCHANGED replayVars /\ UNCHANGED reviewVars
  BY DEF RegistryStep
<1>4. SimStep =>
        Sim!Next /\ UNCHANGED vars /\ UNCHANGED replayVars /\ UNCHANGED reviewVars
  BY DEF SimStep
<1>5. ReplayStep =>
        Replay!Next /\ UNCHANGED vars /\ UNCHANGED simVars /\ UNCHANGED reviewVars
  BY DEF ReplayStep
<1>6. ReviewStep =>
        Review!Next /\ UNCHANGED vars /\ UNCHANGED simVars /\ UNCHANGED replayVars
  BY DEF ReviewStep
<1> QED
  BY <1>1, <1>2, <1>3, <1>4, <1>5, <1>6

LEMMA PartsRunAlone == PartsSpec => Spec /\ Sim!Spec /\ Replay!Spec /\ Review!Spec
BY PartsStart, PartsStep, PTL DEF PartsSpec, Spec, Sim!Spec, Replay!Spec, Review!Spec

\* The registry, the training, its buffer and the review keep their types in the
\* composition that TLC checks.
THEOREM PartsTypeCorrect == PartsSpec => []PartsTypeOK
<1>1. SimP!Spec => []SimP!TypeOK
  BY SameTraining, SimP!SimTypeCorrect
<1>2. Sim!Spec => []Sim!TypeOK
  BY <1>1, SameTraining, PTL DEF Sim!Spec, SimP!Spec
<1>3. ReviewP!Spec => []ReviewP!TypeOK
  BY SameReview, ReviewP!ReviewTypeCorrect
<1>4. Review!Spec => []Review!TypeOK
  BY <1>3, SameReview, PTL DEF Review!Spec, ReviewP!Spec
<1>5. PartsTypeOK <=> TypeOK /\ Sim!TypeOK /\ Replay!TypeOK /\ Review!TypeOK
  BY DEF PartsTypeOK
<1> QED
  BY <1>2, <1>4, <1>5, RegistryTypeCorrect, ReplayTypeCorrect, PartsRunAlone, PTL

=============================================================================
