------------------------------- MODULE Replay -------------------------------
(***************************************************************************)
(* The state of the package rl: ExperienceBuffer with prioritized replay,  *)
(* two bounded deques of which the second holds the priorities of the      *)
(* first, and the versions and update history of PolicyOptimizer.  Losses, *)
(* returns and rewards are numbers nothing here depends on; an experience  *)
(* is its agent and a number of its own.                                   *)
(***************************************************************************)
EXTENDS Integers, Sequences, SequencesExt

CONSTANTS
  Agents,
  Priorities,      \* numbers; 1 is the one an empty buffer starts from
  MaxSize,         \* max_size of the buffer
  MaxExperiences,  \* bound: calls of add
  MaxUpdates       \* bound: calls of update_policy

\* What the proof needs of the configuration.
ConfigAssumption ==
  /\ Priorities \subseteq Int /\ 1 \in Priorities
  /\ MaxSize \in Nat /\ MaxExperiences \in Nat /\ MaxUpdates \in Nat

VARIABLES
  prioritized,
  buffer, priorities,   \* of ExperienceBuffer
  versions, updates,    \* of PolicyOptimizer: policy_versions, update_history
  added,                \* experiences so far
  own,                  \* history: the priority each was given, or set to, last
  shifted               \* history: clear has taken one from before another

bufferVars == <<buffer, priorities, added, own, shifted>>
policyVars == <<versions, updates>>
vars == <<prioritized, bufferVars, policyVars>>

\* The experiences of some agents.
Experiences(agents) == [agent : agents, id : 1..MaxExperiences]

TypeOK ==
  /\ prioritized \in BOOLEAN
  /\ buffer \in Seq(Experiences(Agents)) /\ Len(buffer) =< MaxSize
  /\ priorities \in Seq(Priorities)
  /\ versions \in [Agents -> 0..MaxUpdates]
  /\ updates \in Seq([agent : Agents, version : 1..MaxUpdates])
  /\ added \in 0..MaxExperiences
  /\ own \in [1..MaxExperiences -> Priorities]
  /\ shifted \in BOOLEAN

Init ==
  /\ prioritized \in BOOLEAN
  /\ buffer = <<>> /\ priorities = <<>>
  /\ versions = [a \in Agents |-> 0] /\ updates = <<>>
  /\ added = 0 /\ own = [i \in 1..MaxExperiences |-> 1] /\ shifted = FALSE

-----------------------------------------------------------------------------
(* ExperienceBuffer.                                                       *)

\* append to a deque of bounded length.
Bounded(seq) == IF Len(seq) > MaxSize THEN Tail(seq) ELSE seq
Highest == IF priorities = <<>> THEN 1
           ELSE CHOOSE p \in ToSet(priorities) : \A q \in ToSet(priorities) : q =< p

\* given: the priority in the call; without one the highest there is.
Add(agent, given) ==
  /\ added < MaxExperiences /\ added' = added + 1
  /\ LET p == IF given = {} THEN Highest ELSE CHOOSE q \in given : TRUE IN
       /\ buffer' = Bounded(Append(buffer, [agent |-> agent, id |-> added']))
       /\ priorities' = IF prioritized THEN Bounded(Append(priorities, p)) ELSE priorities
       /\ own' = IF prioritized THEN [own EXCEPT ![added'] = p] ELSE own
  /\ UNCHANGED <<prioritized, shifted, policyVars>>

\* update_priorities, for one index: it counts in the buffer as it is now.
UpdatePriority(index, p) ==
  /\ prioritized /\ index \in 1..Len(priorities)
  /\ priorities' = [priorities EXCEPT ![index] = p]
  /\ own' = [own EXCEPT ![buffer[index].id] = p]
  /\ UNCHANGED <<prioritized, buffer, added, shifted, policyVars>>

\* The elements of seq that are in S, in their order: SelectSeq, as a fold, whose
\* definition the provers have.
Only(seq, S) ==
  FoldLeft(LAMBDA kept, e : IF e \in S THEN Append(kept, e) ELSE kept, <<>>, seq)
OthersThan(agent) == Only(buffer, Experiences(Agents \ {agent}))

\* Mutant of Rebuilt: the priorities of the newest are kept.
RebuiltFromEnd(n) ==
  IF prioritized THEN SubSeq(priorities, Len(priorities) - n + 1, Len(priorities)) ELSE priorities
\* The priorities that are kept are as many as the experiences, from the front.
Rebuilt(n) == IF prioritized THEN SubSeq(priorities, 1, n) ELSE priorities

Shifts(agent) ==
  \E i, j \in 1..Len(buffer) :
    i < j /\ buffer[i].agent = agent /\ buffer[j].agent # agent

ClearAgent(agent) ==
  /\ buffer' = OthersThan(agent)
  /\ priorities' = Rebuilt(Len(buffer'))
  /\ shifted' = (shifted \/ Shifts(agent))
  /\ UNCHANGED <<prioritized, added, own, policyVars>>

\* Whatever was out of step is gone.
Clear ==
  /\ buffer' = <<>>
  /\ priorities' = IF prioritized THEN <<>> ELSE priorities
  /\ shifted' = FALSE
  /\ UNCHANGED <<prioritized, added, own, policyVars>>

\* The experiences sample draws from, and the weight each is drawn with: of an
\* agent's, the first of the buffer's priorities.
Available(agent) ==
  IF agent = {} THEN buffer ELSE Only(buffer, Experiences(agent))
Weight(agent, i) == IF prioritized THEN priorities[i] ELSE 1

-----------------------------------------------------------------------------
(* PolicyOptimizer.                                                        *)

\* policy_function or value_function may raise, and then nothing has changed.
UpdatePolicy(agent) ==
  /\ Len(updates) < MaxUpdates
  /\ versions' = [versions EXCEPT ![agent] = @ + 1]
  /\ updates' = Append(updates, [agent |-> agent, version |-> versions'[agent]])
  /\ UNCHANGED <<prioritized, bufferVars>>

\* The history stays, and the versions in it begin again.
ResetPolicy(agent) ==
  /\ versions[agent] # 0
  /\ versions' = [versions EXCEPT ![agent] = 0]
  /\ UNCHANGED <<prioritized, bufferVars, updates>>

Next ==
  \/ \E a \in Agents, p \in Priorities : Add(a, {}) \/ Add(a, {p})
  \/ \E i \in 1..MaxSize, p \in Priorities : UpdatePriority(i, p)
  \/ \E a \in Agents : ClearAgent(a) \/ UpdatePolicy(a) \/ ResetPolicy(a)
  \/ Clear

Spec == Init /\ [][Next]_vars

-----------------------------------------------------------------------------
(* Properties.                                                             *)

\* An experience is drawn with the priority it has, however often the two deques
\* have dropped their oldest and priorities were set, until clear(agent_id) has
\* taken one from before another.  What is drawn for one agent alone only stays
\* within the priorities.
DrawnByOwnPriority ==
  prioritized =>
    /\ \A i \in 1..Len(Available({})) :
         ~shifted => Weight({}, i) = own[Available({})[i].id]
    /\ \A a \in Agents : Len(Available({a})) =< Len(priorities)

UpdatesOf(a) == Only(updates, [agent : {a}, version : 1..MaxUpdates])

\* The current version of a policy is the one of its last update, and the
\* versions up to it were given out one after the other.
VersionsFollow ==
  \A a \in Agents :
    \A n \in 1..versions[a] : UpdatesOf(a)[Len(UpdatesOf(a)) - versions[a] + n].version = n

ReplayIsConsistent == DrawnByOwnPriority /\ VersionsFollow

=============================================================================
