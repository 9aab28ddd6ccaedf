---------------------------- MODULE MemoryFiles ----------------------------
(***************************************************************************)
(* The memories of the marketing swarms: an Agent keeps the personal ones  *)
(* of a worker, a SwarmMemoryAgent and a CompanyMemoryAgent those a model  *)
(* finds important enough.  Each holds a list and writes every memory to a *)
(* JSON file of its own; a new object, in this process or after a crash in *)
(* the next, reads all files of its owner before it can be used.  Nothing  *)
(* else survives the process.  An owner has one object at a time: a worker *)
(* keeps its Agent, a manager and Sarah make a new object per consensus.   *)
(* Ids end in the second they are made in, so one may come a second time.  *)
(***************************************************************************)
CONSTANTS
  Ids,    \* memory ids
  NoId    \* no memory is being made

VARIABLES
  owner,     \* the class of the object
  file,      \* file[i]: what the file of memory i holds
  memories,  \* the ids in the object's list
  at,        \* what the object is doing
  id,        \* the memory it is making
  kept       \* the ids create_memory has answered with a memory

vars == <<owner, file, memories, at, id, kept>>

\* The values every variable ranges over; only a torn file is being written,
\* and a memory is being made exactly in create_memory.
TypeOK ==
  /\ owner \in {"agent", "swarm", "company"}
  /\ file \in [Ids -> {"none", "torn", "whole"}]
  /\ memories \subseteq Ids /\ kept \subseteq Ids
  /\ at \in {"none", "ready", "evaluating", "saving"}
  /\ id \in Ids \union {NoId}
  /\ id # NoId <=> at \in {"evaluating", "saving"}
  /\ at = "saving" => file[id] = "torn" /\ id \in memories

Init ==
  /\ owner \in {"agent", "swarm", "company"}
  /\ file = [i \in Ids |-> "none"]
  /\ memories = {} /\ kept = {}
  /\ at = "none" /\ id = NoId

Holding(s) == {i \in Ids : file[i] = s}

\* Mutant of Readable: a file that does not parse is passed over.
AnyFiles == TRUE

\* json.load of every file of the owner's has to succeed.
Readable == Holding("torn") = {}

\* The constructor: _load_existing_memories reads the files glob finds.  A
\* file that does not parse raises out of it, and there is no object.
Load ==
  /\ at \in {"none", "ready"}
  /\ IF Readable THEN at' = "ready" /\ memories' = Holding("whole")
                 ELSE at' = "none" /\ memories' = {}
  /\ UNCHANGED <<owner, file, id, kept>>

\* Mutant of Keep: the file is written before the list gets the memory.
KeepUnlisted(i) ==
  /\ file' = [file EXCEPT ![i] = "torn"]
  /\ at' = "saving" /\ id' = i /\ UNCHANGED memories

\* append to the list, and open(filename, 'w'), which truncates the file of
\* an earlier memory of that id.
Keep(i) ==
  /\ memories' = memories \union {i}
  /\ file' = [file EXCEPT ![i] = "torn"]
  /\ at' = "saving" /\ id' = i

\* create_memory: a worker's Agent keeps every memory, the others ask a crew
\* for its importance first.
CreateMemory(i) ==
  /\ at = "ready"
  /\ \/ owner = "agent" /\ Keep(i)
     \/ /\ owner # "agent"
        /\ at' = "evaluating" /\ id' = i
        /\ UNCHANGED <<file, memories>>
  /\ UNCHANGED <<owner, kept>>

Left == at' = "ready" /\ id' = NoId /\ UNCHANGED owner

\* evaluate_memory_importance returned a score at or above the threshold.
FoundImportant ==
  /\ at = "evaluating" /\ Keep(id)
  /\ UNCHANGED <<owner, kept>>

\* The score is below the threshold, or kickoff, json.dumps or the float of
\* its answer raised.
NotKept ==
  /\ at = "evaluating" /\ Left
  /\ UNCHANGED <<file, memories, kept>>

\* json.dump wrote all of the memory, and create_memory returns it.
Saved ==
  /\ at = "saving" /\ Left
  /\ file' = [file EXCEPT ![id] = "whole"]
  /\ kept' = kept \union {id}
  /\ UNCHANGED memories

\* json.dump met a value it cannot write, or the disk was full: the file has
\* what was written until then, the list has the memory.
DumpRaises ==
  /\ at = "saving" /\ Left
  /\ UNCHANGED <<file, memories, kept>>

\* The process ends at any point; the files stay as they are.
Crash ==
  /\ at # "none"
  /\ at' = "none" /\ id' = NoId /\ memories' = {}
  /\ UNCHANGED <<owner, file, kept>>

Next ==
  \/ Load \/ FoundImportant \/ NotKept \/ Saved \/ DumpRaises \/ Crash
  \/ \E i \in Ids : CreateMemory(i)

Spec == Init /\ [][Next]_vars

-----------------------------------------------------------------------------

\* get_memory_by_id, and get_all_memories, find it in the list.
Found(i) == i \in memories

\* A memory create_memory has returned is found in every later object of its
\* owner, also after crashes, failed writes and a second memory of the same
\* id that was cut short: where its file is spoilt there is no object at all.
KeptIsFound == at # "none" => \A i \in kept : Found(i)

=============================================================================
