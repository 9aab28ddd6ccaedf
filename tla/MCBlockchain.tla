---------------------------- MODULE MCBlockchain ----------------------------
(* Instances of Blockchain for TLC, of the two managers next to it:        *)
(* CrewManager, which creates the objects of Blockchain, and its           *)
(* MemoryManager; and of MemoryFiles.  They share no state; a behaviour is *)
(* about one of them, and the other parts stay as they began.              *)
EXTENDS Blockchain

CONSTANTS
  Agents, Mutable, MaxDistributed,   \* of CrewManager
  Callers, MaxPasses,                \* of MemoryManager
  Ids, NoId                          \* of MemoryFiles

ASSUME PartsAssumption ==
  /\ IsFiniteSet(Agents) /\ Mutable \subseteq Agents /\ MaxDistributed \in Nat
  /\ Callers \intersect {"monitor", "shutdown"} = {} /\ MaxPasses \in Nat
  /\ NoId \notin Ids

VARIABLES
  part,
  mute, setup, services, agents, health, adding, given, queue, processor, round, given_to,
  ended, down, pos, stopped,
  monitor, periodic, cancelled, lock, level, at, dying, open, closing, early, swallowed,
  passes, asked,
  owner, file, memories, doing, making, kept

crewVars ==
  <<mute, setup, services, agents, health, adding, given, queue, processor, round, given_to,
    ended, down, pos, stopped>>
memoryVars ==
  <<monitor, periodic, cancelled, lock, level, at, dying, open, closing, early, swallowed,
    passes, asked>>
filesVars == <<owner, file, memories, doing, making, kept>>
partsVars == <<part, vars, crewVars, memoryVars, filesVars>>

Crew == INSTANCE CrewManager WITH MaxEvents <- MaxDistributed, heard <- given_to
Memory == INSTANCE MemoryManager WITH down <- closing
Files == INSTANCE MemoryFiles WITH at <- doing, id <- making

PartsInit ==
  /\ part \in {"blockchain", "crew", "memory", "files"}
  /\ Init /\ Crew!Init /\ Memory!Init /\ Files!Init
  /\ part # "files" => owner = "agent"

BlockchainStep == part = "blockchain" /\ Next /\ UNCHANGED <<part, crewVars, memoryVars, filesVars>>
CrewStep == part = "crew" /\ Crew!Next /\ UNCHANGED <<part, vars, memoryVars, filesVars>>
MemoryStep == part = "memory" /\ Memory!Next /\ UNCHANGED <<part, vars, crewVars, filesVars>>
FilesStep == part = "files" /\ Files!Next /\ UNCHANGED <<part, vars, crewVars, memoryVars>>

PartsSpec ==
  /\ PartsInit /\ [][BlockchainStep \/ CrewStep \/ MemoryStep \/ FilesStep]_partsVars
  /\ Fairness /\ WF_crewVars(part = "crew" /\ Crew!ProcessorStep)
  /\ WF_memoryVars(part = "memory" /\ Memory!CoroutineStep)

PartsTypeOK == TypeOK /\ Crew!TypeOK /\ Memory!TypeOK /\ Files!TypeOK
RoundReachesAll == Crew!RoundReachesAll
DownIsQuiet == Crew!DownIsQuiet
QueueIsWorkedOff == Crew!QueueIsWorkedOff
ShutdownIsOrderly == Memory!ShutdownIsOrderly
ShutdownReturns == Memory!ShutdownReturns
KeptIsFound == Files!KeptIsFound

=============================================================================
