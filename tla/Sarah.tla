-------------------------------- MODULE Sarah -------------------------------
(***************************************************************************)
(* The instruction worker of the marketing crew (start.py) and the routes  *)
(* of api.py that feed it: one instruction at a time is published to the   *)
(* swarms, their consensus messages are collected from a list until every  *)
(* swarm has answered or the time is over, and the outcome is pushed for   *)
(* the user and for the simulation.  Nothing in a consensus message tells  *)
(* which instruction it answers.  blpop takes an instruction away for good *)
(* before anything is known of it, so that some are lost.                  *)
(***************************************************************************)
EXTENDS Integers, Sequences, FiniteSets

CONSTANTS
  Instructions, \* numbered in the order of their arrival
  Swarms,       \* the managers that were initialized
  Stranger,     \* a swarm name no manager has
  MaxAnswers,   \* bound: consensus messages
  MaxFailures   \* bound: calls that raise, instructions that are not JSON, interrupts

VARIABLES
  instruction, \* the list sarah_instruction
  consensus,   \* the list consensus-output: names of swarms
  pc, current, \* what the worker is doing, and for which instruction
  received,    \* received_consensus
  api,         \* <<i, kind>>: entries about instruction i on api_queue
  simulation,  \* <<i, s>>: messages of simulation_queue with the swarms in them
  missed,      \* instructions whose entry for the user was refused by Redis
  lost,        \* instructions off the list that no handler got, or got through with
  answers, failures

vars == <<instruction, consensus, pc, current, received, api, simulation, missed, lost,
          answers, failures>>

Kinds == {"consensus_response", "consensus_error", "error"}
Pc == {"idle", "publish", "collect", "remember", "answer", "simulate", "error", "ended"}

TypeOK ==
  /\ instruction \in Seq(Instructions) /\ consensus \in Seq(Swarms \union {Stranger})
  /\ pc \in Pc /\ current \in Instructions \union {0}
  /\ received \in SUBSET Swarms
  /\ api \in SUBSET (Instructions \X Kinds)
  /\ simulation \in SUBSET (Instructions \X SUBSET Swarms)
  /\ missed \in SUBSET Instructions /\ lost \in SUBSET Instructions
  /\ answers \in 0..MaxAnswers /\ failures \in 0..MaxFailures

Init ==
  /\ instruction = <<>> /\ consensus = <<>>
  /\ pc = "idle" /\ current = 0 /\ received = {}
  /\ api = {} /\ simulation = {} /\ missed = {} /\ lost = {}
  /\ answers = 0 /\ failures = 0

Lists == <<instruction, consensus, answers>>
Failure == failures < MaxFailures /\ failures' = failures + 1

\* start_sarah and next_sarah push an instruction.
Instruct(i) ==
  /\ i = Cardinality({k \in Instructions : k =< current}) + Len(instruction) + 1
  /\ instruction' = Append(instruction, i)
  /\ UNCHANGED <<consensus, pc, current, received, api, simulation, missed, lost, answers,
                 failures>>

\* A swarm's consensus; the shipped swarms push none.
Answer(s) ==
  /\ answers < MaxAnswers /\ answers' = answers + 1
  /\ consensus' = Append(consensus, s)
  /\ UNCHANGED <<instruction, pc, current, received, api, simulation, missed, lost, failures>>

\* blpop on sarah_instruction, as the server does it.
Pop ==
  /\ pc = "idle" /\ instruction # <<>>
  /\ current' = Head(instruction) /\ instruction' = Tail(instruction)

TakeInstruction ==
  /\ Pop /\ pc' = "publish" /\ received' = {}
  /\ UNCHANGED <<consensus, api, simulation, missed, lost, answers, failures>>

\* The answer of blpop does not arrive: main() logs the RedisError and connects
\* again.  Or the instruction is not JSON, which nothing catches: main() ends.
TakeFails ==
  /\ Pop /\ Failure
  /\ lost' = lost \union {current'} /\ pc' \in {"idle", "ended"}
  /\ UNCHANGED <<consensus, received, api, simulation, missed, answers>>

\* An interrupt, or the end of the process, wherever the worker is.
Interrupted ==
  /\ pc # "ended" /\ pc' = "ended" /\ Failure
  /\ lost' = IF pc = "idle" THEN lost ELSE lost \union {current}
  /\ UNCHANGED <<Lists, current, received, api, simulation, missed>>

\* Somebody starts the worker again.
Restart ==
  /\ pc = "ended" /\ pc' = "idle"
  /\ UNCHANGED <<Lists, current, received, api, simulation, missed, lost, failures>>

\* The metrics go to the channel of the swarms, whoever listens.
PublishMetrics ==
  /\ pc = "publish" /\ pc' = "collect"
  /\ UNCHANGED <<Lists, current, received, api, simulation, missed, lost, failures>>

\* The loop ends when every swarm has answered.
Onward(got) == IF got = Swarms THEN "remember" ELSE "collect"

\* One round of the loop: a message of a swarm that has not answered counts.
CollectConsensus ==
  /\ pc = "collect" /\ consensus # <<>>
  /\ received' = received \union ({Head(consensus)} \intersect Swarms)
  /\ consensus' = Tail(consensus)
  /\ pc' = Onward(received')
  /\ UNCHANGED <<instruction, answers, current, api, simulation, missed, lost, failures>>

\* The 300 seconds are over, seen at the head of the loop.
CollectTimesOut ==
  /\ pc = "collect" /\ pc' = "answer"
  /\ UNCHANGED <<Lists, current, received, api, simulation, missed, lost, failures>>

\* The combined consensus becomes a memory of the company.
Remember ==
  /\ pc = "remember" /\ pc' = "answer"
  /\ UNCHANGED <<Lists, current, received, api, simulation, missed, lost, failures>>

\* publish_message: a RedisError is logged, and the entry may be there or not.
Tell(kind) ==
  \/ api' = api \union {<<current, kind>>} /\ UNCHANGED <<missed, failures>>
  \/ /\ Failure
     /\ \/ api' = api \union {<<current, kind>>} /\ UNCHANGED missed
        \/ missed' = missed \union {current} /\ UNCHANGED api

TellUser ==
  /\ pc = "answer" /\ pc' = "simulate"
  /\ Tell(IF received = Swarms THEN "consensus_response" ELSE "consensus_error")
  /\ UNCHANGED <<Lists, current, received, simulation, lost>>

TellSimulation ==
  /\ pc = "simulate" /\ pc' = "idle"
  /\ \/ simulation' = simulation \union {<<current, received>>} /\ UNCHANGED failures
     \/ /\ Failure
        /\ simulation' \in {simulation, simulation \union {<<current, received>>}}
  /\ UNCHANGED <<Lists, current, received, api, missed, lost>>

\* Mutant of MayRaise: the memory of the company is written after the pushes.
MayRaiseLate == {"publish", "collect", "simulate"}
\* Where an exception leaves process_marketing_request.
MayRaise == {"publish", "collect", "remember"}

\* What the blpop of the collection has taken when it raises is gone.
Raises ==
  /\ pc \in MayRaise /\ pc' = "error" /\ Failure
  /\ \/ UNCHANGED consensus
     \/ pc = "collect" /\ consensus # <<>> /\ consensus' = Tail(consensus)
  /\ UNCHANGED <<instruction, answers, current, received, api, simulation, missed, lost>>

\* Mutant of TellError: the outer except only logs.
LogError ==
  /\ pc = "error" /\ pc' = "idle"
  /\ UNCHANGED <<Lists, current, received, api, simulation, missed, lost, failures>>

TellError ==
  /\ pc = "error" /\ pc' = "idle"
  /\ Tell("error")
  /\ UNCHANGED <<Lists, current, received, simulation, lost>>

-----------------------------------------------------------------------------

Work ==
  TakeInstruction \/ PublishMetrics \/ Remember \/ TellUser \/ TellSimulation \/ TellError

Next ==
  \/ \E i \in Instructions : Instruct(i)
  \/ \E s \in Swarms \union {Stranger} : Answer(s)
  \/ Work \/ CollectConsensus \/ CollectTimesOut
  \/ Raises \/ TakeFails \/ Interrupted \/ Restart

Spec == Init /\ [][Next]_vars

\* The worker goes on, and the 300 seconds pass.
FairStep == Work \/ CollectTimesOut
Fairness == WF_vars(FairStep)

-----------------------------------------------------------------------------
(* Properties.                                                             *)

\* The user is told one outcome of an instruction, and what is reported to
\* have failed is not simulated, wherever an exception comes.
OneOutcome ==
  \A i \in Instructions :
    /\ Cardinality({k \in Kinds : <<i, k>> \in api}) =< 1
    /\ <<i, "error">> \in api => \A s \in SUBSET Swarms : <<i, s>> \notin simulation

\* However many swarms stay silent, and although a swarm may answer late or
\* twice, every instruction has an outcome: a failure on the way is reported.
\* Excused are entries that Redis refused, the instructions that were lost between
\* blpop and the handler or with the process, and a worker nobody starts again.
InstructionAnswered ==
  \A i \in Instructions :
    (\E n \in 1..Len(instruction) : instruction[n] = i) ~>
      \/ i \in missed \union lost \/ \E k \in Kinds : <<i, k>> \in api
      \/ [](pc = "ended")

=============================================================================
