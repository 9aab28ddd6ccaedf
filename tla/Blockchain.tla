----------------------------- MODULE Blockchain -----------------------------
(***************************************************************************)
(* The blockchain package that CrewManager instantiates: ConsensusManager, *)
(* TransactionManager and SmartContractInterface.  All three are objects   *)
(* in memory; every call runs to its end without a suspension, except      *)
(* wait_for_consensus, which polls, and emit_event, which awaits one       *)
(* listener after the other.                                               *)
(***************************************************************************)
EXTENDS Integers, Sequences, FiniteSets

CONSTANTS
  Proposals,      \* proposal ids; propose makes a fresh one every time
  Voters,         \* agents that vote
  QuorumSize,     \* quorum_size
  Waits,          \* calls of wait_for_consensus
  Txs,            \* transaction ids
  RequiredConfirmations,
  Contracts,      \* SmartContract objects, each under its own id
  Listeners,      \* callbacks registered for every lifecycle event
  NoProposal,     \* a wait that was not called
  MaxConfirmations,  \* bound: confirm_transaction calls per transaction
  MaxEvents,      \* bound: lifecycle events per contract
  MaxRaises       \* bound: listeners that raise

ASSUME BlockchainAssumption ==
  /\ QuorumSize \in Nat \ {0} /\ RequiredConfirmations \in Nat \ {0}
  /\ IsFiniteSet(Listeners) /\ NoProposal \notin Proposals
  /\ MaxConfirmations \in Nat /\ MaxEvents \in Nat /\ MaxRaises \in Nat

VARIABLES
  votes,      \* votes[p]: the voters in the order they came
  proposals,  \* keys of proposals
  wait,       \* wait[c]: the progress of one wait_for_consensus
  tx,         \* tx[t]: status and confirmations of a transaction
  pending,    \* pending_transactions
  deployed,   \* keys of contracts
  status,     \* status[c]: status of a contract
  events,     \* events[c]: the names of the events it emitted
  emitting,   \* <<c, i>>: emit_event of event i is notifying its listeners
  heard,      \* <<c, i, l>>: l was called with event i of c
  raises      \* listeners that raised so far

consensusVars == <<votes, proposals, wait>>
txVars == <<tx, pending>>
contractVars == <<deployed, status, events, emitting, heard, raises>>
vars == <<consensusVars, txVars, contractVars>>

Transaction == [status : {"none", "PENDING", "CONFIRMED", "REJECTED"},
                confirmations : 0..MaxConfirmations]
ContractStatus == {"DEPLOYED", "ACTIVE", "PAUSED", "TERMINATED"}
Wait == [pc : {"idle", "sleep", "done"}, p : Proposals \union {NoProposal},
         late : BOOLEAN, result : BOOLEAN]

\* The values every variable ranges over; a voter is counted once.
TypeOK ==
  /\ votes \in [Proposals -> Seq(Voters)]
  /\ \A p \in Proposals : \A i, j \in DOMAIN votes[p] :
       votes[p][i] = votes[p][j] => i = j
  /\ proposals \in SUBSET Proposals
  /\ wait \in [Waits -> Wait]
  /\ tx \in [Txs -> Transaction]
  /\ pending \in SUBSET Txs
  /\ deployed \in SUBSET Contracts
  /\ status \in [Contracts -> ContractStatus]
  /\ events \in [Contracts -> Seq(ContractStatus)]
  /\ emitting \in SUBSET (Contracts \X (1..MaxEvents))
  /\ heard \in SUBSET (Contracts \X (1..MaxEvents) \X Listeners)
  /\ raises \in 0..MaxRaises

Init ==
  /\ votes = [p \in Proposals |-> <<>>] /\ proposals = {}
  /\ wait = [c \in Waits |->
               [pc |-> "idle", p |-> NoProposal, late |-> FALSE, result |-> FALSE]]
  /\ tx = [t \in Txs |-> [status |-> "none", confirmations |-> 0]]
  /\ pending = {}
  /\ deployed = {}
  /\ status = [c \in Contracts |-> "DEPLOYED"]
  /\ events = [c \in Contracts |-> <<>>]
  /\ emitting = {} /\ heard = {} /\ raises = 0

-----------------------------------------------------------------------------
(* ConsensusManager.                                                       *)

Propose(p) ==
  /\ p \notin proposals
  /\ proposals' = proposals \union {p}
  /\ votes' = [votes EXCEPT ![p] = <<>>]
  /\ UNCHANGED <<wait, txVars, contractVars>>

\* No vote of this voter is in the list.
NewVoter(p, voter) == \A i \in DOMAIN votes[p] : votes[p][i] # voter

\* An approval; a refusal is answered True and recorded nowhere.
Vote(p, voter, approve) ==
  /\ p \in proposals
  /\ votes' = IF approve /\ NewVoter(p, voter)
                THEN [votes EXCEPT ![p] = Append(@, voter)] ELSE votes
  /\ UNCHANGED <<proposals, wait, txVars, contractVars>>

CheckConsensus(p) == p \in proposals /\ Len(votes[p]) >= QuorumSize

\* The loop body: return True, or sleep for 0.1 s.
Poll(c, p) ==
  wait' = [wait EXCEPT ![c] =
             [pc |-> IF CheckConsensus(p) THEN "done" ELSE "sleep", p |-> p,
              late |-> wait[c].late, result |-> CheckConsensus(p)]]

\* wait_for_consensus, for a proposal that may be unknown.
WaitStarts(c, p) ==
  /\ wait[c].pc = "idle"
  /\ Poll(c, p)
  /\ UNCHANGED <<votes, proposals, txVars, contractVars>>

\* Time: the timeout of the call is over.
TimeoutPasses(c) ==
  /\ wait[c].pc = "sleep" /\ ~wait[c].late
  /\ wait' = [wait EXCEPT ![c].late = TRUE]
  /\ UNCHANGED <<votes, proposals, txVars, contractVars>>

\* Mutant of GivesUp: the result of the call is True when the time is over.
GivesUpAgreeing(c) ==
  wait' = [wait EXCEPT ![c].pc = "done", ![c].result = TRUE]

\* return False: the votes are not looked at again.
GivesUp(c) == wait' = [wait EXCEPT ![c].pc = "done"]

\* The sleep is over and the loop condition is evaluated.
WaitWakes(c) ==
  /\ wait[c].pc = "sleep"
  /\ IF wait[c].late THEN GivesUp(c) ELSE Poll(c, wait[c].p)
  /\ UNCHANGED <<votes, proposals, txVars, contractVars>>

-----------------------------------------------------------------------------
(* TransactionManager.                                                     *)

CreateTransaction(t) ==
  /\ tx[t].status = "none"
  /\ tx' = [tx EXCEPT ![t].status = "PENDING"]
  /\ pending' = pending \union {t}
  /\ UNCHANGED <<consensusVars, contractVars>>

\* confirm_transaction does not look at the status: a confirmed transaction is
\* confirmed further, a rejected one can become confirmed.
ConfirmTransaction(t) ==
  /\ tx[t].status # "none" /\ tx[t].confirmations < MaxConfirmations
  /\ LET n == tx[t].confirmations + 1 IN
     IF n >= RequiredConfirmations
       THEN /\ tx' = [tx EXCEPT ![t] = [status |-> "CONFIRMED", confirmations |-> n]]
            /\ pending' = pending \ {t}
       ELSE /\ tx' = [tx EXCEPT ![t].confirmations = n]
            /\ UNCHANGED pending
  /\ UNCHANGED <<consensusVars, contractVars>>

\* Mutant of RejectTransaction: the transaction stays in the list.
RejectListed(t) ==
  /\ tx[t].status # "none"
  /\ tx' = [tx EXCEPT ![t].status = "REJECTED"]
  /\ UNCHANGED <<pending, consensusVars, contractVars>>

RejectTransaction(t) ==
  /\ tx[t].status # "none"
  /\ tx' = [tx EXCEPT ![t].status = "REJECTED"]
  /\ pending' = pending \ {t}
  /\ UNCHANGED <<consensusVars, contractVars>>

-----------------------------------------------------------------------------
(* SmartContract and its interface.                                        *)

\* emit_event up to the first listener.
EmitEvent(c, name) ==
  /\ Len(events[c]) < MaxEvents
  /\ events' = [events EXCEPT ![c] = Append(@, name)]
  /\ emitting' = IF Listeners = {} THEN emitting
                                   ELSE emitting \union {<<c, Len(events[c]) + 1>>}
  /\ UNCHANGED <<heard, raises>>

\* activate, pause and terminate: no status forbids any of them.
ChangeStatus(c, s) ==
  /\ status' = [status EXCEPT ![c] = s]
  /\ EmitEvent(c, s)

\* deploy_contract registers and activates, also a contract deployed before.
DeployContract(c) ==
  /\ deployed' = deployed \union {c}
  /\ ChangeStatus(c, "ACTIVE")
  /\ UNCHANGED <<consensusVars, txVars>>

\* pause_contract and terminate_contract of a known contract; execute_contract
\* runs the contract's own function and changes nothing here.
PauseContract(c) ==
  /\ c \in deployed
  /\ ChangeStatus(c, "PAUSED")
  /\ UNCHANGED <<deployed, consensusVars, txVars>>

TerminateContract(c) ==
  /\ c \in deployed
  /\ ChangeStatus(c, "TERMINATED")
  /\ UNCHANGED <<deployed, consensusVars, txVars>>

Left(c, i) == {l \in Listeners : <<c, i, l>> \notin heard}

\* Mutant of EmissionGoesOn: the loop over the listeners ends after one.
EmissionEnds(c, i) == emitting' = emitting \ {<<c, i>>}

\* The loop over the listeners goes on until none is left.
EmissionGoesOn(c, i) ==
  emitting' = IF Cardinality(Left(c, i)) =< 1 THEN emitting \ {<<c, i>>} ELSE emitting

\* The next listener is called; in between others run, and may emit events of
\* their own.
Notify(c, i, l) ==
  /\ <<c, i>> \in emitting /\ l \in Left(c, i)
  /\ heard' = heard \union {<<c, i, l>>}
  /\ EmissionGoesOn(c, i)
  /\ UNCHANGED <<deployed, status, events, raises, consensusVars, txVars>>

\* A listener raises: emit_event and its caller end, the rest is not called.
NotifyRaises(c, i, l) ==
  /\ <<c, i>> \in emitting /\ l \in Left(c, i) /\ raises < MaxRaises
  /\ raises' = raises + 1
  /\ heard' = heard \union {<<c, i, l>>}
  /\ emitting' = emitting \ {<<c, i>>}
  /\ UNCHANGED <<deployed, status, events, consensusVars, txVars>>

-----------------------------------------------------------------------------

NotifyStep(c, i) == \E l \in Listeners : Notify(c, i, l)

Next ==
  \/ \E p \in Proposals : Propose(p)
  \/ \E p \in Proposals, voter \in Voters, a \in BOOLEAN : Vote(p, voter, a)
  \/ \E c \in Waits, p \in Proposals : WaitStarts(c, p)
  \/ \E c \in Waits : TimeoutPasses(c) \/ WaitWakes(c)
  \/ \E t \in Txs : CreateTransaction(t) \/ ConfirmTransaction(t) \/ RejectTransaction(t)
  \/ \E c \in Contracts : DeployContract(c) \/ PauseContract(c) \/ TerminateContract(c)
  \/ \E c \in Contracts, i \in 1..MaxEvents :
       \/ NotifyStep(c, i)
       \/ \E l \in Listeners : NotifyRaises(c, i, l)

Spec == Init /\ [][Next]_vars

\* A listener that was called returns, and emit_event is resumed.
Fairness == \A c \in Contracts, i \in 1..MaxEvents : WF_vars(NotifyStep(c, i))
FairSpec == Spec /\ Fairness

-----------------------------------------------------------------------------
(* Properties.                                                             *)

\* wait_for_consensus answers True only for a proposal that has its quorum,
\* then and ever after.
AgreedHasQuorum ==
  \A c \in Waits : wait[c].result => CheckConsensus(wait[c].p)

\* pending_transactions and the statuses agree: get_pending_transactions is
\* the set of the transactions that are PENDING, whatever order confirmations
\* and rejections come in.
PendingIsListed == \A t \in Txs : t \in pending <=> tx[t].status = "PENDING"

\* The last event a contract emitted tells its status, although listeners of
\* earlier events may still be running.
LastEventTellsStatus ==
  \A c \in Contracts : events[c] # <<>> => status[c] = events[c][Len(events[c])]

\* Every listener hears of every event, unless one of them raised.
EventsAreHeard ==
  \A c \in Contracts, i \in 1..MaxEvents, l \in Listeners :
    <<c, i>> \in emitting ~> (<<c, i, l>> \in heard \/ raises > 0)

\* "Number of confirmations required for finality": a CONFIRMED transaction
\* stays confirmed.
ConfirmedIsFinal ==
  [][\A t \in Txs : tx[t].status = "CONFIRMED" => tx'[t].status = "CONFIRMED"]_vars

=============================================================================
