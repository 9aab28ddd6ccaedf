------------------------ MODULE InfrastructureProofs ------------------------
(***************************************************************************)
(* The three managers of the blockchain package keep their books straight  *)
(* for any number of agents, transactions, contracts and listeners.        *)
(* Around them, for any agents, callers and memory ids: the shutdown of    *)
(* CrewManager and of its MemoryManager is orderly, a round of             *)
(* _process_events reaches every agent once, and no memory that was        *)
(* answered gets lost from its file.                                       *)
(***************************************************************************)
EXTENDS MCBlockchain, FiniteSetTheorems, SequenceTheorems, TLAPS

-----------------------------------------------------------------------------
(* Blockchain.                                                             *)

VotesOK ==
  /\ votes \in [Proposals -> Seq(Voters)]
  /\ proposals \in SUBSET Proposals
  /\ wait \in [Waits -> Wait]

TxOK == tx \in [Txs -> Transaction] /\ pending \in SUBSET Txs

ContractOK ==
  /\ status \in [Contracts -> ContractStatus]
  /\ events \in [Contracts -> Seq(ContractStatus)]

\* Each manager has an inductive invariant of its own.
ConsensusInv == VotesOK /\ AgreedHasQuorum
TxInv == TxOK /\ PendingIsListed
ContractInv == ContractOK /\ LastEventTellsStatus

\* A quorum that was reached stays, since votes are only added.
LEMMA ConsensusStep ==
  ASSUME ConsensusInv, [Next]_vars
  PROVE  ConsensusInv'
<1> USE DEF ConsensusInv
<1>1. ASSUME NEW p \in Proposals, Propose(p) PROVE ConsensusInv'
  <2>1. VotesOK'
    BY <1>1 DEF Propose, VotesOK
  <2>2. ASSUME NEW c \in Waits, wait'[c].result PROVE CheckConsensus(wait[c].p)'
    <3>1. wait' = wait /\ wait[c].p \in proposals /\ wait[c].p # p
      BY <1>1, <2>2 DEF Propose, AgreedHasQuorum, CheckConsensus
    <3>2. votes'[wait[c].p] = votes[wait[c].p] /\ wait[c].p \in proposals'
      BY <1>1, <3>1 DEF Propose, VotesOK
    <3>3. QED
      BY <2>2, <3>1, <3>2 DEF AgreedHasQuorum, CheckConsensus
  <2>3. QED
    BY <2>1, <2>2 DEF AgreedHasQuorum
<1>2. ASSUME NEW p \in Proposals, NEW voter \in Voters, NEW a \in BOOLEAN,
             Vote(p, voter, a)
      PROVE  ConsensusInv'
  <2>1. VotesOK'
    BY <1>2 DEF Vote, VotesOK
  <2>2. \A q \in Proposals : Len(votes'[q]) >= Len(votes[q])
    <3>1. CASE a /\ NewVoter(p, voter)
      BY <1>2, <3>1 DEF Vote, VotesOK
    <3>2. CASE ~(a /\ NewVoter(p, voter))
      BY <1>2, <3>2 DEF Vote, VotesOK
    <3>3. QED
      BY <3>1, <3>2
  <2>3. ASSUME NEW c \in Waits, wait'[c].result PROVE CheckConsensus(wait[c].p)'
    <3>1. wait' = wait /\ proposals' = proposals
      BY <1>2 DEF Vote
    <3>2. wait[c].p \in proposals /\ Len(votes[wait[c].p]) >= QuorumSize
      BY <2>3, <3>1 DEF AgreedHasQuorum, CheckConsensus
    <3>3. Len(votes'[wait[c].p]) >= QuorumSize
      BY <2>1, <2>2, <3>2, BlockchainAssumption DEF VotesOK
    <3>4. QED
      BY <3>1, <3>2, <3>3 DEF CheckConsensus
  <2>4. QED
    BY <1>2, <2>1, <2>3 DEF AgreedHasQuorum, Vote
<1>3. ASSUME NEW c \in Waits, NEW p \in Proposals, UNCHANGED <<votes, proposals>>,
             Poll(c, p)
      PROVE  ConsensusInv'
  <2>1. CheckConsensus(p) \in BOOLEAN
    BY DEF CheckConsensus
  <2>2. VotesOK'
    BY <1>3, <2>1 DEF Poll, VotesOK, Wait
  <2>3. wait'[c].p = p /\ wait'[c].result = CheckConsensus(p)
    BY <1>3 DEF Poll, VotesOK
  <2>4. \A d \in Waits \ {c} : wait'[d] = wait[d]
    BY <1>3 DEF Poll, VotesOK
  <2>5. QED
    BY <1>3, <2>2, <2>3, <2>4 DEF AgreedHasQuorum, CheckConsensus
<1>4. ASSUME NEW c \in Waits, UNCHANGED <<votes, proposals>>,
             \/ wait' = [wait EXCEPT ![c].late = TRUE]
             \/ wait' = [wait EXCEPT ![c].pc = "done"]
      PROVE  ConsensusInv'
  <2>1. VotesOK'
    BY <1>4 DEF VotesOK, Wait
  <2>2. \A d \in Waits : wait'[d].p = wait[d].p /\ wait'[d].result = wait[d].result
    BY <1>4 DEF VotesOK, Wait
  <2>3. QED
    BY <1>4, <2>1, <2>2 DEF AgreedHasQuorum, CheckConsensus
<1>5. ASSUME NEW c \in Waits, WaitWakes(c) PROVE ConsensusInv'
  <2>1. CASE wait[c].late
    BY <1>4, <1>5, <2>1 DEF WaitWakes, GivesUp
  <2>2. CASE ~wait[c].late
    <3>1. CASE wait[c].p \in Proposals
      BY <1>3, <1>5, <2>2, <3>1 DEF WaitWakes
    <3>2. CASE wait[c].p \notin Proposals
      <4>1. wait[c].p = NoProposal /\ ~CheckConsensus(NoProposal)
        BY <3>2, BlockchainAssumption DEF VotesOK, Wait, CheckConsensus
      <4>2. wait' = [wait EXCEPT ![c] = [pc |-> "sleep", p |-> NoProposal,
                                         late |-> wait[c].late, result |-> FALSE]]
        BY <1>5, <2>2, <4>1 DEF WaitWakes, Poll
      <4>3. wait' \in [Waits -> Wait] /\ UNCHANGED <<votes, proposals>>
        BY <1>5, <4>2 DEF WaitWakes, VotesOK, Wait
      <4>4. QED
        BY <4>2, <4>3 DEF AgreedHasQuorum, CheckConsensus, VotesOK
    <3>3. QED
      BY <3>1, <3>2
  <2>3. QED
    BY <2>1, <2>2
<1>6. CASE UNCHANGED consensusVars
  BY <1>6 DEF consensusVars, VotesOK, AgreedHasQuorum, CheckConsensus
<1>7. ASSUME NEW c \in Waits, NEW p \in Proposals, WaitStarts(c, p) PROVE ConsensusInv'
  BY <1>3, <1>7 DEF WaitStarts
<1>8. ASSUME NEW c \in Waits, TimeoutPasses(c) PROVE ConsensusInv'
  BY <1>4, <1>8 DEF TimeoutPasses
<1>9. ASSUME NEW t \in Txs,
             CreateTransaction(t) \/ ConfirmTransaction(t) \/ RejectTransaction(t)
      PROVE  UNCHANGED consensusVars
  BY <1>9 DEF CreateTransaction, ConfirmTransaction, RejectTransaction
<1>10. ASSUME NEW c \in Contracts,
              DeployContract(c) \/ PauseContract(c) \/ TerminateContract(c)
       PROVE  UNCHANGED consensusVars
  BY <1>10 DEF DeployContract, PauseContract, TerminateContract
<1>11. ASSUME NEW c \in Contracts, NEW i \in 1..MaxEvents, NEW l \in Listeners,
              Notify(c, i, l) \/ NotifyRaises(c, i, l)
       PROVE  UNCHANGED consensusVars
  BY <1>11 DEF Notify, NotifyRaises
<1>12. CASE UNCHANGED vars
  BY <1>6, <1>12 DEF vars
<1>13. QED
  BY <1>1, <1>2, <1>5, <1>6, <1>7, <1>8, <1>9, <1>10, <1>11, <1>12
     DEF Next, NotifyStep

\* Confirmations and rejections keep the list of the pending ones exact.
LEMMA TxStep ==
  ASSUME TxInv, [Next]_vars
  PROVE  TxInv'
<1> USE DEF TxInv
<1>1. ASSUME NEW t \in Txs, CreateTransaction(t) PROVE TxInv'
  BY <1>1 DEF CreateTransaction, TxOK, PendingIsListed, Transaction
<1>2. ASSUME NEW t \in Txs, ConfirmTransaction(t) PROVE TxInv'
  <2> DEFINE n == tx[t].confirmations + 1
  <2>1. n \in 0..MaxConfirmations
    BY <1>2, BlockchainAssumption DEF ConfirmTransaction, TxOK, Transaction
  <2>2. CASE n >= RequiredConfirmations
    <3>1. /\ tx' = [tx EXCEPT ![t] = [status |-> "CONFIRMED", confirmations |-> n]]
          /\ pending' = pending \ {t}
      BY <1>2, <2>2 DEF ConfirmTransaction
    <3>2. QED
      BY <2>1, <3>1 DEF TxOK, PendingIsListed, Transaction
  <2>3. CASE ~(n >= RequiredConfirmations)
    <3>1. tx' = [tx EXCEPT ![t].confirmations = n] /\ UNCHANGED pending
      BY <1>2, <2>3 DEF ConfirmTransaction
    <3>2. QED
      BY <2>1, <3>1 DEF TxOK, PendingIsListed, Transaction
  <2>4. QED
    BY <2>2, <2>3
<1>3. ASSUME NEW t \in Txs, RejectTransaction(t) PROVE TxInv'
  BY <1>3 DEF RejectTransaction, TxOK, PendingIsListed, Transaction
<1>4. CASE UNCHANGED txVars
  BY <1>4 DEF txVars, TxOK, PendingIsListed
<1>5. ASSUME NEW p \in Proposals, NEW voter \in Voters, NEW a \in BOOLEAN,
             Vote(p, voter, a)
      PROVE  UNCHANGED txVars
  BY <1>5 DEF Vote
<1>6. ASSUME NEW p \in Proposals, Propose(p) PROVE UNCHANGED txVars
  BY <1>6 DEF Propose
<1>7. ASSUME NEW c \in Waits, NEW p \in Proposals, WaitStarts(c, p)
      PROVE  UNCHANGED txVars
  BY <1>7 DEF WaitStarts
<1>8. ASSUME NEW c \in Waits, TimeoutPasses(c) \/ WaitWakes(c) PROVE UNCHANGED txVars
  BY <1>8 DEF TimeoutPasses, WaitWakes
<1>9. ASSUME NEW c \in Contracts,
             DeployContract(c) \/ PauseContract(c) \/ TerminateContract(c)
      PROVE  UNCHANGED txVars
  BY <1>9 DEF DeployContract, PauseContract, TerminateContract
<1>10. ASSUME NEW c \in Contracts, NEW i \in 1..MaxEvents, NEW l \in Listeners,
              Notify(c, i, l) \/ NotifyRaises(c, i, l)
       PROVE  UNCHANGED txVars
  BY <1>10 DEF Notify, NotifyRaises
<1>11. CASE UNCHANGED vars
  BY <1>4, <1>11 DEF vars
<1>12. QED
  BY <1>1, <1>2, <1>3, <1>4, <1>5, <1>6, <1>7, <1>8, <1>9, <1>10, <1>11
     DEF Next, NotifyStep

\* A status and the event that announces it are set in one step.
LEMMA ChangeKeeps ==
  ASSUME ContractInv, NEW c \in Contracts, NEW s \in ContractStatus, ChangeStatus(c, s)
  PROVE  ContractInv'
<1> USE DEF ContractInv
<1>1. /\ status' = [status EXCEPT ![c] = s]
      /\ events' = [events EXCEPT ![c] = Append(events[c], s)]
  BY DEF ChangeStatus, EmitEvent
<1>2. ContractOK'
  BY <1>1 DEF ContractOK
<1>3. status'[c] = s /\ events'[c] # <<>> /\ events'[c][Len(events'[c])] = s
  BY <1>1 DEF ContractOK
<1>4. \A d \in Contracts \ {c} : status'[d] = status[d] /\ events'[d] = events[d]
  BY <1>1 DEF ContractOK
<1>5. QED
  BY <1>2, <1>3, <1>4 DEF LastEventTellsStatus

LEMMA ContractStep ==
  ASSUME ContractInv, [Next]_vars
  PROVE  ContractInv'
<1>1. ASSUME NEW c \in Contracts,
             DeployContract(c) \/ PauseContract(c) \/ TerminateContract(c)
      PROVE  ContractInv'
  BY <1>1, ChangeKeeps DEF DeployContract, PauseContract, TerminateContract, ContractStatus
<1>2. CASE UNCHANGED <<status, events>>
  BY <1>2 DEF ContractInv, ContractOK, LastEventTellsStatus
<1>3. ASSUME NEW p \in Proposals, NEW voter \in Voters, NEW a \in BOOLEAN,
             Vote(p, voter, a)
      PROVE  UNCHANGED <<status, events>>
  BY <1>3 DEF Vote, contractVars
<1>4. ASSUME NEW p \in Proposals, Propose(p) PROVE UNCHANGED <<status, events>>
  BY <1>4 DEF Propose, contractVars
<1>5. ASSUME NEW c \in Waits, NEW p \in Proposals, WaitStarts(c, p)
      PROVE  UNCHANGED <<status, events>>
  BY <1>5 DEF WaitStarts, contractVars
<1>6. ASSUME NEW c \in Waits, TimeoutPasses(c) \/ WaitWakes(c)
      PROVE  UNCHANGED <<status, events>>
  BY <1>6 DEF TimeoutPasses, WaitWakes, contractVars
<1>7. ASSUME NEW t \in Txs,
             CreateTransaction(t) \/ ConfirmTransaction(t) \/ RejectTransaction(t)
      PROVE  UNCHANGED <<status, events>>
  BY <1>7 DEF CreateTransaction, ConfirmTransaction, RejectTransaction, contractVars
<1>8. ASSUME NEW c \in Contracts, NEW i \in 1..MaxEvents, NEW l \in Listeners,
             Notify(c, i, l) \/ NotifyRaises(c, i, l)
      PROVE  UNCHANGED <<status, events>>
  BY <1>8 DEF Notify, NotifyRaises
<1>9. CASE UNCHANGED vars
  BY <1>2, <1>9 DEF vars, contractVars
<1>10. QED
  BY <1>1, <1>2, <1>3, <1>4, <1>5, <1>6, <1>7, <1>8, <1>9 DEF Next, NotifyStep

\* A vote is added by a voter that is not in the list.
VotersOnce ==
  \A p \in Proposals : \A i, j \in 1..Len(votes[p]) : votes[p][i] = votes[p][j] => i = j

LEMMA VotersStep ==
  ASSUME VotesOK, VotersOnce, [Next]_vars
  PROVE  VotersOnce'
<1>1. ASSUME NEW p \in Proposals, Propose(p) PROVE VotersOnce'
  <2>1. /\ votes'[p] = <<>> /\ \A q \in Proposals \ {p} : votes'[q] = votes[q]
    BY <1>1 DEF Propose, VotesOK
  <2>2. Len(votes'[p]) = 0
    BY <2>1
  <2>3. QED
    BY <2>1, <2>2 DEF VotersOnce
<1>2. ASSUME NEW p \in Proposals, NEW voter \in Voters, NEW a \in BOOLEAN,
             Vote(p, voter, a)
      PROVE  VotersOnce'
  <2>1. CASE a /\ NewVoter(p, voter)
    <3>1. votes' = [votes EXCEPT ![p] = Append(@, voter)]
      BY <1>2, <2>1 DEF Vote
    <3>2. votes[p] \in Seq(Voters) /\ votes'[p] = Append(votes[p], voter)
      BY <3>1 DEF VotesOK
    <3>3. /\ Len(votes[p]) \in Nat /\ Len(votes'[p]) = Len(votes[p]) + 1
          /\ votes'[p][Len(votes[p]) + 1] = voter
          /\ \A i \in 1..Len(votes[p]) : votes'[p][i] = votes[p][i] /\ votes[p][i] # voter
      BY <2>1, <3>2 DEF NewVoter
    <3>4. \A i, j \in 1..Len(votes'[p]) : votes'[p][i] = votes'[p][j] => i = j
      <4>1. \A i \in 1..Len(votes'[p]) : i \in 1..Len(votes[p]) \/ i = Len(votes[p]) + 1
        BY <3>3
      <4>2. QED
        BY <3>3, <4>1 DEF VotersOnce
    <3>5. \A q \in Proposals \ {p} : votes'[q] = votes[q]
      BY <3>1 DEF VotesOK
    <3>6. QED
      BY <3>4, <3>5 DEF VotersOnce
  <2>2. CASE ~(a /\ NewVoter(p, voter))
    <3>1. votes' = votes
      BY <1>2, <2>2 DEF Vote
    <3>2. QED
      BY <3>1 DEF VotersOnce
  <2>3. QED
    BY <2>1, <2>2
<1>3. ASSUME UNCHANGED votes PROVE VotersOnce'
  BY <1>3 DEF VotersOnce
<1>4. ASSUME NEW c \in Waits, NEW p \in Proposals, WaitStarts(c, p)
      PROVE  UNCHANGED votes
  BY <1>4 DEF WaitStarts
<1>5. ASSUME NEW c \in Waits, TimeoutPasses(c) \/ WaitWakes(c) PROVE UNCHANGED votes
  BY <1>5 DEF TimeoutPasses, WaitWakes
<1>6. ASSUME NEW t \in Txs,
             CreateTransaction(t) \/ ConfirmTransaction(t) \/ RejectTransaction(t)
      PROVE  UNCHANGED votes
  BY <1>6 DEF CreateTransaction, ConfirmTransaction, RejectTransaction, consensusVars
<1>7. ASSUME NEW c \in Contracts,
             DeployContract(c) \/ PauseContract(c) \/ TerminateContract(c)
      PROVE  UNCHANGED votes
  BY <1>7 DEF DeployContract, PauseContract, TerminateContract, consensusVars
<1>8. ASSUME NEW c \in Contracts, NEW i \in 1..MaxEvents, NEW l \in Listeners,
             Notify(c, i, l) \/ NotifyRaises(c, i, l)
      PROVE  UNCHANGED votes
  BY <1>8 DEF Notify, NotifyRaises, consensusVars
<1>9. CASE UNCHANGED vars
  BY <1>3, <1>9 DEF vars, consensusVars
<1>10. QED
  BY <1>1, <1>2, <1>3, <1>4, <1>5, <1>6, <1>7, <1>8, <1>9 DEF Next, NotifyStep

\* What is emitted and heard is of the events there may be.
EmissionOK ==
  /\ deployed \in SUBSET Contracts
  /\ emitting \in SUBSET (Contracts \X (1..MaxEvents))
  /\ heard \in SUBSET (Contracts \X (1..MaxEvents) \X Listeners)
  /\ raises \in 0..MaxRaises

LEMMA EmissionStep ==
  ASSUME ContractOK, EmissionOK, [Next]_vars
  PROVE  EmissionOK'
<1>1. ASSUME NEW c \in Contracts, NEW s \in ContractStatus, ChangeStatus(c, s),
             deployed' \in SUBSET Contracts
      PROVE  EmissionOK'
  <2>1. Len(events[c]) \in Nat /\ Len(events[c]) < MaxEvents
    BY <1>1 DEF ContractOK, ChangeStatus, EmitEvent
  <2>2. Len(events[c]) + 1 \in 1..MaxEvents
    BY <2>1, BlockchainAssumption
  <2>3. emitting' \in SUBSET (Contracts \X (1..MaxEvents))
    BY <1>1, <2>2 DEF EmissionOK, ChangeStatus, EmitEvent
  <2>4. QED
    BY <1>1, <2>3 DEF EmissionOK, ChangeStatus, EmitEvent
<1>2. ASSUME NEW c \in Contracts,
             DeployContract(c) \/ PauseContract(c) \/ TerminateContract(c)
      PROVE  EmissionOK'
  <2>1. /\ \E s \in ContractStatus : ChangeStatus(c, s)
        /\ deployed' \in SUBSET Contracts
    BY <1>2 DEF DeployContract, PauseContract, TerminateContract, ContractStatus, EmissionOK
  <2>2. QED
    BY <1>1, <2>1
<1>3. ASSUME NEW c \in Contracts, NEW i \in 1..MaxEvents, NEW l \in Listeners,
             Notify(c, i, l) \/ NotifyRaises(c, i, l)
      PROVE  EmissionOK'
  <2>1. /\ emitting' \subseteq emitting /\ heard' = heard \union {<<c, i, l>>}
        /\ deployed' = deployed
    BY <1>3 DEF Notify, NotifyRaises, EmissionGoesOn
  <2>2. raises' \in 0..MaxRaises
    BY <1>3, BlockchainAssumption DEF Notify, NotifyRaises, EmissionOK
  <2>3. QED
    BY <2>1, <2>2 DEF EmissionOK
<1>4. ASSUME UNCHANGED contractVars PROVE EmissionOK'
  BY <1>4 DEF contractVars, EmissionOK
<1>5. ASSUME NEW p \in Proposals, NEW voter \in Voters, NEW a \in BOOLEAN,
             Vote(p, voter, a) \/ Propose(p)
      PROVE  UNCHANGED contractVars
  BY <1>5 DEF Vote, Propose
<1>6. ASSUME NEW p \in Proposals, Propose(p) PROVE UNCHANGED contractVars
  BY <1>6 DEF Propose
<1>7. ASSUME NEW c \in Waits, NEW p \in Proposals, WaitStarts(c, p)
      PROVE  UNCHANGED contractVars
  BY <1>7 DEF WaitStarts
<1>8. ASSUME NEW c \in Waits, TimeoutPasses(c) \/ WaitWakes(c)
      PROVE  UNCHANGED contractVars
  BY <1>8 DEF TimeoutPasses, WaitWakes
<1>9. ASSUME NEW t \in Txs,
             CreateTransaction(t) \/ ConfirmTransaction(t) \/ RejectTransaction(t)
      PROVE  UNCHANGED contractVars
  BY <1>9 DEF CreateTransaction, ConfirmTransaction, RejectTransaction
<1>10. CASE UNCHANGED vars
  BY <1>4, <1>10 DEF vars
<1>11. QED
  BY <1>2, <1>3, <1>4, <1>5, <1>6, <1>7, <1>8, <1>9, <1>10 DEF Next, NotifyStep

\* The four parts of the state, each with what its steps need of it.
BlockchainInv == ConsensusInv /\ TxInv /\ ContractInv /\ VotersOnce /\ EmissionOK

LEMMA BlockchainInvInit == Init => BlockchainInv
<1> SUFFICES ASSUME Init PROVE BlockchainInv
  OBVIOUS
<1>1. ConsensusInv
  BY DEF Init, ConsensusInv, VotesOK, AgreedHasQuorum, Wait
<1>2. TxInv
  BY BlockchainAssumption DEF Init, TxInv, TxOK, PendingIsListed, Transaction
<1>3. ContractInv
  BY DEF Init, ContractInv, ContractOK, LastEventTellsStatus, ContractStatus
<1>4. VotersOnce
  <2>1. \A p \in Proposals : votes[p] = <<>> /\ Len(votes[p]) = 0
    BY DEF Init
  <2>2. QED
    BY <2>1 DEF VotersOnce
<1>5. EmissionOK
  BY BlockchainAssumption DEF Init, EmissionOK
<1>6. QED
  BY <1>1, <1>2, <1>3, <1>4, <1>5 DEF BlockchainInv

LEMMA BlockchainInvStep == BlockchainInv /\ [Next]_vars => BlockchainInv'
  BY ConsensusStep, TxStep, ContractStep, VotersStep, EmissionStep
  DEF BlockchainInv, ConsensusInv, ContractInv

LEMMA BlockchainTypes == BlockchainInv => TypeOK
<1> SUFFICES ASSUME BlockchainInv PROVE TypeOK
  OBVIOUS
<1>1. \A p \in Proposals : DOMAIN votes[p] = 1..Len(votes[p])
  BY DEF BlockchainInv, ConsensusInv, VotesOK
<1>2. \A p \in Proposals : \A i, j \in DOMAIN votes[p] : votes[p][i] = votes[p][j] => i = j
  BY <1>1 DEF BlockchainInv, VotersOnce
<1>3. QED
  BY <1>2 DEF TypeOK, BlockchainInv, ConsensusInv, TxInv, ContractInv, VotesOK, TxOK,
     ContractOK, EmissionOK

\* The type invariant, which also says that no voter is counted twice.
THEOREM BlockchainTypeCorrect == Spec => []TypeOK
  BY BlockchainInvInit, BlockchainInvStep, BlockchainTypes, PTL DEF Spec

\* A True answer of wait_for_consensus is backed by a quorum of votes.
THEOREM AgreementHasQuorum == Spec => []AgreedHasQuorum
<1>1. Init => ConsensusInv
  BY DEF Init, ConsensusInv, VotesOK, AgreedHasQuorum, Wait
<1>2. ConsensusInv => AgreedHasQuorum
  BY DEF ConsensusInv
<1>3. QED
  BY <1>1, <1>2, ConsensusStep, PTL DEF Spec

\* The list of pending transactions is exact.
THEOREM PendingListExact == Spec => []PendingIsListed
<1>1. Init => TxInv
  BY BlockchainAssumption DEF Init, TxInv, TxOK, PendingIsListed, Transaction
<1>2. TxInv => PendingIsListed
  BY DEF TxInv
<1>3. QED
  BY <1>1, <1>2, TxStep, PTL DEF Spec

\* A contract's last event tells its status.
THEOREM StatusIsAnnounced == Spec => []LastEventTellsStatus
<1>1. Init => ContractInv
  BY DEF Init, ContractInv, ContractOK, LastEventTellsStatus, ContractStatus
<1>2. ContractInv => LastEventTellsStatus
  BY DEF ContractInv
<1>3. QED
  BY <1>1, <1>2, ContractStep, PTL DEF Spec

-----------------------------------------------------------------------------
(* Sequences.                                                              *)

LEMMA TailFact ==
  ASSUME NEW S, NEW s \in Seq(S), s # <<>>
  PROVE  /\ Tail(s) \in Seq(S) /\ Len(Tail(s)) = Len(s) - 1 /\ Len(s) \in Nat
         /\ \A i \in 1..(Len(s) - 1) : Tail(s)[i] = s[i + 1]
OBVIOUS

LEMMA AppendFact ==
  ASSUME NEW S, NEW s \in Seq(S), NEW e \in S
  PROVE  /\ Append(s, e) \in Seq(S) /\ Len(Append(s, e)) = Len(s) + 1 /\ Len(s) \in Nat
         /\ \A i \in 1..Len(s) : Append(s, e)[i] = s[i]
         /\ Append(s, e)[Len(s) + 1] = e
OBVIOUS

LEMMA JoinFact ==
  ASSUME NEW S, NEW a \in Seq(S), NEW b \in Seq(S)
  PROVE  /\ a \o b \in Seq(S) /\ Len(a \o b) = Len(a) + Len(b)
         /\ Len(a) \in Nat /\ Len(b) \in Nat
         /\ \A j \in 1..(Len(a) + Len(b)) :
              (a \o b)[j] = IF j <= Len(a) THEN a[j] ELSE b[j - Len(a)]
BY ConcatProperties, LenProperties

-----------------------------------------------------------------------------
(* MemoryFiles.                                                            *)

\* A memory that was answered has a file, if only a torn one.
KeptHasFile == \A i \in kept : file[i] # "none"

FilesInv == Files!TypeOK /\ KeptHasFile /\ KeptIsFound

LEMMA FilesInit == Files!Init => FilesInv
  BY PartsAssumption DEF FilesInv, Files!Init, Files!TypeOK, KeptHasFile, KeptIsFound,
     Files!KeptIsFound

LEMMA FilesKeep ==
  ASSUME FilesInv, Files!Next
  PROVE  FilesInv'
<1> USE DEF FilesInv, Files!TypeOK, KeptHasFile, KeptIsFound, Files!KeptIsFound, Files!Found
<1>1. CASE Files!Load
  BY <1>1 DEF Files!Load, Files!Readable, Files!Holding
<1>2. CASE Files!FoundImportant
  BY <1>2 DEF Files!FoundImportant, Files!Keep
<1>3. CASE Files!NotKept
  BY <1>3 DEF Files!NotKept, Files!Left
<1>4. CASE Files!Saved
  BY <1>4 DEF Files!Saved, Files!Left
<1>5. CASE Files!DumpRaises
  BY <1>5 DEF Files!DumpRaises, Files!Left
<1>6. CASE Files!Crash
  BY <1>6 DEF Files!Crash
<1>7. ASSUME NEW i \in Ids, Files!CreateMemory(i) PROVE FilesInv'
  BY <1>7, PartsAssumption DEF Files!CreateMemory, Files!Keep
<1> QED
  BY <1>1, <1>2, <1>3, <1>4, <1>5, <1>6, <1>7 DEF Files!Next

LEMMA FilesStutter == FilesInv /\ UNCHANGED filesVars => FilesInv'
  BY DEF FilesInv, Files!TypeOK, KeptHasFile, KeptIsFound, Files!KeptIsFound, Files!Found,
     filesVars

LEMMA FilesInductive == FilesInv /\ [Files!Next]_(Files!vars) => FilesInv'
  BY FilesKeep, FilesStutter DEF Files!vars, filesVars

\* KeptIsFound: a file that was answered for is either whole, or torn, and then
\* no object can be made.
THEOREM MemoriesAreFound == Files!Spec => []KeptIsFound
  BY FilesInit, FilesInductive, PTL DEF Files!Spec, FilesInv

-----------------------------------------------------------------------------
(* MemoryManager.                                                          *)

\* The lock is asked for once at a time, by whom it says.
LockedOnce == \A i, j \in 1..Len(lock) : lock[i] = lock[j] => i = j
LockersAsked ==
  \A i \in 1..Len(lock) :
    /\ lock[i] \in Callers => lock[i] \in asked
    /\ lock[i] = "monitor" => monitor = "pressure"
    /\ lock[i] = "shutdown" => closing = "lock"

\* Only the holder of the lock is at an event of its strategy.
HolderActs ==
  \A p \in Memory!Handlers :
    at[p] > 0 => Memory!Holds(p) /\ at[p] <= Len(Memory!Strategy[level[p]])

\* A clean-up whose begin was told is past that event.
OpenIsLate == \A p \in open : at[p] >= 3

\* shutdown() queues behind those who had asked before it, and they have left
\* when it has had the lock.
EarlyFirst ==
  /\ closing = "no" => early = {}
  /\ closing = "lock" =>
       \E k \in 1..Len(lock) : lock[k] = "shutdown" /\ early \subseteq {lock[j] : j \in 1..(k - 1)}
  /\ closing \in {"gather", "close", "done"} => early = {}

MemoryInv ==
  /\ Memory!TypeOK /\ LockedOnce /\ LockersAsked /\ HolderActs /\ OpenIsLate /\ EarlyFirst
  /\ Memory!ClosedIsQuiet

\* The events of a clean-up: its begin is the second, an eviction the third of
\* four, its end the last.
LEMMA StrategyFact ==
  ASSUME NEW l \in Memory!Levels
  PROVE  /\ Len(Memory!Strategy[l]) \in {1, 3, 4}
         /\ Memory!Strategy[l][1] = "pressure"
         /\ Len(Memory!Strategy[l]) > 1 => Memory!Strategy[l][2] = "triggered"
         /\ Len(Memory!Strategy[l]) = 3 => Memory!Strategy[l][3] = "completed"
         /\ Len(Memory!Strategy[l]) = 4 =>
              Memory!Strategy[l][3] = "eviction" /\ Memory!Strategy[l][4] = "completed"
BY DEF Memory!Levels, Memory!Strategy, Memory!CriticalCleanup, Memory!HighCleanup,
       Memory!MediumCleanup

LEMMA HandlersFact ==
  /\ Memory!Handlers = {"monitor"} \union Callers
  /\ "monitor" \notin Callers /\ "shutdown" \notin Memory!Handlers
BY PartsAssumption DEF Memory!Handlers

\* Taking the i-th out keeps the others in their order.
Without(s, i) == SubSeq(s, 1, i - 1) \o SubSeq(s, i + 1, Len(s))

LEMMA WithoutFact ==
  ASSUME NEW S, NEW s \in Seq(S), NEW i \in 1..Len(s)
  PROVE  /\ Without(s, i) \in Seq(S) /\ Len(Without(s, i)) = Len(s) - 1 /\ Len(s) \in Nat
         /\ \A j \in 1..(Len(s) - 1) :
              Without(s, i)[j] = IF j < i THEN s[j] ELSE s[j + 1]
<1>1. /\ SubSeq(s, 1, i - 1) \in Seq(S) /\ Len(SubSeq(s, 1, i - 1)) = i - 1
      /\ \A j \in 1..(i - 1) : SubSeq(s, 1, i - 1)[j] = s[j]
  OBVIOUS
<1>2. /\ SubSeq(s, i + 1, Len(s)) \in Seq(S) /\ Len(SubSeq(s, i + 1, Len(s))) = Len(s) - i
      /\ \A j \in 1..(Len(s) - i) : SubSeq(s, i + 1, Len(s))[j] = s[i + j]
  OBVIOUS
<1> DEFINE a == SubSeq(s, 1, i - 1)  b == SubSeq(s, i + 1, Len(s))
<1> DEFINE r == Without(s, i)
<1>3. r = a \o b
  BY <1>1, <1>2 DEF Without
<1>4. /\ a \in Seq(S) /\ Len(a) = i - 1 /\ \A j \in 1..(i - 1) : a[j] = s[j]
      /\ b \in Seq(S) /\ Len(b) = Len(s) - i
      /\ \A j \in 1..(Len(s) - i) : b[j] = s[i + j]
      /\ Len(s) \in Nat /\ i \in Nat /\ i >= 1 /\ i <= Len(s)
  BY <1>1, <1>2
<1> HIDE DEF a, b, r
<1>5. r \in Seq(S) /\ Len(r) = Len(a) + Len(b)
      /\ \A j \in 1..(Len(a) + Len(b)) : r[j] = IF j <= Len(a) THEN a[j] ELSE b[j - Len(a)]
  BY <1>3, <1>4, JoinFact
<1>6. ASSUME NEW j \in 1..(Len(s) - 1)
      PROVE  r[j] = IF j < i THEN s[j] ELSE s[j + 1]
  <2>1. j \in 1..(Len(a) + Len(b))
    BY <1>4
  <2>2. CASE j < i
    <3>1. r[j] = a[j] /\ a[j] = s[j]
      BY <1>4, <1>5, <2>1, <2>2
    <3> QED
      BY <2>2, <3>1
  <2>3. CASE ~(j < i)
    <3>1. j - Len(a) \in 1..(Len(s) - i) /\ i + (j - Len(a)) = j + 1
      BY <1>4, <2>3
    <3>2. b[j - Len(a)] = s[j + 1]
      BY <1>4, <3>1
    <3>3. r[j] = b[j - Len(a)]
      BY <1>5, <1>4, <2>1, <2>3
    <3> QED
      BY <2>3, <3>2, <3>3
  <2> QED
    BY <2>2, <2>3
<1>7. Len(r) = Len(s) - 1 /\ Len(s) \in Nat
  BY <1>4, <1>5
<1> QED
  BY <1>5, <1>6, <1>7, <1>4 DEF r

\* The lock after its holder has left.
LEMMA HolderLeaves ==
  ASSUME MemoryInv, lock # <<>>, lock' = Tail(lock)
  PROVE  /\ lock' \in Seq(Memory!Handlers \union {"shutdown"})
         /\ LockedOnce'
         /\ \A j \in 1..Len(lock') : lock'[j] # Head(lock) /\ j + 1 \in 1..Len(lock)
                                      /\ lock'[j] = lock[j + 1]
         /\ lock[1] = Head(lock) /\ Len(lock') = Len(lock) - 1 /\ Len(lock) \in Nat
<1>1. lock \in Seq(Memory!Handlers \union {"shutdown"})
  BY DEF MemoryInv, Memory!TypeOK
<1>2. /\ lock' \in Seq(Memory!Handlers \union {"shutdown"}) /\ Len(lock') = Len(lock) - 1
      /\ Len(lock) \in Nat /\ \A j \in 1..(Len(lock) - 1) : lock'[j] = lock[j + 1]
      /\ Head(lock) = lock[1]
  BY <1>1, TailFact
<1>3. \A i, j \in 1..Len(lock) : lock[i] = lock[j] => i = j
  BY DEF MemoryInv, LockedOnce
<1>4. \A j \in 1..Len(lock') : j + 1 \in 1..Len(lock) /\ lock'[j] = lock[j + 1] /\ j + 1 # 1
                               /\ 1 \in 1..Len(lock)
  BY <1>2
<1>5. \A j \in 1..Len(lock') : lock'[j] # Head(lock)
  BY <1>2, <1>3, <1>4
<1>6. \A i, j \in 1..Len(lock') : lock'[i] = lock'[j] => i = j
  <2> SUFFICES ASSUME NEW i \in 1..Len(lock'), NEW j \in 1..Len(lock'), lock'[i] = lock'[j]
               PROVE  i = j
    OBVIOUS
  <2>1. i + 1 = j + 1
    BY <1>3, <1>4
  <2> QED
    BY <1>2, <2>1
<1> QED
  BY <1>2, <1>4, <1>5, <1>6 DEF LockedOnce

\* The lock with one more behind it.
LEMMA OneAsks ==
  ASSUME MemoryInv, NEW p \in Memory!Handlers \union {"shutdown"}, lock' = Append(lock, p),
         p \notin Memory!Waiting
  PROVE  /\ lock' \in Seq(Memory!Handlers \union {"shutdown"})
         /\ LockedOnce'
         /\ Len(lock) \in Nat /\ Len(lock') = Len(lock) + 1 /\ lock'[Len(lock')] = p
         /\ \A j \in 1..Len(lock) : lock'[j] = lock[j] /\ j \in 1..Len(lock')
         /\ \A j \in 1..Len(lock') : j \in 1..Len(lock) \/ (j = Len(lock') /\ lock'[j] = p)
         /\ \A q : Memory!Holds(q) => Memory!Holds(q)'
<1>1. lock \in Seq(Memory!Handlers \union {"shutdown"})
  BY DEF MemoryInv, Memory!TypeOK
<1>2. /\ lock' \in Seq(Memory!Handlers \union {"shutdown"}) /\ Len(lock') = Len(lock) + 1
      /\ Len(lock) \in Nat /\ \A j \in 1..Len(lock) : lock'[j] = lock[j]
      /\ lock'[Len(lock')] = p
  BY <1>1, AppendFact
<1>3. \A j \in 1..Len(lock) : lock[j] # p
  BY DEF Memory!Waiting
<1>4. \A i, j \in 1..Len(lock) : lock[i] = lock[j] => i = j
  BY DEF MemoryInv, LockedOnce
<1>5. \A i, j \in 1..Len(lock') : lock'[i] = lock'[j] => i = j
  BY <1>2, <1>3, <1>4
<1>6. \A q : Memory!Holds(q) => Memory!Holds(q)'
  <2>1. lock # <<>> => lock' # <<>> /\ Head(lock') = Head(lock)
    BY <1>1, <1>2
  <2> QED
    BY <2>1 DEF Memory!Holds
<1> QED
  BY <1>2, <1>5, <1>6 DEF LockedOnce

\* The strengthening, conjunct by conjunct.
LEMMA MemoryParts ==
  ASSUME MemoryInv
  PROVE  /\ lock \in Seq(Memory!Handlers \union {"shutdown"})
         /\ at \in [Memory!Handlers -> 0..4] /\ level \in [Memory!Handlers -> Memory!Levels]
         /\ open \subseteq Memory!Handlers /\ early \subseteq Memory!Handlers
         /\ closing \in {"no", "lock", "gather", "close", "done"}
         /\ \A p \in Memory!Handlers : at[p] > 0 => Memory!Holds(p)
         /\ \A p \in open : Memory!Holds(p) /\ at[p] >= 3
<1>1. /\ lock \in Seq(Memory!Handlers \union {"shutdown"})
      /\ at \in [Memory!Handlers -> 0..4] /\ level \in [Memory!Handlers -> Memory!Levels]
      /\ open \subseteq Memory!Handlers /\ early \subseteq Memory!Handlers
      /\ closing \in {"no", "lock", "gather", "close", "done"}
  BY DEF MemoryInv, Memory!TypeOK
<1>2. \A p \in Memory!Handlers : at[p] > 0 => Memory!Holds(p)
  BY DEF MemoryInv, HolderActs
<1>3. \A p \in open : Memory!Holds(p) /\ at[p] >= 3
  BY <1>1, <1>2 DEF MemoryInv, OpenIsLate
<1> QED
  BY <1>1, <1>2, <1>3

\* Nobody acts but the holder of the lock.
LEMMA OneHolder ==
  ASSUME MemoryInv, NEW p, Memory!Holds(p)
  PROVE  /\ lock # <<>> /\ Head(lock) = p
         /\ \A q \in Memory!Handlers \ {p} : at[q] = 0
         /\ open \subseteq {p}
<1>1. \A q : Memory!Holds(q) => q = p
  BY DEF Memory!Holds
<1>2. \A q \in Memory!Handlers \ {p} : at[q] \in 0..4 /\ ~(at[q] > 0)
  BY <1>1, MemoryParts
<1> QED
  BY <1>1, <1>2, MemoryParts DEF Memory!Holds

\* A step that leaves the lock and its holder alone.
LEMMA LockLeft ==
  ASSUME MemoryInv, Memory!TypeOK',
         UNCHANGED <<lock, level, at, open, closing, early, asked>>,
         monitor = "pressure" => monitor' = "pressure",
         closing \in {"close", "done"} =>
           monitor' \in {"none", "ended"} /\ periodic' \in {"none", "ended"}
  PROVE  MemoryInv'
BY DEF MemoryInv, LockedOnce, LockersAsked, HolderActs, OpenIsLate, EarlyFirst,
       Memory!Holds, Memory!ClosedIsQuiet

LEMMA TasksKeep ==
  ASSUME MemoryInv,
         \/ Memory!Initialize \/ Memory!UsageRaises \/ Memory!MonitorWakes
         \/ Memory!PeriodicWakes \/ Memory!PeriodicCancelled
         \/ UNCHANGED memoryVars
  PROVE  MemoryInv'
<1>1. UNCHANGED <<lock, level, at, open, closing, early, asked>>
  BY DEF Memory!Initialize, Memory!UsageRaises, Memory!MonitorWakes, Memory!PeriodicWakes,
         Memory!PeriodicCancelled, Memory!rest, memoryVars
<1>2. Memory!TypeOK'
  <2>1. Memory!TypeOK
    BY DEF MemoryInv
  <2> QED
    BY <2>1
    DEF Memory!TypeOK, Memory!Initialize, Memory!UsageRaises,
         Memory!MonitorWakes, Memory!PeriodicWakes, Memory!PeriodicCancelled, Memory!rest,
         memoryVars
<1>3. monitor = "pressure" => monitor' = "pressure"
  BY DEF Memory!Initialize, Memory!UsageRaises, Memory!MonitorWakes, Memory!PeriodicWakes,
         Memory!PeriodicCancelled, Memory!rest, memoryVars
<1>4. closing \in {"close", "done"} =>
        monitor' \in {"none", "ended"} /\ periodic' \in {"none", "ended"}
  BY DEF MemoryInv, Memory!ClosedIsQuiet, Memory!Initialize, Memory!UsageRaises,
         Memory!MonitorWakes, Memory!PeriodicWakes, Memory!PeriodicCancelled, Memory!rest,
         memoryVars
<1> QED
  BY <1>1, <1>2, <1>3, <1>4, LockLeft

\* The holder goes on to another event.
LEMMA HolderGoesOn ==
  ASSUME MemoryInv, Memory!TypeOK', NEW p \in Memory!Handlers, Memory!Holds(p),
         at' = [at EXCEPT ![p] = @ + 1], at[p] < Len(Memory!Strategy[level[p]]),
         open' \subseteq open \union {p}, p \in open' => at[p] >= 2,
         UNCHANGED <<monitor, periodic, lock, level, closing, early, asked>>
  PROVE  MemoryInv'
<1>1. level[p] \in Memory!Levels /\ Len(Memory!Strategy[level[p]]) \in {1, 3, 4}
  BY MemoryParts, StrategyFact
<1>2. \A q \in Memory!Handlers : at'[q] = IF q = p THEN at[p] + 1 ELSE at[q]
  BY MemoryParts
<1>3. HolderActs'
  <2> SUFFICES ASSUME NEW q \in Memory!Handlers, at'[q] > 0
               PROVE  Memory!Holds(q)' /\ at'[q] <= Len(Memory!Strategy[level[q]])
    BY DEF HolderActs
  <2>1. CASE q = p
    <3>1. at[p] \in Nat
      BY MemoryParts
    <3> QED
      BY <1>1, <1>2, <2>1, <3>1 DEF Memory!Holds
  <2>2. CASE q # p
    BY <1>2, <2>2 DEF MemoryInv, HolderActs, Memory!Holds
  <2> QED
    BY <2>1, <2>2
<1>4. OpenIsLate'
  <2>1. open' \subseteq {p}
    BY OneHolder
  <2>2. at[p] \in Nat
    BY MemoryParts
  <2> QED
    BY <1>2, <2>1, <2>2 DEF OpenIsLate
<1> QED
  BY <1>3, <1>4 DEF MemoryInv, LockedOnce, LockersAsked, EarlyFirst, Memory!ClosedIsQuiet

LEMMA HolderLeft ==
  ASSUME MemoryInv, NEW p \in Memory!Handlers, Memory!Holds(p),
         NEW raised \in BOOLEAN, Memory!Leave(p, raised),
         open' \subseteq open \ {p},
         UNCHANGED <<periodic, cancelled, level, closing, passes, asked>>
  PROVE  MemoryInv'
<1>1. /\ lock' = Tail(lock) /\ lock # <<>> /\ Head(lock) = p
      /\ at' = [at EXCEPT ![p] = 0] /\ early' = early \ {p} /\ dying' = dying \ {p}
      /\ monitor' \in {monitor, "ended", "sleep"} /\ (p # "monitor" => monitor' = monitor)
      /\ swallowed' \in BOOLEAN
  BY OneHolder DEF Memory!Leave
<1>2. \A q \in Memory!Handlers : at'[q] = 0
  BY <1>1, OneHolder, MemoryParts
<1>3. open' = {}
  BY OneHolder
<1>4. /\ lock' \in Seq(Memory!Handlers \union {"shutdown"})
      /\ LockedOnce'
      /\ \A j \in 1..Len(lock') : lock'[j] # p /\ j + 1 \in 1..Len(lock)
                                   /\ lock'[j] = lock[j + 1]
      /\ lock[1] = p /\ Len(lock') = Len(lock) - 1 /\ Len(lock) \in Nat
  BY <1>1, HolderLeaves
<1>5. Memory!TypeOK'
  <2>1. at' \in [Memory!Handlers -> 0..4]
    BY <1>1, MemoryParts
  <2> QED
    BY <1>1, <1>3, <1>4, <2>1 DEF MemoryInv, Memory!TypeOK
<1>6. LockersAsked'
  <2> SUFFICES ASSUME NEW j \in 1..Len(lock')
               PROVE  /\ lock'[j] \in Callers => lock'[j] \in asked
                      /\ lock'[j] = "monitor" => monitor' = "pressure"
                      /\ lock'[j] = "shutdown" => closing = "lock"
    BY DEF LockersAsked
  <2>1. j + 1 \in 1..Len(lock) /\ lock'[j] = lock[j + 1] /\ lock'[j] # p
    BY <1>4
  <2>2. /\ lock[j + 1] \in Callers => lock[j + 1] \in asked
        /\ lock[j + 1] = "monitor" => monitor = "pressure"
        /\ lock[j + 1] = "shutdown" => closing = "lock"
    BY <2>1 DEF MemoryInv, LockersAsked
  <2> QED
    BY <1>1, <2>1, <2>2
<1>7. HolderActs' /\ OpenIsLate'
  BY <1>2, <1>3 DEF HolderActs, OpenIsLate
<1>8. EarlyFirst'
  <2>1. closing = "no" \/ closing \in {"gather", "close", "done"} => early' = {}
    BY <1>1 DEF MemoryInv, EarlyFirst
  <2>2. ASSUME closing = "lock"
        PROVE  \E k \in 1..Len(lock') :
                 lock'[k] = "shutdown" /\ early' \subseteq {lock'[j] : j \in 1..(k - 1)}
    <3>1. PICK k \in 1..Len(lock) :
            lock[k] = "shutdown" /\ early \subseteq {lock[j] : j \in 1..(k - 1)}
      BY <2>2 DEF MemoryInv, EarlyFirst
    <3>2. k # 1
      BY <1>4, <3>1, HandlersFact
    <3>3. k - 1 \in 1..Len(lock') /\ lock'[k - 1] = "shutdown"
      BY <1>4, <3>1, <3>2
    <3>4. ASSUME NEW q \in early' PROVE \E j \in 1..((k - 1) - 1) : lock'[j] = q
      <4>1. PICK j \in 1..(k - 1) : lock[j] = q
        BY <1>1, <3>1, <3>4
      <4>2. j # 1
        BY <1>1, <1>4, <3>4, <4>1
      <4>3. j - 1 \in 1..((k - 1) - 1) /\ j - 1 \in 1..Len(lock') /\ (j - 1) + 1 = j
        BY <1>4, <3>1, <4>1, <4>2
      <4> QED
        BY <1>4, <4>1, <4>3
    <3> QED
      BY <3>3, <3>4
  <2> QED
    BY <2>1, <2>2 DEF EarlyFirst
<1>9. Memory!ClosedIsQuiet'
  <2>1. ASSUME closing \in {"close", "done"} PROVE p # "monitor"
    <3>1. monitor # "pressure"
      BY <2>1 DEF MemoryInv, Memory!ClosedIsQuiet
    <3>2. lock[1] = p /\ 1 \in 1..Len(lock)
      BY <1>1, <1>4, MemoryParts
    <3> QED
      BY <3>1, <3>2 DEF MemoryInv, LockersAsked
  <2> QED
    BY <1>1, <2>1 DEF MemoryInv, Memory!ClosedIsQuiet
<1> QED
  BY <1>4, <1>5, <1>6, <1>7, <1>8, <1>9 DEF MemoryInv

\* Which event the holder is at.
LastEvent(p) == Len(Memory!Strategy[level[p]])

LEMMA EventFact ==
  ASSUME MemoryInv, NEW p \in Memory!Handlers, at[p] > 0
  PROVE  /\ Memory!Holds(p)
         /\ LastEvent(p) \in {1, 3, 4} /\ at[p] \in 1..LastEvent(p)
         /\ Memory!Sends(p, "triggered") <=> at[p] = 2
         /\ Memory!Sends(p, "eviction") <=> at[p] = 3 /\ LastEvent(p) = 4
         /\ Memory!Sends(p, "completed") <=> at[p] = LastEvent(p) /\ LastEvent(p) > 1
<1>1. Memory!Holds(p) /\ at[p] <= Len(Memory!Strategy[level[p]])
  BY DEF MemoryInv, HolderActs
<1>2. at[p] \in 0..4 /\ level[p] \in Memory!Levels
  BY MemoryParts
<1> DEFINE s == Memory!Strategy[level[p]]
<1>3. /\ Len(s) \in {1, 3, 4} /\ s[1] = "pressure"
      /\ Len(s) > 1 => s[2] = "triggered"
      /\ Len(s) = 3 => s[3] = "completed"
      /\ Len(s) = 4 => s[3] = "eviction" /\ s[4] = "completed"
  BY <1>2, StrategyFact
<1>4. \A e : Memory!Sends(p, e) <=> s[at[p]] = e
  BY <1>1 DEF Memory!Sends
<1> HIDE DEF s
<1>5. at[p] \in 1..Len(s)
  BY <1>1, <1>2, <1>3 DEF s
<1>6. ASSUME NEW k \in 1..Len(s)
      PROVE  /\ s[k] = "triggered" <=> k = 2
             /\ s[k] = "eviction" <=> k = 3 /\ Len(s) = 4
             /\ s[k] = "completed" <=> k = Len(s) /\ Len(s) > 1
  <2>1. CASE Len(s) = 1
    <3>1. k = 1
      BY <2>1
    <3> QED
      BY <1>3, <2>1, <3>1
  <2>2. CASE Len(s) = 3
    <3>1. k = 1 \/ k = 2 \/ k = 3
      BY <2>2
    <3> QED
      BY <1>3, <2>2, <3>1
  <2>3. CASE Len(s) = 4
    <3>1. k = 1 \/ k = 2 \/ k = 3 \/ k = 4
      BY <2>3
    <3> QED
      BY <1>3, <2>3, <3>1
  <2> QED
    BY <1>3, <2>1, <2>2, <2>3
<1>7. /\ s[at[p]] = "triggered" <=> at[p] = 2
      /\ s[at[p]] = "eviction" <=> at[p] = 3 /\ Len(s) = 4
      /\ s[at[p]] = "completed" <=> at[p] = Len(s) /\ Len(s) > 1
  BY <1>5, <1>6
<1> QED
  BY <1>1, <1>3, <1>4, <1>5, <1>7 DEF s, LastEvent

LEMMA EnterKeeps ==
  ASSUME MemoryInv, NEW p \in Memory!Handlers, Memory!Enter(p)
  PROVE  MemoryInv'
<1>1. /\ Memory!Holds(p) /\ at[p] = 0 /\ at' = [at EXCEPT ![p] = 1]
      /\ UNCHANGED <<monitor, periodic, cancelled, lock, level, dying, open, closing, early,
                     swallowed, passes, asked>>
  BY DEF Memory!Enter
<1>2. at' = [at EXCEPT ![p] = @ + 1] /\ at' \in [Memory!Handlers -> 0..4]
  BY <1>1, MemoryParts
<1>3. Memory!TypeOK'
  BY <1>1, <1>2 DEF MemoryInv, Memory!TypeOK
<1>4. at[p] < Len(Memory!Strategy[level[p]])
  BY <1>1, MemoryParts, StrategyFact
<1>5. p \notin open
  BY <1>1, MemoryParts
<1> QED
  BY <1>1, <1>2, <1>3, <1>4, <1>5, HolderGoesOn

LEMMA SendsKeep ==
  ASSUME MemoryInv, NEW p \in Memory!Handlers, Memory!Sent(p) \/ Memory!SendRaises(p)
  PROVE  MemoryInv'
<1> DEFINE n == LastEvent(p)
<1>1. /\ Memory!Holds(p) /\ at[p] > 0
      /\ UNCHANGED <<periodic, cancelled, level, closing, passes, asked>>
  BY DEF Memory!Sent, Memory!SendRaises
<1>2. /\ n \in {1, 3, 4} /\ at[p] \in 1..n
      /\ Memory!Sends(p, "triggered") <=> at[p] = 2
      /\ Memory!Sends(p, "eviction") <=> at[p] = 3 /\ n = 4
      /\ Memory!Sends(p, "completed") <=> at[p] = n /\ n > 1
  BY <1>1, EventFact
<1>3. p \in open => at[p] >= 3
  BY MemoryParts
<1>4. open' \subseteq open \union {p} /\ open' \subseteq Memory!Handlers
  BY MemoryParts DEF Memory!Sent, Memory!SendRaises
<1> HIDE DEF n
<1>5. CASE /\ \E raised \in BOOLEAN : Memory!Leave(p, raised)
           /\ open' \subseteq open \ {p}
  BY <1>1, <1>5, HolderLeft
<1>6. CASE /\ at' = [at EXCEPT ![p] = @ + 1] /\ at[p] < n
           /\ UNCHANGED <<lock, dying, early, swallowed, monitor>>
           /\ p \in open' => at[p] >= 2
  <2>1. at' \in [Memory!Handlers -> 0..4]
    BY <1>2, <1>6, MemoryParts
  <2>2. Memory!TypeOK'
    BY <1>1, <1>4, <1>6, <2>1 DEF MemoryInv, Memory!TypeOK
  <2> QED
    BY <1>1, <1>4, <1>6, <2>2, HolderGoesOn DEF n, LastEvent
<1>7. CASE Memory!Sent(p)
  <2>1. /\ Memory!Proceed(p)
        /\ open' = IF Memory!Sends(p, "triggered") THEN open \union {p}
                   ELSE IF Memory!Sends(p, "completed") THEN open \ {p} ELSE open
    BY <1>7 DEF Memory!Sent
  <2>2. CASE at[p] = n
    <3>1. Memory!Leave(p, FALSE)
      BY <2>1, <2>2 DEF Memory!Proceed, n, LastEvent
    <3>2. open' \subseteq open \ {p}
      BY <1>2, <1>3, <2>1, <2>2
    <3> QED
      BY <1>5, <3>1, <3>2
  <2>3. CASE at[p] # n
    <3>1. at' = [at EXCEPT ![p] = @ + 1] /\ UNCHANGED <<lock, dying, early, swallowed, monitor>>
      BY <2>1, <2>3 DEF Memory!Proceed, n, LastEvent
    <3>2. at[p] < n
      BY <1>2, <2>3
    <3>3. p \in open' => at[p] >= 2
      BY <1>2, <1>3, <2>1
    <3> QED
      BY <1>6, <3>1, <3>2, <3>3
  <2> QED
    BY <2>2, <2>3
<1>8. CASE Memory!SendRaises(p)
  <2>1. /\ IF Memory!Sends(p, "eviction") THEN Memory!Proceed(p) ELSE Memory!Leave(p, TRUE)
        /\ open' = IF Memory!Sends(p, "completed") THEN open \ {p} ELSE open
    BY <1>8 DEF Memory!SendRaises
  <2>2. CASE Memory!Sends(p, "eviction")
    <3>1. at[p] = 3 /\ n = 4
      BY <1>2, <2>2
    <3>2. at' = [at EXCEPT ![p] = @ + 1] /\ UNCHANGED <<lock, dying, early, swallowed, monitor>>
      BY <2>1, <2>2, <3>1 DEF Memory!Proceed, n, LastEvent
    <3> QED
      BY <1>6, <3>1, <3>2
  <2>3. CASE ~Memory!Sends(p, "eviction")
    <3>1. open' \subseteq open \ {p}
      BY <1>2, <1>3, <2>1, <2>3
    <3> QED
      BY <1>5, <2>1, <2>3, <3>1
  <2> QED
    BY <2>2, <2>3
<1> QED
  BY <1>7, <1>8

\* One who is not in the queue asks for the lock.
LEMMA AskKeeps ==
  ASSUME MemoryInv, Memory!TypeOK', NEW p \in Memory!Handlers, NEW l \in Memory!Levels,
         Memory!Ask(p, l), p \notin Memory!Waiting,
         asked \subseteq asked', p \in Callers => p \in asked',
         monitor = "pressure" \/ p = "monitor" => monitor' = "pressure",
         closing \in {"close", "done"} => monitor' \in {"none", "ended"},
         UNCHANGED <<periodic, at, open, closing, early>>
  PROVE  MemoryInv'
<1>1. /\ lock' = Append(lock, p) /\ level' = [level EXCEPT ![p] = l]
  BY DEF Memory!Ask
<1>2. /\ LockedOnce'
      /\ Len(lock) \in Nat /\ Len(lock') = Len(lock) + 1 /\ lock'[Len(lock')] = p
      /\ \A j \in 1..Len(lock) : lock'[j] = lock[j] /\ j \in 1..Len(lock')
      /\ \A j \in 1..Len(lock') : j \in 1..Len(lock) \/ (j = Len(lock') /\ lock'[j] = p)
      /\ \A q : Memory!Holds(q) => Memory!Holds(q)'
  BY <1>1, OneAsks
<1>3. LockersAsked'
  BY <1>2, HandlersFact DEF MemoryInv, LockersAsked
<1>4. ~Memory!Holds(p)
  <2>1. ASSUME lock # <<>> PROVE 1 \in 1..Len(lock) /\ lock[1] = Head(lock)
    BY <2>1, MemoryParts
  <2> QED
    BY <2>1 DEF Memory!Holds, Memory!Waiting
<1>5. HolderActs'
  <2> SUFFICES ASSUME NEW q \in Memory!Handlers, at[q] > 0
               PROVE  Memory!Holds(q)' /\ at[q] <= Len(Memory!Strategy[level'[q]])
    BY DEF HolderActs
  <2>1. Memory!Holds(q) /\ at[q] <= Len(Memory!Strategy[level[q]])
    BY DEF MemoryInv, HolderActs
  <2>2. q # p /\ level'[q] = level[q]
    BY <1>1, <1>4, <2>1, MemoryParts
  <2> QED
    BY <1>2, <2>1, <2>2
<1>6. EarlyFirst'
  <2>1. ASSUME closing = "lock"
        PROVE  \E k \in 1..Len(lock') :
                 lock'[k] = "shutdown" /\ early \subseteq {lock'[j] : j \in 1..(k - 1)}
    <3>1. PICK k \in 1..Len(lock) :
            lock[k] = "shutdown" /\ early \subseteq {lock[j] : j \in 1..(k - 1)}
      BY <2>1 DEF MemoryInv, EarlyFirst
    <3>2. \A j \in 1..(k - 1) : j \in 1..Len(lock) /\ lock'[j] = lock[j]
      BY <1>2, <3>1
    <3> QED
      BY <1>2, <3>1, <3>2
  <2> QED
    BY <2>1 DEF MemoryInv, EarlyFirst
<1> QED
  BY <1>2, <1>3, <1>5, <1>6 DEF MemoryInv, OpenIsLate, Memory!ClosedIsQuiet

LEMMA AsksKeep ==
  ASSUME MemoryInv,
         \/ Memory!UsageTold
         \/ \E p \in Callers, l \in Memory!Levels : Memory!CallerAsks(p, l)
  PROVE  MemoryInv'
<1>1. Memory!TypeOK
  BY DEF MemoryInv
<1>2. ASSUME NEW p \in Memory!Handlers, NEW l \in Memory!Levels, Memory!Ask(p, l)
      PROVE  /\ lock' \in Seq(Memory!Handlers \union {"shutdown"})
             /\ level' \in [Memory!Handlers -> Memory!Levels]
  BY <1>1, <1>2, AppendFact DEF Memory!Ask, Memory!TypeOK
<1>3. ASSUME NEW p \in Callers, NEW l \in Memory!Levels, Memory!CallerAsks(p, l)
      PROVE  MemoryInv'
  <2>1. /\ p \notin asked /\ asked' = asked \union {p} /\ Memory!Ask(p, l)
        /\ UNCHANGED <<monitor, periodic, cancelled, at, dying, open, closing, early,
                       swallowed, passes>>
    BY <1>3 DEF Memory!CallerAsks
  <2>2. p \in Memory!Handlers /\ p # "monitor"
    BY HandlersFact
  <2>3. Memory!TypeOK'
    BY <1>1, <1>2, <2>1, <2>2 DEF Memory!TypeOK
  <2>4. p \notin Memory!Waiting
    BY <2>1 DEF MemoryInv, LockersAsked, Memory!Waiting
  <2>5. closing \in {"close", "done"} => monitor' \in {"none", "ended"}
    BY <2>1 DEF MemoryInv, Memory!ClosedIsQuiet
  <2> QED
    BY <2>1, <2>2, <2>3, <2>4, <2>5, AskKeeps
<1>4. CASE Memory!UsageTold
  <2>1. /\ monitor = "usage" /\ UNCHANGED <<periodic, cancelled, at, dying, open, closing,
                                             early, swallowed, asked>>
    BY <1>4 DEF Memory!UsageTold, Memory!rest
  <2>2. closing \notin {"close", "done"}
    BY <2>1 DEF MemoryInv, Memory!ClosedIsQuiet
  <2>3. CASE monitor' = "sleep" /\ UNCHANGED <<lock, level, passes>>
    <3>1. Memory!TypeOK'
      BY <1>1, <2>1, <2>3 DEF Memory!TypeOK
    <3> QED
      BY <2>1, <2>2, <2>3, <3>1, LockLeft
  <2>4. CASE /\ passes < MaxPasses /\ passes' = passes + 1 /\ monitor' = "pressure"
             /\ \E l \in Memory!Levels \ {"LOW"} : Memory!Ask("monitor", l)
    <3>1. PICK l \in Memory!Levels : Memory!Ask("monitor", l)
      BY <2>4
    <3>2. "monitor" \in Memory!Handlers /\ "monitor" \notin Callers
      BY HandlersFact
    <3>3. Memory!TypeOK'
      BY <1>1, <1>2, <2>1, <2>4, <3>1, <3>2, PartsAssumption DEF Memory!TypeOK
    <3>4. "monitor" \notin Memory!Waiting
      BY <2>1 DEF MemoryInv, LockersAsked, Memory!Waiting
    <3> QED
      BY <2>1, <2>2, <2>4, <3>1, <3>2, <3>3, <3>4, AskKeeps
  <2> QED
    BY <1>4, <2>3, <2>4 DEF Memory!UsageTold
<1> QED
  BY <1>3, <1>4

\* Where the j-th of the others was before, and where it is after.
Before(i, j) == IF j < i THEN j ELSE j + 1
After(i, j) == IF j < i THEN j ELSE j - 1

LEMMA OneWithdraws ==
  ASSUME MemoryInv, NEW i \in 1..Len(lock), lock' = Without(lock, i)
  PROVE  /\ lock' \in Seq(Memory!Handlers \union {"shutdown"})
         /\ LockedOnce'
         /\ Len(lock') = Len(lock) - 1 /\ Len(lock) \in Nat
         /\ \A j \in 1..Len(lock') : Before(i, j) \in 1..Len(lock) /\ Before(i, j) # i
                                      /\ lock'[j] = lock[Before(i, j)]
         /\ \A j \in 1..Len(lock) : j # i => After(i, j) \in 1..Len(lock')
                                              /\ lock'[After(i, j)] = lock[j]
<1>1. lock \in Seq(Memory!Handlers \union {"shutdown"})
  BY DEF MemoryInv, Memory!TypeOK
<1>2. /\ lock' \in Seq(Memory!Handlers \union {"shutdown"}) /\ Len(lock') = Len(lock) - 1
      /\ Len(lock) \in Nat
      /\ \A j \in 1..(Len(lock) - 1) : lock'[j] = IF j < i THEN lock[j] ELSE lock[j + 1]
  BY <1>1, WithoutFact
<1>3. \A j \in 1..Len(lock') : Before(i, j) \in 1..Len(lock) /\ Before(i, j) # i
                                /\ lock'[j] = lock[Before(i, j)]
  BY <1>2 DEF Before
<1>4. ASSUME NEW j \in 1..Len(lock), j # i
      PROVE  After(i, j) \in 1..Len(lock') /\ lock'[After(i, j)] = lock[j]
  <2>1. CASE j < i
    BY <1>2, <2>1 DEF After
  <2>2. CASE j > i
    <3>1. After(i, j) = j - 1 /\ j - 1 \in 1..(Len(lock) - 1) /\ ~(j - 1 < i) /\ (j - 1) + 1 = j
      BY <1>2, <2>2 DEF After
    <3> QED
      BY <1>2, <3>1
  <2> QED
    BY <1>2, <1>4, <2>1, <2>2
<1>5. ASSUME NEW a \in 1..Len(lock'), NEW b \in 1..Len(lock'), lock'[a] = lock'[b]
      PROVE  a = b
  <2>1. Before(i, a) = Before(i, b)
    BY <1>3, <1>5 DEF MemoryInv, LockedOnce
  <2> QED
    BY <1>2, <2>1 DEF Before
<1> QED
  BY <1>2, <1>3, <1>4, <1>5 DEF LockedOnce

\* The monitor is out of the lock and out of the clean-up.
LEMMA MonitorEnds ==
  ASSUME MemoryInv, Memory!TypeOK', monitor' = "ended", early' = early \ {"monitor"},
         at' = [at EXCEPT !["monitor"] = 0], open' \subseteq open \ {"monitor"},
         Memory!Withdraw("monitor"), UNCHANGED <<periodic, level, closing, asked>>
  PROVE  MemoryInv'
<1>1. "monitor" \in Memory!Handlers /\ "monitor" # "shutdown" /\ "monitor" \notin Callers
  BY HandlersFact
<1>2. /\ at'["monitor"] = 0
      /\ \A q \in Memory!Handlers \ {"monitor"} : at'[q] = at[q]
  BY <1>1, MemoryParts
<1>3. OpenIsLate'
  BY <1>2, MemoryParts DEF OpenIsLate
<1>4. Memory!ClosedIsQuiet'
  BY DEF MemoryInv, Memory!ClosedIsQuiet
<1>5. ASSUME NEW i \in 1..Len(lock), lock[i] = "monitor", lock' = Without(lock, i)
      PROVE  MemoryInv'
  <2>1. /\ LockedOnce'
        /\ Len(lock') = Len(lock) - 1 /\ Len(lock) \in Nat
        /\ \A j \in 1..Len(lock') : Before(i, j) \in 1..Len(lock) /\ Before(i, j) # i
                                     /\ lock'[j] = lock[Before(i, j)]
        /\ \A j \in 1..Len(lock) : j # i => After(i, j) \in 1..Len(lock')
                                             /\ lock'[After(i, j)] = lock[j]
    BY <1>5, OneWithdraws
  <2>2. \A j \in 1..Len(lock') : lock'[j] # "monitor"
    BY <1>5, <2>1 DEF MemoryInv, LockedOnce
  <2>3. LockersAsked'
    <3> SUFFICES ASSUME NEW j \in 1..Len(lock')
                 PROVE  /\ lock'[j] \in Callers => lock'[j] \in asked
                        /\ lock'[j] = "shutdown" => closing = "lock"
      BY <2>2 DEF LockersAsked
    <3>1. lock'[j] = lock[Before(i, j)] /\ Before(i, j) \in 1..Len(lock)
      BY <2>1
    <3> QED
      BY <3>1 DEF MemoryInv, LockersAsked
  <2>4. HolderActs'
    <3> SUFFICES ASSUME NEW q \in Memory!Handlers, at'[q] > 0
                 PROVE  Memory!Holds(q)' /\ at'[q] <= Len(Memory!Strategy[level[q]])
      BY DEF HolderActs
    <3>1. q # "monitor" /\ at[q] > 0
      BY <1>2
    <3>2. Memory!Holds(q) /\ at'[q] <= Len(Memory!Strategy[level[q]])
      BY <1>2, <3>1 DEF MemoryInv, HolderActs
    <3>3. /\ lock # <<>> /\ lock[1] = q /\ 1 \in 1..Len(lock)
          /\ lock \in Seq(Memory!Handlers \union {"shutdown"})
      BY <3>2, MemoryParts DEF Memory!Holds
    <3>4. i > 1
      BY <1>5, <3>1, <3>3
    <3>5. After(i, 1) = 1 /\ 1 # i
      BY <3>4 DEF After
    <3>6. lock'[1] = q /\ 1 \in 1..Len(lock') /\ lock' \in Seq(Memory!Handlers \union {"shutdown"})
      BY <1>5, <2>1, <3>3, <3>5, OneWithdraws
    <3> QED
      BY <3>2, <3>6 DEF Memory!Holds
  <2>5. EarlyFirst'
    <3>1. closing = "no" \/ closing \in {"gather", "close", "done"} => early' = {}
      BY DEF MemoryInv, EarlyFirst
    <3>2. ASSUME closing = "lock"
          PROVE  \E k \in 1..Len(lock') :
                   lock'[k] = "shutdown" /\ early' \subseteq {lock'[j] : j \in 1..(k - 1)}
      <4>1. PICK k \in 1..Len(lock) :
              lock[k] = "shutdown" /\ early \subseteq {lock[j] : j \in 1..(k - 1)}
        BY <3>2 DEF MemoryInv, EarlyFirst
      <4>2. k # i
        BY <1>5, <4>1
      <4>3. After(i, k) \in 1..Len(lock') /\ lock'[After(i, k)] = "shutdown"
        BY <2>1, <4>1, <4>2
      <4>4. ASSUME NEW q \in early' PROVE \E j \in 1..(After(i, k) - 1) : lock'[j] = q
        <5>1. PICK j \in 1..(k - 1) : lock[j] = q
          BY <4>1, <4>4
        <5>2. j # i /\ j \in 1..Len(lock)
          BY <1>5, <2>1, <4>4, <5>1
        <5>3. After(i, j) \in 1..Len(lock') /\ lock'[After(i, j)] = q
          BY <2>1, <5>1, <5>2
        <5>4. After(i, j) < After(i, k)
          BY <2>1, <4>2, <5>1, <5>2 DEF After
        <5>5. After(i, j) \in 1..(After(i, k) - 1)
          BY <2>1, <4>3, <5>3, <5>4
        <5> QED
          BY <5>3, <5>5
      <4> QED
        BY <4>3, <4>4
    <3> QED
      BY <3>1, <3>2 DEF EarlyFirst
  <2> QED
    BY <1>3, <1>4, <2>1, <2>3, <2>4, <2>5 DEF MemoryInv
<1>6. CASE "monitor" \notin Memory!Waiting /\ UNCHANGED lock
  <2>1. \A j \in 1..Len(lock) : lock[j] # "monitor"
    BY <1>6 DEF Memory!Waiting
  <2>2. LockedOnce' /\ LockersAsked'
    BY <1>6, <2>1 DEF MemoryInv, LockedOnce, LockersAsked
  <2>3. HolderActs'
    BY <1>2, <1>6 DEF MemoryInv, HolderActs, Memory!Holds
  <2>4. EarlyFirst'
    <3>1. early' \subseteq early
      OBVIOUS
    <3> QED
      BY <1>6, <3>1 DEF MemoryInv, EarlyFirst
  <2> QED
    BY <1>3, <1>4, <2>2, <2>3, <2>4 DEF MemoryInv
<1> QED
  BY <1>5, <1>6 DEF Memory!Withdraw, Without

LEMMA MonitorCancelledKeeps ==
  ASSUME MemoryInv, Memory!MonitorCancelled
  PROVE  MemoryInv'
<1>1. /\ cancelled' = cancelled \ {"monitor"}
      /\ open' = IF Memory!Sends("monitor", "completed") THEN open \ {"monitor"} ELSE open
      /\ UNCHANGED <<periodic, level, closing, swallowed, passes, asked>>
  BY DEF Memory!MonitorCancelled
<1>2. "monitor" \in Memory!Handlers /\ Memory!TypeOK
  BY HandlersFact DEF MemoryInv
<1>3. open' \subseteq open
  BY <1>1
<1>4. CASE Memory!Survives("monitor")
  <2>1. /\ dying' = dying \union {"monitor"} /\ at' = [at EXCEPT !["monitor"] = @ + 1]
        /\ UNCHANGED <<monitor, lock, early>>
    BY <1>4 DEF Memory!MonitorCancelled
  <2>2. Memory!Holds("monitor") /\ at["monitor"] = 3 /\ LastEvent("monitor") = 4
    BY <1>2, <1>4, EventFact DEF Memory!Survives, Memory!Sends
  <2>3. at' \in [Memory!Handlers -> 0..4]
    BY <1>2, <2>1, <2>2, MemoryParts
  <2>4. Memory!TypeOK'
    BY <1>1, <1>2, <1>3, <2>1, <2>3 DEF Memory!TypeOK
  <2>5. /\ at["monitor"] < Len(Memory!Strategy[level["monitor"]])
        /\ open' \subseteq open \union {"monitor"} /\ at["monitor"] >= 2
    BY <1>3, <2>2 DEF LastEvent
  <2> QED
    BY <1>1, <1>2, <2>1, <2>2, <2>4, <2>5, HolderGoesOn
<1>5. CASE ~Memory!Survives("monitor")
  <2>1. /\ monitor' = "ended" /\ Memory!Withdraw("monitor")
        /\ at' = [at EXCEPT !["monitor"] = 0] /\ early' = early \ {"monitor"}
        /\ UNCHANGED dying
    BY <1>5 DEF Memory!MonitorCancelled
  <2>2. "monitor" \in open => Memory!Sends("monitor", "completed")
    <3> SUFFICES ASSUME "monitor" \in open PROVE Memory!Sends("monitor", "completed")
      OBVIOUS
    <3>1. at["monitor"] >= 3 /\ at["monitor"] \in Nat
      BY MemoryParts, <1>2
    <3>2. /\ LastEvent("monitor") \in {1, 3, 4} /\ at["monitor"] \in 1..LastEvent("monitor")
          /\ ~(at["monitor"] = 3 /\ LastEvent("monitor") = 4)
      BY <1>2, <1>5, <3>1, EventFact DEF Memory!Survives
    <3>3. at["monitor"] = LastEvent("monitor") /\ LastEvent("monitor") > 1
      BY <3>1, <3>2
    <3> QED
      BY <1>2, <3>1, <3>3, EventFact
  <2>3. open' \subseteq open \ {"monitor"}
    BY <1>1, <2>2
  <2>4. lock' \in Seq(Memory!Handlers \union {"shutdown"})
    <3>1. ASSUME NEW i \in 1..Len(lock), lock' = Without(lock, i)
          PROVE  lock' \in Seq(Memory!Handlers \union {"shutdown"})
      BY <3>1, OneWithdraws
    <3> QED
      BY <2>1, <3>1, MemoryParts DEF Memory!Withdraw, Without
  <2>5. at' \in [Memory!Handlers -> 0..4]
    BY <1>2, <2>1, MemoryParts
  <2>6. Memory!TypeOK'
    BY <1>1, <1>2, <1>3, <2>1, <2>4, <2>5 DEF Memory!TypeOK
  <2> QED
    BY <1>1, <2>1, <2>3, <2>6, MonitorEnds
<1> QED
  BY <1>4, <1>5

\* shutdown() asks for the lock: whoever is in the queue is before it.
LEMMA ShutdownKeeps ==
  ASSUME MemoryInv, Memory!Shutdown
  PROVE  MemoryInv'
<1>1. /\ closing = "no" /\ closing' = "lock" /\ lock' = Append(lock, "shutdown")
      /\ early' = Memory!Waiting /\ cancelled' \subseteq {"monitor", "periodic"}
      /\ UNCHANGED <<monitor, periodic, level, at, dying, open, swallowed, passes, asked>>
  BY DEF Memory!Shutdown, Memory!tasks, Memory!Cancels
<1>2. "shutdown" \notin Memory!Waiting
  BY <1>1 DEF MemoryInv, LockersAsked, Memory!Waiting
<1>3. /\ lock' \in Seq(Memory!Handlers \union {"shutdown"})
      /\ LockedOnce'
      /\ Len(lock) \in Nat /\ Len(lock') = Len(lock) + 1 /\ lock'[Len(lock')] = "shutdown"
      /\ \A j \in 1..Len(lock) : lock'[j] = lock[j] /\ j \in 1..Len(lock')
      /\ \A j \in 1..Len(lock') : j \in 1..Len(lock) \/ (j = Len(lock') /\ lock'[j] = "shutdown")
      /\ \A q : Memory!Holds(q) => Memory!Holds(q)'
  BY <1>1, <1>2, OneAsks
<1>4. early' \subseteq Memory!Handlers
  BY <1>1, <1>2, MemoryParts DEF Memory!Waiting
<1>5. Memory!TypeOK'
  BY <1>1, <1>3, <1>4 DEF MemoryInv, Memory!TypeOK
<1>6. LockersAsked'
  BY <1>1, <1>3, HandlersFact DEF MemoryInv, LockersAsked
<1>7. HolderActs' /\ OpenIsLate'
  BY <1>1, <1>3 DEF MemoryInv, HolderActs, OpenIsLate
<1>8. EarlyFirst'
  <2>1. Len(lock') \in 1..Len(lock') /\ Len(lock') - 1 = Len(lock)
    BY <1>3
  <2>2. early' \subseteq {lock'[j] : j \in 1..(Len(lock') - 1)}
    BY <1>1, <1>3, <2>1 DEF Memory!Waiting
  <2> QED
    BY <1>1, <1>3, <2>1, <2>2 DEF EarlyFirst
<1> QED
  BY <1>1, <1>3, <1>5, <1>6, <1>7, <1>8 DEF MemoryInv, Memory!ClosedIsQuiet

LEMMA ShutdownLocksKeeps ==
  ASSUME MemoryInv, Memory!ShutdownLocks
  PROVE  MemoryInv'
<1>1. /\ closing = "lock" /\ closing' = "gather" /\ Memory!Holds("shutdown") /\ lock' = Tail(lock)
      /\ UNCHANGED <<monitor, periodic, level, at, dying, open, passes, asked, cancelled, early,
                     swallowed>>
  BY DEF Memory!ShutdownLocks, Memory!tasks
<1>2. /\ lock # <<>> /\ Head(lock) = "shutdown" /\ open = {}
      /\ \A q \in Memory!Handlers : at[q] = 0
  BY <1>1, OneHolder, HandlersFact, MemoryParts
<1>3. /\ lock' \in Seq(Memory!Handlers \union {"shutdown"}) /\ LockedOnce'
      /\ \A j \in 1..Len(lock') : lock'[j] # "shutdown" /\ j + 1 \in 1..Len(lock)
                                   /\ lock'[j] = lock[j + 1]
      /\ lock[1] = "shutdown" /\ Len(lock) \in Nat
  BY <1>1, <1>2, HolderLeaves
<1>4. Memory!TypeOK'
  BY <1>1, <1>3 DEF MemoryInv, Memory!TypeOK
<1>5. LockersAsked'
  <2> SUFFICES ASSUME NEW j \in 1..Len(lock')
               PROVE  /\ lock'[j] \in Callers => lock'[j] \in asked
                      /\ lock'[j] = "monitor" => monitor = "pressure"
                      /\ lock'[j] # "shutdown"
    BY <1>1 DEF LockersAsked
  <2>1. j + 1 \in 1..Len(lock) /\ lock'[j] = lock[j + 1] /\ lock'[j] # "shutdown"
    BY <1>3
  <2> QED
    BY <2>1 DEF MemoryInv, LockersAsked
<1>6. early = {}
  <2>1. PICK k \in 1..Len(lock) :
          lock[k] = "shutdown" /\ early \subseteq {lock[j] : j \in 1..(k - 1)}
    BY <1>1 DEF MemoryInv, EarlyFirst
  <2>2. 1 \in 1..Len(lock)
    BY <1>3, <2>1
  <2>3. k = 1
    BY <1>3, <2>1, <2>2 DEF MemoryInv, LockedOnce
  <2> QED
    BY <2>1, <2>3
<1>7. HolderActs' /\ OpenIsLate' /\ EarlyFirst'
  BY <1>1, <1>2, <1>6 DEF HolderActs, OpenIsLate, EarlyFirst
<1> QED
  BY <1>1, <1>3, <1>4, <1>5, <1>7 DEF MemoryInv, Memory!ClosedIsQuiet

\* gather() returns when both tasks have ended, and the connection is closed.
LEMMA ClosingKeeps ==
  ASSUME MemoryInv, Memory!Gathered \/ Memory!Closed
  PROVE  MemoryInv'
<1>1. /\ UNCHANGED <<monitor, periodic, level, at, dying, open, passes, asked, cancelled, lock,
                     early, swallowed>>
      /\ closing \in {"gather", "close"} /\ closing' \in {"close", "done"}
      /\ monitor \in {"none", "ended"} /\ periodic \in {"none", "ended"}
  BY DEF MemoryInv, Memory!ClosedIsQuiet, Memory!Gathered, Memory!Closed, Memory!tasks,
         Memory!TasksEnded
<1>2. early = {} /\ Memory!TypeOK
  BY <1>1 DEF MemoryInv, EarlyFirst
<1>3. Memory!TypeOK'
  BY <1>1, <1>2 DEF Memory!TypeOK
<1>4. LockersAsked' /\ LockedOnce'
  <2>1. \A i \in 1..Len(lock) : lock[i] # "shutdown"
    BY <1>1 DEF MemoryInv, LockersAsked
  <2> QED
    BY <1>1, <2>1 DEF MemoryInv, LockersAsked, LockedOnce
<1>5. HolderActs' /\ OpenIsLate'
  BY <1>1 DEF MemoryInv, HolderActs, OpenIsLate, Memory!Holds
<1>6. EarlyFirst' /\ Memory!ClosedIsQuiet'
  BY <1>1, <1>2 DEF EarlyFirst, Memory!ClosedIsQuiet
<1> QED
  BY <1>3, <1>4, <1>5, <1>6 DEF MemoryInv

LEMMA MemoryInit == Memory!Init => MemoryInv
<1> SUFFICES ASSUME Memory!Init PROVE MemoryInv
  OBVIOUS
<1>1. lock = <<>> /\ Len(lock) = 0 /\ <<>> \in Seq(Memory!Handlers \union {"shutdown"})
  BY DEF Memory!Init
<1>2. "LOW" \in Memory!Levels
  BY DEF Memory!Levels, Memory!Strategy
<1>3. Memory!TypeOK
  <2>1. swallowed \in BOOLEAN
    BY DEF Memory!Init
  <2>2. lock \in Seq(Memory!Handlers \union {"shutdown"}) /\ passes \in 0..MaxPasses
    BY <1>1, PartsAssumption DEF Memory!Init
  <2>3. level \in [Memory!Handlers -> Memory!Levels] /\ at \in [Memory!Handlers -> 0..4]
    BY <1>2 DEF Memory!Init
  <2> QED
    BY <2>1, <2>2, <2>3 DEF Memory!Init, Memory!TypeOK
<1>4. LockedOnce /\ LockersAsked
  BY <1>1 DEF LockedOnce, LockersAsked
<1>5. HolderActs /\ OpenIsLate /\ EarlyFirst /\ Memory!ClosedIsQuiet
  BY DEF Memory!Init, HolderActs, OpenIsLate, EarlyFirst, Memory!ClosedIsQuiet
<1> QED
  BY <1>3, <1>4, <1>5 DEF MemoryInv

LEMMA MemoryStepKeeps == MemoryInv /\ [Memory!Next]_(Memory!vars) => MemoryInv'
<1> SUFFICES ASSUME MemoryInv, [Memory!Next]_(Memory!vars) PROVE MemoryInv'
  OBVIOUS
<1>1. CASE UNCHANGED Memory!vars
  BY <1>1, TasksKeep DEF Memory!vars, memoryVars
<1>2. CASE Memory!Next
  BY <1>2, TasksKeep, EnterKeeps, SendsKeep, AsksKeep, MonitorCancelledKeeps, ShutdownKeeps,
     ShutdownLocksKeeps, ClosingKeeps 
  DEF Memory!Next, Memory!CoroutineStep
<1> QED
  BY <1>1, <1>2

\* Each step leaves a monitor that shutdown() cancelled with the CancelledError
\* before it, on its way, or swallowed.
LEMMA CancellationKept ==
  ASSUME MemoryInv, Memory!CancellationArrives, [Memory!Next]_(Memory!vars)
  PROVE  Memory!CancellationArrives'
<1> DEFINE Run(m) == m \notin {"none", "ended"}
<1>1. ASSUME closing' = closing, Run(monitor') => Run(monitor),
             cancelled \subseteq cancelled', dying \subseteq dying', swallowed => swallowed'
      PROVE  Memory!CancellationArrives'
  BY <1>1 DEF Memory!CancellationArrives, Memory!Runs
<1>2. CASE Memory!Initialize \/ UNCHANGED Memory!vars
  BY <1>2 DEF Memory!CancellationArrives, Memory!Runs, Memory!Initialize, Memory!rest, Memory!vars
<1>3. CASE Memory!UsageTold
  BY <1>1, <1>3 DEF Memory!UsageTold, Memory!rest
<1>4. CASE Memory!UsageRaises \/ Memory!MonitorWakes \/ Memory!PeriodicWakes
  BY <1>1, <1>4 DEF Memory!UsageRaises, Memory!MonitorWakes, Memory!PeriodicWakes, Memory!rest
<1>5. CASE Memory!PeriodicCancelled
  BY <1>5 DEF Memory!PeriodicCancelled, Memory!CancellationArrives, Memory!Runs, Memory!rest
<1>6. CASE Memory!MonitorCancelled
  BY <1>6 DEF Memory!MonitorCancelled, Memory!CancellationArrives, Memory!Runs
<1>7. CASE \E p \in Callers, l \in Memory!Levels : Memory!CallerAsks(p, l)
  BY <1>1, <1>7 DEF Memory!CallerAsks
<1>8. CASE \E p \in Memory!Handlers : Memory!Enter(p)
  BY <1>1, <1>8 DEF Memory!Enter
<1>9. ASSUME NEW p \in Memory!Handlers, Memory!Holds(p), UNCHANGED <<closing, cancelled, periodic>>,
             NEW raised \in BOOLEAN, Memory!Leave(p, raised)
      PROVE  Memory!CancellationArrives'
  <2>1. CASE p = "monitor"
    <3>1. Run(monitor)
      <4>1. 1 \in 1..Len(lock) /\ lock[1] = "monitor"
        BY <1>9, <2>1, MemoryParts DEF Memory!Holds
      <4> QED
        BY <4>1 DEF MemoryInv, LockersAsked
    <3> QED
      BY <1>9, <2>1, <3>1
      DEF Memory!Leave, Memory!Ends, Memory!CancellationArrives, Memory!Runs
  <2>2. CASE p # "monitor"
    BY <1>9, <2>2 DEF Memory!Leave, Memory!CancellationArrives, Memory!Runs
  <2> QED
    BY <2>1, <2>2
<1>10. ASSUME NEW p \in Memory!Handlers, Memory!Sent(p) \/ Memory!SendRaises(p)
       PROVE  Memory!CancellationArrives'
  <2>1. /\ Memory!Holds(p) /\ UNCHANGED <<closing, cancelled, periodic>>
        /\ Memory!Proceed(p) \/ Memory!Leave(p, TRUE)
    BY <1>10 DEF Memory!Sent, Memory!SendRaises
  <2>2. CASE UNCHANGED <<dying, swallowed, monitor>>
    BY <1>1, <2>1, <2>2
  <2> QED
    BY <1>9, <2>1, <2>2 DEF Memory!Proceed
<1>11. CASE Memory!Shutdown
  BY <1>11
  DEF Memory!Shutdown, Memory!Cancels, Memory!CancellationArrives, Memory!Runs, Memory!tasks
<1>12. CASE Memory!ShutdownLocks \/ Memory!Gathered \/ Memory!Closed
  BY <1>12 DEF Memory!ShutdownLocks, Memory!Gathered, Memory!Closed, Memory!tasks,
               Memory!CancellationArrives, Memory!Runs
<1> QED
  BY <1>2, <1>3, <1>4, <1>5, <1>6, <1>7, <1>8, <1>10, <1>11, <1>12
  DEF Memory!Next, Memory!CoroutineStep

LEMMA MemoryInductive == Memory!Spec => [](MemoryInv /\ Memory!CancellationArrives)
<1>1. Memory!Init => MemoryInv /\ Memory!CancellationArrives
  BY MemoryInit DEF Memory!Init, Memory!CancellationArrives
<1>2. MemoryInv /\ Memory!CancellationArrives /\ [Memory!Next]_(Memory!vars) =>
        (MemoryInv /\ Memory!CancellationArrives)'
  BY MemoryStepKeeps, CancellationKept
<1> QED
  BY <1>1, <1>2, PTL DEF Memory!Spec

\* shutdown() of the MemoryManager closes the connection only when both of its
\* tasks and every earlier clean-up are over, no clean-up whose begin was told
\* goes without its end, and the cancellation of the monitor arrives, whatever
\* raises and wherever it is cancelled, except that the event of the clean-up's
\* own finally raises: then the cancellation is lost.
THEOREM MemoryShutsDown == Memory!Spec => []ShutdownIsOrderly
<1>1. MemoryInv /\ Memory!CancellationArrives => ShutdownIsOrderly
  <2> SUFFICES ASSUME MemoryInv, Memory!CancellationArrives PROVE Memory!BegunIsEnded
    BY DEF ShutdownIsOrderly, Memory!ShutdownIsOrderly, MemoryInv
  <2> QED
    BY MemoryParts DEF Memory!BegunIsEnded
<1> QED
  BY <1>1, MemoryInductive, PTL

-----------------------------------------------------------------------------
(* CrewManager.                                                            *)

\* The names in self.agents are distinct.
AgentsOnce == \A i, j \in 1..Len(agents) : agents[i] = agents[j] => i = j

\* A round is at an agent there is; so is the loop of shutdown().
RoundAtAgent ==
  processor = "agent" =>
    /\ \E e \in 1..given : round.event = {e}
    /\ round.at \in 1..round.size /\ round.size <= Len(agents)

LoopAtAgent ==
  /\ down = "agents" => pos.at \in 1..pos.size
  /\ down \in {"agents", "rest", "done"} => pos.size <= Len(agents)

CrewTyped == Crew!TypeOK /\ AgentsOnce /\ RoundAtAgent /\ LoopAtAgent

\* Cardinality as the instance of CrewManager has it.
LEMMA SameCount == \A S : Crew!Cardinality(S) = Cardinality(S)
  BY DEF Crew!Cardinality, Cardinality

\* There are no more names than agents.
LEMMA NamesCounted ==
  ASSUME NEW s \in Seq(Agents), \A i, j \in 1..Len(s) : s[i] = s[j] => i = j
  PROVE  /\ Len(s) \in 0..Cardinality(Agents) /\ Cardinality(Agents) \in Nat
         /\ Len(s) \in Nat
<1>1. IsFiniteSet(Agents) /\ Cardinality(Agents) \in Nat /\ Len(s) \in Nat
  BY PartsAssumption, FS_CardinalityType
<1>2. s \in Injection(1..Len(s), Agents)
  <2>1. s \in [1..Len(s) -> Agents]
    OBVIOUS
  <2>2. IsInjective(s)
    BY <2>1 DEF IsInjective
  <2> QED
    BY <2>1, <2>2 DEF Injection
<1>3. Cardinality(1..Len(s)) <= Cardinality(Agents)
  BY <1>1, <1>2, FS_Injection
<1>4. Cardinality(1..Len(s)) = Len(s)
  <2>1. 1 \in Int /\ Len(s) \in Int
    BY <1>1
  <2>2. Cardinality(1..Len(s)) = IF 1 > Len(s) THEN 0 ELSE Len(s) - 1 + 1
    BY <2>1, FS_Interval
  <2> QED
    BY <1>1, <2>2
<1> QED
  BY <1>1, <1>3, <1>4

LEMMA CrewTypes ==
  ASSUME CrewTyped
  PROVE  /\ agents \in Seq(Agents) /\ Len(agents) \in 0..Cardinality(Agents)
         /\ Cardinality(Agents) \in Nat /\ Len(agents) \in Nat
         /\ given \in 0..MaxDistributed /\ given \in Nat /\ queue \in Seq(1..given)
         /\ 1..given \subseteq Crew!Events /\ MaxDistributed \in Nat
         /\ given_to \in [Agents -> Seq(Crew!Events)] /\ ended \subseteq Crew!Events
         /\ round \in [event : SUBSET Crew!Events, at : 0..Cardinality(Agents),
                       size : 0..Cardinality(Agents)]
         /\ pos \in [at : 0..Cardinality(Agents) + 1, size : 0..Cardinality(Agents)]
<1>1. Crew!TypeOK
  BY DEF CrewTyped
<1>2. agents \in Seq(Agents) /\ AgentsOnce
  BY <1>1 DEF Crew!TypeOK, CrewTyped
<1>3. /\ Len(agents) \in 0..Cardinality(Agents) /\ Cardinality(Agents) \in Nat
      /\ Len(agents) \in Nat
  BY <1>2, NamesCounted DEF AgentsOnce
<1>4. given \in 0..MaxDistributed /\ MaxDistributed \in Nat
  BY <1>1, PartsAssumption DEF Crew!TypeOK
<1> QED
  BY <1>1, <1>2, <1>3, <1>4, SameCount DEF Crew!TypeOK, Crew!Events

\* One step of handing event e round, at position i of the agents.
LEMMA HandRoundTypes ==
  ASSUME CrewTyped, NEW e \in 1..given, NEW i \in 1..(Len(agents) + 1),
         Crew!HandRound(e, i, Len(agents))
  PROVE  /\ given_to' \in [Agents -> Seq(Crew!Events)] /\ ended' \subseteq Crew!Events
         /\ \/ processor' = "get" /\ round' = Crew!Nothing
            \/ /\ processor' = "agent" /\ round' = [event |-> {e}, at |-> i, size |-> Len(agents)]
               /\ i \in 1..Len(agents)
         /\ round' \in [event : SUBSET Crew!Events, at : 0..Cardinality(Agents),
                        size : 0..Cardinality(Agents)]
<1>1. e \in Crew!Events
  BY CrewTypes
<1>2. Crew!Nothing \in [event : SUBSET Crew!Events, at : 0..Cardinality(Agents),
                        size : 0..Cardinality(Agents)]
  BY CrewTypes DEF Crew!Nothing
<1>3. CASE processor' = "get" /\ round' = Crew!Nothing /\ UNCHANGED given_to
           /\ ended' \in {ended, ended \union {e}}
  BY <1>1, <1>2, <1>3, CrewTypes
<1>4. CASE /\ i <= Len(agents) /\ processor' = "agent"
           /\ round' = [event |-> {e}, at |-> i, size |-> Len(agents)]
           /\ given_to' = [given_to EXCEPT ![agents[i]] = Append(@, e)] /\ UNCHANGED ended
  <2>1. i \in 1..Len(agents)
    BY <1>4, CrewTypes
  <2>2. agents[i] \in Agents
    BY <2>1, CrewTypes
  <2>3. Append(given_to[agents[i]], e) \in Seq(Crew!Events)
    BY <1>1, <2>2, CrewTypes
  <2>4. given_to' \in [Agents -> Seq(Crew!Events)]
    BY <1>4, <2>2, <2>3, CrewTypes
  <2>5. round' \in [event : SUBSET Crew!Events, at : 0..Cardinality(Agents),
                    size : 0..Cardinality(Agents)]
    BY <1>1, <1>4, <2>1, CrewTypes
  <2> QED
    BY <1>4, <2>1, <2>4, <2>5, CrewTypes
<1> QED
  BY <1>3, <1>4 DEF Crew!HandRound, Crew!RoundOver

LEMMA CrewTypedInit ==
  ASSUME Crew!Init
  PROVE  CrewTyped
<1>1. Cardinality(Agents) \in Nat /\ MaxDistributed \in Nat
  BY PartsAssumption, FS_CardinalityType
<1>2. agents = <<>> /\ Len(agents) = 0
  BY DEF Crew!Init
<1>3. Crew!TypeOK
  BY <1>1, SameCount DEF Crew!Init, Crew!TypeOK, Crew!Nothing, Crew!States
<1>4. AgentsOnce
  BY <1>2 DEF AgentsOnce
<1> QED
  BY <1>3, <1>4 DEF CrewTyped, Crew!Init, RoundAtAgent, LoopAtAgent

\* The heap after a pop that raised holds events that were distributed.
LEMMA PoppedType ==
  ASSUME NEW n \in Nat, NEW q \in Seq(1..n), Len(q) >= 3
  PROVE  Crew!Popped(q) \in Seq(1..n)
<1>1. Tail(q) \in Seq(1..n)
  OBVIOUS
<1>2. Len(q) \in Nat /\ q[Len(q)] \in 1..n
  OBVIOUS
<1>3. SubSeq(q, 2, Len(q) - 1) \in Seq(1..n)
  BY <1>2
<1>4. <<q[Len(q)]>> \in Seq(1..n)
  BY <1>2
<1>5. <<q[Len(q)]>> \o SubSeq(q, 2, Len(q) - 1) \in Seq(1..n)
  BY <1>3, <1>4
<1> QED
  BY <1>1, <1>5 DEF Crew!Popped

LEMMA SetupTyped ==
  ASSUME CrewTyped, Crew!Initialize \/ Crew!SetupStep \/ Crew!InitializeRaises
  PROVE  CrewTyped'
  BY DEF CrewTyped, Crew!TypeOK, Crew!Initialize, Crew!SetupStep, Crew!RegistryStarts,
         Crew!MemoryStarts, Crew!InitializeRaises, Crew!Services, Crew!agentVars,
         Crew!eventVars, Crew!downVars, AgentsOnce, RoundAtAgent, LoopAtAgent

LEMMA AddAgentTyped ==
  ASSUME CrewTyped, NEW a \in Agents, Crew!AddAgent(a)
  PROVE  CrewTyped' /\ Len(agents') = Len(agents) + 1
         /\ (\A i \in 1..Len(agents) : agents'[i] = agents[i])
         /\ agents'[Len(agents')] = a /\ (\A i \in 1..Len(agents) : agents[i] # a)
<1>1. /\ agents' = Append(agents, a) /\ agents \in Seq(Agents) /\ agents' \in Seq(Agents)
      /\ Len(agents') = Len(agents) + 1 /\ Len(agents) \in Nat
  BY CrewTypes DEF Crew!AddAgent
<1>2. \A i \in 1..Len(agents) : agents'[i] = agents[i]
  BY <1>1
<1>3. agents'[Len(agents')] = a
  BY <1>1
<1>4. \A i \in 1..Len(agents) : agents[i] # a
  BY DEF Crew!AddAgent, Crew!Known
<1>5. AgentsOnce'
  <2> SUFFICES ASSUME NEW i \in 1..Len(agents'), NEW j \in 1..Len(agents'),
                      agents'[i] = agents'[j]
               PROVE  i = j
    BY DEF AgentsOnce
  <2>1. CASE i \in 1..Len(agents) /\ j \in 1..Len(agents)
    BY <1>2, <2>1 DEF CrewTyped, AgentsOnce
  <2>2. CASE i = Len(agents') \/ j = Len(agents')
    BY <1>1, <1>2, <1>3, <1>4, <2>2
  <2> QED
    BY <1>1, <2>1, <2>2
<1>6. mute' \in SUBSET Mutable
  BY DEF Crew!AddAgent, CrewTyped, Crew!TypeOK
<1>7. Crew!TypeOK'
  BY <1>1, <1>6 DEF Crew!AddAgent, CrewTyped, Crew!TypeOK, Crew!States, Crew!eventVars,
                   Crew!downVars
<1>8. /\ UNCHANGED <<given, processor, round, down, pos>>
      /\ round.size \in Nat /\ pos.size \in Nat
  BY CrewTypes DEF Crew!AddAgent, Crew!eventVars, Crew!downVars
<1>9. RoundAtAgent'
  <2>1. RoundAtAgent
    BY DEF CrewTyped
  <2> QED
    BY <1>1, <1>8, <2>1 DEF RoundAtAgent
<1>10. LoopAtAgent'
  <2>1. LoopAtAgent
    BY DEF CrewTyped
  <2> QED
    BY <1>1, <1>8, <2>1 DEF LoopAtAgent
<1> QED
  BY <1>1, <1>2, <1>3, <1>4, <1>5, <1>7, <1>9, <1>10 DEF CrewTyped

LEMMA HealthTyped ==
  ASSUME CrewTyped, (\E a \in Agents : Crew!AgentAdded(a)) \/ Crew!HealthPass
  PROVE  CrewTyped'
<1>1. health' \in [Agents -> Crew!States] /\ adding' \in SUBSET Agents
  BY DEF CrewTyped, Crew!TypeOK, Crew!AgentAdded, Crew!HealthPass, Crew!States
<1>2. UNCHANGED <<agents, mute, setup, services, given, queue, processor, round, given_to,
                  ended, down, pos, stopped>>
  BY DEF Crew!AgentAdded, Crew!HealthPass, Crew!setupVars, Crew!eventVars, Crew!downVars
<1> QED
  BY <1>1, <1>2 DEF CrewTyped, Crew!TypeOK, AgentsOnce, RoundAtAgent, LoopAtAgent

LEMMA DistributeTyped ==
  ASSUME CrewTyped, Crew!DistributeEvent
  PROVE  CrewTyped'
<1>1. given \in Nat /\ given' = given + 1 /\ given' \in 0..MaxDistributed
  BY CrewTypes DEF Crew!DistributeEvent
<1>2. queue \in Seq(1..given')
  BY <1>1, CrewTypes
<1>3. queue' \in Seq(1..given')
  BY <1>1, <1>2 DEF Crew!DistributeEvent
<1>4. Crew!TypeOK'
  BY <1>1, <1>3 DEF Crew!DistributeEvent, CrewTyped, Crew!TypeOK, Crew!setupVars,
                    Crew!agentVars, Crew!downVars
<1>5. RoundAtAgent'
  BY <1>1, CrewTypes DEF Crew!DistributeEvent, CrewTyped, RoundAtAgent, Crew!agentVars
<1> QED
  BY <1>4, <1>5 DEF Crew!DistributeEvent, CrewTyped, AgentsOnce, LoopAtAgent,
                    Crew!agentVars, Crew!downVars

\* The round of an event that goes on or ends, at whatever agent it is.
LEMMA RoundTyped ==
  ASSUME CrewTyped, NEW e \in 1..given, NEW i \in 1..(Len(agents) + 1),
         Crew!HandRound(e, i, Len(agents)), queue' \in Seq(1..given),
         UNCHANGED <<Crew!setupVars, Crew!agentVars, given, Crew!downVars>>
  PROVE  CrewTyped'
<1>1. Crew!TypeOK'
  BY HandRoundTypes, SameCount DEF CrewTyped, Crew!TypeOK, Crew!setupVars, Crew!agentVars,
     Crew!downVars
<1>2. Len(agents') = Len(agents) /\ given' = given /\ Len(agents) \in Nat
  BY CrewTypes DEF Crew!agentVars
<1>3. RoundAtAgent'
  <2>1. CASE processor' = "get"
    BY <2>1 DEF RoundAtAgent
  <2>2. CASE /\ round' = [event |-> {e}, at |-> i, size |-> Len(agents)]
             /\ i \in 1..Len(agents)
    BY <1>2, <2>2 DEF RoundAtAgent
  <2> QED
    BY <2>1, <2>2, HandRoundTypes
<1> QED
  BY <1>1, <1>3 DEF CrewTyped, AgentsOnce, LoopAtAgent, Crew!agentVars, Crew!downVars

LEMMA OverTyped ==
  ASSUME CrewTyped, Crew!RoundOver \/ UNCHANGED <<processor, round>>,
         queue' \in Seq(1..given),
         UNCHANGED <<Crew!setupVars, Crew!agentVars, given, given_to, ended, Crew!downVars>>
  PROVE  CrewTyped'
<1>1. Crew!Nothing \in [event : SUBSET Crew!Events, at : 0..Cardinality(Agents),
                        size : 0..Cardinality(Agents)]
  BY CrewTypes DEF Crew!Nothing
<1>2. Crew!TypeOK'
  BY <1>1, SameCount DEF CrewTyped, Crew!TypeOK, Crew!setupVars, Crew!agentVars,
     Crew!downVars, Crew!RoundOver
<1>3. RoundAtAgent'
  BY DEF CrewTyped, RoundAtAgent, Crew!RoundOver, Crew!agentVars
<1> QED
  BY <1>2, <1>3 DEF CrewTyped, AgentsOnce, LoopAtAgent, Crew!agentVars, Crew!downVars

\* What the task of _process_events does when the await on an agent is over.
LEMMA OnwardIs ==
  ASSUME CrewTyped, processor = "agent", Crew!Onward
  PROVE  \/ Crew!RoundOver /\ UNCHANGED <<ended, given_to>>
         \/ \E e \in 1..given :
              /\ round.event = {e} /\ round.at \in 1..Len(agents) /\ round.size = Len(agents)
              /\ Crew!HandRound(e, round.at + 1, Len(agents))
<1>1. PICK e \in 1..given : round.event = {e}
  BY DEF CrewTyped, RoundAtAgent
<1>2. round.at \in 1..round.size
  BY DEF CrewTyped, RoundAtAgent
<1>3. CASE Crew!Grown(round.size)
  BY <1>3 DEF Crew!Onward
<1>4. CASE ~Crew!Grown(round.size)
  <2>1. round.size = Len(agents)
    BY <1>4 DEF Crew!Grown
  <2>2. Crew!HandRound(e, round.at + 1, round.size)
    BY <1>1, <1>4 DEF Crew!Onward
  <2> QED
    BY <1>1, <1>2, <2>1, <2>2
<1> QED
  BY <1>3, <1>4

LEMMA ProcessorTyped ==
  ASSUME CrewTyped, Crew!ProcessorStep \/ Crew!AgentRaises
  PROVE  CrewTyped'
<1>1. CASE Crew!GetEvent
  <2>1. Len(agents) \in Nat /\ queue \in Seq(1..given) /\ Len(queue) \in 1..2
    BY <1>1, CrewTypes DEF Crew!GetEvent
  <2>2. Head(queue) \in 1..given /\ Tail(queue) \in Seq(1..given)
    <3>1. queue # <<>>
      BY <2>1, EmptySeq
    <3> QED
      BY <2>1, <3>1, HeadTailProperties
  <2>3. 1 \in 1..(Len(agents) + 1)
    BY <2>1
  <2> QED
    BY <1>1, <2>2, <2>3, RoundTyped DEF Crew!GetEvent
<1>2. CASE Crew!GetRaises
  <2>1. Crew!Popped(queue) \in Seq(1..given)
    BY <1>2, CrewTypes, PoppedType DEF Crew!GetRaises
  <2> QED
    BY <1>2, <2>1, OverTyped DEF Crew!GetRaises
<1>3. CASE Crew!AgentReturns \/ Crew!AgentRaises
  <2>1. /\ processor = "agent" /\ Crew!Onward
        /\ UNCHANGED <<Crew!setupVars, Crew!agentVars, given, queue, Crew!downVars>>
    BY <1>3 DEF Crew!AgentReturns, Crew!AgentRaises, Crew!AfterRaise
  <2>2. queue' \in Seq(1..given)
    BY <2>1, CrewTypes
  <2>3. CASE Crew!RoundOver /\ UNCHANGED <<ended, given_to>>
    BY <2>1, <2>2, <2>3, OverTyped
  <2>4. CASE \E e \in 1..given :
               /\ round.event = {e} /\ round.at \in 1..Len(agents)
               /\ round.size = Len(agents)
               /\ Crew!HandRound(e, round.at + 1, Len(agents))
    <3>1. PICK e \in 1..given : round.at \in 1..Len(agents)
                                /\ Crew!HandRound(e, round.at + 1, Len(agents))
      BY <2>4
    <3>2. round.at + 1 \in 1..(Len(agents) + 1)
      BY <3>1, CrewTypes
    <3> QED
      BY <2>1, <2>2, <3>1, <3>2, RoundTyped
  <2> QED
    BY <2>1, <2>3, <2>4, OnwardIs
<1> QED
  BY <1>1, <1>2, <1>3 DEF Crew!ProcessorStep

LEMMA ShutdownTyped ==
  ASSUME CrewTyped, Crew!Shutdown \/ Crew!DownStep \/ Crew!StopRaises \/ Crew!RestRaises
  PROVE  CrewTyped'
<1> USE DEF CrewTyped, Crew!TypeOK, AgentsOnce, RoundAtAgent, LoopAtAgent, Crew!Services,
            Crew!setupVars, Crew!agentVars, Crew!eventVars
<1>1. CASE Crew!Shutdown
  <2>1. Crew!Nothing \in [event : SUBSET Crew!Events, at : 0..Cardinality(Agents),
                          size : 0..Cardinality(Agents)]
    BY CrewTypes DEF Crew!Nothing
  <2>2. processor' \in {"none", "ended"} /\ services' \subseteq Crew!Services
    BY <1>1 DEF Crew!Shutdown
  <2>3. /\ pos' = [at |-> 1, size |-> Len(agents)]
        /\ down' = IF 1 > Len(agents) THEN "rest" ELSE "agents"
    BY <1>1 DEF Crew!Shutdown, Crew!AgentLoop
  <2>4. pos' \in [at : 0..Cardinality(Agents) + 1, size : 0..Cardinality(Agents)]
    BY <2>3, CrewTypes
  <2>5. Crew!TypeOK'
    BY <1>1, <2>1, <2>2, <2>3, <2>4, SameCount DEF Crew!Shutdown
  <2> QED
    BY <1>1, <2>2, <2>3, <2>5, CrewTypes DEF Crew!Shutdown
<1>2. CASE Crew!StopReturns \/ Crew!StopRaises
  <2>1. /\ down = "agents" /\ stopped' = stopped \union {agents[pos.at]} /\ Crew!NextAgent
        /\ UNCHANGED <<mute, setup, services, agents, adding, given, queue, processor, round,
                       given_to, ended>>
    BY <1>2 DEF Crew!StopReturns, Crew!StopRaises, Crew!AfterFailedStop
  <2>2. health' \in [Agents -> Crew!States]
    BY <1>2 DEF Crew!StopReturns, Crew!StopRaises, Crew!States
  <2>3. pos.at \in 1..Len(agents) /\ agents[pos.at] \in Agents
    BY <2>1, CrewTypes
  <2>4. /\ pos' \in [at : 0..Cardinality(Agents) + 1, size : 0..Cardinality(Agents)]
        /\ down' \in {"agents", "rest", "raised"} /\ LoopAtAgent'
    <3>1. /\ pos.at \in 1..pos.size /\ pos.size \in 0..Cardinality(Agents)
          /\ pos.size <= Len(agents) /\ Cardinality(Agents) \in Nat
      BY <2>1, CrewTypes
    <3>2. CASE down' = "raised" /\ UNCHANGED pos
      BY <2>1, <3>1, <3>2, CrewTypes
    <3>3. CASE /\ down' = IF pos.at + 1 > pos.size THEN "rest" ELSE "agents"
               /\ pos' = [at |-> pos.at + 1, size |-> pos.size]
      <4>1. pos' \in [at : 0..Cardinality(Agents) + 1, size : 0..Cardinality(Agents)]
        BY <3>1, <3>3
      <4>2. pos'.at = pos.at + 1 /\ pos'.size = pos.size /\ agents' = agents
        BY <2>1, <3>3
      <4> QED
        BY <3>1, <3>3, <4>1, <4>2
    <3> QED
      BY <2>1, <3>2, <3>3 DEF Crew!NextAgent, Crew!AgentLoop
  <2>5. Crew!TypeOK'
    BY <2>1, <2>2, <2>3, <2>4, SameCount
  <2> QED
    BY <2>1, <2>4, <2>5
<1>3. CASE Crew!RestEnds \/ Crew!RestRaises
  BY <1>3 DEF Crew!RestEnds, Crew!RestRaises
<1> QED
  BY <1>1, <1>2, <1>3 DEF Crew!DownStep

LEMMA CrewTypedNext ==
  ASSUME CrewTyped, Crew!Next
  PROVE  CrewTyped'
  BY SetupTyped, AddAgentTyped, HealthTyped, DistributeTyped, ProcessorTyped, ShutdownTyped
  DEF Crew!Next

LEMMA CrewTypedKept ==
  ASSUME CrewTyped, UNCHANGED crewVars
  PROVE  CrewTyped'
  BY DEF crewVars, CrewTyped, Crew!TypeOK, AgentsOnce, RoundAtAgent, LoopAtAgent

-----------------------------------------------------------------------------
(* shutdown() of the manager.                                              *)

\* The positions of the agents that the loop of shutdown() has covered.
Covered == 1..(IF down = "agents" THEN pos.at - 1 ELSE pos.size)

CrewDown ==
  /\ down # "no" => setup \in {"up", "failed"} /\ processor \in {"none", "ended"}
  /\ down \in {"agents", "rest", "done"} => \A i \in Covered : agents[i] \in stopped
  /\ down = "done" => services = {}

LEMMA CrewDownInit == Crew!Init => CrewDown
  BY DEF Crew!Init, CrewDown

LEMMA CrewDownNext ==
  ASSUME CrewTyped, CrewDown, Crew!Next
  PROVE  CrewDown'
<1>1. CASE Crew!Initialize \/ Crew!SetupStep \/ Crew!InitializeRaises
  <2>1. down = "no"
    BY <1>1 DEF CrewDown, Crew!Initialize, Crew!SetupStep, Crew!RegistryStarts,
                Crew!MemoryStarts, Crew!InitializeRaises
  <2> QED
    BY <1>1, <2>1 DEF CrewDown, Crew!Initialize, Crew!SetupStep, Crew!RegistryStarts,
                      Crew!MemoryStarts, Crew!InitializeRaises, Crew!downVars
<1>2. ASSUME NEW a \in Agents, Crew!AddAgent(a)
      PROVE  CrewDown'
  <2>1. \A i \in 1..Len(agents) : agents'[i] = agents[i]
    BY <1>2, AddAgentTyped
  <2>2. UNCHANGED <<setup, services, down, pos, stopped, processor>>
    BY <1>2 DEF Crew!AddAgent, Crew!eventVars, Crew!downVars
  <2>3. down \in {"agents", "rest", "done"} => Covered \subseteq 1..Len(agents)
    <3>1. /\ pos.at \in Nat /\ pos.size \in Nat /\ Len(agents) \in Nat
      BY CrewTypes
    <3> QED
      BY <3>1 DEF CrewTyped, LoopAtAgent, Covered
  <2> QED
    BY <2>1, <2>2, <2>3 DEF CrewDown, Covered
<1>3. CASE (\E a \in Agents : Crew!AgentAdded(a)) \/ Crew!HealthPass
  BY <1>3 DEF CrewDown, Covered, Crew!AgentAdded, Crew!HealthPass, Crew!setupVars,
              Crew!eventVars, Crew!downVars
<1>4. CASE Crew!DistributeEvent
  BY <1>4 DEF CrewDown, Covered, Crew!DistributeEvent, Crew!setupVars, Crew!agentVars, Crew!downVars
<1>5. CASE Crew!ProcessorStep \/ Crew!AgentRaises
  <2>1. processor \in {"get", "agent"} /\ UNCHANGED down
    BY <1>5 DEF Crew!ProcessorStep, Crew!GetEvent, Crew!GetRaises, Crew!AgentReturns,
                Crew!AgentRaises, Crew!downVars
  <2> QED
    BY <2>1 DEF CrewDown
<1>6. CASE Crew!Shutdown
  <2>1. /\ processor' \in {"none", "ended"} /\ setup' \in {"up", "failed"}
        /\ pos' = [at |-> 1, size |-> Len(agents)]
        /\ down' = IF 1 > Len(agents) THEN "rest" ELSE "agents"
    BY <1>6 DEF Crew!Shutdown, Crew!AgentLoop
  <2>2. Covered' = {}
    BY <2>1, CrewTypes DEF Covered
  <2> QED
    BY <2>1, <2>2 DEF CrewDown
<1>7. CASE Crew!StopReturns \/ Crew!StopRaises
  <2>1. /\ down = "agents" /\ stopped' = stopped \union {agents[pos.at]} /\ Crew!NextAgent
        /\ UNCHANGED <<setup, agents, processor>>
    BY <1>7 DEF Crew!StopReturns, Crew!StopRaises, Crew!AfterFailedStop, Crew!setupVars,
                Crew!agentVars, Crew!eventVars
  <2>2. /\ pos.at \in 1..pos.size /\ pos.size \in Nat
        /\ \A i \in 1..(pos.at - 1) : agents[i] \in stopped
    BY <2>1, CrewTypes DEF CrewTyped, LoopAtAgent, CrewDown, Covered
  <2>3. \A i \in 1..pos.at : agents'[i] \in stopped'
    BY <2>1, <2>2
  <2>4. CASE down' = "raised"
    BY <2>1, <2>4 DEF CrewDown
  <2>5. CASE /\ down' = IF pos.at + 1 > pos.size THEN "rest" ELSE "agents"
             /\ pos' = [at |-> pos.at + 1, size |-> pos.size]
    <3>1. Covered' = 1..pos.at /\ down' \in {"rest", "agents"}
      BY <2>2, <2>5 DEF Covered
    <3> QED
      BY <2>1, <2>3, <3>1 DEF CrewDown
  <2> QED
    BY <2>1, <2>4, <2>5 DEF Crew!NextAgent, Crew!AgentLoop
<1>8. CASE Crew!RestEnds \/ Crew!RestRaises
  BY <1>8 DEF CrewDown, Covered, Crew!RestEnds, Crew!RestRaises, Crew!agentVars, Crew!eventVars
<1> QED
  BY <1>1, <1>2, <1>3, <1>4, <1>5, <1>6, <1>7, <1>8 DEF Crew!Next, Crew!DownStep

-----------------------------------------------------------------------------
(* The events and the rounds.                                              *)

Never(e, a) == \A k \in 1..Len(given_to[a]) : given_to[a][k] # e

Once(e, a) ==
  \E k \in 1..Len(given_to[a]) :
    /\ given_to[a][k] = e
    /\ \A l \in 1..Len(given_to[a]) : given_to[a][l] = e => l = k

\* No event is in the heap twice, and none that an agent was given.
HeapIsFresh ==
  /\ \A i, j \in 1..Len(queue) : queue[i] = queue[j] => i = j
  /\ \A i \in 1..Len(queue) : \A a \in Agents : Never(queue[i], a)

GivenExists == \A a \in Agents : \A k \in 1..Len(given_to[a]) : given_to[a][k] \in 1..given

\* Event e, which is out of the heap, has been at the first n agents.
Reached(e, n) ==
  /\ \A i \in 1..Len(queue) : queue[i] # e
  /\ \A j \in 1..n : Once(e, agents[j])
  /\ \A a \in Agents : (\A j \in 1..n : agents[j] # a) => Never(e, a)

RoundOnItsWay == processor = "agent" => \A e \in round.event : Reached(e, round.at)

CrewRounds == HeapIsFresh /\ GivenExists /\ RoundOnItsWay

CrewInv == CrewTyped /\ CrewDown /\ CrewRounds

\* Every entry of r is one of q, and no two are the same one.
PartOf(r, q) ==
  \E f \in [1..Len(r) -> 1..Len(q)] :
    /\ \A i, j \in 1..Len(r) : f[i] = f[j] => i = j
    /\ \A i \in 1..Len(r) : r[i] = q[f[i]]

LEMMA TailIsPart ==
  ASSUME NEW n \in Nat, NEW q \in Seq(1..n), Len(q) >= 1
  PROVE  /\ PartOf(Tail(q), q) /\ Head(q) = q[1]
         /\ Tail(q) \in Seq(1..n) /\ Len(Tail(q)) = Len(q) - 1
         /\ \A i \in 1..Len(Tail(q)) : Tail(q)[i] = q[i + 1]
<1>1. q # <<>> /\ Len(q) \in Nat
  BY EmptySeq
<1>2. /\ Tail(q) \in Seq(1..n) /\ Len(Tail(q)) = Len(q) - 1
      /\ \A i \in 1..Len(Tail(q)) : Tail(q)[i] = q[i + 1]
  BY <1>1, HeadTailProperties
<1>3. Head(q) = q[1]
  BY <1>1
<1> DEFINE f == [i \in 1..Len(Tail(q)) |-> i + 1]
<1>4. f \in [1..Len(Tail(q)) -> 1..Len(q)]
  BY <1>1, <1>2
<1>5. /\ \A i, j \in 1..Len(Tail(q)) : f[i] = f[j] => i = j
      /\ \A i \in 1..Len(Tail(q)) : Tail(q)[i] = q[f[i]]
  BY <1>1, <1>2
<1>6. PartOf(Tail(q), q)
  <2> HIDE DEF f
  <2> QED
    BY <1>4, <1>5 DEF PartOf
<1> QED
  BY <1>2, <1>3, <1>6

LEMMA PoppedIsPart ==
  ASSUME NEW n \in Nat, NEW q \in Seq(1..n), Len(q) >= 3
  PROVE  PartOf(Crew!Popped(q), q)
<1>1. CASE Len(q) = 3
  <2>1. Crew!Popped(q) = Tail(q)
    BY <1>1 DEF Crew!Popped
  <2>2. PartOf(Tail(q), q)
    BY TailIsPart
  <2> QED
    BY <2>1, <2>2
<1>2. CASE Len(q) # 3
  <2> DEFINE s == SubSeq(q, 2, Len(q) - 1)
             h == <<q[Len(q)]>>
             r == h \o s
             f == [i \in 1..(Len(q) - 1) |-> IF i = 1 THEN Len(q) ELSE i]
  <2>1. Len(q) \in Nat /\ q[Len(q)] \in 1..n
    OBVIOUS
  <2>2. s \in Seq(1..n) /\ Len(s) = Len(q) - 2 /\ \A i \in 1..(Len(q) - 2) : s[i] = q[i + 1]
    BY <2>1
  <2>3. h \in Seq(1..n) /\ Len(h) = 1 /\ h[1] = q[Len(q)]
    BY <2>1
  <2> HIDE DEF s, h
  <2>4. /\ r \in Seq(1..n) /\ Len(r) = Len(h) + Len(s)
        /\ \A j \in 1..(Len(h) + Len(s)) : r[j] = IF j <= Len(h) THEN h[j] ELSE s[j - Len(h)]
    <3>1. h \in Seq(1..n) /\ s \in Seq(1..n)
      BY <2>2, <2>3
    <3> HIDE DEF f
    <3> QED
      BY <3>1, JoinFact, Zenon
  <2> HIDE DEF r
  <2>5. /\ Len(r) = Len(q) - 1 /\ r[1] = q[Len(q)]
        /\ \A i \in 2..(Len(q) - 1) : r[i] = q[i]
    <3>1. Len(r) = Len(q) - 1
      BY <2>1, <2>2, <2>3, <2>4
    <3>2. r[1] = q[Len(q)]
      <4>1. 1 \in 1..(Len(h) + Len(s)) /\ 1 <= Len(h)
        BY <2>1, <2>2, <2>3
      <4>2. r[1] = h[1]
        BY <2>4, <4>1
      <4> QED
        BY <2>3, <4>2
    <3>3. ASSUME NEW i \in 2..(Len(q) - 1)
          PROVE  r[i] = q[i]
      <4>1. i - 1 \in 1..(Len(q) - 2) /\ i \in 1..(Len(h) + Len(s)) /\ ~(i <= Len(h))
        BY <2>1, <2>2, <2>3
      <4>2. r[i] = s[i - 1] /\ s[i - 1] = q[(i - 1) + 1]
        BY <2>2, <2>3, <2>4, <4>1
      <4> QED
        BY <4>2
    <3> QED
      BY <3>1, <3>2, <3>3
  <2>6. f \in [1..Len(r) -> 1..Len(q)]
    BY <2>1, <2>5
  <2>f. Len(q) >= 4 /\ \A i \in 1..Len(r) : f[i] = IF i = 1 THEN Len(q) ELSE i
    BY <1>2, <2>1, <2>5
  <2>7. /\ \A i, j \in 1..Len(r) : f[i] = f[j] => i = j
        /\ \A i \in 1..Len(r) : r[i] = q[f[i]]
    <3> HIDE DEF f
    <3>1. ASSUME NEW i \in 1..Len(r) PROVE r[i] = q[f[i]]
      <4>1. CASE i = 1
        BY <2>5, <2>f, <4>1
      <4>2. CASE i # 1
        <5>1. i \in 2..(Len(q) - 1) /\ f[i] = i
          BY <2>1, <2>5, <2>f, <4>2
        <5> QED
          BY <2>5, <5>1
      <4> QED
        BY <4>1, <4>2
    <3>2. ASSUME NEW i \in 1..Len(r), NEW j \in 1..Len(r), f[i] = f[j] PROVE i = j
      <4>1. i \in 1..(Len(q) - 1) /\ j \in 1..(Len(q) - 1)
        BY <2>5
      <4>2. /\ (i = 1 => f[i] = Len(q)) /\ (j = 1 => f[j] = Len(q))
            /\ (i # 1 => f[i] = i) /\ (j # 1 => f[j] = j)
        BY <2>f
      <4>3. Len(q) # i /\ Len(q) # j
        BY <2>1, <4>1
      <4> QED
        BY <3>2, <4>2, <4>3
    <3> QED
      BY <3>1, <3>2
  <2>8. PartOf(r, q)
    <3> HIDE DEF f
    <3> QED
      BY <2>6, <2>7 DEF PartOf
  <2>9. Crew!Popped(q) = r
    BY <1>2 DEF Crew!Popped, s, h, r
  <2> QED
    BY <2>8, <2>9
<1> QED
  BY <1>1, <1>2

LEMMA OnceCounts ==
  ASSUME NEW e, NEW a, Once(e, a)
  PROVE  Crew!Times(e, a) = 1
<1>1. PICK k \in 1..Len(given_to[a]) :
        /\ given_to[a][k] = e
        /\ \A l \in 1..Len(given_to[a]) : given_to[a][l] = e => l = k
  BY DEF Once
<1>2. {i \in 1..Len(given_to[a]) : given_to[a][i] = e} = {k}
  BY <1>1
<1> QED
  BY <1>2, SameCount, FS_Singleton DEF Crew!Times

LEMMA HeapLeft ==
  ASSUME HeapIsFresh, PartOf(queue', queue)
  PROVE  /\ \A i, j \in 1..Len(queue') : queue'[i] = queue'[j] => i = j
         /\ \A i \in 1..Len(queue') : \E j \in 1..Len(queue) : queue'[i] = queue[j]
         /\ \A i \in 1..Len(queue') : \A a \in Agents : Never(queue'[i], a)
<1>1. PICK f \in [1..Len(queue') -> 1..Len(queue)] :
        /\ \A i, j \in 1..Len(queue') : f[i] = f[j] => i = j
        /\ \A i \in 1..Len(queue') : queue'[i] = queue[f[i]]
  BY DEF PartOf
<1>2. \A i \in 1..Len(queue') : f[i] \in 1..Len(queue)
  BY <1>1
<1>3. ASSUME NEW i \in 1..Len(queue'), NEW j \in 1..Len(queue'), queue'[i] = queue'[j]
      PROVE  i = j
  <2>1. queue[f[i]] = queue[f[j]]
    BY <1>1, <1>3
  <2> QED
    BY <1>1, <1>2, <2>1 DEF HeapIsFresh
<1>4. ASSUME NEW i \in 1..Len(queue'), NEW a \in Agents
      PROVE  Never(queue'[i], a)
  BY <1>1, <1>2 DEF HeapIsFresh
<1> QED
  BY <1>1, <1>2, <1>3, <1>4

\* The heap and the events at the agents after a step that gives no agent one.
LEMMA HeapKept ==
  ASSUME HeapIsFresh, GivenExists, PartOf(queue', queue), UNCHANGED <<given, given_to>>
  PROVE  HeapIsFresh' /\ GivenExists'
<1>1. HeapIsFresh'
  BY HeapLeft DEF HeapIsFresh, Never
<1> QED
  BY <1>1 DEF GivenExists

\* An agent is given an event it has not been given.
LEMMA AgentGiven ==
  ASSUME CrewTyped, NEW b \in Agents, NEW e \in 1..given,
         given_to' = [given_to EXCEPT ![b] = Append(@, e)]
  PROVE  /\ \A a \in Agents : a # b => given_to'[a] = given_to[a]
         /\ Never(e, b) => Once(e, b)'
         /\ \A x : x # e /\ Never(x, b) => Never(x, b)'
         /\ \A k \in 1..Len(given_to'[b]) :
              given_to'[b][k] = e \/ \E l \in 1..Len(given_to[b]) : given_to'[b][k] = given_to[b][l]
<1> DEFINE g == given_to[b]
           h == given_to'[b]
<1>1. e \in Crew!Events /\ g \in Seq(Crew!Events)
  BY CrewTypes
<1>2. h = Append(g, e)
  BY CrewTypes
<1>3. /\ Len(h) = Len(g) + 1 /\ Len(g) \in Nat /\ h[Len(g) + 1] = e
      /\ \A i \in 1..Len(g) : h[i] = g[i]
  <2> HIDE DEF g, h
  <2> QED
    BY <1>1, <1>2, AppendFact
<1>4. \A a \in Agents : a # b => given_to'[a] = given_to[a]
  BY CrewTypes
<1>5. \A k \in 1..Len(h) : k = Len(g) + 1 \/ k \in 1..Len(g)
  <2> HIDE DEF g, h
  <2> QED
    BY <1>3
<1>6. Never(e, b) => Once(e, b)'
  <2> SUFFICES ASSUME \A k \in 1..Len(g) : g[k] # e
               PROVE  \E k \in 1..Len(h) : h[k] = e /\ \A l \in 1..Len(h) : h[l] = e => l = k
    BY DEF Never, Once
  <2> HIDE DEF g, h
  <2>1. Len(g) + 1 \in 1..Len(h)
    BY <1>3
  <2>2. \A l \in 1..Len(h) : h[l] = e => l = Len(g) + 1
    BY <1>3, <1>5
  <2> QED
    BY <1>3, <2>1, <2>2
<1>7. \A x : x # e /\ Never(x, b) => Never(x, b)'
  <2> SUFFICES ASSUME NEW x, x # e, \A k \in 1..Len(g) : g[k] # x
               PROVE  \A k \in 1..Len(h) : h[k] # x
    BY DEF Never
  <2> HIDE DEF g, h
  <2> QED
    BY <1>3, <1>5
<1>8. \A k \in 1..Len(h) : h[k] = e \/ \E l \in 1..Len(g) : h[k] = g[l]
  <2> HIDE DEF g, h
  <2> QED
    BY <1>3, <1>5
<1> QED
  BY <1>4, <1>6, <1>7, <1>8

\* What a step shows that hands event e round from the i-th agent on.
LEMMA HandRoundReaches ==
  ASSUME CrewTyped, CrewRounds, NEW e \in 1..given, NEW i \in 1..(Len(agents) + 1),
         Crew!HandRound(e, i, Len(agents)), PartOf(queue', queue), UNCHANGED <<agents, given>>,
         \A k \in 1..Len(queue') : queue'[k] # e,
         \A j \in 1..(i - 1) : Once(e, agents[j]),
         \A a \in Agents : (\A j \in 1..(i - 1) : agents[j] # a) => Never(e, a)
  PROVE  CrewRounds' /\ \A x \in ended' \ ended : \A a \in Crew!Known : Crew!Times(x, a)' = 1
<1>1. HeapIsFresh /\ GivenExists /\ Len(agents) \in Nat /\ i \in Nat
  BY CrewTypes DEF CrewRounds
<1>2. CASE /\ i > Len(agents) /\ processor' = "get" /\ ended' = ended \union {e}
           /\ UNCHANGED given_to
  <2>1. \A a \in Crew!Known : Crew!Times(e, a) = 1
    <3>1. i - 1 = Len(agents)
      BY <1>1, <1>2
    <3> QED
      BY <3>1, OnceCounts DEF Crew!Known
  <2>2. \A a : Crew!Times(e, a)' = Crew!Times(e, a)
    BY <1>2 DEF Crew!Times
  <2>3. HeapIsFresh' /\ GivenExists' /\ RoundOnItsWay'
    BY <1>1, <1>2, HeapKept DEF RoundOnItsWay
  <2> QED
    BY <1>2, <2>1, <2>2, <2>3 DEF CrewRounds
<1>3. CASE processor' = "get" /\ UNCHANGED <<ended, given_to>>
  BY <1>1, <1>3, HeapKept DEF CrewRounds, RoundOnItsWay
<1>4. CASE /\ i <= Len(agents) /\ processor' = "agent" /\ UNCHANGED ended
           /\ round' = [event |-> {e}, at |-> i, size |-> Len(agents)]
           /\ given_to' = [given_to EXCEPT ![agents[i]] = Append(@, e)]
  <2>0. i \in 1..Len(agents) /\ \A j \in 1..(i - 1) : j \in 1..Len(agents) /\ j # i
    BY <1>1, <1>4
  <2>b. PICK b \in Agents : b = agents[i]
    BY <2>0, CrewTypes
  <2>1. i \in 1..Len(agents) /\ \A j \in 1..(i - 1) : agents[j] # b
    BY <2>0, <2>b, CrewTypes DEF CrewTyped, AgentsOnce
  <2>2. Never(e, b)
    BY <2>1
  <2>3. /\ \A a \in Agents : a # b => given_to'[a] = given_to[a]
        /\ Once(e, b)'
        /\ \A x : x # e /\ Never(x, b) => Never(x, b)'
        /\ \A k \in 1..Len(given_to'[b]) :
             given_to'[b][k] = e \/ \E l \in 1..Len(given_to[b]) : given_to'[b][k] = given_to[b][l]
    <3>1. given_to' = [given_to EXCEPT ![b] = Append(@, e)]
      BY <1>4, <2>b
    <3> QED
      BY <2>2, <3>1, AgentGiven
  <2>4. \A x : \A a \in Agents : x # e /\ Never(x, a) => Never(x, a)'
    BY <2>3 DEF Never
  <2>5. HeapIsFresh'
    <3>1. \A k \in 1..Len(queue') : \A a \in Agents : Never(queue'[k], a)
      BY <1>1, HeapLeft
    <3>2. \A k \in 1..Len(queue') : \A a \in Agents :
            \A l \in 1..Len(given_to'[a]) : given_to'[a][l] # queue'[k]
      BY <2>4, <3>1 DEF Never
    <3>3. \A k, l \in 1..Len(queue') : queue'[k] = queue'[l] => k = l
      BY <1>1, HeapLeft
    <3> QED
      BY <3>2, <3>3 DEF HeapIsFresh, Never
  <2>6. GivenExists'
    <3>1. ASSUME NEW a \in Agents, NEW k \in 1..Len(given_to'[a])
          PROVE  given_to'[a][k] \in 1..given
      <4>1. CASE a = b
        BY <1>1, <2>3, <3>1, <4>1 DEF GivenExists
      <4>2. CASE a # b
        <5>1. given_to'[a] = given_to[a]
          BY <2>3, <3>1, <4>2
        <5> QED
          BY <1>1, <3>1, <5>1 DEF GivenExists
      <4> QED
        BY <4>1, <4>2
    <3> QED
      BY <3>1 DEF GivenExists
  <2>7. Reached(e, i)'
    <3>1. \A j \in 1..i : Once(e, agents[j])'
      <4>1. ASSUME NEW j \in 1..(i - 1)
            PROVE  Once(e, agents[j])'
        <5>1. agents[j] \in Agents /\ agents[j] # b /\ Once(e, agents[j])
          <6>1. j \in 1..Len(agents) /\ agents[j] # b
            BY <2>0, <2>1
          <6>2. agents[j] \in Agents
            BY <6>1, CrewTypes
          <6>3. Once(e, agents[j])
            BY <1>1 DEF Reached
          <6> QED
            BY <6>1, <6>2, <6>3
        <5>2. given_to'[agents[j]] = given_to[agents[j]] /\ agents'[j] = agents[j]
          BY <2>3, <5>1
        <5> QED
          BY <5>1, <5>2 DEF Once
      <4>2. Once(e, agents[i])'
        BY <2>3, <2>b DEF Once
      <4> QED
        BY <1>1, <4>1, <4>2
    <3>2. ASSUME NEW a \in Agents, \A j \in 1..i : agents[j] # a
          PROVE  Never(e, a)'
      <4>1. a # b /\ Never(e, a)
        BY <1>1, <2>1, <2>b, <3>2
      <4> QED
        BY <2>3, <4>1 DEF Never
    <3> QED
      BY <3>1, <3>2 DEF Reached
  <2>8. RoundOnItsWay'
    <3>1. round'.event = {e} /\ round'.at = i
      BY <1>4
    <3> QED
      BY <2>7, <3>1 DEF RoundOnItsWay
  <2> QED
    BY <1>4, <2>5, <2>6, <2>8 DEF CrewRounds
<1> QED
  BY <1>2, <1>3, <1>4 DEF Crew!HandRound, Crew!RoundOver

\* What a step of the task of _process_events shows of the events.
ReachesAll == \A e \in ended' \ ended : \A a \in Crew!Known : Crew!Times(e, a)' = 1

LEMMA CrewRoundsInit == Crew!Init => CrewRounds
<1> SUFFICES ASSUME Crew!Init
             PROVE  CrewRounds
  OBVIOUS
<1>1. queue = <<>> /\ processor = "none" /\ \A a \in Agents : given_to[a] = <<>>
  BY DEF Crew!Init
<1>2. Len(queue) = 0 /\ \A a \in Agents : Len(given_to[a]) = 0
  BY <1>1, EmptySeq
<1> QED
  BY <1>1, <1>2 DEF CrewRounds, HeapIsFresh, GivenExists, RoundOnItsWay

\* The steps that do not touch the events.
LEMMA RoundsKept ==
  ASSUME CrewRounds,
         UNCHANGED <<agents, given, given_to, ended>>, PartOf(queue', queue),
         processor' = "agent" => UNCHANGED <<processor, round, queue>>
  PROVE  CrewRounds' /\ ReachesAll
<1>1. HeapIsFresh' /\ GivenExists'
  BY HeapKept DEF CrewRounds
<1>2. RoundOnItsWay'
  BY DEF CrewRounds, RoundOnItsWay, Reached, Once, Never
<1> QED
  BY <1>1, <1>2 DEF CrewRounds, ReachesAll

LEMMA PartOfItself == \A q : PartOf(q, q)
<1> TAKE q
<1> DEFINE f == [i \in 1..Len(q) |-> i]
<1>1. /\ f \in [1..Len(q) -> 1..Len(q)]
      /\ \A i, j \in 1..Len(q) : f[i] = f[j] => i = j
      /\ \A i \in 1..Len(q) : q[i] = q[f[i]]
  OBVIOUS
<1> HIDE DEF f
<1> QED
  BY <1>1 DEF PartOf

LEMMA AddAgentRounds ==
  ASSUME CrewTyped, CrewRounds, NEW a \in Agents, Crew!AddAgent(a)
  PROVE  CrewRounds' /\ ReachesAll
<1>1. UNCHANGED <<given, given_to, ended, queue, processor, round>>
  BY DEF Crew!AddAgent, Crew!eventVars
<1>2. \A i \in 1..Len(agents) : agents'[i] = agents[i]
  BY AddAgentTyped
<1>3. HeapIsFresh' /\ GivenExists'
  BY <1>1, PartOfItself, HeapKept DEF CrewRounds
<1>4. RoundOnItsWay'
  <2> SUFFICES ASSUME processor = "agent", NEW e \in round.event
               PROVE  Reached(e, round.at)'
    BY <1>1 DEF RoundOnItsWay
  <2>1. Reached(e, round.at) /\ round.at \in 1..Len(agents)
    <3>1. round.at \in 1..round.size /\ round.size <= Len(agents)
      BY DEF CrewTyped, RoundAtAgent
    <3>2. round.size \in Nat /\ Len(agents) \in Nat
      BY CrewTypes
    <3> QED
      BY <3>1, <3>2 DEF CrewRounds, RoundOnItsWay
  <2>2. \A j \in 1..round.at : agents'[j] = agents[j]
    <3>1. round.at \in Nat /\ Len(agents) \in Nat
      BY <2>1, CrewTypes
    <3> QED
      BY <1>2, <2>1, <3>1
  <2>3. ASSUME NEW j \in 1..round.at
        PROVE  Once(e, agents[j])'
    <3>1. Once(e, agents[j]) /\ agents'[j] = agents[j]
      BY <2>1, <2>2 DEF Reached
    <3>2. given_to' = given_to
      BY <1>1
    <3> QED
      BY <3>1, <3>2 DEF Once
  <2>4. \A b \in Agents : (\A j \in 1..round.at : agents'[j] # b) => Never(e, b)'
    BY <1>1, <2>1, <2>2 DEF Reached, Never
  <2> QED
    BY <1>1, <2>1, <2>3, <2>4 DEF Reached
<1> QED
  BY <1>1, <1>3, <1>4 DEF CrewRounds, ReachesAll

LEMMA DistributeRounds ==
  ASSUME CrewTyped, CrewRounds, Crew!DistributeEvent
  PROVE  CrewRounds' /\ ReachesAll
<1>1. /\ given' = given + 1 /\ given \in Nat /\ queue \in Seq(1..given)
      /\ queue' = Append(queue, given') /\ UNCHANGED <<agents, given_to, ended, round>>
  BY CrewTypes DEF Crew!DistributeEvent, Crew!agentVars
<1>2. /\ Len(queue') = Len(queue) + 1 /\ Len(queue) \in Nat /\ queue'[Len(queue) + 1] = given'
      /\ \A i \in 1..Len(queue) : queue'[i] = queue[i] /\ queue[i] \in 1..given
  <2>1. queue \in Seq(1..given') /\ given' \in 1..given'
    BY <1>1
  <2>2. /\ Len(queue') = Len(queue) + 1 /\ Len(queue) \in Nat /\ queue'[Len(queue) + 1] = given'
        /\ \A i \in 1..Len(queue) : queue'[i] = queue[i]
    BY <1>1, <2>1, AppendFact
  <2>3. \A i \in 1..Len(queue) : queue[i] \in 1..given
    BY <1>1
  <2> QED
    BY <2>2, <2>3
<1>3. \A i \in 1..Len(queue') : i = Len(queue) + 1 \/ i \in 1..Len(queue)
  BY <1>2
<1>4. given' \notin 1..given
  BY <1>1
<1>5. \A a \in Agents : Never(given', a)
  BY <1>4 DEF Never, CrewRounds, GivenExists
<1>6. HeapIsFresh'
  <2>1. ASSUME NEW i \in 1..Len(queue'), NEW j \in 1..Len(queue'), queue'[i] = queue'[j]
        PROVE  i = j
    BY <1>2, <1>3, <1>4, <2>1 DEF CrewRounds, HeapIsFresh
  <2>2. \A i \in 1..Len(queue') : \A a \in Agents : Never(queue'[i], a)
    BY <1>2, <1>3, <1>5 DEF CrewRounds, HeapIsFresh
  <2> QED
    BY <1>1, <2>1, <2>2 DEF HeapIsFresh, Never
<1>7. GivenExists'
  BY <1>1 DEF CrewRounds, GivenExists
<1>8. RoundOnItsWay'
  <2> SUFFICES ASSUME processor' = "agent", NEW e \in round.event
               PROVE  Reached(e, round.at)'
    BY <1>1 DEF RoundOnItsWay
  <2>1. processor = "agent"
    <3>1. processor' = "get" \/ processor' = processor
      BY Zenon DEF Crew!DistributeEvent
    <3> QED
      BY <3>1
  <2>2. Reached(e, round.at) /\ e \in 1..given
    BY <2>1 DEF CrewRounds, RoundOnItsWay, CrewTyped, RoundAtAgent
  <2>3. \A i \in 1..Len(queue') : queue'[i] # e
    BY <1>2, <1>3, <1>4, <2>2 DEF Reached
  <2> QED
    BY <1>1, <2>2, <2>3 DEF Reached, Once, Never
<1> QED
  BY <1>1, <1>6, <1>7, <1>8 DEF CrewRounds, ReachesAll

LEMMA ProcessorRounds ==
  ASSUME CrewTyped, CrewRounds, Crew!ProcessorStep \/ Crew!AgentRaises
  PROVE  CrewRounds' /\ ReachesAll
<1>0. given \in Nat /\ queue \in Seq(1..given) /\ Len(agents) \in Nat /\ Len(queue) \in Nat
  BY CrewTypes
<1>1. CASE Crew!GetEvent
  <2>1. /\ Len(queue) >= 1 /\ queue' = Tail(queue) /\ UNCHANGED <<agents, given>>
        /\ Crew!HandRound(Head(queue), 1, Len(agents))
    BY <1>0, <1>1 DEF Crew!GetEvent, Crew!agentVars
  <2>2. /\ PartOf(queue', queue) /\ Head(queue) = queue[1] /\ Len(queue') = Len(queue) - 1
        /\ \A k \in 1..Len(queue') : queue'[k] = queue[k + 1]
    BY <1>0, <2>1, TailIsPart
  <2>3. PICK e \in 1..given : e = Head(queue)
    BY <1>0, <2>1, <2>2
  <2>4. \A k \in 1..Len(queue') : queue'[k] # e
    <3>1. \A k \in 1..Len(queue') : k + 1 \in 1..Len(queue) /\ k + 1 # 1 /\ 1 \in 1..Len(queue)
      BY <1>0, <2>1, <2>2
    <3> QED
      BY <2>2, <2>3, <3>1 DEF CrewRounds, HeapIsFresh
  <2>5. \A a \in Agents : Never(e, a)
    BY <1>0, <2>1, <2>2, <2>3 DEF CrewRounds, HeapIsFresh
  <2>6. 1 \in 1..(Len(agents) + 1) /\ 1..(1 - 1) = {}
    BY <1>0
  <2>7. \A j \in 1..(1 - 1) : Once(e, agents[j])
    BY <2>6
  <2>8. Crew!HandRound(e, 1, Len(agents))
    BY <2>1, <2>3
  <2> QED
    BY <2>1, <2>2, <2>4, <2>5, <2>6, <2>7, <2>8, HandRoundReaches DEF ReachesAll
<1>2. CASE Crew!GetRaises
  <2>1. PartOf(queue', queue)
    BY <1>0, <1>2, PoppedIsPart DEF Crew!GetRaises
  <2> QED
    BY <1>2, <2>1, RoundsKept DEF Crew!GetRaises, Crew!agentVars
<1>3. CASE Crew!AgentReturns \/ Crew!AgentRaises
  <2>1. /\ processor = "agent" /\ Crew!Onward
        /\ UNCHANGED <<agents, given, queue>>
    BY <1>3 DEF Crew!AgentReturns, Crew!AgentRaises, Crew!AfterRaise, Crew!agentVars
  <2>2. PartOf(queue', queue)
    BY <2>1, PartOfItself
  <2>3. CASE Crew!RoundOver /\ UNCHANGED <<ended, given_to>>
    BY <2>1, <2>2, <2>3, RoundsKept DEF Crew!RoundOver
  <2>4. CASE \E e \in 1..given :
               /\ round.event = {e} /\ round.at \in 1..Len(agents)
               /\ round.size = Len(agents)
               /\ Crew!HandRound(e, round.at + 1, Len(agents))
    <3>1. PICK e \in 1..given : /\ round.event = {e} /\ round.at \in 1..Len(agents)
                                /\ Crew!HandRound(e, round.at + 1, Len(agents))
      BY <2>4
    <3>2. Reached(e, round.at)
      BY <2>1, <3>1 DEF CrewRounds, RoundOnItsWay
    <3>3. PICK i \in 1..(Len(agents) + 1) : i = round.at + 1 /\ i - 1 = round.at
      BY <1>0, <3>1
    <3>4. /\ \A k \in 1..Len(queue') : queue'[k] # e
          /\ \A j \in 1..(i - 1) : Once(e, agents[j])
          /\ \A a \in Agents : (\A j \in 1..(i - 1) : agents[j] # a) => Never(e, a)
      BY <2>1, <3>2, <3>3 DEF Reached
    <3>5. Crew!HandRound(e, i, Len(agents))
      BY <3>1, <3>3
    <3> QED
      BY <2>1, <2>2, <3>4, <3>5, HandRoundReaches DEF ReachesAll
  <2> QED
    BY <2>1, <2>3, <2>4, OnwardIs
<1> QED
  BY <1>1, <1>2, <1>3 DEF Crew!ProcessorStep

LEMMA CrewRoundsNext ==
  ASSUME CrewTyped, CrewRounds, Crew!Next
  PROVE  CrewRounds' /\ ReachesAll
<1>1. CASE \/ Crew!Initialize \/ Crew!SetupStep \/ Crew!InitializeRaises
           \/ (\E a \in Agents : Crew!AgentAdded(a)) \/ Crew!HealthPass
           \/ Crew!DownStep \/ Crew!StopRaises \/ Crew!RestRaises
  <2>1. UNCHANGED <<agents, given, given_to, ended, queue, processor, round>>
    BY <1>1 DEF Crew!Initialize, Crew!SetupStep, Crew!RegistryStarts, Crew!MemoryStarts,
       Crew!InitializeRaises, Crew!AgentAdded, Crew!HealthPass, Crew!DownStep,
       Crew!StopReturns, Crew!StopRaises, Crew!RestEnds, Crew!RestRaises,
       Crew!agentVars, Crew!eventVars
  <2> QED
    BY <2>1, PartOfItself, RoundsKept
<1>2. CASE Crew!Shutdown
  <2>1. /\ UNCHANGED <<agents, given, given_to, ended, queue>>
        /\ processor' \in {"none", "ended"}
    BY <1>2 DEF Crew!Shutdown, Crew!agentVars
  <2> QED
    BY <2>1, PartOfItself, RoundsKept
<1> QED
  BY <1>1, <1>2, AddAgentRounds, DistributeRounds, ProcessorRounds DEF Crew!Next

LEMMA CrewInit == Crew!Init => CrewInv
  BY CrewTypedInit, CrewDownInit, CrewRoundsInit DEF CrewInv

LEMMA CrewNext == CrewInv /\ Crew!Next => CrewInv' /\ ReachesAll
  BY CrewTypedNext, CrewDownNext, CrewRoundsNext DEF CrewInv

LEMMA CrewStutters == CrewInv /\ UNCHANGED crewVars => CrewInv'
<1> SUFFICES ASSUME CrewInv, UNCHANGED crewVars
             PROVE  CrewInv'
  OBVIOUS
<1>1. CrewTyped'
  BY CrewTypedKept DEF CrewInv
<1>2. CrewDown'
  BY DEF CrewInv, CrewDown, Covered, crewVars
<1>3. UNCHANGED <<agents, given, given_to, ended, queue, processor, round>>
  BY DEF crewVars
<1>4. CrewRounds'
  BY <1>3, PartOfItself, RoundsKept DEF CrewInv
<1> QED
  BY <1>1, <1>2, <1>4 DEF CrewInv

LEMMA CrewInductive == CrewInv /\ [Crew!Next]_(Crew!vars) => CrewInv'
<1>1. UNCHANGED Crew!vars => UNCHANGED crewVars
  BY DEF Crew!vars, crewVars, Crew!setupVars, Crew!agentVars, Crew!eventVars, Crew!downVars
<1> QED
  BY <1>1, CrewNext, CrewStutters

\* DownIsQuiet.
THEOREM CrewShutsDown == Crew!Spec => []DownIsQuiet
<1>1. CrewInv => DownIsQuiet
  BY DEF CrewInv, CrewDown, Covered, DownIsQuiet, Crew!DownIsQuiet
<1> QED
  BY <1>1, CrewInit, CrewInductive, PTL DEF Crew!Spec

\* RoundReachesAll.
THEOREM RoundsReachAll == Crew!Spec => RoundReachesAll
<1>1. CrewInv /\ [Crew!Next]_(Crew!vars) =>
        [\A e \in ended' \ ended : \A a \in Crew!Known : Crew!Times(e, a)' = 1]_(Crew!vars)
  BY CrewNext DEF ReachesAll
<1> QED
  BY <1>1, CrewInit, CrewInductive, PTL DEF Crew!Spec, RoundReachesAll, Crew!RoundReachesAll

-----------------------------------------------------------------------------
(* The four parts in the one specification the runs check.                 *)

PartsInv == BlockchainInv /\ CrewInv /\ MemoryInv /\ FilesInv

\* The part of the state that a step leaves alone.
LEMMA PartsStutter ==
  /\ BlockchainInv /\ UNCHANGED vars => BlockchainInv'
  /\ CrewInv /\ UNCHANGED crewVars => CrewInv'
  /\ MemoryInv /\ UNCHANGED memoryVars => MemoryInv'
  /\ FilesInv /\ UNCHANGED filesVars => FilesInv'
<1>1. BlockchainInv /\ UNCHANGED vars => BlockchainInv'
  BY BlockchainInvStep
<1>2. MemoryInv /\ UNCHANGED memoryVars => MemoryInv'
  BY TasksKeep DEF memoryVars
<1> QED
  BY <1>1, <1>2, CrewStutters, FilesStutter

LEMMA PartsStep ==
  ASSUME PartsInv, [BlockchainStep \/ CrewStep \/ MemoryStep \/ FilesStep]_partsVars
  PROVE  PartsInv'
<1> USE DEF PartsInv
<1>1. CASE BlockchainStep
  <2>1. BlockchainInv'
    BY <1>1, BlockchainInvStep DEF BlockchainStep
  <2> QED
    BY <1>1, <2>1, PartsStutter DEF BlockchainStep
<1>2. CASE CrewStep
  <2>1. CrewInv'
    BY <1>2, CrewNext DEF CrewStep
  <2> QED
    BY <1>2, <2>1, PartsStutter DEF CrewStep
<1>3. CASE MemoryStep
  <2>1. MemoryInv'
    BY <1>3, MemoryStepKeeps DEF MemoryStep
  <2> QED
    BY <1>3, <2>1, PartsStutter DEF MemoryStep
<1>4. CASE FilesStep
  <2>1. FilesInv'
    BY <1>4, FilesKeep DEF FilesStep
  <2> QED
    BY <1>4, <2>1, PartsStutter DEF FilesStep
<1>5. CASE UNCHANGED partsVars
  BY <1>5, PartsStutter DEF partsVars
<1> QED
  BY <1>1, <1>2, <1>3, <1>4, <1>5

LEMMA PartsInductive == PartsSpec => []PartsInv
<1>1. PartsInit => PartsInv
  BY BlockchainInvInit, CrewInit, MemoryInit, FilesInit DEF PartsInit, PartsInv
<1> QED
  BY <1>1, PartsStep, PTL DEF PartsSpec

\* PartsTypeOK, of the specification the parts are put together in.
THEOREM PartsTypeCorrect == PartsSpec => []PartsTypeOK
<1>1. PartsInv => PartsTypeOK
  BY BlockchainTypes DEF PartsInv, PartsTypeOK, CrewInv, CrewTyped, MemoryInv, FilesInv
<1> QED
  BY <1>1, PartsInductive, PTL

=============================================================================
