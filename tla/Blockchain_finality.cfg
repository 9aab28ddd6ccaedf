\* One transaction, confirmed and then rejected.
SPECIFICATION Spec
CONSTANTS
  Proposals = {}
  Voters = {}
  QuorumSize = 2
  Waits = {}
  Txs = {t1}
  RequiredConfirmations = 2
  Contracts = {}
  Listeners = {}
  NoProposal = none
  MaxConfirmations = 2
  MaxEvents = 0
  MaxRaises = 0
PROPERTY ConfirmedIsFinal
CHECK_DEADLOCK FALSE
