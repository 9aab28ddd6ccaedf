\* One proposal with a quorum of two, one transaction, one contract with two
\* listeners; two agents, one of which may have no can_handle_event, and three
\* events; the monitor of the memory and two callers; two memories in files.
SPECIFICATION PartsSpec
CONSTANTS
  Proposals = {p1}
  Voters = {v1, v2}
  QuorumSize = 2
  Waits = {c1}
  Txs = {t1}
  RequiredConfirmations = 2
  Contracts = {k1}
  Listeners = {l1, l2}
  NoProposal = none
  MaxConfirmations = 3
  MaxEvents = 2
  MaxRaises = 1
  Agents = {a1, a2}
  Mutable = {a2}
  MaxDistributed = 3
  Callers = {h1, h2}
  MaxPasses = 1
  Ids = {i1, i2}
  NoId = noid
INVARIANTS AgreedHasQuorum PendingIsListed
INVARIANTS PartsTypeOK DownIsQuiet ShutdownIsOrderly KeptIsFound
PROPERTIES EventsAreHeard RoundReachesAll QueueIsWorkedOff ShutdownReturns
CHECK_DEADLOCK FALSE
