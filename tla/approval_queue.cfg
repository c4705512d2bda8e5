SPECIFICATION QueueSpec
CONSTANTS
  Markets = {m1, m2}
  TTL = 1
  MaxRequests = 4
  MaxTime = 3
  MaxRestarts = 2
SYMMETRY MarketSymmetry
INVARIANTS
  OnePendingPerMarket
  QueueIsOnFile
  NoHiddenRequests
PROPERTIES
  DecisionsAreFinal
  ImplementsApprovalLifecycle
