SPECIFICATION FairSpec
CONSTANTS
  Markets = {m1}
  Sides = {"buy"}
  Finals = {"filled", "canceled"}
  Environments = {"live"}
  MaxAttempts = 2
  MaxRequests = 2
  MaxOrders = 2
  MaxRestarts = 1
INVARIANTS
  LedgerTellsExchange
  DuplicatesComeFromRetries
PROPERTIES
  ResultsAreFinal
  EndsAreSeen
