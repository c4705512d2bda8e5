SPECIFICATION FairSpec
CONSTANTS
  Markets = {"moving", "still"}
  Prices <- MCPrices
  StopDrop = 1
  MaxMoves = 2
  MaxRestarts = 1
PROPERTIES
  LossesAreCut
  ReceivedQuotesAreUsed
