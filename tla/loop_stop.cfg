SPECIFICATION FairSpec
CONSTANTS
  Markets = {m1, m2}
  LiveMarkets = {m2}
  TTL = 1
  MaxRequests = 2
  MaxTime = 2
  MaxRestarts = 1
  TradingModes = {"semi_automated", "fully_automated"}
  Environments = {"paper", "live"}
  AlertWebhook = TRUE
  PersistMayFail = FALSE
  MaxAutoTrades = 1
INVARIANTS
  AtMostOneTradePerApproval
PROPERTIES
  NothingStartsWhileStopped
  StopSurvivesRestart
  StopQuiesces
