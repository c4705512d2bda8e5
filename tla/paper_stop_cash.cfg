SPECIFICATION Spec
CONSTANTS
  Scale = 10
  SlippageRate = 1
  TakerFeeRate = 1
  StopLossPct = 2
  TrailingStopPct = 3
  Markets = {m1}
  Ideas = {i1}
  NoIdea = noidea
  Sizes = {1}
  Quotes = {10, 14}
  ExchangeCash = {5000}
  StartingCapital = 3500
  Environment = "paper"
  AlertWebhook = FALSE
  MaxPositions = 1
  MaxRestarts = 1
PROPERTIES
  CashSurvivesCleanRestart
