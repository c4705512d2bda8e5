SPECIFICATION Spec
CONSTANTS
  Scale = 10
  SlippageRate = 1
  TakerFeeRate = 1
  StopLossPct = 2
  TrailingStopPct = 3
  Markets = {m1}
  Ideas = {i1, i2}
  NoIdea = noidea
  Sizes = {1, 2}
  Quotes = {10, 14}
  ExchangeCash = {5000}
  StartingCapital = 3500
  Environment = "live"
  AlertWebhook = TRUE
  MaxPositions = 2
  MaxRestarts = 0
SYMMETRY IdeaSymmetry
INVARIANTS
  SettledAtMostOnce
PROPERTIES
  PnlMatchesCash
