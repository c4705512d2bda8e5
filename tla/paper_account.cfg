SPECIFICATION Spec
CONSTANTS
  Scale = 10
  SlippageRate = 1
  TakerFeeRate = 1
  StopLossPct = 2
  TrailingStopPct = 3
  Markets = {m1}
  Ideas = {i1, i2}
  NoIdea = noidea
  Sizes = {1}
  Quotes = {10, 14}
  ExchangeCash = {5000}
  StartingCapital = 1600
  Environment = "paper"
  AlertWebhook = FALSE
  MaxPositions = 2
  MaxRestarts = 1
SYMMETRY IdeaSymmetry
INVARIANTS
  OnePositionPerDirection
  RowsMatchBook
  SettledAtMostOnce
  LedgerMatchesOutcomes
  CrashForgetsOneLossAtMost
  LearnerFollowsOutcomes
  CashLagsOnlyBehindStops
PROPERTIES
  OnlyShortClosesOverdraw
  ImplementsPositionBook
