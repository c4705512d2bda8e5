SPECIFICATION Spec
CONSTANTS
  Scale = 10
  SlippageRate = 1
  TakerFeeRate = 1
  StopLossPct = 2
  TrailingStopPct = 3
  FeeAndSlippage = 2
  Target = 0
  MinTrade = 3
  MaxTradeLossPct = 3
  MaxDailyLossPct = 3
  Proposals = {2, 5}
  CashLevels = {0, 4, 5, 8}
  EquityLevels = {2, 6, 8, 10}
  Values = {0, 4, 6}
  Results <- MCResults
  StartingCapital = 10
  MaxLoss = 4
  MaxDay = 3
INVARIANTS
  GateCountsToday
  
  SizesAreCovered
