--------------------------- MODULE MCSignalPipeline ---------------------------
(* Momentum and ATR on both sides of the gates, and every indicator on both *)
(* sides of its thresholds.                                                 *)
EXTENDS SignalPipeline

MCMarkets == [momentum : {-400, -20, -19, 20, 400}, atr : {0, 90, 150, 400}, trend : {-1, 0, 1}]

MCReadings ==
  [rsi |-> {20, 21, 39, 40, 60, 61, 79, 80}, bollinger |-> {5, 6, 29, 30, 70, 71, 94, 95},
   stochastic |-> {19, 20, 80, 81}, williams |-> {-80, -79, -21, -20},
   ema |-> {-1, 0, 1}, macd |-> {-1, 0, 1}, macdSignal |-> {-1, 0, 1},
   change5m |-> {-1, 0, 1}, change15m |-> {-1, 0, 1}]

MCProposed == {2500, 6499, 6500, 9500}
MCScales == {0, 6999, 7000, 15000, 90000}
MCAdvised == {-1, 6500, 20000}
MCPnls == {-3, 0, 4}
==============================================================================
