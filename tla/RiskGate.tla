------------------------------- MODULE RiskGate -------------------------------
(***************************************************************************)
(* RiskEngine (risk/engine.py): what evaluate_trade lets through, the loss *)
(* of the UTC day it counts against, and how both live through midnight    *)
(* and restarts.                                                           *)
(*                                                                         *)
(* Cash, positions, prices and results are inputs: the account they belong *)
(* to is PaperTrading's, and so is a crash between the record of a result  *)
(* and the record of its loss.  Money is in whole units; an order may be   *)
(* shrunk to cash / (1 + FeeAndSlippage), so order sizes are in units of   *)
(* 1 / (Scale + FeeAndSlippage).  The loop always passes cash and a price, *)
(* so the checks it would skip without them are made.                      *)
(***************************************************************************)
EXTENDS PaperAccounting

CONSTANTS
  FeeAndSlippage,   \* settings.fee_and_slippage, over Scale
  Target,           \* settings.target_trade_amount; 0: the strategy proposes
  MinTrade,         \* settings.min_trade_size
  MaxTradeLossPct,  \* settings.max_loss_per_trade_percent, over Scale
  MaxDailyLossPct,  \* settings.max_daily_loss_percent, over Scale
  Proposals,        \* sizes the strategies propose
  CashLevels,       \* cash the account snapshot may show
  EquityLevels,     \* equity it may show
  Values,           \* market value of the longs of a market
  Results,          \* P&L of closed trades
  StartingCapital,
  MaxLoss,          \* bound: loss counted in a day
  MaxDay            \* bound: UTC days

ASSUME RiskAssumption ==
  /\ FeeAndSlippage \in Nat /\ Target \in Nat /\ MinTrade \in Nat
  /\ MaxTradeLossPct \in Nat /\ MaxDailyLossPct \in Nat
  /\ Proposals \subseteq Nat /\ Values \subseteq Nat
  /\ CashLevels \subseteq Int /\ EquityLevels \subseteq Int
  /\ Results \subseteq Int /\ StartingCapital \in Int
  /\ MaxLoss \in Nat /\ MaxDay \in Nat \ {0}

VARIABLES
  today,        \* the UTC date
  equity,       \* current_equity
  dailyLoss,    \* daily_loss
  lastReset,    \* _last_reset_date
  onFile,       \* the risk_state row: a loss and its date; date 0: no row
  verdict,      \* the decision just returned
  lossesToday   \* history: losses recorded since midnight

vars == <<today, equity, dailyLoss, lastReset, onFile, verdict, lossesToday>>

NoVerdict == [approved |-> FALSE, reason |-> "none"]

Grain == Scale + FeeAndSlippage

-----------------------------------------------------------------------------
(* evaluate_trade, as a function of the idea, the market and the account.  *)

\* The fixed target, or the strategy's proposal, clamped up to the minimum.
Preferred(proposal) ==
  LET asked == IF Target > 0 THEN Target ELSE proposal
  IN  IF asked < MinTrade THEN MinTrade ELSE asked

\* size * StopLossPct is the estimated loss, in units of 1 / (Scale * Grain).
Estimated(size) == size * StopLossPct

Allowed(pct) == equity * pct * Grain

ReachesDailyLimit(loss, size) ==
  loss * Scale * Grain + Estimated(size) >= Allowed(MaxDailyLossPct)

\* Slip: a short of any size counts as a close.
AnyShortCovered(direction, size, longValue) == direction = "short" /\ longValue > 0

\* A short that the open longs cover needs no cash.
Covered(direction, size, longValue) ==
  direction = "short" /\ size > 0 /\ longValue * Grain >= size

\* The size after the cash check: cash / (1 + FeeAndSlippage) when the order
\* and its costs exceed the cash.
Affordable(size, cash) ==
  IF cash * Scale >= size THEN size ELSE cash * Scale

\* The checks in the code's order; the first that fails names the reason.
Decision(direction, proposal, cash, longValue, sameDirection, liquid, loss) ==
  LET wanted == Preferred(proposal) * Grain
      needsCash == ~Covered(direction, wanted, longValue)
      size == IF needsCash THEN Affordable(wanted, cash) ELSE wanted
      reason ==
        IF ~liquid THEN "volume"
        ELSE IF sameDirection THEN "position"
        ELSE IF size < wanted /\ size < MinTrade * Grain THEN "cash"
        ELSE IF Estimated(size) > Allowed(MaxTradeLossPct) THEN "trade_loss"
        ELSE IF ReachesDailyLimit(loss, size) THEN "daily_loss"
        ELSE "passed"
  IN  [approved |-> reason = "passed", reason |-> reason, direction |-> direction,
       size |-> size, wanted |-> wanted, cash |-> cash, longValue |-> longValue]

-----------------------------------------------------------------------------
(* The engine's state.                                                     *)

IsNewDay == today # lastReset

\* Slip: the counter is not reset.
KeptLoss == dailyLoss

\* _check_daily_reset: the loss that counts now.
CurrentLoss == IF IsNewDay THEN 0 ELSE dailyLoss

\* The reset an evaluation makes stays in memory.
Evaluate(direction, proposal, cash, longValue, sameDirection, liquid) ==
  /\ verdict' = Decision(direction, proposal, cash, longValue, sameDirection, liquid,
                         CurrentLoss)
  /\ dailyLoss' = CurrentLoss
  /\ lastReset' = today
  /\ UNCHANGED <<today, equity, onFile, lossesToday>>

\* record_trade_result_and_persist.
RecordResult(pnl) ==
  /\ lossesToday + LossOf(pnl) <= MaxLoss
  /\ equity + pnl \in EquityLevels
  /\ dailyLoss' = CurrentLoss + LossOf(pnl)
  /\ lastReset' = today
  /\ equity' = equity + pnl
  /\ onFile' = [loss |-> dailyLoss', date |-> today]
  /\ lossesToday' = lossesToday + LossOf(pnl)
  /\ verdict' = NoVerdict
  /\ UNCHANGED today

\* update_equity, with the account snapshot of a tick.
UpdateEquity(level) ==
  /\ equity' = level
  /\ verdict' = NoVerdict
  /\ UNCHANGED <<today, dailyLoss, lastReset, onFile, lossesToday>>

Midnight ==
  /\ today < MaxDay
  /\ today' = today + 1
  /\ lossesToday' = 0
  /\ verdict' = NoVerdict
  /\ UNCHANGED <<equity, dailyLoss, lastReset, onFile>>

\* Slip: the row is taken whatever its date is.
RestoredAnyDay == onFile.loss

\* The row counts only if it is of today.
RestoredLoss == IF onFile.date = today THEN onFile.loss ELSE 0

Restart ==
  /\ equity' = StartingCapital
  /\ dailyLoss' = RestoredLoss
  /\ lastReset' = today
  /\ verdict' = NoVerdict
  /\ UNCHANGED <<today, onFile, lossesToday>>

Init ==
  /\ today = 1
  /\ equity = StartingCapital
  /\ dailyLoss = 0
  /\ lastReset = today
  /\ onFile = [loss |-> 0, date |-> 0]
  /\ verdict = NoVerdict
  /\ lossesToday = 0

\* A long in the market bars another long, a short another short.
Judge ==
  \E direction \in Directions, proposal \in Proposals, cash \in CashLevels,
     longValue \in Values, shortOpen, liquid \in BOOLEAN :
    Evaluate(direction, proposal, cash, longValue,
             IF direction = "long" THEN longValue > 0 ELSE shortOpen, liquid)

Next ==
  \/ Judge
  \/ \E pnl \in Results : RecordResult(pnl)
  \/ \E level \in EquityLevels : UpdateEquity(level)
  \/ Midnight
  \/ Restart

Spec == Init /\ [][Next]_vars

-----------------------------------------------------------------------------

RiskTypeOK ==
  /\ today \in 1..MaxDay
  /\ equity \in EquityLevels \cup {StartingCapital}
  /\ dailyLoss \in Nat /\ lossesToday \in 0..MaxLoss
  /\ lastReset \in 1..MaxDay
  /\ onFile \in [loss : Nat, date : 0..MaxDay]
  /\ verdict.approved \in BOOLEAN
  /\ verdict.approved => verdict.size \in Nat

\* main.py:231: at any moment the engine would count exactly the losses recorded
\* today, over midnights and restarts in any order: the limit can neither be
\* escaped by restarting nor carried into the next day.
GateCountsToday == CurrentLoss = lossesToday

\* engine.py:132: a daily-loss rejection and an approval tell the truth about
\* the losses of this very day.
DailyLimitIsExact ==
  /\ verdict.approved => ~ReachesDailyLimit(lossesToday, verdict.size)
  /\ verdict.reason = "daily_loss" => ReachesDailyLimit(lossesToday, verdict.size)

\* engine.py:111: an approved order lies between the minimum and what was
\* wanted, and is covered by the open longs or, by the engine's own estimate
\* of the costs, by the cash.
SizesAreCovered ==
  verdict.approved =>
    /\ MinTrade * Grain <= verdict.size /\ verdict.size <= verdict.wanted
    /\ \/ verdict.direction = "short" /\ verdict.longValue * Grain >= verdict.size
       \/ verdict.size <= verdict.cash * Scale
==============================================================================
