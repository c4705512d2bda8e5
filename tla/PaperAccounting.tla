--------------------------- MODULE PaperAccounting ---------------------------
(***************************************************************************)
(* The arithmetic of the paper execution engine (execution/paper.py):      *)
(* slippage, taker fee, the funding and one-position rules, realised P&L,  *)
(* mark-to-market equity and the two stop rules.                           *)
(*                                                                         *)
(* The code computes in floats with rates 0.001 and 0.0026.  Here a rate r *)
(* is the fraction r / Scale and everything is exact in integers: a quote  *)
(* is in whole currency units, a fill or entry price in units of 1/Scale,  *)
(* and money in units of 1/Scale^2.  Scale = 10000, SlippageRate = 10,     *)
(* TakerFeeRate = 26 are the code's own rates; a fee never exceeds the     *)
(* value it is charged on.                                                 *)
(*                                                                         *)
(* A position is a record with at least market, size (signed: negative for *)
(* a short), avgPrice, entryFee and best, the trailing watermark.  A book  *)
(* P is a function from position ids to positions; ids are handed out in   *)
(* increasing order, so the oldest position has the smallest id.           *)
(***************************************************************************)
EXTENDS Integers, FiniteSetsExt

CONSTANTS Scale, SlippageRate, TakerFeeRate, StopLossPct, TrailingStopPct

ASSUME RatesAssumption ==
  /\ Scale \in Nat \ {0}
  /\ SlippageRate \in 0..(Scale - 1)
  /\ TakerFeeRate \in 0..Scale
  /\ StopLossPct \in Nat
  /\ TrailingStopPct \in 0..Scale

Directions == {"long", "short"}

\* A watermark the code stores as None: no price seen since the restart.
NoMark == 0

\* A price the dashboard does not have: absent from _current_prices.
NoQuote == 0

Abs(n) == IF n < 0 THEN -n ELSE n

\* Buys pay more than the quote, sells receive less.
FillPrice(direction, quote) ==
  IF direction = "long" THEN quote * (Scale + SlippageRate)
                        ELSE quote * (Scale - SlippageRate)

FillValue(size, price) == size * price * Scale

Fee(size, price) == size * price * TakerFeeRate

Longs(P, m)  == {id \in DOMAIN P : P[id].market = m /\ P[id].size > 0}
Shorts(P, m) == {id \in DOMAIN P : P[id].market = m /\ P[id].size < 0}

TotalLong(P, m) == MapThenSumSet(LAMBDA id : P[id].size, Longs(P, m))

\* FIFO: the position that was opened first.
IsOldest(id, ids) == id \in ids /\ \A other \in ids : id <= other

\* Slips: the one-position rule left to the strategy loop; funds not checked.
CanFillStacking(P, cash, m, direction, size, price) ==
  cash >= FillValue(size, price) + Fee(size, price)
CanFillUnfunded(P, cash, m, direction, size, price) ==
  IF direction = "long" THEN Longs(P, m) = {}
                        ELSE TotalLong(P, m) >= size \/ Shorts(P, m) = {}

\* The negation of _rejection_reason: may this intent fill now?
CanFill(P, cash, m, direction, size, price) ==
  LET funded == cash >= FillValue(size, price) + Fee(size, price)
  IN  \/ /\ direction = "long"
         /\ Longs(P, m) = {}
         /\ funded
      \/ /\ direction = "short"
         /\ \/ Longs(P, m) # {} /\ TotalLong(P, m) >= size
            \/ Shorts(P, m) = {} /\ funded

\* The position an opening fill creates.
Opened(m, direction, size, price, idea) ==
  [market    |-> m,
   size      |-> IF direction = "long" THEN size ELSE -size,
   avgPrice  |-> price,
   direction |-> direction,
   idea      |-> idea,
   entryFee  |-> Fee(size, price),
   best      |-> price]

\* An opening long pays value and fee; an opening short only its fee, the
\* proceeds stay locked as margin.
OpeningCost(direction, size, price) ==
  IF direction = "long" THEN FillValue(size, price) + Fee(size, price)
                        ELSE Fee(size, price)

ExitDirection(pos) == IF pos.size > 0 THEN "short" ELSE "long"

\* The exit fill at a quote, and the one at the entry price, which stands in
\* for a quote the dashboard does not have (in 1/Scale units, rounded down).
ExitAt(pos, quote) == FillPrice(ExitDirection(pos), quote)
ExitAtEntry(pos)   == FillPrice(ExitDirection(pos), pos.avgPrice) \div Scale

\* What close_position adds to cash.  A closed short releases the proceeds
\* locked at its entry, which are its entry price times its size.
ClosingCredit(pos, price) ==
  LET size == Abs(pos.size)
  IN  IF pos.size > 0
      THEN FillValue(size, price) - Fee(size, price)
      ELSE FillValue(size, pos.avgPrice) - FillValue(size, price) - Fee(size, price)

\* Slip: the P&L is recorded before fees.
RealisedPnlGross(pos, price, exitFee) ==
  (IF pos.direction = "long" THEN 1 ELSE -1) * Abs(pos.size) * (price - pos.avgPrice) * Scale

\* record_closed_trade: P&L over the size of the closed position, net of the
\* entry fee the process remembers and of the fee of the closing fill.
RealisedPnl(pos, price, exitFee) ==
  LET size == Abs(pos.size)
      signed == IF pos.direction = "long" THEN size ELSE -size
  IN  signed * (price - pos.avgPrice) * Scale - pos.entryFee - exitFee

LossOf(pnl) == IF pnl < 0 THEN -pnl ELSE 0

\* update_trailing_prices for one position and one quote.
Marked(pos, quote) ==
  LET q == quote * Scale
      improves == IF pos.size > 0 THEN q > pos.best ELSE q < pos.best
  IN  IF quote # NoQuote /\ (pos.best = NoMark \/ improves)
      THEN [pos EXCEPT !.best = q] ELSE pos

\* Down by at least StopLossPct against the entry price.
StopLossHit(pos, quote) ==
  LET q == quote * Scale
      loss == IF pos.size > 0 THEN pos.avgPrice - q ELSE q - pos.avgPrice
  IN  pos.avgPrice > 0 /\ loss * Scale >= StopLossPct * pos.avgPrice

\* Retraced by TrailingStopPct from the best price seen, or from the entry
\* price when no price has been seen yet.
TrailingStopHit(pos, quote) ==
  LET q == quote * Scale
      mark == IF pos.best = NoMark THEN pos.avgPrice ELSE pos.best
  IN  IF pos.size > 0 THEN q * Scale <= mark * (Scale - TrailingStopPct)
                      ELSE q * Scale >= mark * (Scale + TrailingStopPct)

StopHit(pos, quote) ==
  quote # NoQuote /\ (StopLossHit(pos, quote) \/ TrailingStopHit(pos, quote))

StopReason(pos, quote) ==
  IF StopLossHit(pos, quote) THEN "stop_loss" ELSE "trailing_stop"
==============================================================================
