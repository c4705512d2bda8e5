------------------------------- MODULE Learner -------------------------------
(***************************************************************************)
(* The performance learner (strategy/learner.py): the statistics of one    *)
(* (strategy, market, direction) key, kept up to date by every outcome and *)
(* rebuilt at startup from the outcomes on file.                           *)
(*                                                                         *)
(* Every older trade weighs 23/25 of the next newer one.  To stay among    *)
(* the integers the two weighted sums of n outcomes are multiplied by      *)
(* 25^(n-1); only their quotient is ever used.  On that scale newest, or   *)
(* 25^n, is what the next outcome will weigh, and oldest, or 23^n, what    *)
(* one from before them all would have.  Confidences and scores are in     *)
(* units of 1/10000.                                                       *)
(***************************************************************************)
EXTENDS Integers, Sequences, FiniteSetsExt

CONSTANT MinSamples   \* MIN_SAMPLES: outcomes before a key is adjusted

ASSUME SampleAssumption == MinSamples \in Nat \ {0}

NoStats ==
  [weightedWins |-> 0, weightedTotal |-> 0, newest |-> 1, oldest |-> 1,
   rawCount |-> 0, winTotal |-> 0, winCount |-> 0, lossTotal |-> 0, lossCount |-> 0,
   history |-> <<>>]

\* _Stats.record_pnl and the sums around it: what is known is rescaled, the
\* result comes with its weight.
Known(s, pnl, rescaled, weight, history) ==
  [weightedWins |-> rescaled * s.weightedWins + IF pnl > 0 THEN weight ELSE 0,
   weightedTotal |-> rescaled * s.weightedTotal + weight,
   newest |-> 25 * s.newest, oldest |-> 23 * s.oldest,
   rawCount |-> s.rawCount + 1,
   winTotal |-> s.winTotal + IF pnl > 0 THEN pnl ELSE 0,
   winCount |-> s.winCount + IF pnl > 0 THEN 1 ELSE 0,
   lossTotal |-> s.lossTotal + IF pnl < 0 THEN pnl ELSE 0,
   lossCount |-> s.lossCount + IF pnl < 0 THEN 1 ELSE 0,
   history |-> history]

\* record_outcome: what is known decays, the new outcome has weight one.
RecordOutcome(s, pnl) == Known(s, pnl, 23, s.newest, Append(s.history, pnl))

\* One turn of the loop of load_from_outcomes, the reversal included.
WithOlder(s, pnl) == Known(s, pnl, 25, s.oldest, <<pnl>> \o s.history)

\* Slip: the rows are taken as if the oldest came first.
LoadOldestFirst(key, rows) ==
  LET loaded[n \in 0..Len(rows)] ==
        IF n = 0 THEN NoStats
        ELSE IF rows[Len(rows) + 1 - n].direction = key
        THEN WithOlder(loaded[n - 1], rows[Len(rows) + 1 - n].pnl)
        ELSE loaded[n - 1]
  IN loaded[Len(rows)]

\* load_from_outcomes: what the rows of one key, newest first, add up to.
LoadFromOutcomes(key, rows) ==
  LET loaded[n \in 0..Len(rows)] ==
        IF n = 0 THEN NoStats
        ELSE IF rows[n].direction = key
        THEN WithOlder(loaded[n - 1], rows[n].pnl)
        ELSE loaded[n - 1]
  IN loaded[Len(rows)]

-----------------------------------------------------------------------------

Clamp(low, high, x) == IF x < low THEN low ELSE IF x > high THEN high ELSE x

\* quality_score: the expectancy, (win rate) * (mean win) + (1 - win rate) *
\* (mean loss), over the largest of the two means and 1, all brought to one
\* denominator.
QualityScore(s) ==
  LET wins == IF s.winCount = 0 THEN 1 ELSE s.winCount
      losses == IF s.lossCount = 0 THEN 1 ELSE s.lossCount
      expectancy == s.weightedWins * s.winTotal * losses
                    + (s.weightedTotal - s.weightedWins) * s.lossTotal * wins
      largest == Max({s.winTotal * losses, -s.lossTotal * wins, wins * losses})
  IN Clamp(-10000, 10000, (10000 * expectancy) \div (s.weightedTotal * largest))

\* A key without history gets the benefit of the doubt.
AdjustConfidence(s, base) ==
  IF s.rawCount < MinSamples THEN base
  ELSE Min({9500, (base * (20000 + QualityScore(s))) \div 20000})
==============================================================================
