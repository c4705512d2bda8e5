---------------------------- MODULE RiskGateProofs ----------------------------
(***************************************************************************)
(* Proofs about RiskGate, for every value of its constants.                *)
(*                                                                         *)
(* GateCountsToday is not inductive: a restart reads the loss from the row *)
(* on file, and a midnight leaves the counter as it is.  RiskInv adds what *)
(* the row says of today, and that neither date lies in the future.        *)
(***************************************************************************)
EXTENDS RiskGate, TLAPS

\* The counter, if it was reset today, and the row, if it is of today, say
\* what was lost today; otherwise nothing was.
RiskInv ==
  /\ today \in Nat \ {0}
  /\ lastReset \in Nat /\ lastReset <= today
  /\ onFile \in [loss : Int, date : Nat] /\ onFile.date <= today
  /\ lossesToday = IF lastReset = today THEN dailyLoss ELSE 0
  /\ lossesToday = IF onFile.date = today THEN onFile.loss ELSE 0
  /\ lossesToday \in Int

LEMMA LossIsInt == ASSUME NEW pnl \in Int PROVE LossOf(pnl) \in Int
  BY DEF LossOf

\* RiskInv holds initially and is preserved by every action.
LEMMA RiskInvInit == Init => RiskInv
  BY DEF Init, RiskInv

LEMMA RiskInvStep == RiskInv /\ [Next]_vars => RiskInv'
<1> SUFFICES ASSUME RiskInv, [Next]_vars PROVE RiskInv'
  OBVIOUS
<1> USE DEF RiskInv
<1>1. CASE Judge
  <2>1. /\ dailyLoss' = CurrentLoss /\ lastReset' = today
        /\ UNCHANGED <<today, equity, onFile, lossesToday>>
    BY <1>1 DEF Judge, Evaluate
  <2> QED
    BY <2>1 DEF CurrentLoss, IsNewDay
<1>2. ASSUME NEW pnl \in Results, RecordResult(pnl) PROVE RiskInv'
  <2>1. LossOf(pnl) \in Int
    BY LossIsInt, RiskAssumption
  <2>2. /\ dailyLoss' = CurrentLoss + LossOf(pnl) /\ lastReset' = today
        /\ onFile' = [loss |-> dailyLoss', date |-> today]
        /\ lossesToday' = lossesToday + LossOf(pnl) /\ today' = today
    BY <1>2 DEF RecordResult
  <2>3. CurrentLoss = lossesToday
    BY DEF CurrentLoss, IsNewDay
  <2> QED
    BY <2>1, <2>2, <2>3
<1>3. ASSUME NEW level \in EquityLevels, UpdateEquity(level) PROVE RiskInv'
  BY <1>3 DEF UpdateEquity
<1>4. CASE Midnight
  BY <1>4 DEF Midnight
<1>5. CASE Restart
  BY <1>5 DEF Restart, RestoredLoss
<1>6. CASE UNCHANGED vars
  BY <1>6 DEF vars
<1> QED
  BY <1>1, <1>2, <1>3, <1>4, <1>5, <1>6 DEF Next

THEOREM RiskInvHolds == Spec => []RiskInv
<1>1. Init => RiskInv
  BY RiskInvInit
<1>2. RiskInv /\ [Next]_vars => RiskInv'
  BY RiskInvStep
<1> QED
  BY <1>1, <1>2, PTL DEF Spec

\* main.py:231: whatever the order of results, evaluations, midnights and
\* restarts, the daily limit counts exactly the losses recorded today.
THEOREM LimitCountsTheDay == Spec => []GateCountsToday
<1>1. RiskInv => GateCountsToday
  BY DEF RiskInv, GateCountsToday, CurrentLoss, IsNewDay
<1> QED
  BY <1>1, RiskInvHolds, PTL

-----------------------------------------------------------------------------

\* What a decision says of the daily limit is true of the loss it was given.
LEMMA DecisionTellsLimit ==
  ASSUME NEW direction, NEW proposal, NEW cash, NEW longValue, NEW same, NEW liquid,
         NEW loss,
         NEW d, d = Decision(direction, proposal, cash, longValue, same, liquid, loss)
  PROVE  /\ d.approved => ~ReachesDailyLimit(loss, d.size)
         /\ d.reason = "daily_loss" => ReachesDailyLimit(loss, d.size)
  BY DEF Decision

LEMMA DailyLimitStep == RiskInv /\ DailyLimitIsExact /\ [Next]_vars => DailyLimitIsExact'
<1> SUFFICES ASSUME RiskInv, DailyLimitIsExact, [Next]_vars PROVE DailyLimitIsExact'
  OBVIOUS
<1>1. CASE Judge
  <2>1. PICK direction \in Directions, proposal \in Proposals, cash \in CashLevels,
             longValue \in Values, shortOpen \in BOOLEAN, liquid \in BOOLEAN :
          Evaluate(direction, proposal, cash, longValue,
                   IF direction = "long" THEN longValue > 0 ELSE shortOpen, liquid)
    BY <1>1 DEF Judge
  <2> DEFINE same == IF direction = "long" THEN longValue > 0 ELSE shortOpen
  <2>2. /\ verdict' = Decision(direction, proposal, cash, longValue, same, liquid,
                               CurrentLoss)
        /\ equity' = equity /\ lossesToday' = lossesToday
    BY <2>1 DEF Evaluate
  <2>3. CurrentLoss = lossesToday
    BY DEF RiskInv, CurrentLoss, IsNewDay
  <2> HIDE DEF same
  <2>4. /\ verdict'.approved => ~ReachesDailyLimit(lossesToday, verdict'.size)
        /\ verdict'.reason = "daily_loss" => ReachesDailyLimit(lossesToday, verdict'.size)
    BY <2>2, <2>3, DecisionTellsLimit
  <2> QED
    BY <2>2, <2>4 DEF DailyLimitIsExact, ReachesDailyLimit, Allowed
<1>2. ASSUME verdict' = NoVerdict PROVE DailyLimitIsExact'
  BY <1>2 DEF NoVerdict, DailyLimitIsExact
<1>3. ASSUME NEW pnl \in Results, RecordResult(pnl) PROVE DailyLimitIsExact'
  BY <1>2, <1>3 DEF RecordResult
<1>4. ASSUME NEW level \in EquityLevels, UpdateEquity(level) PROVE DailyLimitIsExact'
  BY <1>2, <1>4 DEF UpdateEquity
<1>5. CASE Midnight
  BY <1>2, <1>5 DEF Midnight
<1>6. CASE Restart
  BY <1>2, <1>6 DEF Restart
<1>7. CASE UNCHANGED vars
  BY <1>7 DEF vars, DailyLimitIsExact, ReachesDailyLimit, Allowed
<1> QED
  BY <1>1, <1>3, <1>4, <1>5, <1>6, <1>7 DEF Next

\* engine.py:132: an approval has room under the limit for the losses of the
\* day, and a daily-loss rejection has none.
THEOREM DailyLimitHolds == Spec => []DailyLimitIsExact
<1>1. Init => DailyLimitIsExact
  BY DEF Init, NoVerdict, DailyLimitIsExact
<1>2. RiskInv /\ DailyLimitIsExact /\ [Next]_vars => DailyLimitIsExact'
  BY DailyLimitStep
<1> QED
  BY <1>1, <1>2, RiskInvHolds, PTL DEF Spec

-----------------------------------------------------------------------------

LEMMA GrainIsPositive == Scale \in Nat /\ Grain \in Nat \ {0}
  BY RatesAssumption, RiskAssumption DEF Grain

\* The wanted size is at least the minimum, in the finer unit too.
LEMMA PreferredIsEnough ==
  ASSUME NEW proposal \in Proposals
  PROVE  /\ Preferred(proposal) * Grain \in Nat
         /\ MinTrade * Grain \in Nat
         /\ MinTrade * Grain <= Preferred(proposal) * Grain
<1>1. Preferred(proposal) \in Nat /\ MinTrade \in Nat /\ MinTrade <= Preferred(proposal)
  BY RiskAssumption DEF Preferred
<1>2. ASSUME NEW a \in Nat, NEW b \in Nat, NEW c \in Nat, a <= b PROVE a * c <= b * c
  BY <1>2
<1> QED
  BY <1>1, <1>2, GrainIsPositive

\* The size of an approval, from the cash check on.
LEMMA DecisionSizes ==
  ASSUME NEW direction, NEW proposal \in Proposals, NEW cash \in CashLevels,
         NEW longValue \in Values, NEW same, NEW liquid, NEW loss,
         NEW d, d = Decision(direction, proposal, cash, longValue, same, liquid, loss),
         d.approved
  PROVE  /\ MinTrade * Grain <= d.size /\ d.size <= d.wanted
         /\ \/ d.direction = "short" /\ d.longValue * Grain >= d.size
            \/ d.size <= d.cash * Scale
<1> DEFINE wanted == Preferred(proposal) * Grain
           least == MinTrade * Grain
           limit == cash * Scale
           size == IF Covered(direction, wanted, longValue) THEN wanted
                   ELSE Affordable(wanted, cash)
<1>1. /\ d.size = size /\ d.wanted = wanted /\ d.cash = cash
      /\ d.longValue = longValue /\ d.direction = direction
      /\ ~(size < wanted /\ size < least)
  BY DEF Decision
<1>2. wanted \in Nat /\ least \in Nat /\ least <= wanted
  BY PreferredIsEnough
<1>3. limit \in Int
  BY GrainIsPositive, RiskAssumption
<1>4. CASE Covered(direction, wanted, longValue)
  BY <1>1, <1>2, <1>4 DEF Covered
<1>5. CASE ~Covered(direction, wanted, longValue)
  <2>1. size = IF limit >= wanted THEN wanted ELSE limit
    BY <1>5 DEF Affordable
  <2> HIDE DEF wanted, least, limit, size
  <2>2. least <= size /\ size <= wanted /\ size <= limit
    BY <2>1, <1>1, <1>2, <1>3
  <2> QED
    BY <2>2, <1>1 DEF least, limit
<1> QED
  BY <1>4, <1>5

LEMMA DecisionSizeIsNat ==
  ASSUME NEW direction, NEW proposal \in Proposals, NEW cash \in CashLevels,
         NEW longValue \in Values, NEW same, NEW liquid, NEW loss,
         NEW d, d = Decision(direction, proposal, cash, longValue, same, liquid, loss),
         d.approved
  PROVE  d.size \in Nat
<1> DEFINE wanted == Preferred(proposal) * Grain
           limit == cash * Scale
<1>1. d.size = wanted \/ d.size = limit
  BY DEF Decision, Affordable
<1>2. wanted \in Nat /\ MinTrade * Grain \in Nat /\ limit \in Int
  BY PreferredIsEnough, GrainIsPositive, RiskAssumption
<1>3. MinTrade * Grain <= d.size
  BY DecisionSizes
<1> HIDE DEF wanted, limit
<1> DEFINE least == MinTrade * Grain
<1>4. least \in Nat /\ least <= d.size
  BY <1>2, <1>3
<1> HIDE DEF least
<1> QED
  BY <1>1, <1>2, <1>4

LEMMA SizesStep == SizesAreCovered /\ [Next]_vars => SizesAreCovered'
<1> SUFFICES ASSUME SizesAreCovered, [Next]_vars PROVE SizesAreCovered'
  OBVIOUS
<1>1. CASE Judge
  <2>1. PICK direction \in Directions, proposal \in Proposals, cash \in CashLevels,
             longValue \in Values, shortOpen \in BOOLEAN, liquid \in BOOLEAN :
          Evaluate(direction, proposal, cash, longValue,
                   IF direction = "long" THEN longValue > 0 ELSE shortOpen, liquid)
    BY <1>1 DEF Judge
  <2> DEFINE same == IF direction = "long" THEN longValue > 0 ELSE shortOpen
  <2>2. verdict' = Decision(direction, proposal, cash, longValue, same, liquid,
                            CurrentLoss)
    BY <2>1 DEF Evaluate
  <2> HIDE DEF same
  <2> QED
    BY <2>2, DecisionSizes DEF SizesAreCovered
<1>2. CASE verdict' = NoVerdict
  BY <1>2 DEF NoVerdict, SizesAreCovered
<1>3. ASSUME NEW pnl \in Results, RecordResult(pnl) PROVE SizesAreCovered'
  BY <1>2, <1>3 DEF RecordResult
<1>4. ASSUME NEW level \in EquityLevels, UpdateEquity(level) PROVE SizesAreCovered'
  BY <1>2, <1>4 DEF UpdateEquity
<1>5. CASE Midnight \/ Restart
  BY <1>2, <1>5 DEF Midnight, Restart
<1>6. CASE UNCHANGED vars
  BY <1>6 DEF vars, SizesAreCovered
<1> QED
  BY <1>1, <1>3, <1>4, <1>5, <1>6 DEF Next

\* engine.py:111: an approved order is at least the minimum, at most what was
\* wanted, and covered by the open longs or by the cash less estimated costs.
THEOREM SizesAreAlwaysCovered == Spec => []SizesAreCovered
<1>1. Init => SizesAreCovered
  BY DEF Init, NoVerdict, SizesAreCovered
<1> QED
  BY <1>1, SizesStep, PTL DEF Spec

-----------------------------------------------------------------------------

LEMMA RiskTypeStep == RiskTypeOK /\ [Next]_vars => RiskTypeOK'
<1> SUFFICES ASSUME RiskTypeOK, [Next]_vars PROVE RiskTypeOK'
  OBVIOUS
<1>0. MaxDay \in Nat /\ MaxLoss \in Nat
  BY RiskAssumption
<1>1. CASE Judge
  <2>1. PICK direction \in Directions, proposal \in Proposals, cash \in CashLevels,
             longValue \in Values, shortOpen \in BOOLEAN, liquid \in BOOLEAN :
          Evaluate(direction, proposal, cash, longValue,
                   IF direction = "long" THEN longValue > 0 ELSE shortOpen, liquid)
    BY <1>1 DEF Judge
  <2> DEFINE same == IF direction = "long" THEN longValue > 0 ELSE shortOpen
  <2>2. /\ verdict' = Decision(direction, proposal, cash, longValue, same, liquid, CurrentLoss)
        /\ dailyLoss' = CurrentLoss /\ lastReset' = today
        /\ UNCHANGED <<today, equity, onFile, lossesToday>>
    BY <2>1 DEF Evaluate
  <2>3. verdict'.approved \in BOOLEAN
    BY <2>2 DEF Decision
  <2>4. verdict'.approved => verdict'.size \in Nat
    BY <2>2, DecisionSizeIsNat
  <2> QED
    BY <1>0, <2>2, <2>3, <2>4 DEF RiskTypeOK, CurrentLoss
<1>2. ASSUME verdict' = NoVerdict
      PROVE  verdict'.approved \in BOOLEAN /\ (verdict'.approved => verdict'.size \in Nat)
  BY <1>2 DEF NoVerdict
<1>3. ASSUME NEW pnl \in Results, RecordResult(pnl) PROVE RiskTypeOK'
  <2>1. LossOf(pnl) \in Nat
    BY RiskAssumption DEF LossOf
  <2> QED
    BY <1>0, <1>2, <1>3, <2>1 DEF RecordResult, RiskTypeOK, CurrentLoss
<1>4. ASSUME NEW level \in EquityLevels, UpdateEquity(level) PROVE RiskTypeOK'
  BY <1>0, <1>2, <1>4 DEF UpdateEquity, RiskTypeOK
<1>5. CASE Midnight
  BY <1>0, <1>2, <1>5 DEF Midnight, RiskTypeOK
<1>6. CASE Restart
  BY <1>0, <1>2, <1>6 DEF Restart, RestoredLoss, RiskTypeOK
<1>7. CASE UNCHANGED vars
  BY <1>7 DEF vars, RiskTypeOK
<1> QED
  BY <1>1, <1>3, <1>4, <1>5, <1>6, <1>7 DEF Next

\* The counter, the row, the dates and the decision are well typed.
THEOREM RiskTypeCorrect == Spec => []RiskTypeOK
<1>1. Init => RiskTypeOK
  BY RiskAssumption DEF Init, NoVerdict, RiskTypeOK
<1> QED
  BY <1>1, RiskTypeStep, PTL DEF Spec
==============================================================================
