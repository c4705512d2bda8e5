------------------------- MODULE SignalPipelineProofs -------------------------
(***************************************************************************)
(* What the indicator rules and the learner guarantee, each by itself and  *)
(* in the pipeline, for every market, reading, confidence and result.      *)
(*                                                                         *)
(* The vote: its counters are tied together, the net vote is the           *)
(* supporters less the opponents, and no more than nine take sides.  The   *)
(* learner: recording a newer outcome and loading an older one may be      *)
(* swapped, so a file that grows by a row seeds a learner that knows one   *)
(* outcome more.  The gate: a score is between minus one and one, so the   *)
(* adjustment keeps the order of confidences.                              *)
(***************************************************************************)
EXTENDS SignalPipeline, SequenceTheorems, FiniteSetTheorems, WellFoundedInduction, TLAPS

-----------------------------------------------------------------------------
(* The vote.                                                               *)

\* A market as the gates see it.
Market == [momentum : Int, atr : Nat, trend : Int]

\* The counters are numbers.
BallotOK ==
  /\ ballot.read \in 0..9
  /\ ballot.supporting \in Nat
  /\ ballot.available \in Nat
  /\ ballot.votes \in Int
  /\ ballot = [read |-> ballot.read, votes |-> ballot.votes,
               available |-> ballot.available, supporting |-> ballot.supporting]

\* The net vote, and the majority that five of nine are.
Tally ==
  /\ ballot.supporting <= ballot.available
  /\ ballot.available <= ballot.read
  /\ ballot.votes = 2 * ballot.supporting - ballot.available

\* Who is read has passed the gates.
GatePassed == step = "reading" => PassesMomentumGate(market) /\ FitsTrend(market)

\* The evaluation, whatever becomes of its idea.
VoteInv ==
  /\ step \in {"idle", "reading", "idea", "analysed", "adjusted"}
  /\ market \in Market
  /\ GatePassed
  /\ BallotOK /\ Tally
  /\ IdeasInBounds

-----------------------------------------------------------------------------

\* As many as take part in a vote.
LEMMA NineIndicators == Len(Indicators) = 9
BY DEF Indicators

\* An indicator adds at most one to each counter, and to the net vote what it
\* adds to the supporters, or takes one off it.
LEMMA CountedKeepsTally ==
  ASSUME BallotOK, Tally, ballot.read < 9, NEW m, NEW i, NEW x,
         ballot' = Counted(ballot, m, i, x)
  PROVE  BallotOK' /\ Tally'
<1>1. CASE Supports(m, i, x)
  BY <1>1 DEF Counted, BallotOK, Tally
<1>2. CASE ~Supports(m, i, x) /\ Opposes(m, i, x)
  BY <1>2 DEF Counted, BallotOK, Tally
<1>3. CASE ~Supports(m, i, x) /\ ~Opposes(m, i, x)
  BY <1>3 DEF Counted, BallotOK, Tally
<1> QED BY <1>1, <1>2, <1>3

\* The clamp of a confidence.
Capped(n) == AtLeast(1000, AtMost(9500, n))

\* A momentum that beat the threshold earns a base above any penalty.
LEMMA ConfidenceBounds ==
  ASSUME market \in Market, PassesMomentumGate(market), BallotOK, Tally,
         ballot.supporting >= MinSupporters
  PROVE  ballot.votes >= MinConsensus /\ Confidence(market, ballot) \in ConfidenceRange
<1> DEFINE momentum == Magnitude(market.momentum)
           base == AtMost(momentum * 100, 5000)
<1>1. momentum \in Nat /\ momentum >= 20 /\ momentum >= market.atr /\ market.atr \in Nat
  BY DEF Market, PassesMomentumGate, AtLeast, Magnitude
<1>2. ballot.votes \in Int /\ ballot.votes >= 1 /\ ballot.available > 0
  BY DEF BallotOK, Tally, MinSupporters
<1>3. Bonus(ballot) \in 500..4000
  BY <1>2 DEF Bonus, AtLeast, AtMost
<1>4. Penalty(market) \in 0..1000 /\ (Penalty(market) > 0 => market.atr > 100)
  <2> DEFINE excess == (market.atr - 100) * 5
  <2>1. excess \in Int /\ (market.atr > 100 => excess > 0)
    BY <1>1
  <2> HIDE DEF excess
  <2>2. market.atr > 100 => AtMost(1000, excess) \in 0..1000
    BY <2>1 DEF AtMost
  <2>3. Penalty(market) = IF market.atr > 100 THEN AtMost(1000, excess) ELSE 0
    BY ONLY SMT DEF Penalty, excess
  <2> QED BY <2>2, <2>3
<1>5. base \in 2000..5000 /\ (momentum > 100 => base = 5000)
  <2> DEFINE n == momentum * 100
  <2>1. n \in Int /\ n >= 2000 /\ (momentum > 100 => n > 5000)
    BY <1>1
  <2> HIDE DEF n, momentum
  <2>2. AtMost(n, 5000) \in 2000..5000 /\ (momentum > 100 => AtMost(n, 5000) = 5000)
    BY <2>1 DEF AtMost
  <2> QED BY ONLY <2>2, SMT DEF n
<1>6. Penalty(market) > 0 => base = 5000
  BY <1>1, <1>4, <1>5
<1> DEFINE bonus == Bonus(ballot)
           penalty == Penalty(market)
<1>7. bonus \in 500..4000 /\ penalty \in 0..1000 /\ (penalty > 0 => base = 5000)
  BY <1>3, <1>4, <1>6
<1>8. Confidence(market, ballot) = Capped(base + bonus - penalty)
  BY ONLY SMT DEF Confidence, Capped
<1>9. Confidence(market, ballot) \in ConfidenceRange
  <2> HIDE DEF base, bonus, penalty
  <2>1. Capped(base + bonus - penalty) \in ConfidenceRange
    BY <1>5, <1>7 DEF Capped, AtLeast, AtMost, ConfidenceRange
  <2> QED BY <2>1, <1>8, Zenon
<1> QED BY <1>2, <1>9, Zenon DEF MinConsensus

\* A position is sized within its bounds by either branch.
LEMMA SizeBounds ==
  ASSUME market \in Market
  PROVE  PositionSize(market) \in SizeRange
<1>1. market.atr \in Nat
  BY DEF Market
<1>2. CASE market.atr > 100
  <2>1. 200000 \div market.atr \in Int /\ 200000 \div market.atr <= 2000
    BY <1>1, <1>2
  <2> QED BY <2>1, <1>2 DEF PositionSize, AtLeast, AtMost, SizeRange
<1>3. CASE ~(market.atr > 100)
  BY <1>1, <1>3 DEF PositionSize, AtLeast, AtMost, SizeRange
<1> QED BY <1>2, <1>3

-----------------------------------------------------------------------------

\* The evaluation starts, and each of its steps leaves it, consistent.
LEMMA InitHolds == VoteInit => VoteInv
BY DEF VoteInit, VoteInv, NoMarket, NoVotes, Market, BallotOK, Tally, GatePassed, IdeasInBounds

\* An evaluation that is dropped leaves an empty ballot.
LEMMA ForgetHolds ==
  ASSUME Forgets PROVE market' \in Market /\ BallotOK' /\ Tally'
BY DEF Forgets, NoMarket, NoVotes, Market, BallotOK, Tally

\* The gates looked at the market only.
LEMMA SameGate ==
  ASSUME GatePassed, UNCHANGED <<step, market>> PROVE GatePassed'
BY DEF GatePassed, PassesMomentumGate, FitsTrend, IsLong, AtLeast, Magnitude

\* A market is evaluated.
LEMMA LookHolds ==
  ASSUME VoteInv, NEW m \in Markets, Look(m) PROVE VoteInv'
<1>1. m \in Market
  BY MarketAssumption DEF Market
<1>2. BallotOK' /\ Tally'
  BY DEF Look, NoVotes, BallotOK, Tally
<1>3. GatePassed'
  BY DEF Look, GatePassed, PassesMomentumGate, FitsTrend, IsLong, AtLeast, Magnitude
<1>4. step' = "reading" /\ market' = m
  BY DEF Look
<1> QED BY <1>1, <1>2, <1>3, <1>4 DEF VoteInv, IdeasInBounds

\* An indicator blocks the idea, or is counted.
LEMMA ReadHolds ==
  ASSUME VoteInv, NEW x, Read(x) PROVE VoteInv'
<1> DEFINE i == Indicators[ballot.read + 1]
<1>1. CASE Blocks(market, i, x)
  <2>1. step' = "idle" /\ Forgets
    BY <1>1 DEF Read
  <2>2. market' \in Market /\ BallotOK' /\ Tally'
    BY <2>1, ForgetHolds
  <2> QED BY <2>1, <2>2 DEF VoteInv, IdeasInBounds, GatePassed
<1>2. CASE ~Blocks(market, i, x)
  <2>1. ballot' = Counted(ballot, market, i, x)
    BY <1>2 DEF Read
  <2>2. step' = step /\ market' = market /\ idea' = idea
    BY <1>2 DEF Read
  <2>3. BallotOK /\ Tally /\ ballot.read < 9
    BY NineIndicators DEF Read, VoteInv
  <2>4. BallotOK' /\ Tally'
    BY <2>1, <2>3, CountedKeepsTally
  <2>5. GatePassed'
    BY <2>2, SameGate DEF VoteInv
  <2> QED BY <2>2, <2>4, <2>5 DEF VoteInv, IdeasInBounds
<1> QED BY <1>1, <1>2

\* The vote ends, with an idea or without.
LEMMA ConcludeHolds ==
  ASSUME VoteInv, Conclude PROVE VoteInv'
<1>1. market' \in Market /\ BallotOK' /\ Tally'
  BY ForgetHolds DEF Conclude
<1>2. CASE step' = "idle"
  BY <1>1, <1>2 DEF VoteInv, IdeasInBounds, GatePassed
<1>3. CASE step' = "idea"
  <2>1. /\ ballot.supporting >= MinSupporters
        /\ idea'.confidence = Confidence(market, ballot)
        /\ idea'.size = PositionSize(market)
    BY <1>3 DEF Conclude
  <2>2. /\ market \in Market /\ PassesMomentumGate(market)
        /\ BallotOK /\ Tally
    BY DEF Conclude, VoteInv, GatePassed
  <2>3. idea'.confidence \in ConfidenceRange
    BY <2>1, <2>2, ConfidenceBounds, Zenon
  <2>4. idea'.size \in SizeRange
    BY <2>1, <2>2, SizeBounds, Zenon
  <2>5. IdeasInBounds'
    BY <2>3, <2>4 DEF IdeasInBounds
  <2> QED BY <1>1, <1>3, <2>5 DEF VoteInv, GatePassed
<1> QED BY <1>2, <1>3 DEF Conclude

\* Steps elsewhere.
LEMMA StutterHolds ==
  ASSUME VoteInv, UNCHANGED voteVars PROVE VoteInv'
<1>1. GatePassed'
  BY SameGate DEF voteVars, VoteInv
<1> QED BY <1>1 DEF VoteInv, voteVars, BallotOK, Tally, IdeasInBounds

\* All steps of the vote.
LEMMA StepHolds ==
  ASSUME VoteInv, [VoteNext]_voteVars PROVE VoteInv'
BY LookHolds, ReadHolds, ConcludeHolds, StutterHolds, Zenon DEF VoteNext

\* The vote by itself.
LEMMA Invariance == VoteSpec => []VoteInv
BY InitHolds, StepHolds, PTL DEF VoteSpec

\* The bounds of an idea (basic_strategy.py:277, :383), for every market and
\* every reading: no indicator idea has less than 0.25 confidence, so neither
\* clamp of the code ever bites at its lower end.
THEOREM IdeasStayInBounds == VoteSpec => []IdeasInBounds
<1>1. VoteInv => IdeasInBounds
  BY DEF VoteInv
<1> QED BY <1>1, Invariance, PTL

-----------------------------------------------------------------------------

\* Five supporters get through the gates after the support gate.
LEMMA GatesDropNothing ==
  ASSUME VoteInv, Conclude, ballot.supporting >= MinSupporters
  PROVE  step' = "idea"
<1>1. ballot.votes >= MinConsensus /\ Confidence(market, ballot) \in ConfidenceRange
  BY ConfidenceBounds DEF Conclude, VoteInv, GatePassed
<1>2. \A c \in ConfidenceRange : ~(c < MinActionable)
  BY DEF MinActionable, ConfidenceRange
<1>3. ~(ballot.votes < MinConsensus) /\ ~(ballot.supporting < MinSupporters)
  <2>1. ballot.votes \in Int /\ ballot.supporting \in Nat
    BY DEF VoteInv, BallotOK
  <2>2. ballot.votes >= MinConsensus
    BY <1>1, Zenon
  <2> QED BY <2>1, <2>2 DEF MinConsensus, MinSupporters
<1> QED BY <1>1, <1>2, <1>3, Zenon DEF Conclude

\* The gates after the support gate (basic_strategy.py:252, :296) drop nothing.
THEOREM FiveAlwaysSuffice == VoteSpec => FiveSupportersSuffice
<1>1. VoteInv => [Conclude /\ ballot.supporting >= MinSupporters => step' = "idea"]_voteVars
  BY GatesDropNothing
<1> QED BY <1>1, Invariance, PTL DEF FiveSupportersSuffice

-----------------------------------------------------------------------------

\* A mirrored momentum is as large.
LEMMA MirroredMagnitude ==
  ASSUME NEW m \in Market
  PROVE  Magnitude(MirrorMarket(m).momentum) = Magnitude(m.momentum)
BY DEF Market, Magnitude, MirrorMarket

\* A mirrored market passes the same gates, on the other side.
LEMMA MirroredGates ==
  ASSUME NEW m \in Market, PassesMomentumGate(m), FitsTrend(m)
  PROVE  /\ PassesMomentumGate(MirrorMarket(m))
         /\ FitsTrend(MirrorMarket(m))
         /\ IsLong(MirrorMarket(m)) <=> ~IsLong(m)
<1>1. m.momentum \in Int /\ m.trend \in Int /\ m.atr \in Nat /\ m.momentum # 0
  BY DEF Market, PassesMomentumGate, Magnitude, AtLeast
<1>2. PassesMomentumGate(MirrorMarket(m))
  BY <1>1 DEF PassesMomentumGate, MirrorMarket, Magnitude
<1>3. IsLong(MirrorMarket(m)) <=> ~IsLong(m)
  BY <1>1 DEF IsLong, MirrorMarket
<1>4. FitsTrend(MirrorMarket(m))
  BY <1>1, <1>3 DEF FitsTrend, MirrorMarket
<1> QED BY <1>2, <1>3, <1>4

\* On its scale an indicator speaks for the opposite side when mirrored.
LEMMA MirroredReading ==
  ASSUME NEW i, NEW x \in Scale(i)
  PROVE  /\ SaysLong(i, MirrorReading(i, x)) <=> SaysShort(i, x)
         /\ SaysShort(i, MirrorReading(i, x)) <=> SaysLong(i, x)
<1>1. CASE i \in {"rsi", "bollinger", "stochastic"}
  BY <1>1 DEF SaysLong, SaysShort, MirrorReading, Scale
<1>2. CASE i = "williams"
  BY <1>2 DEF SaysLong, SaysShort, MirrorReading, Scale
<1>3. CASE i \notin {"rsi", "bollinger", "stochastic", "williams"}
  BY <1>3 DEF SaysLong, SaysShort, MirrorReading, Scale
<1> QED BY <1>1, <1>2, <1>3

\* The hard filters are mirrored.
LEMMA MirroredFilter ==
  ASSUME NEW m, IsLong(MirrorMarket(m)) <=> ~IsLong(m), NEW i, NEW x \in Scale(i)
  PROVE  Blocks(MirrorMarket(m), i, MirrorReading(i, x)) <=> Blocks(m, i, x)
<1>1. CASE i \in {"rsi", "bollinger"}
  BY <1>1 DEF Blocks, MirrorReading, Scale
<1>2. CASE i \notin {"rsi", "bollinger"}
  BY <1>2 DEF Blocks
<1> QED BY <1>1, <1>2

\* A mirrored reading counts the same.
LEMMA MirroredVote ==
  ASSUME NEW m, IsLong(MirrorMarket(m)) <=> ~IsLong(m), NEW i, NEW x \in Scale(i), NEW b
  PROVE  Counted(b, MirrorMarket(m), i, MirrorReading(i, x)) = Counted(b, m, i, x)
<1>1. /\ Supports(MirrorMarket(m), i, MirrorReading(i, x)) <=> Supports(m, i, x)
      /\ Opposes(MirrorMarket(m), i, MirrorReading(i, x)) <=> Opposes(m, i, x)
  BY MirroredReading, Zenon DEF Supports, Opposes
<1> QED BY <1>1, Zenon DEF Counted

\* Every step of a vote has a mirror image.
LEMMA VotesAreAlike ==
  ASSUME VoteInv, [VoteNext]_voteVars PROVE AlikeStep
<1> DEFINE i == Indicators[ballot.read + 1]
<1>1. ASSUME step = "idle", step' = "reading"
      PROVE  PassesMomentumGate(MirrorMarket(market')) /\ FitsTrend(MirrorMarket(market'))
  <2>1. market' \in Market /\ PassesMomentumGate(market') /\ FitsTrend(market')
    <3>1. VoteInv'
      BY <1>1, StepHolds
    <3>2. market' \in Market /\ GatePassed'
      BY <3>1 DEF VoteInv
    <3> QED BY <1>1, <3>2 DEF GatePassed, PassesMomentumGate, FitsTrend, IsLong, AtLeast, Magnitude
  <2> QED BY <2>1, MirroredGates, Zenon
<1>2. ASSUME step = "reading"
      PROVE  IsLong(MirrorMarket(market)) <=> ~IsLong(market)
  BY <1>2, MirroredGates, Zenon DEF VoteInv, GatePassed
<1>3. ASSUME step = "reading", ballot.read < Len(Indicators),
             NEW x \in Readings[i], Read(x)
      PROVE  IF Blocks(MirrorMarket(market), i, MirrorReading(i, x)) THEN step' = "idle"
             ELSE ballot' = Counted(ballot, MirrorMarket(market), i, MirrorReading(i, x))
  <2>1. x \in Scale(i)
    <3>1. ballot.read + 1 \in 1..Len(Indicators)
      BY <1>3 DEF VoteInv, BallotOK, Indicators
    <3> QED BY <1>3, <3>1, ReadingAssumption
  <2>2. IF Blocks(market, i, x) THEN step' = "idle"
        ELSE ballot' = Counted(ballot, market, i, x)
    BY <1>3 DEF Read
  <2> HIDE DEF i
  <2>3. IsLong(MirrorMarket(market)) <=> ~IsLong(market)
    BY <1>2, <1>3, Zenon
  <2>4. Blocks(MirrorMarket(market), i, MirrorReading(i, x)) <=> Blocks(market, i, x)
    BY <2>1, <2>3, MirroredFilter, Zenon
  <2>5. Counted(ballot, MirrorMarket(market), i, MirrorReading(i, x))
          = Counted(ballot, market, i, x)
    BY <2>1, <2>3, MirroredVote, SMT
  <2> QED BY <2>2, <2>4, <2>5, Zenon
<1>4. ASSUME step = "reading", step' = "idea"
      PROVE  /\ idea'.confidence = Confidence(MirrorMarket(market), ballot)
             /\ idea'.direction = IF IsLong(MirrorMarket(market)) THEN "short" ELSE "long"
  <2>1. Conclude
    BY <1>4 DEF VoteNext, Look, Read, voteVars, Forgets
  <2>2. /\ idea'.confidence = Confidence(market, ballot)
        /\ idea'.direction = IF IsLong(market) THEN "long" ELSE "short"
    BY <1>4, <2>1 DEF Conclude
  <2>3. market \in Market
    BY <1>4 DEF VoteInv
  <2>4. Confidence(MirrorMarket(market), ballot) = Confidence(market, ballot)
    <3>1. MirrorMarket(market).atr = market.atr
      BY DEF MirrorMarket
    <3>2. Penalty(MirrorMarket(market)) = Penalty(market)
      BY <3>1, SMT DEF Penalty
    <3>3. Magnitude(MirrorMarket(market).momentum) = Magnitude(market.momentum)
      BY <2>3, MirroredMagnitude
    <3> QED BY <3>2, <3>3, SMT DEF Confidence
  <2> QED BY <1>2, <1>4, <2>2, <2>4, Zenon
<1> QED BY <1>1, <1>3, <1>4, Zenon DEF AlikeStep

\* The two directions are written out separately at every gate, filter and
\* vote (basic_strategy.py:139), and agree for every market and reading.
THEOREM DirectionsAreAlike == VoteSpec => LongsAndShortsAreAlike
<1>1. VoteInv /\ [VoteNext]_voteVars => AlikeStep
  BY VotesAreAlike
<1> QED BY <1>1, Invariance, PTL DEF LongsAndShortsAreAlike, VoteSpec

-----------------------------------------------------------------------------
(* What the learner computes.                                              *)

\* Statistics of a key.
Stats ==
  [weightedWins : Nat, weightedTotal : Nat, newest : Nat \ {0}, oldest : Nat \ {0},
   rawCount : Nat, winTotal : Int, winCount : Nat, lossTotal : Int, lossCount : Nat,
   history : Seq(Int)]

\* Statistics that can be scored: whoever has an outcome has a weight.
StatsOK(s) == s \in Stats /\ (s.rawCount > 0 => s.weightedTotal > 0)

\* s is a record with these fields and no other.
HasSums(s) ==
  s = [weightedWins |-> s.weightedWins, weightedTotal |-> s.weightedTotal,
       newest |-> s.newest, oldest |-> s.oldest, rawCount |-> s.rawCount,
       winTotal |-> s.winTotal, winCount |-> s.winCount,
       lossTotal |-> s.lossTotal, lossCount |-> s.lossCount, history |-> s.history]

\* n if that is so, otherwise nothing.
If(so, n) == IF so THEN n ELSE 0

\* k is what Known makes of s: field by field.
Learnt(k, s, pnl, rescaled, weight, history) ==
  /\ HasSums(k)
  /\ k.weightedWins = rescaled * s.weightedWins + If(pnl > 0, weight)
  /\ k.weightedTotal = rescaled * s.weightedTotal + weight
  /\ k.newest = 25 * s.newest /\ k.oldest = 23 * s.oldest
  /\ k.rawCount = s.rawCount + 1
  /\ k.winTotal = s.winTotal + If(pnl > 0, pnl)
  /\ k.winCount = s.winCount + If(pnl > 0, 1)
  /\ k.lossTotal = s.lossTotal + If(pnl < 0, pnl)
  /\ k.lossCount = s.lossCount + If(pnl < 0, 1)
  /\ k.history = history

\* One more outcome, however weighed.
LEMMA KnownFields ==
  ASSUME NEW s, NEW pnl, NEW rescaled, NEW weight, NEW history
  PROVE  Learnt(Known(s, pnl, rescaled, weight, history), s, pnl, rescaled, weight, history)
BY DEF Learnt, Known, HasSums, If

\* Recorded as the newest.
LEMMA RecordFields ==
  ASSUME NEW s, NEW pnl
  PROVE  Learnt(RecordOutcome(s, pnl), s, pnl, 23, s.newest, Append(s.history, pnl))
BY KnownFields, Zenon DEF RecordOutcome

\* Loaded as the oldest.
LEMMA OlderFields ==
  ASSUME NEW s, NEW pnl
  PROVE  Learnt(WithOlder(s, pnl), s, pnl, 25, s.oldest, <<pnl>> \o s.history)
BY KnownFields, Zenon DEF WithOlder

\* The fields of statistics, and their ranges.
LEMMA StatsFields ==
  ASSUME NEW s \in Stats
  PROVE  /\ HasSums(s)
         /\ s.weightedWins \in Nat /\ s.weightedTotal \in Nat /\ s.newest \in Nat \ {0}
         /\ s.oldest \in Nat \ {0} /\ s.rawCount \in Nat /\ s.winTotal \in Int
         /\ s.winCount \in Nat /\ s.lossTotal \in Int /\ s.lossCount \in Nat
         /\ s.history \in Seq(Int)
BY DEF Stats, HasSums

\* A process that has seen nothing.
LEMMA NoStatsOK == StatsOK(NoStats)
BY DEF NoStats, StatsOK, Stats

\* Another outcome of any positive weight.
LEMMA KnownOK ==
  ASSUME NEW s, StatsOK(s), NEW pnl \in Int, NEW rescaled \in {23, 25},
         NEW weight \in Nat \ {0}, NEW history \in Seq(Int)
  PROVE  StatsOK(Known(s, pnl, rescaled, weight, history))
<1> DEFINE k == Known(s, pnl, rescaled, weight, history)
<1>1. /\ s.weightedWins \in Nat /\ s.weightedTotal \in Nat /\ s.newest \in Nat \ {0}
      /\ s.oldest \in Nat \ {0} /\ s.rawCount \in Nat /\ s.winTotal \in Int
      /\ s.winCount \in Nat /\ s.lossTotal \in Int /\ s.lossCount \in Nat
  BY StatsFields DEF StatsOK
<1>2. rescaled * s.weightedWins \in Nat /\ rescaled * s.weightedTotal \in Nat
  <2> DEFINE w == s.weightedWins
             t == s.weightedTotal
  <2>1. w \in Nat /\ t \in Nat
    BY <1>1
  <2> HIDE DEF w, t
  <2>2. 23 * w \in Nat /\ 25 * w \in Nat /\ 23 * t \in Nat /\ 25 * t \in Nat
    BY <2>1
  <2>3. rescaled * w \in Nat /\ rescaled * t \in Nat
    BY <2>2
  <2> QED BY <2>3 DEF w, t
<1>3. /\ If(pnl > 0, weight) \in Nat /\ If(pnl > 0, pnl) \in Int /\ If(pnl > 0, 1) \in Nat
      /\ If(pnl < 0, pnl) \in Int /\ If(pnl < 0, 1) \in Nat
  BY DEF If
<1>4. Learnt(k, s, pnl, rescaled, weight, history)
  BY KnownFields
<1> HIDE DEF k
<1>5. k.weightedWins \in Nat
  <2>1. rescaled * s.weightedWins + If(pnl > 0, weight) \in Nat
    BY ONLY <1>2, <1>3
  <2> QED BY ONLY <2>1, <1>4, Zenon DEF Learnt
<1>6. k.weightedTotal \in Nat \ {0}
  <2>1. k.weightedTotal = rescaled * s.weightedTotal + weight
    BY <1>4 DEF Learnt
  <2> DEFINE n == rescaled * s.weightedTotal
  <2>2. n \in Nat
    BY <1>2
  <2> HIDE DEF n
  <2>3. n + weight \in Nat \ {0}
    BY <2>2
  <2> QED BY <2>1, <2>3 DEF n
<1>7. k.newest \in Nat \ {0} /\ k.oldest \in Nat \ {0} /\ k.rawCount \in Nat
  <2>1. k.newest = 25 * s.newest /\ k.oldest = 23 * s.oldest /\ k.rawCount = s.rawCount + 1
    BY <1>4 DEF Learnt
  <2>2. 25 * s.newest \in Nat \ {0} /\ 23 * s.oldest \in Nat \ {0} /\ s.rawCount + 1 \in Nat
    <3> DEFINE n == s.newest
               o == s.oldest
               r == s.rawCount
    <3>1. n \in Nat \ {0} /\ o \in Nat \ {0} /\ r \in Nat
      BY <1>1
    <3> HIDE DEF n, o, r
    <3>2. 25 * n \in Nat \ {0} /\ 23 * o \in Nat \ {0} /\ r + 1 \in Nat
      BY <3>1
    <3> QED BY <3>2 DEF n, o, r
  <2> QED BY ONLY <2>1, <2>2, Zenon
<1>8. k.winTotal \in Int /\ k.winCount \in Nat
  <2> DEFINE x == s.winTotal
             i == If(pnl > 0, pnl)
             n == s.winCount
             j == If(pnl > 0, 1)
  <2>a. x \in Int /\ i \in Int /\ n \in Nat /\ j \in Nat
    BY <1>1, <1>3
  <2> HIDE DEF x, i, n, j
  <2>b. x + i \in Int /\ n + j \in Nat
    BY <2>a
  <2>1. s.winTotal + If(pnl > 0, pnl) \in Int /\ s.winCount + If(pnl > 0, 1) \in Nat
    BY <2>b DEF x, i, n, j
  <2> QED BY ONLY <2>1, <1>4, Zenon DEF Learnt
<1>9. k.lossTotal \in Int /\ k.lossCount \in Nat /\ k.history \in Seq(Int)
  <2> DEFINE x == s.lossTotal
             i == If(pnl < 0, pnl)
             n == s.lossCount
             j == If(pnl < 0, 1)
  <2>a. x \in Int /\ i \in Int /\ n \in Nat /\ j \in Nat
    BY <1>1, <1>3
  <2> HIDE DEF x, i, n, j
  <2>b. x + i \in Int /\ n + j \in Nat
    BY <2>a
  <2>1. s.lossTotal + If(pnl < 0, pnl) \in Int /\ s.lossCount + If(pnl < 0, 1) \in Nat
    BY <2>b DEF x, i, n, j
  <2> QED BY <2>1, <1>4, Zenon DEF Learnt
<1>10. k \in Stats
  BY <1>4, <1>5, <1>6, <1>7, <1>8, <1>9 DEF HasSums, Stats, Learnt
<1> QED
  BY <1>6, <1>10 DEF StatsOK, k

\* A recorded outcome, and one that is loaded behind the others.
LEMMA LearningOK ==
  ASSUME NEW s, StatsOK(s), NEW pnl \in Int
  PROVE  StatsOK(RecordOutcome(s, pnl)) /\ StatsOK(WithOlder(s, pnl))
<1>1. s.history \in Seq(Int) /\ s.newest \in Nat \ {0} /\ s.oldest \in Nat \ {0}
  BY StatsFields DEF StatsOK
<1>2. Append(s.history, pnl) \in Seq(Int) /\ <<pnl>> \o s.history \in Seq(Int)
  BY <1>1
<1> QED
  BY <1>1, <1>2, KnownOK DEF RecordOutcome, WithOlder

\* Appending after a concatenation.
LEMMA AppendToConcat ==
  ASSUME NEW one \in Seq(Int), NEW two \in Seq(Int), NEW e \in Int
  PROVE  Append(one \o two, e) = one \o Append(two, e)
<1>1. one \o two \in Seq(Int) /\ <<e>> \in Seq(Int)
  BY ConcatProperties
<1>2. Append(one \o two, e) = (one \o two) \o <<e>>
  BY <1>1, AppendIsConcat
<1>3. Append(two, e) = two \o <<e>>
  BY AppendIsConcat
<1>4. <<e>> \in Seq(Int)
  OBVIOUS
<1>5. (one \o two) \o <<e>> = one \o (two \o <<e>>)
  BY <1>4, ConcatAssociative
<1> QED
  BY <1>2, <1>3, <1>5, Zenon

\* A sum that grows at both ends.
LEMMA BothEnds ==
  ASSUME NEW x \in Int, NEW p \in Int, NEW q \in Int
  PROVE  23 * (25 * x + q) + 25 * p = 25 * (23 * x + p) + 23 * q
OBVIOUS

\* A plain sum does too.
LEMMA EitherOrder ==
  ASSUME NEW x \in Int, NEW p \in Int, NEW q \in Int
  PROVE  (x + q) + p = (x + p) + q
OBVIOUS

\* Scaling what may be nothing.
LEMMA IfScaled ==
  ASSUME NEW so, NEW n \in Int
  PROVE  If(so, 25 * n) = 25 * If(so, n) /\ If(so, 23 * n) = 23 * If(so, n) /\ If(so, n) \in Int
BY DEF If

\* Recording a newer outcome and loading an older one may be swapped.
LEMMA OrderOfLearning ==
  ASSUME NEW s, StatsOK(s), NEW older \in Int, NEW newer \in Int
  PROVE  RecordOutcome(WithOlder(s, older), newer) = WithOlder(RecordOutcome(s, newer), older)
<1> DEFINE behind == WithOlder(s, older)
           ahead == RecordOutcome(s, newer)
           a == RecordOutcome(behind, newer)
           b == WithOlder(ahead, older)
<1>1. /\ s.weightedWins \in Nat /\ s.weightedTotal \in Nat /\ s.newest \in Nat
      /\ s.oldest \in Nat /\ s.rawCount \in Nat /\ s.winTotal \in Int
      /\ s.winCount \in Nat /\ s.lossTotal \in Int /\ s.lossCount \in Nat
      /\ s.history \in Seq(Int)
  BY StatsFields DEF StatsOK
<1>2. Learnt(behind, s, older, 25, s.oldest, <<older>> \o s.history)
  BY OlderFields
<1>3. Learnt(ahead, s, newer, 23, s.newest, Append(s.history, newer))
  BY RecordFields
<1> HIDE DEF behind, ahead
<1>4. Learnt(a, behind, newer, 23, behind.newest, Append(behind.history, newer))
  BY RecordFields
<1>5. Learnt(b, ahead, older, 25, ahead.oldest, <<older>> \o ahead.history)
  BY OlderFields
<1> HIDE DEF a, b
<1> DEFINE x == s.weightedWins
           p == If(newer > 0, s.newest)
           q == If(older > 0, s.oldest)
<1>6. a.weightedWins = b.weightedWins
  <2>1. x \in Int /\ p \in Int /\ q \in Int
    BY <1>1 DEF If
  <2>2. behind.weightedWins = 25 * x + q /\ behind.newest = 25 * s.newest
    BY <1>2 DEF Learnt
  <2>3. ahead.weightedWins = 23 * x + p /\ ahead.oldest = 23 * s.oldest
    BY <1>3 DEF Learnt
  <2>4. a.weightedWins = 23 * behind.weightedWins + If(newer > 0, behind.newest)
    BY <1>4 DEF Learnt
  <2>5. b.weightedWins = 25 * ahead.weightedWins + If(older > 0, ahead.oldest)
    BY <1>5 DEF Learnt
  <2>6. If(newer > 0, behind.newest) = 25 * p /\ If(older > 0, ahead.oldest) = 23 * q
    <3>1. s.newest \in Int /\ s.oldest \in Int
      BY <1>1
    <3>2. If(newer > 0, 25 * s.newest) = 25 * p
      BY <3>1, IfScaled, Zenon
    <3>3. If(older > 0, 23 * s.oldest) = 23 * q
      BY <3>1, IfScaled, Zenon
    <3> QED BY <2>2, <2>3, <3>2, <3>3, Zenon
  <2> HIDE DEF x, p, q
  <2>7. 23 * (25 * x + q) + 25 * p = 25 * (23 * x + p) + 23 * q
    BY <2>1, BothEnds
  <2> QED BY <2>2, <2>3, <2>4, <2>5, <2>6, <2>7, Zenon
<1>7. a.weightedTotal = b.weightedTotal
  <2>2. behind.weightedTotal = 25 * s.weightedTotal + s.oldest /\ behind.newest = 25 * s.newest
    BY <1>2 DEF Learnt
  <2>3. ahead.weightedTotal = 23 * s.weightedTotal + s.newest /\ ahead.oldest = 23 * s.oldest
    BY <1>3 DEF Learnt
  <2>4. a.weightedTotal = 23 * behind.weightedTotal + behind.newest
    BY <1>4 DEF Learnt
  <2>5. b.weightedTotal = 25 * ahead.weightedTotal + ahead.oldest
    BY <1>5 DEF Learnt
  <2>7. 23 * (25 * s.weightedTotal + s.oldest) + 25 * s.newest
          = 25 * (23 * s.weightedTotal + s.newest) + 23 * s.oldest
    <3> DEFINE w == s.weightedTotal
               n == s.newest
               o == s.oldest
    <3>1. w \in Int /\ n \in Int /\ o \in Int
      BY <1>1
    <3> HIDE DEF w, n, o
    <3>2. 23 * (25 * w + o) + 25 * n = 25 * (23 * w + n) + 23 * o
      BY <3>1
    <3> QED BY <3>2 DEF w, n, o
  <2> QED BY <2>2, <2>3, <2>4, <2>5, <2>7, Zenon
<1>8. a.newest = b.newest /\ a.oldest = b.oldest
  <2>1. a.newest = 25 * behind.newest /\ a.oldest = 23 * behind.oldest
    BY <1>4 DEF Learnt
  <2>2. b.newest = 25 * ahead.newest /\ b.oldest = 23 * ahead.oldest
    BY <1>5 DEF Learnt
  <2>3. behind.newest = ahead.newest /\ behind.oldest = ahead.oldest
    BY <1>2, <1>3, Zenon DEF Learnt
  <2> QED BY <2>1, <2>2, <2>3, Zenon
<1>9. a.rawCount = b.rawCount
  <2>1. a.rawCount = behind.rawCount + 1 /\ b.rawCount = ahead.rawCount + 1
    BY <1>4, <1>5, Zenon DEF Learnt
  <2>2. behind.rawCount = ahead.rawCount
    BY <1>2, <1>3, Zenon DEF Learnt
  <2> QED BY <2>1, <2>2, Zenon
<1>10. a.winTotal = b.winTotal
  <2>1. a.winTotal = (s.winTotal + If(older > 0, older)) + If(newer > 0, newer)
    BY <1>2, <1>4, Zenon DEF Learnt
  <2>2. b.winTotal = (s.winTotal + If(newer > 0, newer)) + If(older > 0, older)
    BY <1>3, <1>5, Zenon DEF Learnt
  <2>3. If(older > 0, older) \in Int /\ If(newer > 0, newer) \in Int
    BY DEF If
  <2>4. s.winTotal \in Int
    BY <1>1
  <2>5. (s.winTotal + If(older > 0, older)) + If(newer > 0, newer)
        = (s.winTotal + If(newer > 0, newer)) + If(older > 0, older)
    BY ONLY <2>3, <2>4, EitherOrder
  <2> QED BY ONLY <2>1, <2>2, <2>5, Zenon
<1>11. a.winCount = b.winCount
  <2>1. a.winCount = (s.winCount + If(older > 0, 1)) + If(newer > 0, 1)
    BY <1>2, <1>4, Zenon DEF Learnt
  <2>2. b.winCount = (s.winCount + If(newer > 0, 1)) + If(older > 0, 1)
    BY <1>3, <1>5, Zenon DEF Learnt
  <2>3. If(older > 0, 1) \in Int /\ If(newer > 0, 1) \in Int
    BY DEF If
  <2>4. s.winCount \in Int
    BY <1>1
  <2>5. (s.winCount + If(older > 0, 1)) + If(newer > 0, 1)
        = (s.winCount + If(newer > 0, 1)) + If(older > 0, 1)
    BY ONLY <2>3, <2>4, EitherOrder
  <2> QED BY ONLY <2>1, <2>2, <2>5, Zenon
<1>12. a.lossTotal = b.lossTotal
  <2>1. a.lossTotal = (s.lossTotal + If(older < 0, older)) + If(newer < 0, newer)
    BY <1>2, <1>4, Zenon DEF Learnt
  <2>2. b.lossTotal = (s.lossTotal + If(newer < 0, newer)) + If(older < 0, older)
    BY <1>3, <1>5, Zenon DEF Learnt
  <2>3. If(older < 0, older) \in Int /\ If(newer < 0, newer) \in Int
    BY DEF If
  <2>4. s.lossTotal \in Int
    BY <1>1
  <2>5. (s.lossTotal + If(older < 0, older)) + If(newer < 0, newer)
        = (s.lossTotal + If(newer < 0, newer)) + If(older < 0, older)
    BY ONLY <2>3, <2>4, EitherOrder
  <2> QED BY ONLY <2>1, <2>2, <2>5, Zenon
<1>13. a.lossCount = b.lossCount
  <2>1. a.lossCount = (s.lossCount + If(older < 0, 1)) + If(newer < 0, 1)
    BY <1>2, <1>4, Zenon DEF Learnt
  <2>2. b.lossCount = (s.lossCount + If(newer < 0, 1)) + If(older < 0, 1)
    BY <1>3, <1>5, Zenon DEF Learnt
  <2>3. If(older < 0, 1) \in Int /\ If(newer < 0, 1) \in Int
    BY DEF If
  <2>4. s.lossCount \in Int
    BY <1>1
  <2>5. (s.lossCount + If(older < 0, 1)) + If(newer < 0, 1)
        = (s.lossCount + If(newer < 0, 1)) + If(older < 0, 1)
    BY ONLY <2>3, <2>4, EitherOrder
  <2> QED BY ONLY <2>1, <2>2, <2>5, Zenon
<1>14. a.history = b.history
  <2>1. a.history = Append(<<older>> \o s.history, newer)
    BY <1>2, <1>4, Zenon DEF Learnt
  <2>2. b.history = <<older>> \o Append(s.history, newer)
    BY <1>3, <1>5, Zenon DEF Learnt
  <2>3. <<older>> \in Seq(Int)
    OBVIOUS
  <2>4. Append(<<older>> \o s.history, newer) = <<older>> \o Append(s.history, newer)
    <3> DEFINE one == <<older>>
               two == s.history
    <3>1. one \in Seq(Int) /\ two \in Seq(Int)
      BY <1>1, <2>3
    <3> HIDE DEF one, two
    <3>2. Append(one \o two, newer) = one \o Append(two, newer)
      BY <3>1, AppendToConcat
    <3> QED BY <3>2 DEF one, two
  <2> QED BY <2>1, <2>2, <2>4, Zenon
<1>15. a = b
  <2>1. HasSums(a) /\ HasSums(b)
    BY <1>4, <1>5, Zenon DEF Learnt
  <2> QED BY <1>6, <1>7, <1>8, <1>9, <1>10, <1>11, <1>12, <1>13, <1>14, <2>1, Zenon DEF HasSums
<1> QED
  BY <1>15 DEF a, b, behind, ahead

\* To a process that has seen nothing they are the same.
LEMMA FirstOutcome ==
  ASSUME NEW pnl \in Int
  PROVE  WithOlder(NoStats, pnl) = RecordOutcome(NoStats, pnl)
<1>1. Append(<<>>, pnl) = <<pnl>> /\ <<pnl>> \o <<>> = <<pnl>>
  OBVIOUS
<1>2. 23 * 0 = 0 /\ 25 * 0 = 0
  OBVIOUS
<1> QED
  BY <1>1, <1>2, Zenon DEF WithOlder, RecordOutcome, Known, NoStats

-----------------------------------------------------------------------------
(* What the startup loads.  Loading is recursive over the rows; that the   *)
(* recursion has a solution, and what it gives, is shown by looking at the *)
(* first row for which it fails.                                           *)

\* Among finitely many sets there is a smallest.
LEMMA SmallestSet ==
  ASSUME NEW S, IsFiniteSet(S), NEW T, T \subseteq SUBSET S, T # {}
  PROVE  \E x \in T : \A y \in T : y \subseteq x => y = x
<1>1. IsWellFoundedOn(StrictSubsetOrdering(S), SUBSET S)
  BY FS_StrictSubsetOrderingWellFounded, FS_FiniteSubsetsOfFinite
<1>2. PICK x \in T : \A y \in T : ~(<<y, x>> \in StrictSubsetOrdering(S))
  BY <1>1, WFMin
<1>3. \A y \in T : y \subseteq x /\ y # x => <<y, x>> \in StrictSubsetOrdering(S)
  <2> TAKE y \in T
  <2> HAVE y \subseteq x /\ y # x
  <2>1. y \in SUBSET S /\ x \in SUBSET S
    OBVIOUS
  <2>2. <<y, x>> \in (SUBSET S) \X (SUBSET S)
    BY <2>1
  <2>3. <<y, x>>[1] = y /\ <<y, x>>[2] = x
    OBVIOUS
  <2> QED
    BY <2>2, <2>3 DEF StrictSubsetOrdering
<1>4. \A y \in T : y \subseteq x => y = x
  BY <1>2, <1>3
<1> QED
  BY <1>4

\* Among natural numbers there is a least.
LEMMA LeastNumber ==
  ASSUME NEW S, S \subseteq Nat, S # {}
  PROVE  \E m \in S : \A k \in S : m <= k
<1>1. PICK n \in S : TRUE
  OBVIOUS
<1>2. n \in Nat
  OBVIOUS
<1> DEFINE below == {k \in S : k <= n}
           T == {0..k : k \in below}
<1>3. IsFiniteSet(0..n)
  BY <1>2, FS_Interval
<1>4. T \subseteq SUBSET (0..n)
  BY <1>2
<1>5. 0..n \in T
  BY <1>1, <1>2
<1>6. PICK x \in T : \A y \in T : y \subseteq x => y = x
  <2>1. T # {}
    BY <1>5
  <2> DEFINE all == 0..n
  <2>2. IsFiniteSet(all) /\ T \subseteq SUBSET all
    BY <1>3, <1>4
  <2> HIDE DEF T, all
  <2>3. \E x \in T : \A y \in T : y \subseteq x => y = x
    BY <2>1, <2>2, SmallestSet
  <2> QED BY <2>3
<1>7. PICK m \in below : x = 0..m
  OBVIOUS
<1>8. ASSUME NEW k \in S PROVE m <= k
  <2>1. k \in Nat /\ m \in Nat /\ m <= n
    BY <1>7
  <2>2. CASE k <= n
    <3>1. 0..k \in T
      BY <2>2
    <3>2. 0..k \subseteq 0..m => 0..k = 0..m
      BY <1>6, <1>7, <3>1
    <3> SUFFICES ASSUME k < m PROVE FALSE
      BY <2>1
    <3>3. 0..k \subseteq 0..m /\ m \in 0..m /\ m \notin 0..k
      BY <2>1
    <3> QED BY <3>2, <3>3, Zenon
  <2>3. CASE k > n
    BY <2>1, <2>3
  <2> QED BY <1>2, <2>1, <2>2, <2>3
<1> QED BY <1>8

\* A row of the key is loaded behind those before it.
Turn(s, key, row) == IF row.direction = key THEN WithOlder(s, row.pnl) ELSE s

\* f holds what the first rows add up to, for every number up to last.
Loads(f, key, rows, last) ==
  f = [n \in 0..last |-> IF n = 0 THEN NoStats
                         ELSE IF rows[n].direction = key
                         THEN WithOlder(f[n - 1], rows[n].pnl)
                         ELSE f[n - 1]]

\* What the recursion says of one row.
LEMMA LoadsRule ==
  ASSUME NEW f, NEW key, NEW rows, NEW last \in Nat, Loads(f, key, rows, last)
  PROVE  /\ f[0] = NoStats
         /\ \A n \in 1..last : f[n] = Turn(f[n - 1], key, rows[n])
<1>1. \A n \in 0..last :
        f[n] = IF n = 0 THEN NoStats
               ELSE IF rows[n].direction = key
               THEN WithOlder(f[n - 1], rows[n].pnl) ELSE f[n - 1]
  BY DEF Loads
<1>2. 0 \in 0..last /\ \A n \in 1..last : n \in 0..last /\ n # 0
  OBVIOUS
<1> QED BY <1>1, <1>2, Zenon DEF Turn

\* The recursion has a solution.
LEMMA LoadsExist ==
  ASSUME NEW key, NEW rows, NEW last \in Nat
  PROVE  \E f : Loads(f, key, rows, last)
<1> DEFINE bad == {n \in Nat : ~\E f : Loads(f, key, rows, n)}
<1> SUFFICES ASSUME bad # {} PROVE FALSE
  OBVIOUS
<1>1. PICK m \in bad : \A k \in bad : m <= k
  <2>1. bad \subseteq Nat
    OBVIOUS
  <2> HIDE DEF bad
  <2> QED BY <2>1, LeastNumber
<1>2. m \in Nat /\ ~\E f : Loads(f, key, rows, m)
  OBVIOUS
<1>3. m > 0 => m - 1 \in Nat /\ m - 1 \notin bad
  <2> HIDE DEF bad
  <2> QED BY <1>1, <1>2
<1>4. m > 0 => \E f : Loads(f, key, rows, m - 1)
  BY <1>3
<1> HIDE DEF bad
<1>5. CASE m = 0
  <2> DEFINE g == [n \in 0..0 |-> NoStats]
  <2>1. \A n \in 0..0 : n = 0
    OBVIOUS
  <2>2. Loads(g, key, rows, 0)
    BY <2>1 DEF Loads
  <2> QED BY <1>2, <1>5, <2>2
<1>6. CASE m > 0
  <2>1. PICK f : Loads(f, key, rows, m - 1)
    BY <1>4, <1>6
  <2>2. /\ f[0] = NoStats
        /\ \A n \in 1..m - 1 : f[n] = Turn(f[n - 1], key, rows[n])
    BY <1>3, <1>6, <2>1, LoadsRule
  <2> DEFINE g == [n \in 0..m |-> IF n = m THEN Turn(f[m - 1], key, rows[m]) ELSE f[n]]
  <2>3. ASSUME NEW n \in 0..m, n # 0 PROVE g[n] = Turn(g[n - 1], key, rows[n])
    <3>1. n - 1 \in 0..m /\ n - 1 # m /\ (n # m => n \in 1..m - 1)
      BY <1>2, <2>3
    <3>2. g[n - 1] = f[n - 1]
      BY <3>1
    <3>3. g[n] = IF n = m THEN Turn(f[m - 1], key, rows[m]) ELSE f[n]
      OBVIOUS
    <3> HIDE DEF g
    <3> QED BY <2>2, <3>1, <3>2, <3>3, Zenon
  <2>4. g[0] = NoStats
    BY <1>2, <1>6, <2>2
  <2>5. g = [n \in 0..m |-> g[n]]
    OBVIOUS
  <2> HIDE DEF g
  <2>6. \A n \in 0..m : g[n] = IF n = 0 THEN NoStats
                               ELSE IF rows[n].direction = key
                               THEN WithOlder(g[n - 1], rows[n].pnl) ELSE g[n - 1]
    BY <2>3, <2>4, Zenon DEF Turn
  <2>7. Loads(g, key, rows, m)
    BY <2>5, <2>6, Zenon DEF Loads
  <2> QED BY <1>2, <2>7
<1> QED BY <1>2, <1>5, <1>6

\* load_from_outcomes gives what all the rows add up to.
LEMMA LoadedIsAll ==
  ASSUME NEW key, NEW rows, Len(rows) \in Nat
  PROVE  \E f : Loads(f, key, rows, Len(rows)) /\ LoadFromOutcomes(key, rows) = f[Len(rows)]
<1> DEFINE f == CHOOSE f : Loads(f, key, rows, Len(rows))
<1>1. Loads(f, key, rows, Len(rows))
  BY LoadsExist
<1>2. LoadFromOutcomes(key, rows) = f[Len(rows)]
  BY DEF LoadFromOutcomes, Loads
<1> QED BY <1>1, <1>2

\* It can be scored.
LEMMA LoadsOK ==
  ASSUME NEW f, NEW key, NEW rows, NEW last \in Nat, Loads(f, key, rows, last),
         \A n \in 1..last : rows[n].pnl \in Int
  PROVE  \A n \in 0..last : StatsOK(f[n])
<1> DEFINE bad == {n \in 0..last : ~StatsOK(f[n])}
<1> SUFFICES ASSUME bad # {} PROVE FALSE
  OBVIOUS
<1>1. PICK m \in bad : \A k \in bad : m <= k
  <2>1. bad \subseteq Nat
    OBVIOUS
  <2> HIDE DEF bad
  <2> QED BY <2>1, LeastNumber
<1>2. m \in 0..last /\ ~StatsOK(f[m])
  OBVIOUS
<1>3. m # 0 => m \in 1..last /\ StatsOK(f[m - 1])
  <2>1. m # 0 => m \in 1..last /\ m - 1 \in 0..last /\ ~(m <= m - 1)
    BY <1>2
  <2> QED BY <1>1, <2>1
<1> HIDE DEF bad
<1>4. f[0] = NoStats /\ (m # 0 => f[m] = Turn(f[m - 1], key, rows[m]))
  BY <1>3, LoadsRule
<1>5. m # 0
  BY <1>2, <1>4, NoStatsOK
<1>6. rows[m].pnl \in Int
  BY <1>3, <1>5
<1>7. StatsOK(WithOlder(f[m - 1], rows[m].pnl))
  BY <1>3, <1>5, <1>6, LearningOK
<1> QED BY <1>2, <1>3, <1>4, <1>5, <1>7, Zenon DEF Turn

\* One more row, newer than the others, is one more outcome recorded.
LEMMA NewerRow ==
  ASSUME NEW key, NEW rows, NEW last \in Nat, NEW f, Loads(f, key, rows, last),
         \A n \in 1..last : rows[n].pnl \in Int,
         NEW newer, NEW g, Loads(g, key, newer, last + 1),
         newer[1].pnl \in Int, \A n \in 1..last : newer[n + 1] = rows[n]
  PROVE  g[last + 1] = IF newer[1].direction = key
                       THEN RecordOutcome(f[last], newer[1].pnl) ELSE f[last]
<1> DEFINE o == newer[1]
           Told(s) == IF o.direction = key THEN RecordOutcome(s, o.pnl) ELSE s
           bad == {n \in 0..last : g[n + 1] # Told(f[n])}
<1>1. last \in 0..last
  OBVIOUS
<1>2. f[0] = NoStats /\ \A n \in 1..last : f[n] = Turn(f[n - 1], key, rows[n])
  BY LoadsRule
<1>3. g[0] = NoStats /\ \A n \in 1..last + 1 : g[n] = Turn(g[n - 1], key, newer[n])
  <2>1. last + 1 \in Nat
    OBVIOUS
  <2> QED BY <2>1, LoadsRule
<1>4. \A n \in 0..last : StatsOK(f[n])
  BY LoadsOK
<1>5. g[1] = Told(f[0])
  <2>1. g[1] = Turn(NoStats, key, o)
    <3>1. 1 \in 1..last + 1 /\ 1 - 1 = 0
      OBVIOUS
    <3> QED BY <1>3, <3>1
  <2>2. WithOlder(NoStats, o.pnl) = RecordOutcome(NoStats, o.pnl)
    BY FirstOutcome
  <2> QED BY <1>2, <2>1, <2>2, Zenon DEF Turn
<1>6. ASSUME NEW m \in 1..last, g[m] = Told(f[m - 1]) PROVE g[m + 1] = Told(f[m])
  <2>1. g[m + 1] = Turn(g[m], key, newer[m + 1])
    <3>1. m + 1 \in 1..last + 1 /\ (m + 1) - 1 = m
      OBVIOUS
    <3> QED BY <1>3, <3>1
  <2>2. newer[m + 1] = rows[m] /\ f[m] = Turn(f[m - 1], key, rows[m])
    BY <1>2
  <2>3. StatsOK(f[m - 1]) /\ rows[m].pnl \in Int
    <3>1. m - 1 \in 0..last
      OBVIOUS
    <3> QED BY <1>4, <3>1
  <2> DEFINE s == f[m - 1]
             row == rows[m]
  <2>4. RecordOutcome(WithOlder(s, row.pnl), o.pnl) = WithOlder(RecordOutcome(s, o.pnl), row.pnl)
    BY <2>3, OrderOfLearning
  <2>5. g[m + 1] = Turn(Told(s), key, row) /\ f[m] = Turn(s, key, row)
    BY <1>6, <2>1, <2>2
  <2> HIDE DEF s, row, o
  <2>6. Turn(Told(s), key, row) = Told(Turn(s, key, row))
    BY <2>4, Zenon DEF Turn
  <2> QED BY <2>5, <2>6, Zenon
<1>7. bad = {}
  <2> SUFFICES ASSUME bad # {} PROVE FALSE
    OBVIOUS
  <2>1. PICK m \in bad : \A k \in bad : m <= k
    <3>1. bad \subseteq Nat
      OBVIOUS
    <3> HIDE DEF bad
    <3> QED BY <3>1, LeastNumber
  <2> HIDE DEF o, Told
  <2>2. m \in 0..last /\ g[m + 1] # Told(f[m])
    OBVIOUS
  <2>3. m # 0 => m \in 1..last /\ m - 1 \in 0..last /\ ~(m <= m - 1) /\ (m - 1) + 1 = m
    BY <2>2
  <2>4. m # 0 => g[m] = Told(f[m - 1])
    <3>1. m # 0 => m - 1 \notin bad
      <4> HIDE DEF bad
      <4> QED BY <2>1, <2>3
    <3> QED BY <2>3, <3>1
  <2>5. 0 + 1 = 1
    OBVIOUS
  <2> HIDE DEF bad
  <2> QED BY <1>5, <1>6, <2>2, <2>3, <2>4, <2>5
<1> QED BY <1>1, <1>7

-----------------------------------------------------------------------------
(* The rows on file, and the learner that is seeded from them.             *)

\* A row of signal_outcomes.
Row == [direction : Directions, pnl : Int, reason : {"signal", "stop_loss"}]

\* All rows of a file that one query returns, newest first.
LEMMA NewestFirst ==
  ASSUME NEW rows \in Seq(Row), Len(rows) <= RowLimit
  PROVE  /\ Len(Newest(rows)) = Len(rows)
         /\ \A n \in 1..Len(rows) :
              /\ Newest(rows)[n] = rows[Len(rows) + 1 - n]
              /\ Newest(rows)[n] \in Row
<1> DEFINE last == Len(rows)
<1>1. last \in Nat
  OBVIOUS
<1>2. AtMost(last, RowLimit) = last
  BY DEF AtMost
<1>3. Newest(rows) = [n \in 1..last |-> rows[last + 1 - n]]
  BY <1>2, Zenon DEF Newest
<1>4. \A n \in 1..last : last + 1 - n \in 1..last /\ rows[last + 1 - n] \in Row
  <2> TAKE n \in 1..last
  <2>1. last + 1 - n \in 1..last
    BY <1>1
  <2> QED BY <2>1, ElementOfSeq
<1>5. \A n \in 1..last : Newest(rows)[n] = rows[last + 1 - n]
  BY <1>3, Zenon
<1>6. Len(Newest(rows)) = last
  <2> DEFINE f == [n \in 1..last |-> rows[last + 1 - n]]
  <2>1. f \in [1..last -> Row]
    BY <1>4
  <2> HIDE DEF f
  <2>2. f \in Seq(Row) /\ Len(f) = last
    BY <1>1, <2>1
  <2> QED BY <1>3, <2>2, Zenon DEF f
<1> QED BY <1>4, <1>5, <1>6, Zenon

\* A file that grows by a row seeds a learner that knows one outcome more.
LEMMA SeededGrows ==
  ASSUME NEW rows \in Seq(Row), NEW o \in Row, Len(rows) + 1 <= RowLimit
  PROVE  Seeded(Append(rows, o))
           = [Seeded(rows) EXCEPT ![o.direction] = RecordOutcome(@, o.pnl)]
<1> DEFINE last == Len(rows)
           grown == Append(rows, o)
           older == Newest(rows)
           newer == Newest(grown)
<1>1. last \in Nat /\ last <= RowLimit
  BY LimitAssumption
<1>2. grown \in Seq(Row) /\ Len(grown) = last + 1 /\ grown[last + 1] = o
  BY AppendProperties
<1>3. \A n \in 1..last : grown[n] = rows[n]
  BY AppendProperties
<1>4. /\ Len(older) = last
      /\ \A n \in 1..last : older[n] = rows[last + 1 - n] /\ older[n] \in Row
  BY <1>1, NewestFirst, Zenon
<1>5. /\ Len(newer) = last + 1
      /\ \A n \in 1..last + 1 : newer[n] = grown[(last + 1) + 1 - n]
  <2> HIDE DEF grown, last
  <2>1. Len(grown) <= RowLimit
    BY <1>2 DEF last
  <2> QED BY <1>2, <2>1, NewestFirst, Zenon
<1> HIDE DEF grown, older, newer
<1>6. newer[1] = o
  <2>1. 1 \in 1..last + 1 /\ (last + 1) + 1 - 1 = last + 1
    BY <1>1
  <2> HIDE DEF last
  <2> QED BY <1>2, <1>5, <2>1
<1>7. ASSUME NEW n \in 1..last PROVE newer[n + 1] = older[n]
  <2>1. /\ n + 1 \in 1..last + 1 /\ (last + 1) + 1 - (n + 1) = last + 1 - n
        /\ last + 1 - n \in 1..last
    BY <1>1
  <2> HIDE DEF last
  <2>2. newer[n + 1] = grown[last + 1 - n]
    BY <1>5, <2>1
  <2>3. grown[last + 1 - n] = rows[last + 1 - n]
    BY <1>3, <2>1
  <2> QED BY <1>4, <2>2, <2>3
<1>8. o.pnl \in Int /\ o.direction \in Directions
  BY DEF Row
<1>9. \A n \in 1..last : older[n].pnl \in Int
  BY <1>4 DEF Row
<1>10. ASSUME NEW d
       PROVE  LoadFromOutcomes(d, newer)
                = IF o.direction = d THEN RecordOutcome(LoadFromOutcomes(d, older), o.pnl)
                  ELSE LoadFromOutcomes(d, older)
  <2>1. PICK f : Loads(f, d, older, last) /\ LoadFromOutcomes(d, older) = f[last]
    BY <1>1, <1>4, LoadedIsAll
  <2>2. PICK g : Loads(g, d, newer, last + 1) /\ LoadFromOutcomes(d, newer) = g[last + 1]
    BY <1>1, <1>5, LoadedIsAll
  <2>3. newer[1].pnl \in Int
    BY <1>6, <1>8
  <2> HIDE DEF last
  <2>4. g[last + 1] = IF newer[1].direction = d
                      THEN RecordOutcome(f[last], newer[1].pnl) ELSE f[last]
    BY <1>1, <1>7, <1>9, <2>1, <2>2, <2>3, NewerRow
  <2> QED BY <1>6, <2>1, <2>2, <2>4, Zenon
<1>11. Seeded(grown) = [d \in Directions |-> LoadFromOutcomes(d, newer)]
  BY Zenon DEF Seeded, newer
<1>12. Seeded(rows) = [d \in Directions |-> LoadFromOutcomes(d, older)]
  BY Zenon DEF Seeded, older
<1>13. Seeded(grown) = [Seeded(rows) EXCEPT ![o.direction] = RecordOutcome(@, o.pnl)]
  <2> DEFINE A == [d \in Directions |-> LoadFromOutcomes(d, older)]
             B == [A EXCEPT ![o.direction] = RecordOutcome(@, o.pnl)]
  <2>1. \A d \in Directions : B[d] = LoadFromOutcomes(d, newer)
    <3> TAKE d \in Directions
    <3>1. B[d] = IF o.direction = d THEN RecordOutcome(LoadFromOutcomes(d, older), o.pnl)
                 ELSE LoadFromOutcomes(d, older)
      BY <1>8
    <3> QED BY <1>10, <3>1, Zenon
  <2>2. B = [d \in Directions |-> B[d]]
    OBVIOUS
  <2>3. B = [d \in Directions |-> LoadFromOutcomes(d, newer)]
    <3> HIDE DEF B
    <3> QED BY <2>1, <2>2
  <2> QED BY <1>11, <1>12, <2>3, Zenon
<1> QED BY <1>13 DEF grown

\* A learner that is seeded from rows can be asked.
LEMMA SeededOK ==
  ASSUME NEW rows \in Seq(Row)
  PROVE  \A d \in Directions : StatsOK(Seeded(rows)[d])
<1> DEFINE last == AtMost(Len(rows), RowLimit)
           kept == Newest(rows)
<1>1. last \in Nat /\ last <= Len(rows) /\ Len(rows) \in Nat
  BY LimitAssumption DEF AtMost
<1>2. kept = [n \in 1..last |-> rows[Len(rows) + 1 - n]]
  BY Zenon DEF Newest
<1>3. \A n \in 1..last : kept[n] \in Row
  <2> TAKE n \in 1..last
  <2>1. Len(rows) + 1 - n \in 1..Len(rows)
    BY <1>1
  <2>2. kept[n] = rows[Len(rows) + 1 - n]
    BY <1>2, Zenon
  <2> QED BY <2>1, <2>2, ElementOfSeq
<1>4. Len(kept) = last
  <2>1. kept \in [1..last -> Row]
    <3> HIDE DEF last
    <3>1. kept = [n \in 1..last |-> kept[n]]
      BY <1>2
    <3> HIDE DEF kept
    <3> QED BY <1>3, <3>1
  <2> HIDE DEF kept, last
  <2> QED BY <1>1, <2>1
<1> HIDE DEF kept, last
<1>5. \A n \in 1..last : kept[n].pnl \in Int
  BY <1>3 DEF Row
<1>6. ASSUME NEW d \in Directions PROVE StatsOK(Seeded(rows)[d])
  <2>1. PICK f : Loads(f, d, kept, last) /\ LoadFromOutcomes(d, kept) = f[last]
    BY <1>1, <1>4, LoadedIsAll
  <2>2. last \in 0..last
    BY <1>1
  <2>3. StatsOK(f[last])
    BY <1>1, <1>5, <2>1, <2>2, LoadsOK
  <2>4. Seeded(rows)[d] = LoadFromOutcomes(d, kept)
    BY Zenon DEF Seeded, kept
  <2> QED BY <2>1, <2>3, <2>4
<1> QED BY <1>6

-----------------------------------------------------------------------------
(* What the learner makes of a confidence.                                 *)

\* The normaliser is at least its last term.
LEMMA LargestOfThree ==
  ASSUME NEW a \in Int, NEW b \in Int, NEW c \in Int
  PROVE  Max({a, b, c}) \in Int /\ Max({a, b, c}) >= c
<1> DEFINE S == {a, b, c}
<1>1. \E x \in S : \A y \in S : x >= y
  <2>1. CASE a >= b /\ a >= c
    BY <2>1
  <2>2. CASE b >= a /\ b >= c
    BY <2>2
  <2>3. CASE c >= a /\ c >= b
    BY <2>3
  <2> QED BY <2>1, <2>2, <2>3
<1>2. Max(S) \in S /\ \A y \in S : Max(S) >= y
  <2> HIDE DEF S
  <2>1. PICK x \in S : \A y \in S : x >= y
    BY <1>1
  <2> DEFINE m == CHOOSE m \in S : \A y \in S : m >= y
  <2>2. m \in S /\ \A y \in S : m >= y
    BY <2>1
  <2>3. Max(S) = m
    BY Zenon DEF Max
  <2> HIDE DEF m
  <2> QED BY <2>2, <2>3
<1> QED BY <1>2

\* A clamp clamps.
LEMMA ClampBounds ==
  ASSUME NEW low \in Int, NEW high \in Int, low <= high, NEW n \in Int
  PROVE  Clamp(low, high, n) \in low..high
<1> DEFINE c == Clamp(low, high, n)
<1>1. c \in Int /\ low <= c /\ c <= high
  <2>1. n < low => c = low
    BY DEF Clamp
  <2>2. ~(n < low) /\ n > high => c = high
    BY DEF Clamp
  <2>3. ~(n < low) /\ ~(n > high) => c = n
    BY DEF Clamp
  <2> HIDE DEF c
  <2> QED BY <2>1, <2>2, <2>3
<1> HIDE DEF c
<1>2. c \in low..high
  BY <1>1
<1> QED BY <1>2 DEF c

\* Scores, from minus one to one, and how they are cut and divided.
Scores == -10000..10000
ToScore(n) == Clamp(-10000, 10000, n)
Ratio(n, m) == (10000 * n) \div m

\* What is cut is a score.
LEMMA ToScoreBounds == \A n \in Int : ToScore(n) \in Scores
<1> DEFINE low == -10000
           high == 10000
<1>1. low \in Int /\ high \in Int /\ low <= high
  OBVIOUS
<1> HIDE DEF low, high
<1>2. \A n \in Int : Clamp(low, high, n) \in low..high
  BY <1>1, ClampBounds
<1>3. \A n : ToScore(n) = Clamp(low, high, n)
  BY SMT DEF ToScore, low, high
<1>4. Scores = low..high
  BY SMT DEF Scores, low, high
<1> QED BY <1>2, <1>3, <1>4, Zenon

\* A quotient by a positive number is a number.
LEMMA RatioIsInt ==
  ASSUME NEW n \in Int, NEW m \in Int, m > 0
  PROVE  Ratio(n, m) \in Int
<1> DEFINE k == 10000 * n
<1>1. k \in Int
  OBVIOUS
<1> HIDE DEF k
<1>2. k \div m \in Int
  BY <1>1
<1> QED BY <1>2 DEF Ratio, k

\* A score is between minus one and one.
LEMMA ScoreBounds ==
  ASSUME NEW s, StatsOK(s), s.rawCount > 0
  PROVE  QualityScore(s) \in Scores
<1> DEFINE wins == IF s.winCount = 0 THEN 1 ELSE s.winCount
           losses == IF s.lossCount = 0 THEN 1 ELSE s.lossCount
           expectancy == s.weightedWins * s.winTotal * losses
                         + (s.weightedTotal - s.weightedWins) * s.lossTotal * wins
           a == s.winTotal * losses
           b == -s.lossTotal * wins
           c == wins * losses
           total == s.weightedTotal
           whole == total * Max({a, b, c})
<1>1. /\ s.weightedWins \in Nat /\ s.weightedTotal \in Nat /\ s.winTotal \in Int
      /\ s.winCount \in Nat /\ s.lossTotal \in Int /\ s.lossCount \in Nat
  BY StatsFields DEF StatsOK
<1>2. s.weightedTotal > 0
  BY DEF StatsOK
<1>3. wins \in Nat \ {0} /\ losses \in Nat \ {0}
  BY <1>1
<1>4. expectancy \in Int
  <2> HIDE DEF wins, losses
  <2>1. s.weightedWins * s.winTotal \in Int
    BY <1>1
  <2>2. s.weightedWins * s.winTotal * losses \in Int
    BY <1>3, <2>1
  <2>3. s.weightedTotal - s.weightedWins \in Int
    BY <1>1
  <2>4. (s.weightedTotal - s.weightedWins) * s.lossTotal \in Int
    BY <1>1, <2>3
  <2>5. (s.weightedTotal - s.weightedWins) * s.lossTotal * wins \in Int
    BY <1>3, <2>4
  <2> QED BY <2>2, <2>5
<1>5. a \in Int /\ b \in Int /\ c \in Int /\ c > 0
  <2> HIDE DEF wins, losses
  <2>1. a \in Int /\ b \in Int
    BY <1>1, <1>3
  <2>2. c \in Int /\ c > 0
    BY <1>3
  <2> QED BY <2>1, <2>2
<1>6. total \in Int /\ total > 0
  <2>1. total \in Nat /\ total > 0
    BY <1>1, <1>2, Zenon
  <2> QED BY ONLY <2>1
<1>7. QualityScore(s) = ToScore(Ratio(expectancy, whole))
  BY ONLY SMT DEF QualityScore, ToScore, Ratio
<1> HIDE DEF expectancy, a, b, c, total
<1>8. whole \in Int /\ whole > 0
  <2> DEFINE largest == Max({a, b, c})
  <2>1. largest \in Int /\ largest > 0
    <3>1. largest \in Int /\ largest >= c
      BY <1>5, LargestOfThree, Zenon
    <3> HIDE DEF largest
    <3> QED BY <1>5, <3>1
  <2> HIDE DEF largest
  <2>2. total * largest \in Int /\ total * largest > 0
    BY <1>6, <2>1
  <2> QED BY <2>2 DEF largest
<1> HIDE DEF whole
<1>9. ToScore(Ratio(expectancy, whole)) \in Scores
  BY <1>4, <1>8, RatioIsInt, ToScoreBounds
<1> QED BY <1>7, <1>9, Zenon

\* Dividing keeps the order.
LEMMA QuotientsKeepOrder ==
  ASSUME NEW n \in Int, NEW m \in Int, n <= m
  PROVE  n \div 20000 <= m \div 20000 /\ n \div 20000 \in Int /\ m \div 20000 \in Int
OBVIOUS

\* So does multiplying.
LEMMA ProductsKeepOrder ==
  ASSUME NEW n \in Int, NEW m \in Int, n <= m, NEW k \in Nat
  PROVE  n * k <= m * k /\ n * k \in Int /\ m * k \in Int
OBVIOUS

\* The cap of an adjusted confidence.
LEMMA SmallerOfTwo ==
  ASSUME NEW n \in Int
  PROVE  Min({9500, n}) = IF n <= 9500 THEN n ELSE 9500
<1> DEFINE S == {9500, n}
           least == IF n <= 9500 THEN n ELSE 9500
<1>1. least \in S /\ \A y \in S : least <= y
  OBVIOUS
<1>2. \A x \in S : (\A y \in S : x <= y) => x = least
  OBVIOUS
<1> HIDE DEF S, least
<1>3. Min(S) = least
  BY <1>1, <1>2 DEF Min
<1> QED BY <1>3 DEF S, least

\* The factor of an adjustment.
LEMMA FactorIsNat ==
  ASSUME NEW s, StatsOK(s), s.rawCount > 0
  PROVE  20000 + QualityScore(s) \in Nat
<1> DEFINE q == QualityScore(s)
<1>1. q \in Scores
  BY ScoreBounds
<1> HIDE DEF q
<1>2. q \in Int /\ q >= -10000
  BY ONLY <1>1 DEF Scores
<1>3. 20000 + q \in Nat
  BY ONLY <1>2
<1> QED BY ONLY <1>3 DEF q

\* A more confident idea is not adjusted to less.
LEMMA AdjustmentKeepsOrder ==
  ASSUME NEW s, StatsOK(s), NEW lower \in Int, NEW higher \in Int, lower <= higher,
         AdjustConfidence(s, lower) >= MinSignalConfidence
  PROVE  AdjustConfidence(s, higher) >= MinSignalConfidence
<1>1. CASE s.rawCount < MinSamples
  BY <1>1 DEF AdjustConfidence, MinSignalConfidence
<1>2. CASE ~(s.rawCount < MinSamples)
  <2>1. s.rawCount > 0
    <3>1. s.rawCount \in Nat
      BY StatsFields DEF StatsOK
    <3> QED BY <1>2, <3>1, SampleAssumption
  <2> DEFINE k == 20000 + QualityScore(s)
             low == (lower * k) \div 20000
             high == (higher * k) \div 20000
  <2>2. k \in Nat
    BY <2>1, FactorIsNat
  <2>3. /\ AdjustConfidence(s, lower) = Min({9500, low})
        /\ AdjustConfidence(s, higher) = Min({9500, high})
    BY ONLY <1>2, SMT DEF AdjustConfidence
  <2> HIDE DEF k
  <2>4. lower * k <= higher * k /\ lower * k \in Int /\ higher * k \in Int
    BY <2>2, ProductsKeepOrder
  <2>5. low <= high /\ low \in Int /\ high \in Int
    BY <2>4, QuotientsKeepOrder
  <2> HIDE DEF low, high
  <2>6. /\ Min({9500, low}) = IF low <= 9500 THEN low ELSE 9500
        /\ Min({9500, high}) = IF high <= 9500 THEN high ELSE 9500
    BY <2>5, SmallerOfTwo
  <2> QED BY <2>3, <2>5, <2>6 DEF MinSignalConfidence
<1> QED BY <1>1, <1>2

\* An adjusted confidence is within the limits of a confidence.
LEMMA AdjustedInBounds ==
  ASSUME NEW s, StatsOK(s), NEW base \in Limits
  PROVE  AdjustConfidence(s, base) \in Limits
<1>1. CASE s.rawCount < MinSamples
  BY <1>1 DEF AdjustConfidence
<1>2. CASE ~(s.rawCount < MinSamples)
  <2>1. s.rawCount > 0
    <3>1. s.rawCount \in Nat
      BY StatsFields DEF StatsOK
    <3> QED BY <1>2, <3>1, SampleAssumption
  <2> DEFINE k == 20000 + QualityScore(s)
             n == base * k
             low == n \div 20000
  <2>2. k \in Nat
    BY <2>1, FactorIsNat
  <2>3. AdjustConfidence(s, base) = Min({9500, low})
    BY ONLY <1>2, SMT DEF AdjustConfidence
  <2> HIDE DEF k
  <2>4. n \in Nat
    BY <2>2 DEF Limits
  <2> HIDE DEF n
  <2>5. low \in Nat
    BY <2>4
  <2> HIDE DEF low
  <2> DEFINE capped == Min({9500, low})
  <2>6. capped = IF low <= 9500 THEN low ELSE 9500
    BY <2>5, SmallerOfTwo
  <2>7. AdjustConfidence(s, base) = capped
    BY <2>3
  <2> HIDE DEF capped
  <2>8. capped \in Limits
    BY ONLY <2>5, <2>6 DEF Limits
  <2> QED BY <2>7, <2>8, Zenon
<1> QED BY <1>1, <1>2

-----------------------------------------------------------------------------
(* The pipeline.                                                           *)

\* The learner can be asked about both directions.
StatsKept ==
  /\ stats = [d \in Directions |-> stats[d]]
  /\ \A d \in Directions : StatsOK(stats[d])

\* The rows are rows, and none was seeded that is not there.
FileKept ==
  /\ outcomes \in Seq(Row)
  /\ seeded \in 0..Len(outcomes)

\* So is what the model and the learner make of an idea.
JudgedInBounds ==
  step \in {"analysed", "adjusted"} => idea.confidence \in Limits /\ idea.size \in SizeRange

\* An idea has its three fields.
IdeaShape ==
  idea = [direction |-> idea.direction, confidence |-> idea.confidence, size |-> idea.size]

\* An idea on its way is for one of the two directions.
IdeaPoints ==
  step \in {"idea", "analysed", "adjusted"} => idea.direction \in Directions

\* The inductive invariant.
PipelineInv ==
  /\ VoteInv /\ IdeaShape /\ IdeaPoints /\ JudgedInBounds
  /\ StatsKept /\ FileKept /\ LessonsSurviveRestart

\* It holds at the start: an empty file seeds a learner that knows nothing.
LEMMA PipelineInitHolds == PipelineInit => PipelineInv
<1> SUFFICES ASSUME PipelineInit PROVE PipelineInv
  OBVIOUS
<1>1. VoteInv
  BY InitHolds DEF PipelineInit
<1>2. stats = [d \in Directions |-> NoStats] /\ outcomes = <<>> /\ seeded = 0 /\ step = "idle"
  BY DEF PipelineInit, VoteInit
<1>3. StatsKept
  BY <1>2, NoStatsOK DEF StatsKept
<1>4. FileKept
  BY <1>2 DEF FileKept
<1>5. stats = Seeded(outcomes)
  <2> DEFINE none == <<>>
             kept == Newest(none)
  <2>1. Len(kept) = 0
    <3>1. none \in Seq(Row) /\ Len(none) = 0 /\ Len(none) <= RowLimit
      BY LimitAssumption
    <3> HIDE DEF none
    <3> QED BY <3>1, NewestFirst
  <2> HIDE DEF kept
  <2>2. ASSUME NEW d PROVE LoadFromOutcomes(d, kept) = NoStats
    <3>1. 0 \in Nat
      OBVIOUS
    <3>2. PICK f : Loads(f, d, kept, 0) /\ LoadFromOutcomes(d, kept) = f[0]
      BY <2>1, <3>1, LoadedIsAll
    <3>3. f[0] = NoStats
      BY <3>1, <3>2, LoadsRule
    <3> QED BY <3>2, <3>3
  <2>3. Seeded(<<>>) = [d \in Directions |-> NoStats]
    BY <2>2, Zenon DEF Seeded, kept
  <2> QED BY <1>2, <2>3
<1>6. IdeaShape
  BY DEF PipelineInit, VoteInit, NoIdea, IdeaShape
<1> QED BY <1>1, <1>2, <1>3, <1>4, <1>5, <1>6 DEF PipelineInv, IdeaPoints, JudgedInBounds, LessonsSurviveRestart

-----------------------------------------------------------------------------
(* The steps, on the vote.                                                 *)

\* A step outside the vote leaves the evaluation alone.
LEMMA OutsideTheVote ==
  ASSUME VoteInv, step' \in {"idle", "idea", "analysed", "adjusted"},
         UNCHANGED <<market, ballot>> \/ Forgets, IdeasInBounds'
  PROVE  VoteInv'
<1>1. market' \in Market /\ BallotOK' /\ Tally'
  <2>1. CASE UNCHANGED <<market, ballot>>
    BY <2>1 DEF VoteInv, BallotOK, Tally
  <2>2. CASE Forgets
    BY <2>2, ForgetHolds
  <2> QED BY <2>1, <2>2
<1>2. GatePassed'
  BY DEF GatePassed
<1> QED BY <1>1, <1>2 DEF VoteInv

\* What the model scales is capped.
LEMMA ScaledConfidence ==
  ASSUME NEW c \in Limits, NEW s \in Nat
  PROVE  AtMost(9500, (c * s) \div 10000) \in Limits
<1> DEFINE n == c * s
           q == n \div 10000
<1>1. n \in Nat
  BY DEF Limits
<1> HIDE DEF n
<1>2. q \in Nat
  BY <1>1
<1> HIDE DEF q
<1>3. AtMost(9500, q) \in Limits
  BY <1>2 DEF AtMost, Limits
<1> QED BY <1>3 DEF q, n

\* The scale of an analysis, and the confidence of a recommendation.
LEMMA CutToRange ==
  ASSUME NEW n \in Int
  PROVE  Clamp(5000, 20000, n) \in Nat /\ Clamp(0, 9500, n) \in Limits
<1> DEFINE a == 5000
           b == 20000
           z == 0
           e == 9500
<1>1. a \in Nat /\ a \in Int /\ b \in Int /\ a <= b /\ z \in Int /\ e \in Int /\ z <= e
  OBVIOUS
<1>2. Limits = z..e
  BY SMT DEF Limits, z, e
<1> HIDE DEF a, b, z, e
<1>3. Clamp(a, b, n) \in a..b /\ Clamp(z, e, n) \in z..e
  BY <1>1, ClampBounds, Zenon
<1>4. \A m \in a..b : m \in Nat
  BY <1>1
<1>5. Clamp(a, b, n) \in Nat /\ Clamp(z, e, n) \in Limits
  BY <1>2, <1>3, <1>4, Zenon
<1> QED BY <1>5, SMT DEF a, b, z, e

\* The size of every idea that does not come from the vote.
LEMMA UsualSize == 2000 \in SizeRange
BY DEF SizeRange

\* What the vote or a proposal leaves is within bounds.
LEMMA IdeaWithinBounds ==
  ASSUME VoteInv, step = "idea"
  PROVE  idea.confidence \in Limits /\ idea.size \in SizeRange
<1>1. idea.confidence \in ConfidenceRange /\ idea.size \in SizeRange
  BY Zenon DEF VoteInv, IdeasInBounds
<1>2. \A c \in ConfidenceRange : c \in Limits
  BY DEF ConfidenceRange, Limits
<1> QED BY <1>1, <1>2, Zenon

\* The vote itself.
LEMMA VoteGoesOn ==
  ASSUME PipelineInv, Votes PROVE VoteInv' /\ JudgedInBounds'
<1>1. VoteNext
  BY DEF Votes
<1>2. VoteInv'
  BY <1>1, StepHolds DEF PipelineInv
<1>3. step' # "analysed" /\ step' # "adjusted"
  BY <1>1, Zenon DEF VoteNext, Look, Read, Conclude
<1> QED BY <1>2, <1>3 DEF JudgedInBounds

\* A ready idea.
LEMMA ProposalGoesOn ==
  ASSUME PipelineInv, NEW d \in Directions, NEW c \in Proposed, Proposes(d, c)
  PROVE  VoteInv' /\ JudgedInBounds'
<1>1. step' = "idea" /\ idea'.confidence = c /\ idea'.size = 2000 /\ UNCHANGED <<market, ballot>>
  BY DEF Proposes
<1>2. c \in 2500..9500
  BY ProposedAssumption
<1>3. IdeasInBounds'
  BY <1>1, <1>2 DEF IdeasInBounds, ConfidenceRange, SizeRange
<1>4. VoteInv'
  BY <1>1, <1>3, OutsideTheVote DEF PipelineInv
<1> QED BY <1>1, <1>4 DEF JudgedInBounds

\* The model's veto or scale.
LEMMA AnalysisGoesOn ==
  ASSUME PipelineInv, NEW scale \in Scales \cup {Neutral}, Analysed(scale)
  PROVE  VoteInv' /\ JudgedInBounds'
<1> DEFINE s == Clamp(5000, 20000, scale)
<1>1. UNCHANGED <<market, ballot>> /\ step = "idea" /\ step' \in {"idle", "analysed"}
  BY DEF Analysed
<1>2. IdeasInBounds'
  BY <1>1 DEF IdeasInBounds
<1>3. VoteInv'
  BY <1>1, <1>2, OutsideTheVote DEF PipelineInv
<1>4. scale \in Int
  BY ProposedAssumption DEF Neutral
<1>5. s \in Nat
  BY <1>4, CutToRange
<1>6. idea.confidence \in Limits /\ idea.size \in SizeRange
  BY <1>1, IdeaWithinBounds DEF PipelineInv
<1>7. JudgedInBounds'
  <2> SUFFICES ASSUME step' = "analysed"
               PROVE  idea'.confidence \in Limits /\ idea'.size \in SizeRange
    BY <1>1 DEF JudgedInBounds
  <2> DEFINE scaled == AtMost(9500, (idea.confidence * s) \div 10000)
  <2>1. idea' = [idea EXCEPT !.confidence = scaled]
    BY DEF Analysed
  <2>2. scaled \in Limits
    <3> HIDE DEF s
    <3> QED BY <1>5, <1>6, ScaledConfidence
  <2> HIDE DEF scaled
  <2>3. idea'.confidence = scaled /\ idea'.size = idea.size
    BY <2>1 DEF PipelineInv, IdeaShape
  <2> QED BY <1>6, <2>2, <2>3
<1> QED BY <1>3, <1>7

\* An idea of the model alone.
LEMMA RecommendationGoesOn ==
  ASSUME PipelineInv, NEW d \in Directions, NEW c \in Advised, Recommends(d, c)
  PROVE  VoteInv' /\ JudgedInBounds'
<1>1. step' = "analysed" /\ UNCHANGED <<market, ballot>>
  BY DEF Recommends
<1>2. idea'.confidence = Clamp(0, 9500, c) /\ idea'.size = 2000
  BY DEF Recommends, Advice
<1>3. c \in Int
  BY ProposedAssumption
<1>4. Clamp(0, 9500, c) \in Limits
  BY <1>3, CutToRange
<1>5. VoteInv'
  <2>1. IdeasInBounds'
    BY <1>1 DEF IdeasInBounds
  <2> QED BY <1>1, <2>1, OutsideTheVote DEF PipelineInv
<1>6. JudgedInBounds'
  BY <1>2, <1>4, UsualSize DEF JudgedInBounds
<1> QED BY <1>5, <1>6

\* The learner's adjustment.
LEMMA AdjustmentGoesOn ==
  ASSUME PipelineInv, IdeaShape', Adjusts
  PROVE  VoteInv' /\ JudgedInBounds'
<1>1. step = "analysed" /\ step' = "adjusted" /\ UNCHANGED <<market, ballot>>
  BY DEF Adjusts
<1>2. idea.confidence \in Limits /\ idea.size \in SizeRange
  BY <1>1 DEF PipelineInv, JudgedInBounds
<1> DEFINE weighed == AdjustConfidence(stats[idea.direction], idea.confidence)
<1>3. idea' = [idea EXCEPT !.confidence = weighed]
  BY DEF Adjusts, Weighed
<1>4. weighed \in Limits
  <2>1. StatsOK(stats[idea.direction])
    BY <1>1 DEF PipelineInv, IdeaPoints, StatsKept
  <2> QED BY <1>2, <2>1, AdjustedInBounds
<1> HIDE DEF weighed
<1>5. idea'.confidence = weighed /\ idea'.size = idea.size
  BY <1>3 DEF PipelineInv, IdeaShape
<1>6. JudgedInBounds'
  BY <1>2, <1>4, <1>5 DEF JudgedInBounds
<1>7. VoteInv'
  <2>1. IdeasInBounds'
    BY <1>1 DEF IdeasInBounds
  <2> QED BY <1>1, <2>1, OutsideTheVote DEF PipelineInv
<1> QED BY <1>6, <1>7

\* Evaluations that end, and those a step does not touch.
LEMMA TheRestGoesOn ==
  ASSUME PipelineInv,
         \/ Unanalysed \/ Judged \/ Restart
         \/ \E d \in Directions, pnl \in Pnls : Closes(d, pnl)
         \/ UNCHANGED pipelineVars
  PROVE  VoteInv' /\ JudgedInBounds'
<1>1. CASE Unanalysed
  <2>1. step = "idea" /\ step' = "analysed" /\ UNCHANGED <<market, ballot, idea>>
    BY <1>1 DEF Unanalysed
  <2>2. VoteInv'
    <3>1. IdeasInBounds'
      BY <2>1 DEF IdeasInBounds
    <3> QED BY <2>1, <3>1, OutsideTheVote DEF PipelineInv
  <2>3. JudgedInBounds'
    <3>1. idea.confidence \in Limits /\ idea.size \in SizeRange
      BY <2>1, IdeaWithinBounds DEF PipelineInv
    <3> QED BY <2>1, <3>1 DEF JudgedInBounds
  <2> QED BY <2>2, <2>3
<1>2. CASE Judged
  <2>1. step' = "idle" /\ UNCHANGED <<market, ballot>>
    BY <1>2, Zenon DEF Judged
  <2>2. IdeasInBounds' /\ JudgedInBounds'
    BY <2>1 DEF IdeasInBounds, JudgedInBounds
  <2> QED BY <2>1, <2>2, OutsideTheVote DEF PipelineInv
<1>3. CASE Restart
  <2>1. step' = "idle" /\ Forgets
    BY <1>3 DEF Restart
  <2>2. IdeasInBounds' /\ JudgedInBounds'
    BY <2>1 DEF IdeasInBounds, JudgedInBounds
  <2> QED BY <2>1, <2>2, OutsideTheVote DEF PipelineInv
<1>4. CASE UNCHANGED voteVars
  <2>1. VoteInv'
    BY <1>4, StutterHolds DEF PipelineInv
  <2> QED BY <1>4, <2>1 DEF voteVars, PipelineInv, JudgedInBounds
<1>5. (\E d \in Directions, pnl \in Pnls : Closes(d, pnl)) => UNCHANGED voteVars
  BY Zenon DEF Closes, voteVars
<1>6. UNCHANGED pipelineVars => UNCHANGED voteVars
  BY Zenon DEF pipelineVars
<1> QED BY <1>1, <1>2, <1>3, <1>4, <1>5, <1>6

\* Every idea has the same fields.
LEMMA ShapeHolds ==
  ASSUME IdeaShape, [PipelineNext]_pipelineVars PROVE IdeaShape'
<1>1. CASE UNCHANGED idea
  BY <1>1 DEF IdeaShape
<1>2. CASE idea' = NoIdea
  BY <1>2 DEF IdeaShape, NoIdea
<1>3. ASSUME NEW d, NEW c, NEW n, idea' = [direction |-> d, confidence |-> c, size |-> n]
      PROVE  IdeaShape'
  BY <1>3 DEF IdeaShape
<1>4. ASSUME NEW c, idea' = [idea EXCEPT !.confidence = c] PROVE IdeaShape'
  BY <1>4 DEF IdeaShape
<1>5. CASE Votes
  BY <1>1, <1>3, <1>5 DEF Votes, VoteNext, Look, Read, Conclude
<1>6. ASSUME NEW d \in Directions, NEW c \in Proposed, Proposes(d, c) PROVE IdeaShape'
  BY <1>3, <1>6, SMT DEF Proposes
<1>7. ASSUME NEW scale \in Scales \cup {Neutral}, Analysed(scale) PROVE IdeaShape'
  <2>1. CASE idea' = NoIdea
    BY <1>2, <2>1
  <2>2. CASE \E c : idea' = [idea EXCEPT !.confidence = c]
    BY <1>4, <2>2
  <2> DEFINE scaled == AtMost(9500, (idea.confidence * Clamp(5000, 20000, scale)) \div 10000)
  <2>3. idea' = NoIdea \/ idea' = [idea EXCEPT !.confidence = scaled]
    BY ONLY <1>7 DEF Analysed
  <2> HIDE DEF scaled
  <2> QED BY <2>1, <2>2, <2>3
<1>8. CASE Unanalysed
  BY <1>1, <1>8 DEF Unanalysed
<1>9. ASSUME NEW d \in Directions, NEW c \in Advised, Recommends(d, c) PROVE IdeaShape'
  <2> DEFINE x == Clamp(0, 9500, c)
             n == 2000
  <2>1. idea' = [direction |-> d, confidence |-> x, size |-> n]
    BY ONLY <1>9, SMT DEF Recommends, Advice
  <2> HIDE DEF x, n
  <2> QED BY <1>3, <2>1
<1>10. CASE Judged
  BY <1>2, <1>10, Zenon DEF Judged
<1>14. CASE Adjusts
  <2> DEFINE weighed == Weighed(idea.direction, idea.confidence)
  <2>1. idea' = [idea EXCEPT !.confidence = weighed]
    BY ONLY <1>14 DEF Adjusts
  <2> HIDE DEF weighed
  <2> QED BY <1>4, <2>1
<1>11. ASSUME NEW d \in Directions, NEW pnl \in Pnls, Closes(d, pnl) PROVE IdeaShape'
  BY <1>1, <1>11, Zenon DEF Closes, voteVars
<1>12. CASE Restart
  BY <1>2, <1>12 DEF Restart
<1>13. CASE UNCHANGED pipelineVars
  BY <1>1, <1>13, Zenon DEF pipelineVars, voteVars
<1> QED
  BY <1>5, <1>6, <1>7, <1>8, <1>9, <1>10, <1>11, <1>12, <1>13, <1>14, Zenon DEF PipelineNext

\* Every idea keeps its direction.
LEMMA DirectionHolds ==
  ASSUME IdeaShape, IdeaPoints, [PipelineNext]_pipelineVars PROVE IdeaPoints'
<1>1. CASE Votes
  BY <1>1 DEF Votes, VoteNext, Look, Read, Conclude, IdeaPoints, Directions
<1>2. ASSUME NEW d \in Directions, NEW c \in Proposed, Proposes(d, c) PROVE IdeaPoints'
  BY <1>2, SMT DEF Proposes, IdeaPoints
<1>3. ASSUME NEW scale \in Scales \cup {Neutral}, Analysed(scale) PROVE IdeaPoints'
  <2> DEFINE scaled == AtMost(9500, (idea.confidence * Clamp(5000, 20000, scale)) \div 10000)
  <2>1. /\ step = "idea"
        /\ \/ step' = "idle"
           \/ step' = "analysed" /\ idea' = [idea EXCEPT !.confidence = scaled]
    BY ONLY <1>3 DEF Analysed
  <2> HIDE DEF scaled
  <2> QED BY <2>1 DEF IdeaPoints, IdeaShape
<1>4. CASE Unanalysed
  BY <1>4 DEF Unanalysed, IdeaPoints
<1>5. ASSUME NEW d \in Directions, NEW c \in Advised, Recommends(d, c) PROVE IdeaPoints'
  <2>1. idea'.direction = d
    BY <1>5 DEF Recommends, Advice
  <2> QED BY <2>1 DEF IdeaPoints
<1>6. CASE Adjusts
  <2> DEFINE weighed == Weighed(idea.direction, idea.confidence)
  <2>1. step = "analysed" /\ idea' = [idea EXCEPT !.confidence = weighed]
    BY ONLY <1>6 DEF Adjusts
  <2> HIDE DEF weighed
  <2> QED BY <2>1 DEF IdeaPoints, IdeaShape
<1>7. Judged \/ Restart => step' = "idle"
  BY Zenon DEF Judged, Restart
<1>8. (\E d \in Directions, pnl \in Pnls : Closes(d, pnl)) => UNCHANGED voteVars
  BY Zenon DEF Closes, voteVars
<1>9. UNCHANGED pipelineVars => UNCHANGED voteVars
  BY Zenon DEF pipelineVars
<1>10. CASE UNCHANGED voteVars
  BY <1>10 DEF voteVars, IdeaPoints
<1>11. CASE step' = "idle"
  BY <1>11 DEF IdeaPoints
<1> QED
  BY <1>1, <1>2, <1>3, <1>4, <1>5, <1>6, <1>7, <1>8, <1>9, <1>10, <1>11, Zenon DEF PipelineNext

-----------------------------------------------------------------------------
(* The steps, on the learner.                                              *)

\* A result is one row more and one outcome recorded, of the same direction
\* unless a short has closed a long.
LEMMA LearnsHolds ==
  ASSUME PipelineInv, NEW d \in Directions, NEW key \in Directions, NEW pnl \in Pnls,
         NEW reason \in {"signal", "stop_loss"}, key = d \/ reason = "signal",
         Learns(d, key, pnl, reason)
  PROVE  StatsKept' /\ FileKept' /\ LessonsSurviveRestart'
<1> DEFINE o == [direction |-> d, pnl |-> pnl, reason |-> reason]
<1>1. /\ outcomes' = Append(outcomes, o) /\ seeded' = seeded
      /\ stats' = [stats EXCEPT ![key] = RecordOutcome(@, pnl)]
  BY DEF Learns
<1>2. pnl \in Int
  BY ProposedAssumption
<1>3. o \in Row /\ o.direction = d /\ o.pnl = pnl /\ o.reason = reason
  BY <1>2 DEF Row
<1>4. outcomes \in Seq(Row) /\ seeded \in 0..Len(outcomes)
  BY DEF PipelineInv, FileKept
<1>5. stats = [e \in Directions |-> stats[e]] /\ \A e \in Directions : StatsOK(stats[e])
  BY DEF PipelineInv, StatsKept
<1> HIDE DEF o
<1>6. /\ outcomes' \in Seq(Row) /\ Len(outcomes') = Len(outcomes) + 1
      /\ outcomes'[Len(outcomes) + 1] = o
      /\ \A n \in 1..Len(outcomes) : outcomes'[n] = outcomes[n]
  BY <1>1, <1>3, <1>4, AppendProperties
<1>7. StatsKept'
  <2>1. \A e \in Directions :
          stats'[e] = IF e = key THEN RecordOutcome(stats[e], pnl) ELSE stats[e]
    BY <1>1, <1>5
  <2>2. stats' = [e \in Directions |-> stats'[e]]
    BY <1>1, <1>5
  <2>3. \A e \in Directions : StatsOK(stats'[e])
    BY <1>2, <1>5, <2>1, LearningOK
  <2> QED BY <2>2, <2>3, Zenon DEF StatsKept
<1>8. FileKept'
  BY <1>1, <1>4, <1>6 DEF FileKept
<1>9. LessonsSurviveRestart'
  <2> SUFFICES ASSUME Len(outcomes') <= RowLimit,
                      \A n \in seeded' + 1..Len(outcomes') : outcomes'[n].reason # "signal"
               PROVE  stats' = Seeded(outcomes')
    BY Zenon DEF LessonsSurviveRestart, AllRemembered
  <2>1. Len(outcomes) \in Nat /\ seeded \in Nat /\ seeded <= Len(outcomes) /\ RowLimit \in Nat
    BY <1>4, LimitAssumption
  <2>2. Len(outcomes) + 1 \in seeded' + 1..Len(outcomes')
    BY <1>1, <1>6, <2>1
  <2>3. key = d
    BY <1>3, <1>6, <2>2
  <2>4. Len(outcomes) <= RowLimit /\ Len(outcomes) + 1 <= RowLimit
    BY <1>6, <2>1
  <2>5. \A n \in seeded + 1..Len(outcomes) : outcomes[n].reason # "signal"
    <3> TAKE n \in seeded + 1..Len(outcomes)
    <3>1. n \in seeded' + 1..Len(outcomes') /\ n \in 1..Len(outcomes)
      BY <1>1, <1>6, <2>1
    <3> QED BY <1>6, <3>1
  <2>6. stats = Seeded(outcomes)
    BY <2>4, <2>5, Zenon DEF PipelineInv, LessonsSurviveRestart, AllRemembered
  <2>7. Seeded(outcomes') = [Seeded(outcomes) EXCEPT ![d] = RecordOutcome(@, pnl)]
    BY <1>1, <1>3, <1>4, <2>4, SeededGrows
  <2> QED BY <1>1, <2>3, <2>6, <2>7, Zenon
<1> QED BY <1>7, <1>8, <1>9

\* What leaves the learner alone keeps what it knows.
LEMMA NothingLearnt ==
  ASSUME PipelineInv, UNCHANGED learning
  PROVE  StatsKept' /\ FileKept' /\ LessonsSurviveRestart'
BY Zenon DEF learning, PipelineInv, StatsKept, FileKept, LessonsSurviveRestart, AllRemembered

\* A startup seeds the learner from the file.
LEMMA RestartHolds ==
  ASSUME PipelineInv, Restart
  PROVE  StatsKept' /\ FileKept' /\ LessonsSurviveRestart'
<1>1. stats' = Seeded(outcomes) /\ seeded' = Len(outcomes) /\ outcomes' = outcomes
  BY DEF Restart
<1>2. outcomes \in Seq(Row)
  BY DEF PipelineInv, FileKept
<1>3. \A d \in Directions : StatsOK(Seeded(outcomes)[d])
  BY <1>2, SeededOK
<1>4. Seeded(outcomes) = [d \in Directions |-> Seeded(outcomes)[d]]
  BY DEF Seeded
<1>5. StatsKept'
  BY <1>1, <1>3, <1>4, Zenon DEF StatsKept
<1>6. FileKept'
  BY <1>1, <1>2 DEF FileKept
<1>7. LessonsSurviveRestart'
  BY <1>1, Zenon DEF LessonsSurviveRestart
<1> QED BY <1>5, <1>6, <1>7

\* An idea that is let through: only a short that meets a long is a lesson.
LEMMA JudgedLearns ==
  ASSUME Judged
  PROVE  \/ UNCHANGED learning
         \/ /\ idea.direction = "short" /\ Confident
            /\ \E pnl \in Pnls : Learns("long", "short", pnl, "signal")
BY DEF Judged, learning

\* Nothing else is.
LEMMA WhoLearns ==
  ASSUME [PipelineNext]_pipelineVars
  PROVE  \/ UNCHANGED learning \/ Judged \/ Restart
         \/ \E d \in Directions, pnl \in Pnls : Closes(d, pnl)
<1>1. Votes => UNCHANGED learning
  BY Zenon DEF Votes, learning
<1>2. ASSUME NEW d \in Directions, NEW c \in Proposed, Proposes(d, c) PROVE UNCHANGED learning
  BY ONLY <1>2, SMT DEF Proposes, learning
<1>3. ASSUME NEW scale \in Scales \cup {Neutral}, Analysed(scale) PROVE UNCHANGED learning
  BY ONLY <1>3, SMT DEF Analysed, learning
<1>4. Unanalysed => UNCHANGED learning
  BY Zenon DEF Unanalysed, learning
<1>5. ASSUME NEW d \in Directions, NEW c \in Advised, Recommends(d, c) PROVE UNCHANGED learning
  BY Zenon, <1>5 DEF Recommends, learning
<1>6. UNCHANGED pipelineVars => UNCHANGED learning
  BY Zenon DEF pipelineVars, learning
<1>7. Adjusts => UNCHANGED learning
  BY Zenon DEF Adjusts, learning
<1> QED BY <1>1, <1>2, <1>3, <1>4, <1>5, <1>6, <1>7, Zenon DEF PipelineNext

\* All steps together.
LEMMA PipelineStepHolds ==
  ASSUME PipelineInv, [PipelineNext]_pipelineVars PROVE PipelineInv'
<1>1. IdeaShape' /\ IdeaPoints'
  BY ShapeHolds, DirectionHolds DEF PipelineInv
<1>2. VoteInv' /\ JudgedInBounds'
  BY <1>1, VoteGoesOn, ProposalGoesOn, AnalysisGoesOn, RecommendationGoesOn, AdjustmentGoesOn,
     TheRestGoesOn, Zenon
  DEF PipelineNext
<1>3. StatsKept' /\ FileKept' /\ LessonsSurviveRestart'
  <2>1. CASE UNCHANGED learning
    BY <2>1, NothingLearnt
  <2>2. CASE Judged
    <3>1. ASSUME NEW pnl \in Pnls, Learns("long", "short", pnl, "signal")
          PROVE  StatsKept' /\ FileKept' /\ LessonsSurviveRestart'
      BY <3>1, LearnsHolds DEF Directions
    <3> QED BY <2>1, <2>2, <3>1, JudgedLearns
  <2>3. ASSUME NEW d \in Directions, NEW pnl \in Pnls, Closes(d, pnl)
        PROVE  StatsKept' /\ FileKept' /\ LessonsSurviveRestart'
    <3>1. Learns(d, d, pnl, "stop_loss")
      BY <2>3 DEF Closes
    <3> QED BY <3>1, LearnsHolds
  <2>4. CASE Restart
    BY <2>4, RestartHolds
  <2> QED BY <2>1, <2>2, <2>3, <2>4, WhoLearns, Zenon
<1> QED BY <1>1, <1>2, <1>3 DEF PipelineInv

\* The pipeline keeps its invariant.
LEMMA PipelineInvariance == PipelineSpec => []PipelineInv
BY PipelineInitHolds, PipelineStepHolds, PTL DEF PipelineSpec

\* For every history of closes and restarts, every row limit and every result
\* (learner.py:81): the decay of record_outcome and the weights of
\* load_from_outcomes are the same arithmetic.
THEOREM SeedingRestoresLessons == PipelineSpec => []LessonsSurviveRestart
<1>1. PipelineInv => LessonsSurviveRestart
  BY DEF PipelineInv
<1> QED BY <1>1, PipelineInvariance, PTL

\* What the model scales or proposes and the learner adjusts stays within the
\* limits of a confidence and of a size (basic_strategy.py:277, main.py:569).
THEOREM IdeasKeepTheirLimits == PipelineSpec => []IdeasOnTheirWay
<1>1. ASSUME PipelineInv, step \in {"idea", "analysed", "adjusted"}
      PROVE  idea.confidence \in Limits /\ idea.size \in SizeRange
  <2>1. VoteInv /\ JudgedInBounds
    BY <1>1, Zenon DEF PipelineInv
  <2>2. CASE step = "idea"
    BY <2>1, <2>2, IdeaWithinBounds, Zenon
  <2>3. CASE step \in {"analysed", "adjusted"}
    BY <2>1, <2>3, Zenon DEF JudgedInBounds
  <2> QED BY <1>1, <2>2, <2>3, Zenon
<1>2. PipelineInv => IdeasOnTheirWay
  BY <1>1, Zenon DEF IdeasOnTheirWay
<1> QED BY <1>2, PipelineInvariance, PTL

\* What holds of the vote by itself holds of the vote in the pipeline: no gate
\* drops five supporters (basic_strategy.py:252, :296),
THEOREM FiveSufficeInPipeline == PipelineSpec => FiveSupportersSuffice
<1>1. PipelineInv => [Conclude /\ ballot.supporting >= MinSupporters => step' = "idea"]_voteVars
  BY GatesDropNothing DEF PipelineInv
<1> QED BY <1>1, PipelineInvariance, PTL DEF FiveSupportersSuffice

\* A step of the pipeline is one of the vote, or not about a reading.
LEMMA PipelineStepsAreAlike ==
  ASSUME PipelineInv, [PipelineNext]_pipelineVars PROVE AlikeStep
<1>1. CASE [VoteNext]_voteVars
  BY <1>1, VotesAreAlike DEF PipelineInv
<1>2. CASE step # "reading" /\ step' # "reading"
  BY <1>2, Zenon DEF AlikeStep
<1>3. Votes => VoteNext
  BY DEF Votes
<1>4. ASSUME NEW d \in Directions, NEW c \in Proposed, Proposes(d, c)
      PROVE  step # "reading" /\ step' # "reading"
  BY ONLY <1>4, SMT DEF Proposes
<1>5. ASSUME NEW scale \in Scales \cup {Neutral}, Analysed(scale)
      PROVE  step # "reading" /\ step' # "reading"
  BY ONLY <1>5, SMT DEF Analysed
<1>6. Unanalysed => step # "reading" /\ step' # "reading"
  BY DEF Unanalysed
<1>7. ASSUME NEW d \in Directions, NEW c \in Advised, Recommends(d, c)
      PROVE  step # "reading" /\ step' # "reading"
  BY ONLY <1>7, SMT DEF Recommends
<1>8. Judged \/ Adjusts => step # "reading" /\ step' # "reading"
  BY Zenon DEF Judged, Adjusts
<1>9. ASSUME NEW d \in Directions, NEW pnl \in Pnls, Closes(d, pnl) PROVE UNCHANGED voteVars
  BY <1>9, Zenon DEF Closes
<1>10. Restart => step # "reading" /\ step' # "reading"
  BY DEF Restart
<1>11. UNCHANGED pipelineVars => UNCHANGED voteVars
  BY Zenon DEF pipelineVars
<1> QED
  BY <1>1, <1>2, <1>3, <1>4, <1>5, <1>6, <1>7, <1>8, <1>9, <1>10, <1>11, Zenon DEF PipelineNext

\* and longs and shorts that are treated alike (basic_strategy.py:139).
THEOREM DirectionsAreAlikeInPipeline == PipelineSpec => LongsAndShortsAreAlike
<1>1. PipelineInv /\ [PipelineNext]_pipelineVars => AlikeStep
  BY PipelineStepsAreAlike
<1> QED BY <1>1, PipelineInvariance, PTL DEF LongsAndShortsAreAlike, PipelineSpec

-----------------------------------------------------------------------------
(* The verdict of the learner.                                             *)

\* A key that was not learnt about is as suppressed as before.
LEMMA UntouchedVerdict ==
  ASSUME NEW d, Suppressed(d), stats'[d] = stats[d] PROVE Suppressed(d)'
BY SMT DEF Suppressed

\* A lesson is about one key.
LEMMA OtherKeys ==
  ASSUME PipelineInv, NEW d \in Directions,
         NEW e, NEW key, NEW pnl, NEW reason, Learns(e, key, pnl, reason), key # d
  PROVE  stats'[d] = stats[d]
<1>1. stats' = [stats EXCEPT ![key] = RecordOutcome(@, pnl)]
  BY DEF Learns
<1>2. stats = [x \in Directions |-> stats[x]]
  BY DEF PipelineInv, StatsKept
<1> QED BY <1>1, <1>2

\* No idea of a suppressed key is adjusted to what the gate lets through.
LEMMA NoneIsConfident ==
  ASSUME PipelineInv, NEW d \in Directions, Suppressed(d), NEW c \in Limits
  PROVE  ~(AdjustConfidence(stats[d], c) >= MinSignalConfidence)
<1> DEFINE best == 9500
           strongest == AdjustConfidence(stats[d], best)
<1>1. StatsOK(stats[d])
  BY DEF PipelineInv, StatsKept
<1>2. c \in Int /\ best \in Int /\ c <= best /\ best \in Limits
  BY DEF Limits
<1>3. strongest \in Int
  <2>1. strongest \in Limits
    BY <1>1, <1>2, AdjustedInBounds
  <2> HIDE DEF strongest
  <2> QED BY <2>1 DEF Limits
<1>4. strongest < MinSignalConfidence
  BY SMT DEF Suppressed
<1> HIDE DEF best
<1>5. SUFFICES ASSUME AdjustConfidence(stats[d], c) >= MinSignalConfidence PROVE FALSE
  OBVIOUS
<1>6. strongest >= MinSignalConfidence
  BY <1>1, <1>2, <1>5, AdjustmentKeepsOrder
<1> HIDE DEF strongest
<1> QED BY <1>3, <1>4, <1>6 DEF MinSignalConfidence

\* The verdict after an adjustment: what comes of an idea of the key does not
\* pass the gate.
LEMMA VerdictOnAdjusts ==
  ASSUME PipelineInv, NEW d \in Directions, Suppressed(d), Quiet(d), Adjusts
  PROVE  Suppressed(d)' /\ Quiet(d)'
<1>1. step = "analysed" /\ UNCHANGED <<stats, book>>
  BY DEF Adjusts, learning
<1> DEFINE weighed == AdjustConfidence(stats[idea.direction], idea.confidence)
<1>2. idea' = [idea EXCEPT !.confidence = weighed]
  BY DEF Adjusts, Weighed
<1>3. idea.direction = d => ~(weighed >= MinSignalConfidence)
  <2>1. idea.confidence \in Limits
    BY <1>1 DEF PipelineInv, JudgedInBounds
  <2> QED BY <2>1, NoneIsConfident
<1> HIDE DEF weighed
<1>4. idea'.direction = idea.direction /\ idea'.confidence = weighed
  BY <1>2 DEF PipelineInv, IdeaShape
<1>5. ~(idea'.direction = d /\ Confident')
  BY <1>3, <1>4 DEF Confident, MinSignalConfidence
<1>6. Quiet(d)'
  BY <1>1, <1>5 DEF Quiet
<1> QED BY <1>1, <1>6, UntouchedVerdict

\* After the gate: the idea it lets through is of another key.
LEMMA VerdictOnJudged ==
  ASSUME PipelineInv, NEW d \in Directions, Suppressed(d), Quiet(d), Judged
  PROVE  Suppressed(d)' /\ Quiet(d)'
<1>1. step = "adjusted" /\ step' = "idle"
  BY Zenon DEF Judged
<1>2. d \notin book
  BY DEF Quiet
<1>3. Confident => idea.direction # d
  BY <1>1 DEF Quiet
<1>4. stats'[d] = stats[d] /\ d \notin book'
  <2>1. CASE UNCHANGED <<learning, book>>
    BY <1>2, <2>1 DEF learning
  <2>2. CASE Confident /\ book' = book \cup {idea.direction} /\ UNCHANGED learning
    BY <1>2, <1>3, <2>2 DEF learning
  <2>3. ASSUME Confident, idea.direction = "short",
               NEW pnl \in Pnls, Learns("long", "short", pnl, "signal")
        PROVE  stats'[d] = stats[d] /\ d \notin book'
    <3>1. stats'[d] = stats[d]
      BY <1>3, <2>3, OtherKeys
    <3>2. book' = book \ {"long"}
      BY <2>3 DEF Learns
    <3> QED BY <1>2, <3>1, <3>2
  <2> QED BY <2>1, <2>2, <2>3, Zenon DEF Judged
<1>5. Quiet(d)'
  BY <1>1, <1>4 DEF Quiet
<1> QED BY <1>4, <1>5, UntouchedVerdict

\* After a stop or an operator's close: it is the close of another key.
LEMMA VerdictOnCloses ==
  ASSUME PipelineInv, NEW d \in Directions, Suppressed(d), Quiet(d),
         NEW e \in Directions, NEW pnl \in Pnls, Closes(e, pnl)
  PROVE  Suppressed(d)' /\ Quiet(d)'
<1>1. e \in book /\ Learns(e, e, pnl, "stop_loss") /\ UNCHANGED <<step, idea>>
  BY DEF Closes, voteVars
<1>2. e # d /\ d \notin book
  BY <1>1 DEF Quiet
<1>3. stats'[d] = stats[d]
  BY <1>1, <1>2, OtherKeys
<1>4. book' = book \ {e}
  BY <1>1 DEF Learns
<1>5. Quiet(d)'
  <2>1. d \notin book'
    BY <1>2, <1>4
  <2>2. Confident' = Confident
    BY <1>1, SMT DEF Confident
  <2> QED BY <1>1, <2>1, <2>2, Zenon DEF Quiet
<1> QED BY <1>3, <1>5, UntouchedVerdict

\* After a startup that had everything to read.
LEMMA VerdictOnRestart ==
  ASSUME PipelineInv, NEW d \in Directions, Suppressed(d), Quiet(d), Restart
  PROVE  \/ Suppressed(d)' /\ Quiet(d)'
         \/ seeded' # seeded /\ ~AllRemembered
<1>1. /\ step' = "idle" /\ book' = book
      /\ stats' = Seeded(outcomes) /\ seeded' = Len(outcomes) /\ seeded < Len(outcomes)
  BY DEF Restart
<1>2. Quiet(d)'
  BY <1>1 DEF Quiet
<1>3. seeded' # seeded
  <2>1. seeded \in Int /\ Len(outcomes) \in Int
    BY DEF PipelineInv, FileKept
  <2> QED BY <1>1, <2>1
<1>4. CASE AllRemembered
  <2>1. stats' = stats
    BY <1>1, <1>4, Zenon DEF PipelineInv, LessonsSurviveRestart
  <2> QED BY <1>2, <2>1, UntouchedVerdict
<1> QED BY <1>3, <1>4

\* Every step.
LEMMA VerdictHolds ==
  ASSUME PipelineInv, [PipelineNext]_pipelineVars, NEW d \in Directions, Suppressed(d), Quiet(d)
  PROVE  \/ Suppressed(d)' /\ Quiet(d)'
         \/ seeded' # seeded /\ ~AllRemembered
<1>1. CASE UNCHANGED <<stats, book>> /\ step' # "adjusted"
  <2>1. Quiet(d)'
    BY <1>1 DEF Quiet
  <2> QED BY <1>1, <2>1, UntouchedVerdict
<1>2. Votes => UNCHANGED <<stats, book>> /\ step' # "adjusted"
  BY DEF Votes, learning, VoteNext, Look, Read, Conclude
<1>3. ASSUME NEW e \in Directions, NEW c \in Proposed, Proposes(e, c)
      PROVE  UNCHANGED <<stats, book>> /\ step' # "adjusted"
  BY ONLY <1>3, SMT DEF Proposes, learning
<1>4. ASSUME NEW scale \in Scales \cup {Neutral}, Analysed(scale)
      PROVE  UNCHANGED <<stats, book>> /\ step' # "adjusted"
  BY ONLY <1>4, SMT DEF Analysed, learning
<1>5. Unanalysed => UNCHANGED <<stats, book>> /\ step' # "adjusted"
  BY DEF Unanalysed, learning
<1>6. ASSUME NEW e \in Directions, NEW c \in Advised, Recommends(e, c)
      PROVE  UNCHANGED <<stats, book>> /\ step' # "adjusted"
  BY ONLY <1>6, SMT DEF Recommends, learning
<1>7. CASE UNCHANGED pipelineVars
  <2>1. UNCHANGED <<step, idea, stats, book>>
    BY <1>7 DEF pipelineVars, voteVars
  <2>2. Confident' = Confident
    BY <2>1, SMT DEF Confident
  <2>3. Quiet(d)'
    BY <2>1, <2>2, Zenon DEF Quiet
  <2> QED BY <2>1, <2>3, UntouchedVerdict
<1> QED
  BY <1>1, <1>2, <1>3, <1>4, <1>5, <1>6, <1>7, VerdictOnAdjusts, VerdictOnJudged,
     VerdictOnCloses, VerdictOnRestart, Zenon DEF PipelineNext

\* The learner has no way out of its own verdict (learner.py:181), for every
\* history, result, scale and confidence: a suppressed key opens no position,
\* is not taught and stays suppressed, over restarts too while the learner
\* remembers all that is on file.
THEOREM NoWayOutOfTheVerdict == PipelineSpec => SuppressedStaySuppressed
<1>1. ASSUME PipelineInv, [PipelineNext]_pipelineVars
      PROVE  [\A d \in Directions :
                Suppressed(d) /\ Quiet(d) =>
                  \/ Suppressed(d)' /\ Quiet(d)'
                  \/ seeded' # seeded /\ ~AllRemembered]_pipelineVars
  BY <1>1, VerdictHolds, Zenon
<1> QED BY <1>1, PipelineInvariance, PTL DEF PipelineSpec, SuppressedStaySuppressed
==============================================================================
