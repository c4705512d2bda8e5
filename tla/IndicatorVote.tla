----------------------------- MODULE IndicatorVote -----------------------------
(***************************************************************************)
(* One market's way through the indicator rules of a tick                  *)
(* (strategy/basic_strategy.py; basic_and_llm_strategy.py repeats the same *)
(* code up to its LLM call).  The momentum since the lookback price        *)
(* proposes a direction, filters may drop it, nine indicators vote on it,  *)
(* and what enough of them support becomes an idea.                        *)
(*                                                                         *)
(* Confidences and sizes are in units of 1/10000, momentum and ATR in      *)
(* basis points of the price.  An indicator is read as a number: RSI,      *)
(* Bollinger position and stochastic from 0 to 100, Williams %R from -100  *)
(* to 0, the others by the sign of their bias.  The code skips an          *)
(* indicator without data; here it reads as a neutral one, which casts no  *)
(* vote either.  The hard filter of an indicator is applied when it is     *)
(* read: nothing happens between the filters and the votes.                *)
(***************************************************************************)
EXTENDS Integers, Sequences

CONSTANTS
  Markets,   \* records momentum, atr, trend: what a tick may find
  Readings   \* for each indicator, the numbers it may show

Indicators == <<"rsi", "ema", "bollinger", "macd", "macdSignal",
                "stochastic", "williams", "change5m", "change15m">>

\* What analysis/indicators.py can return for an indicator.
Scale(i) ==
  IF i \in {"rsi", "bollinger", "stochastic"} THEN 0..100
  ELSE IF i = "williams" THEN -100..0 ELSE Int

ASSUME MarketAssumption ==
  Markets \subseteq [momentum : Int, atr : Nat, trend : Int]

ASSUME ReadingAssumption ==
  \A n \in 1..Len(Indicators) : Readings[Indicators[n]] \subseteq Scale(Indicators[n])

VARIABLES
  step,    \* "idle", "reading", or "idea" when one is on its way
  market,  \* the market under evaluation
  ballot,  \* indicators read, and the counters of the vote
  idea     \* the idea that came out of it

voteVars == <<step, market, ballot, idea>>

NoMarket == [momentum |-> 0, atr |-> 0, trend |-> 0]
NoVotes == [read |-> 0, votes |-> 0, available |-> 0, supporting |-> 0]
NoIdea == [direction |-> "none", confidence |-> 0, size |-> 0]

-----------------------------------------------------------------------------

AtMost(n, m) == IF n <= m THEN n ELSE m
AtLeast(n, m) == IF n >= m THEN n ELSE m
Magnitude(n) == IF n >= 0 THEN n ELSE -n

IsLong(m) == m.momentum > 0

MinSupporters == 5
MinConsensus == 1
MinActionable == 2000

PassesMomentumGate(m) == Magnitude(m.momentum) >= AtLeast(m.atr, 20)

\* The 15-minute trend, when it has a side, must be the direction's.
FitsTrend(m) == m.trend = 0 \/ (m.trend > 0 <=> IsLong(m))

Blocks(m, i, x) ==
  IF IsLong(m) THEN (i = "rsi" /\ x >= 80) \/ (i = "bollinger" /\ x >= 95)
  ELSE (i = "rsi" /\ x <= 20) \/ (i = "bollinger" /\ x <= 5)

\* Oversold speaks for a long, so does an upward bias.
SaysLong(i, x) ==
  \/ i = "rsi" /\ x < 40
  \/ i = "bollinger" /\ x < 30
  \/ i = "stochastic" /\ x < 20
  \/ i = "williams" /\ x <= -80
  \/ i \notin {"rsi", "bollinger", "stochastic", "williams"} /\ x > 0

\* Slip: a boundary that belongs to one side only.
SaysShortFromSixty(i, x) ==
  \/ i = "rsi" /\ x >= 60
  \/ i = "bollinger" /\ x > 70
  \/ i = "stochastic" /\ x > 80
  \/ i = "williams" /\ x >= -20
  \/ i \notin {"rsi", "bollinger", "stochastic", "williams"} /\ x < 0

SaysShort(i, x) ==
  \/ i = "rsi" /\ x > 60
  \/ i = "bollinger" /\ x > 70
  \/ i = "stochastic" /\ x > 80
  \/ i = "williams" /\ x >= -20
  \/ i \notin {"rsi", "bollinger", "stochastic", "williams"} /\ x < 0

Supports(m, i, x) == IF IsLong(m) THEN SaysLong(i, x) ELSE SaysShort(i, x)
Opposes(m, i, x) == IF IsLong(m) THEN SaysShort(i, x) ELSE SaysLong(i, x)

Counted(b, m, i, x) ==
  IF Supports(m, i, x)
  THEN [read |-> b.read + 1, votes |-> b.votes + 1,
        available |-> b.available + 1, supporting |-> b.supporting + 1]
  ELSE IF Opposes(m, i, x)
  THEN [read |-> b.read + 1, votes |-> b.votes - 1,
        available |-> b.available + 1, supporting |-> b.supporting]
  ELSE [b EXCEPT !.read = @ + 1]

Bonus(b) ==
  IF b.available > 0 THEN AtLeast(-2000, AtMost(4000, b.votes * 500)) ELSE 0

Penalty(m) == IF m.atr > 100 THEN AtMost(1000, (m.atr - 100) * 5) ELSE 0

Confidence(m, b) ==
  AtLeast(1000, AtMost(9500,
    AtMost(Magnitude(m.momentum) * 100, 5000) + Bonus(b) - Penalty(m)))

\* 20 % of the equity, divided by the ATR above 1 %, at most by four.
PositionSize(m) ==
  AtLeast(500, AtMost(2500, IF m.atr > 100 THEN AtLeast(500, 200000 \div m.atr) ELSE 2000))

-----------------------------------------------------------------------------

Forgets == market' = NoMarket /\ ballot' = NoVotes

Look(m) ==
  /\ step = "idle"
  /\ PassesMomentumGate(m) /\ FitsTrend(m)
  /\ step' = "reading" /\ market' = m /\ ballot' = NoVotes
  /\ UNCHANGED idea

Read(x) ==
  /\ step = "reading" /\ ballot.read < Len(Indicators)
  /\ LET i == Indicators[ballot.read + 1] IN
       /\ x \in Readings[i]
       /\ \/ /\ Blocks(market, i, x)
             /\ step' = "idle" /\ Forgets
          \/ /\ ~Blocks(market, i, x)
             /\ ballot' = Counted(ballot, market, i, x)
             /\ UNCHANGED <<step, market>>
  /\ UNCHANGED idea

Conclude ==
  /\ step = "reading" /\ ballot.read = Len(Indicators)
  /\ \/ /\ ballot.supporting >= MinSupporters
        /\ ballot.votes >= MinConsensus
        /\ Confidence(market, ballot) >= MinActionable
        /\ step' = "idea"
        /\ idea' = [direction |-> IF IsLong(market) THEN "long" ELSE "short",
                    confidence |-> Confidence(market, ballot),
                    size |-> PositionSize(market)]
     \/ /\ \/ ballot.supporting < MinSupporters
           \/ ballot.votes < MinConsensus
           \/ Confidence(market, ballot) < MinActionable
        /\ step' = "idle"
        /\ UNCHANGED idea
  /\ Forgets

VoteInit ==
  step = "idle" /\ market = NoMarket /\ ballot = NoVotes /\ idea = NoIdea

VoteNext ==
  \/ \E m \in Markets : Look(m)
  \/ \E x \in UNION {Readings[Indicators[n]] : n \in 1..Len(Indicators)} : Read(x)
  \/ Conclude

VoteSpec == VoteInit /\ [][VoteNext]_voteVars

-----------------------------------------------------------------------------
(* The market seen in the mirror: up is down, overbought is oversold.      *)

MirrorMarket(m) == [momentum |-> -m.momentum, atr |-> m.atr, trend |-> -m.trend]

MirrorReading(i, x) ==
  IF i \in {"rsi", "bollinger", "stochastic"} THEN 100 - x
  ELSE IF i = "williams" THEN -100 - x ELSE -x

AlikeStep ==
  /\ step = "idle" /\ step' = "reading" =>
       PassesMomentumGate(MirrorMarket(market')) /\ FitsTrend(MirrorMarket(market'))
  /\ step = "reading" /\ ballot.read < Len(Indicators) =>
       LET i == Indicators[ballot.read + 1] IN
         \A x \in Readings[i] : Read(x) =>
           IF Blocks(MirrorMarket(market), i, MirrorReading(i, x)) THEN step' = "idle"
           ELSE ballot' = Counted(ballot, MirrorMarket(market), i, MirrorReading(i, x))
  /\ step = "reading" /\ step' = "idea" =>
       /\ idea'.confidence = Confidence(MirrorMarket(market), ballot)
       /\ idea'.direction = IF IsLong(MirrorMarket(market)) THEN "short" ELSE "long"

\* basic_strategy.py:139: the two directions are written out separately at
\* every gate, filter and vote.  A mirrored market gets through the same
\* gates with the same counters, step for step, and ends in the opposite
\* idea of the same confidence.
LongsAndShortsAreAlike == [][AlikeStep]_voteVars

\* basic_strategy.py:252 and :296: five supporters among nine indicators are
\* a majority, and a momentum that beat the ATR outweighs the ATR's penalty:
\* the consensus gate and the confidence gate after the support gate never
\* drop anything.  The docs ask for six supporters (SixSupportersRequired).
FiveSupportersSuffice ==
  [][Conclude /\ ballot.supporting >= MinSupporters => step' = "idea"]_voteVars

ConfidenceRange == 2500..9500
SizeRange == 500..2000

\* basic_strategy.py:277, :383: an idea comes with a confidence from 0.25 to
\* 0.95 and a size from 5 % to 20 % of the equity.
IdeasInBounds ==
  step = "idea" => idea.confidence \in ConfidenceRange /\ idea.size \in SizeRange
==============================================================================
