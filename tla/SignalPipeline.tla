---------------------------- MODULE SignalPipeline ----------------------------
(***************************************************************************)
(* From an idea to its lesson, in fully automated mode: the indicator      *)
(* rules (IndicatorVote) or the model alone propose a trade, the model may *)
(* scale or veto it, the learner adjusts its confidence, the confidence    *)
(* gate of main.py lets it trade or not, and the result of the trade is    *)
(* what the learner adjusts the next idea with.                            *)
(*                                                                         *)
(* One market, under the strategy selected at startup.  The risk engine    *)
(* (RiskGate) may reject any idea.  A position of each direction can be    *)
(* open; a short closes the open long (PaperTrading has the accounting).   *)
(***************************************************************************)
EXTENDS IndicatorVote, Learner

CONSTANTS
  Proposed,      \* confidences of ideas, once the vote is cut short
  Scales,        \* confidence scales a model may answer
  Advised,       \* confidences a recommendation may come with
  Pnls,          \* results of closed positions, in units of one currency unit
  RowLimit,      \* rows the startup reads at most
  MaxOutcomes    \* bound: closed positions

ASSUME ProposedAssumption ==
  Proposed \subseteq 2500..9500 /\ Scales \cup Advised \cup Pnls \subseteq Int

ASSUME LimitAssumption == RowLimit \in Nat

VARIABLES
  strategy,  \* the selected strategy
  stats,     \* the learner's statistics, by the direction of the key
  outcomes,  \* the rows of signal_outcomes, oldest first
  seeded,    \* how many of the rows the learner was seeded with
  book       \* directions with an open position

pipelineVars == <<voteVars, strategy, stats, outcomes, seeded, book>>
learning == <<stats, outcomes, seeded>>

Strategies == {"basic_strategy", "basic_and_llm_strategy", "llm_only_strategy"}
Directions == {"long", "short"}

MinSignalConfidence == 6500
VetoThreshold == 7000

-----------------------------------------------------------------------------
(* The model.                                                              *)

VotingStrategies == {"basic_strategy", "basic_and_llm_strategy"}

\* The vote does not look at the account or the learner: it is gone through
\* indicator by indicator until the first trade.
Votes ==
  /\ strategy \in VotingStrategies
  /\ outcomes = <<>> /\ book = {}
  /\ VoteNext
  /\ UNCHANGED <<strategy, learning, book>>

\* Later its ideas come ready, of any confidence it can end in
\* (IdeasInBounds).
Proposes(d, confidence) ==
  /\ step = "idle" /\ strategy \in VotingStrategies
  /\ ~(outcomes = <<>> /\ book = {})
  /\ step' = "idea"
  /\ idea' = [direction |-> d, confidence |-> confidence, size |-> 2000]
  /\ UNCHANGED <<market, ballot, strategy, learning, book>>

\* A model that is silent, off, or not to be parsed leaves the idea alone.
Neutral == 10000

\* analyse_signal and the veto; the scale is cut to 0.5 .. 2.
Analysed(scale) ==
  /\ step = "idea" /\ strategy = "basic_and_llm_strategy"
  /\ LET s == Clamp(5000, 20000, scale) IN
       \/ /\ s < VetoThreshold
          /\ step' = "idle" /\ idea' = NoIdea
       \/ /\ s >= VetoThreshold
          /\ step' = "analysed"
          /\ idea' = [idea EXCEPT !.confidence = AtMost(9500, (@ * s) \div 10000)]
  /\ UNCHANGED <<market, ballot, strategy, learning, book>>

Unanalysed ==
  /\ step = "idea" /\ strategy = "basic_strategy"
  /\ step' = "analysed"
  /\ UNCHANGED <<market, ballot, idea, strategy, learning, book>>

\* recommend_trade: anything but a long or a short, in one of their names,
\* is a hold.
Advice(d, confidence) ==
  [direction |-> d, confidence |-> Clamp(0, 9500, confidence), size |-> 2000]

Recommends(d, confidence) ==
  /\ step = "idle" /\ strategy = "llm_only_strategy"
  /\ step' = "analysed"
  /\ idea' = Advice(d, confidence)
  /\ UNCHANGED <<market, ballot, strategy, learning, book>>

-----------------------------------------------------------------------------
(* The learner, the gate, and the trade.                                   *)

\* A result goes on file under the position's direction; the key of the
\* lesson is the closing idea's where an idea closed it.
Learns(d, key, pnl, reason) ==
  /\ Len(outcomes) < MaxOutcomes
  /\ outcomes' = Append(outcomes, [direction |-> d, pnl |-> pnl, reason |-> reason])
  /\ stats' = [stats EXCEPT ![key] = RecordOutcome(@, pnl)]
  /\ book' = book \ {d}
  /\ UNCHANGED seeded

\* Slip: the learner is not asked.
Unweighed(d, confidence) == confidence

Weighed(d, confidence) == AdjustConfidence(stats[d], confidence)

\* The ideas of a tick, whatever strategy they come from, are all adjusted
\* before the first of them is judged.
Adjusts ==
  /\ step = "analysed"
  /\ step' = "adjusted"
  /\ idea' = [idea EXCEPT !.confidence = Weighed(idea.direction, @)]
  /\ UNCHANGED <<market, ballot, strategy, learning, book>>

Confident == idea.confidence >= MinSignalConfidence

\* The alert or the live order of an earlier idea of the tick may have suspended
\* the loop since; nothing is awaited between the gate and a paper trade.
Judged ==
  /\ step = "adjusted"
  /\ LET d == idea.direction IN
       \/ UNCHANGED <<learning, book>>
       \/ /\ Confident /\ d \notin book
          /\ IF d = "short" /\ "long" \in book
             THEN \E pnl \in Pnls : Learns("long", "short", pnl, "signal")
             ELSE book' = book \cup {d} /\ UNCHANGED learning
  /\ step' = "idle" /\ idea' = NoIdea
  /\ UNCHANGED <<market, ballot, strategy>>

\* The stop pass, an operator's close, the operator reset.
Closes(d, pnl) ==
  /\ step # "reading" /\ d \in book
  /\ Learns(d, d, pnl, "stop_loss")
  /\ UNCHANGED <<voteVars, strategy>>

\* get_signal_outcomes: the rows filed last, newest first.
Newest(rows) == [n \in 1..AtMost(Len(rows), RowLimit) |-> rows[Len(rows) + 1 - n]]

Seeded(rows) == [d \in Directions |-> LoadFromOutcomes(d, Newest(rows))]

\* A crash or a stop, at any await, and the startup; positions are restored.
Restart ==
  /\ step # "reading" /\ seeded < Len(outcomes)
  /\ step' = "idle" /\ idea' = NoIdea /\ Forgets
  /\ stats' = Seeded(outcomes) /\ seeded' = Len(outcomes)
  /\ UNCHANGED <<strategy, outcomes, book>>

PipelineInit ==
  /\ VoteInit
  /\ strategy \in Strategies
  /\ stats = [d \in Directions |-> NoStats]
  /\ outcomes = <<>> /\ seeded = 0 /\ book = {}

PipelineNext ==
  \/ Votes
  \/ \E d \in Directions, c \in Proposed : Proposes(d, c)
  \/ \E scale \in Scales \cup {Neutral} : Analysed(scale)
  \/ Unanalysed
  \/ \E d \in Directions, c \in Advised : Recommends(d, c)
  \/ Adjusts
  \/ Judged
  \/ \E d \in Directions, pnl \in Pnls : Closes(d, pnl)
  \/ Restart

PipelineSpec == PipelineInit /\ [][PipelineNext]_pipelineVars

-----------------------------------------------------------------------------

\* One query returns all rows, and each was taught under the key it is filed
\* under: no short of this process has closed a long.
AllRemembered ==
  /\ Len(outcomes) <= RowLimit
  /\ \A n \in seeded + 1..Len(outcomes) : outcomes[n].reason # "signal"

\* learner.py:81: while all is remembered, a learner rebuilt from the rows
\* knows what one that saw every close knows, to the weight, the score and the
\* order of its history.
LessonsSurviveRestart == AllRemembered => stats = Seeded(outcomes)

\* The history of a key keeps its best idea below the gate.
Suppressed(d) == AdjustConfidence(stats[d], 9500) < MinSignalConfidence

\* No position of the key is open, no idea of it is about to pass the gate.
Quiet(d) == d \notin book /\ ~(step = "adjusted" /\ idea.direction = d /\ Confident)

\* learner.py:181: the learner has no way out of its own verdict.  A quiet key
\* that is suppressed opens no position, so that none can be closed to teach it,
\* and stays so, over closes that fall between the adjustment of an idea and its
\* gate, and over restarts too while all is remembered.
SuppressedStaySuppressed ==
  [][ \A d \in Directions :
        Suppressed(d) /\ Quiet(d) =>
          \/ Suppressed(d)' /\ Quiet(d)'
          \/ seeded' # seeded /\ ~AllRemembered ]_pipelineVars

\* The confidences an idea may come to the gate with, in ten-thousandths.
Limits == 0..9500

\* basic_strategy.py:277, constants.py: an idea on its way to the gate has a
\* confidence from 0 to 0.95 and a size from 5 % to 20 % of the equity, whatever
\* the model answers and the learner remembers.
IdeasOnTheirWay ==
  step \in {"idea", "analysed", "adjusted"} =>
    idea.confidence \in Limits /\ idea.size \in SizeRange

-----------------------------------------------------------------------------
(* Statements of the repository that the code does not keep.               *)

\* docs/03-background-loops.md:80: an idea of the vote has at least six
\* indicators in its support.
SixSupportersRequired ==
  [][step = "reading" /\ step' = "idea" => ballot.supporting >= 6]_pipelineVars

\* docs/06-strategy-and-learning.md:362: the learner does not adjust the
\* confidence of a recommendation of the model alone.
AdviceIsNotAdjusted ==
  [][ strategy = "llm_only_strategy" /\ step = "analysed" /\ step' = "adjusted" =>
        idea' = idea ]_pipelineVars
==============================================================================
