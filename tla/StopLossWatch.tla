---------------------------- MODULE StopLossWatch ----------------------------
(***************************************************************************)
(* How prices reach the stop-loss pass of the strategy loop (main.py,      *)
(* ingestion/kraken_adapter.py), and what keeps a losing position from     *)
(* being looked at.                                                        *)
(*                                                                         *)
(* A price travels: exchange (real) -> ticker stream -> cache and price    *)
(* table, and cache -> tick -> price table.  A tick takes the cached       *)
(* quotes of the enabled markets, asks REST for the missing ones and,      *)
(* after that call, replaces the whole table.  The pass then goes through  *)
(* the open positions with that table.                                     *)
(*                                                                         *)
(* One long per market stands for its positions.  Trailing stops, fees and *)
(* the suspensions inside the pass are PaperTrading's, failing writes of   *)
(* the control state TradingLoop's.                                        *)
(***************************************************************************)
EXTENDS Integers

CONSTANTS
  Markets,      \* validated trading pairs, all of them subscribed to
  Prices,       \* prices each market may take
  StopDrop,     \* a long is past its stop this far below its entry
  MaxMoves,     \* bound: price changes per market
  MaxRestarts   \* bound: process restarts

ASSUME WatchAssumption ==
  /\ Prices \in [Markets -> SUBSET (Nat \ {0})]
  /\ StopDrop \in Nat \ {0}
  /\ MaxMoves \in Nat /\ MaxRestarts \in Nat

VARIABLES
  real,       \* last quote of each market on the exchange
  feed,       \* the ticker subscription: see FeedChanges
  cached,     \* _latest_market_snapshots
  table,      \* _current_prices
  entry,      \* open positions, with the quote each was opened at
  enabled,    \* markets the operator has not disabled
  stop,       \* control.emergency_stop
  loopPc,     \* the loop: idle, fetching, or about to pass over the positions
  captured,   \* the tick's own snapshots
  missing,    \* markets it asked REST for
  restarts

prices == <<cached, table>>
tick == <<loopPc, captured, missing>>
control == <<enabled, stop>>
vars == <<real, feed, prices, entry, control, tick, restarts>>

\* at counts the changes of a market's price: a later quote has a larger one.
Quote == [price : UNION {Prices[m] : m \in Markets}, at : 1..(MaxMoves + 1)]
None == [price |-> 0, at |-> 0]

Unknown == [m \in Markets |-> None]

HasPosition(m) == entry[m] # None

PastStop(m, quote) ==
  HasPosition(m) /\ quote # None /\ quote.price <= entry[m].price - StopDrop

-----------------------------------------------------------------------------
(* The exchange and the ticker subscription.                               *)

PriceMoves(m, p) ==
  /\ real[m].at <= MaxMoves
  /\ p # real[m].price
  /\ real' = [real EXCEPT ![m] = [price |-> p, at |-> @.at + 1]]
  /\ UNCHANGED <<feed, prices, entry, control, tick, restarts>>

\* The stream brings a quote once, when it is new (the subscription itself is
\* answered with the current one); polling brings the current one every time.
Brings(m) ==
  \/ feed \in {"stream", "polling"} /\ cached[m] # real[m]
  \/ feed = "polling" /\ table[m] # real[m]

\* A ticker message or an answer of the polling.  The callback writes whatever
\* table the loop last put in place.
Deliver(m) ==
  /\ Brings(m)
  /\ cached' = [cached EXCEPT ![m] = real[m]]
  /\ table' = [table EXCEPT ![m] = real[m]]
  /\ UNCHANGED <<real, feed, entry, control, tick, restarts>>

\* A half-open connection is silent: recv times out again and again, which the
\* stream takes for a quiet market, until messages or an error arrive.  After
\* an error the subscription polls, until the process ends; a poll may be
\* refused.
After == [stream  |-> {"silent", "polling"}, silent  |-> {"stream", "polling"},
          polling |-> {"refused"},           refused |-> {"polling"}]

FeedChanges ==
  /\ feed' \in After[feed]
  /\ UNCHANGED <<real, prices, entry, control, tick, restarts>>

-----------------------------------------------------------------------------
(* The tick.                                                               *)

\* The table is replaced: markets without a quote of this tick drop out.
Swap(snapshots) ==
  /\ table' = snapshots
  /\ loopPc' = "pass"
  /\ captured' = Unknown
  /\ missing' = {}

MayTick == ~stop /\ enabled # {}

\* Slip: the tick starts from the table of the tick before.
KnownFromTable == [m \in Markets |-> IF m \in enabled THEN table[m] ELSE None]

\* The cached quotes of the enabled markets.
Known == [m \in Markets |-> IF m \in enabled THEN cached[m] ELSE None]

\* Only when a market has no cached quote does the tick suspend.
TickStarts ==
  LET absent == {m \in enabled : cached[m] = None}
  IN  /\ loopPc = "idle"
      /\ MayTick
      /\ IF absent = {}
         THEN Swap(Known)
         ELSE /\ loopPc' = "fetching"
              /\ captured' = Known
              /\ missing' = absent
              /\ UNCHANGED table
      /\ UNCHANGED <<real, feed, cached, entry, control, restarts>>

\* REST returns quotes for some of the markets, or none after an error.  A
\* tick without any price is skipped.
Answered(got) ==
  LET snapshots == [m \in Markets |-> IF m \in got THEN real[m] ELSE captured[m]]
  IN  /\ loopPc = "fetching"
      /\ got \subseteq missing
      /\ IF snapshots = Unknown
         THEN loopPc' = "idle" /\ captured' = Unknown /\ missing' = {} /\ UNCHANGED table
         ELSE Swap(snapshots)
      /\ UNCHANGED <<real, feed, cached, entry, control, restarts>>

\* Slip: the pass ends at the first position without a quote.
PassHaltsAtUnknown ==
  entry' = IF \E m \in Markets : HasPosition(m) /\ table[m] = None THEN entry
           ELSE [m \in Markets |-> IF PastStop(m, table[m]) THEN None ELSE entry[m]]

\* Every position past its stop is closed, one without a quote is left alone.
PassOver ==
  entry' = [m \in Markets |-> IF PastStop(m, table[m]) THEN None ELSE entry[m]]

StopPass ==
  /\ loopPc = "pass"
  /\ loopPc' = "idle"
  /\ PassOver
  /\ UNCHANGED <<real, feed, prices, control, captured, missing, restarts>>

\* An error on the way to the pass ends the tick.
TickFails ==
  /\ loopPc = "pass"
  /\ loopPc' = "idle"
  /\ UNCHANGED <<real, feed, prices, entry, control, captured, missing, restarts>>

-----------------------------------------------------------------------------
(* Other handlers.                                                         *)

\* An approval or the loop itself opens a position at the table's price.
Open(m) ==
  /\ ~stop
  /\ ~HasPosition(m)
  /\ table[m] # None
  /\ entry' = [entry EXCEPT ![m] = table[m]]
  /\ UNCHANGED <<real, feed, prices, control, tick, restarts>>

\* A signal, the operator or the reset closes it.
CloseByHand(m) ==
  /\ HasPosition(m)
  /\ entry' = [entry EXCEPT ![m] = None]
  /\ UNCHANGED <<real, feed, prices, control, tick, restarts>>

ToggleMarket(m) ==
  /\ enabled' = IF m \in enabled THEN enabled \ {m} ELSE enabled \cup {m}
  /\ UNCHANGED <<real, feed, prices, entry, stop, tick, restarts>>

StopOrResume ==
  /\ stop' = ~stop
  /\ UNCHANGED <<real, feed, prices, entry, enabled, tick, restarts>>

\* Positions, toggles and the stop come back from the database, quotes do not.
Restart ==
  /\ restarts < MaxRestarts
  /\ restarts' = restarts + 1
  /\ feed' = "stream"
  /\ cached' = Unknown /\ table' = Unknown
  /\ loopPc' = "idle" /\ captured' = Unknown /\ missing' = {}
  /\ UNCHANGED <<real, entry, control>>

-----------------------------------------------------------------------------

Init ==
  /\ \E p \in [Markets -> UNION {Prices[m] : m \in Markets}] :
       /\ \A m \in Markets : p[m] \in Prices[m]
       /\ real = [m \in Markets |-> [price |-> p[m], at |-> 1]]
  /\ feed = "stream"
  /\ cached = Unknown /\ table = Unknown
  /\ entry = Unknown
  /\ enabled = Markets
  /\ stop = FALSE
  /\ loopPc = "idle" /\ captured = Unknown /\ missing = {}
  /\ restarts = 0

FetchReturns == \E got \in SUBSET Markets : Answered(got)

Next ==
  \/ \E m \in Markets :
       \/ \E p \in Prices[m] : PriceMoves(m, p)
       \/ Deliver(m)
       \/ Open(m)
       \/ CloseByHand(m)
       \/ ToggleMarket(m)
  \/ FeedChanges
  \/ TickStarts
  \/ FetchReturns
  \/ StopPass
  \/ TickFails
  \/ StopOrResume
  \/ Restart

Spec == Init /\ [][Next]_vars

\* The loop sleeps at most thirty seconds between ticks, a REST call ends, a
\* feed that stays up delivers what it has to bring, and not every tick fails.
Fairness ==
  /\ WF_vars(TickStarts) /\ WF_vars(FetchReturns) /\ SF_vars(StopPass)
  /\ \A m \in Markets : WF_vars(Deliver(m))

FairSpec == Spec /\ Fairness

-----------------------------------------------------------------------------

WatchTypeOK ==
  /\ real \in [Markets -> Quote]
  /\ feed \in DOMAIN After
  /\ {cached, table, entry, captured} \subseteq [Markets -> Quote \cup {None}]
  /\ enabled \subseteq Markets /\ stop \in BOOLEAN
  /\ loopPc \in {"idle", "fetching", "pass"} /\ missing \subseteq Markets
  /\ restarts \in 0..MaxRestarts

Losing(m) == PastStop(m, real[m])

\* main.py:450: a position past its stop does not stay open for ever, whatever
\* the other markets, failed ticks and restarts do, as long as its own market
\* is enabled, the bot is not stopped and the feed is up: a stream that sends
\* every new quote, or polling that is answered.
LossesAreCut ==
  \A m \in Markets :
    ~<>[](Losing(m) /\ m \in enabled /\ ~stop /\ feed \in {"stream", "polling"})

\* main.py:376 and 433: a quote that came in is used.  A tick that waited for
\* REST writes older quotes over those the stream brought meanwhile; of an
\* enabled market the received quote returns to the table all the same, even
\* if the feed has fallen silent and brings nothing any more.
ReceivedQuotesAreUsed ==
  \A m \in Markets :
    ~<>[](cached[m] # None /\ table[m] # cached[m] /\ m \in enabled /\ ~stop)
==============================================================================
