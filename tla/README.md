# LLMTradingBot in TLA+

A verification project for the trading bot's backend (`src/backend/`): TLA+
modules of its stateful parts, TLC configurations that check them on small
instances, and TLAPS proofs of what matters most for every instance.

Contents: [the system](#the-system), [the modules](#the-modules),
[the runs](#the-runs), [fairness](#fairness), [the proofs](#the-proofs),
[what the checks found](#what-the-checks-found),
[what is not modelled](#what-is-not-modelled), [plan](#plan),
[running it](#running-it).

## The system

One Python process. FastAPI handlers and five background coroutines share one
asyncio event loop; SQLite keeps what must survive a restart; the exchange, the
news feeds, the language models and the alert webhook are reached over HTTP or a
WebSocket. Three facts shape every model here.

* **A handler is atomic for other coroutines exactly between its `await`s.**
  Much of the code relies on it without saying so. Where a handler suspends
  depends on the configuration: a paper account snapshot does not suspend, a live
  one does; an alert suspends only when a webhook is configured.
* **A handler is not atomic for a crash.** Every repository call opens a session
  and commits it. A close makes five commits and a kill may come between any two.
* **What comes back after a restart is what the module-level startup code
  (`main.py:130-220`) rebuilds from the rows**, not what was in memory.

| Component | State | Operations | Talks to |
|---|---|---|---|
| Paper engine `execution/paper.py`, `operator_reset.py` | `cash`, `positions`, `_position_meta`, `_best_prices`, fees | `execute`, `close_position`, `record_closed_trade`, `update_trailing_prices`, stop rules, `restore_from_db`, reset | repository, learner |
| Strategy loop `main.py:333` | price table, history, tick counter | tick: prices, marks, snapshot, stop pass, model call, ideas | everything |
| Approval queue `approval/service.py` | `_pending`, table `approval_requests` | `submit`, `approve`, `reject`, `get_pending`, `clear_pending`, reload; lazy expiry | repository |
| Operator endpoints `main.py:1238-1616` | - | approve, reject, stop, resume, toggles, close, reset | queue, control, engines |
| Control state `control/state.py` | emergency stop, disabled markets and strategies, live markets | toggles, `_persist`, `load_from_db` | repository |
| Risk engine `risk/engine.py`, `persistence.py` | `daily_loss`, `_last_reset_date`, `current_equity` | `evaluate_trade`, `record_trade_result`, `update_equity`, daily reset | repository |
| Kraken market data `ingestion/kraken_adapter.py` | subscription | ticker stream, polling fallback, REST batch, candles | the price table by callback |
| Kraken execution `execution/kraken.py`, `kraken_retry.py` | none of its own; open orders on file | `execute`, account snapshot, reconciliation, retries | exchange, repository |
| Strategies `strategy/*.py` | price history, warmup | gates, filters, indicator votes, model scale, veto or recommendation | indicators, LLM, learner |
| Learner `strategy/learner.py` | decayed sums and results per strategy, market and direction | `record_outcome`, `load_from_outcomes`, `quality_score`, `adjust_confidence` | fed by the engines |
| LLM clients `llm/*.py` | one circuit breaker per client, loaded model | `chat`, `probe`, `recheck_primary`, `unload` | HTTP, a worker thread |
| News, OHLC, reflection, equity loops `main.py:831-1100` | caches, `_briefed_news_ids` | fetch, brief, reflect, snapshot every 10 s | LLM, repository |
| Repository `storage/` | SQLite | one committed session per call | - |
| Indicators, backtest, universe, settings, CLI, frontend | configuration, pure computation, display | - | - |

What makes each correct, and what makes it hard:

* **Paper account.** The book in memory, the `open_positions` rows, the orders,
  the recorded outcomes, the cash and the loss of the day are six accounts of the
  same facts, written one after the other by five different routes (automatic
  execution, approval, manual close, operator reset, stop pass). They have to
  agree after every route and as far as possible after every crash.
* **Approval queue.** Two accounts (queue and table), lazy expiry, and a reload
  that must neither revive a decided request nor lose a live one.
* **Stop, approvals and the loop.** The stop is a flag that each activity reads
  once, before it suspends. What is in flight when it is pressed?
* **Stop-loss watch.** A losing position is closed only if its price gets to the
  pass: cache, stream, REST, market filter and failing ticks lie in between.
* **Risk gate.** The loss of the UTC day has to be counted exactly, whatever the
  order of results, evaluations, midnights and restarts; sizes are shrunk by an
  estimate of the costs and must stay covered by it.
* **Exchange orders.** A call that fails may have succeeded. What is on file must
  never claim more than the exchange said, and in the end as much.
* **Model switching.** Every chat leaves its client's breaker before an `await` and writes
  it after: chats, probes, loads and unloads end in any order, and a thread answers from a
  model that has been unloaded. A circuit is half open from one caller's attempt to whoever
  ends next.
* **Briefings.** A feed shows a window of its articles and the loop remembers one listing.
  Articles count as briefed before the task about them has run, tasks overlap, and what
  counts as briefed after a restart is the newest articles of the table.
* **Signals and lessons.** The rules for longs and shorts are written out twice. Three gates
  in a row, two scales and a learner decide; the learner's verdict decides whether it
  gets anything to learn from, and it is rebuilt from rows in the opposite order.

`PROJECT.json` lists under `hazards` each of these at its line, with the
properties that cover it or the reason why none does yet.

## The modules

| Module | Models | Notes |
|---|---|---|
| `PaperAccounting` | the arithmetic of `paper.py` | pure operators, shared |
| `PaperTrading` | paper engine, the handlers that drive it, its rows, crashes, restart | state machine |
| `PositionBook` | what the account promises of positions | abstract, refined by `PaperTrading` |
| `ApprovalQueue` | `ApprovalService`, its table, crashes, restart | state machine |
| `ApprovalLifecycle` | what the queue promises of a request | abstract, refined by `ApprovalQueue` |
| `TradingLoop` | loop, approval endpoints, stop and resume around the queue | extends `ApprovalQueue` |
| `StopLossWatch` | the way of a price into the stop pass | state machine |
| `RiskGate` | `RiskEngine` and its row | extends `PaperAccounting` |
| `KrakenOrders` | `KrakenExecutionEngine`, its retries, the order ledger, the exchange | state machine |
| `LLMSwitching` | both LLM clients, their breakers, probes, load and unload | state machine |
| `NewsBriefing` | news loop, briefing tasks, their tables, crashes, restart | state machine |
| `IndicatorVote` | gates, filters and votes of the indicator strategies | state machine |
| `Learner` | statistics and score of one key | pure operators |
| `SignalPipeline` | an idea through strategy, model, learner and gate to its lesson | extends `IndicatorVote`, `Learner` |
| `PaperTradingProofs`, `ApprovalQueueProofs`, `TradingLoopProofs`, `RiskGateProofs`, `KrakenOrdersProofs`, `LLMSwitchingProofs`, `NewsBriefingProofs`, `SignalPipelineProofs` | theorems about the module they are named after, the last also about `IndicatorVote` and `Learner` | |
| `MC*` | symmetry sets and constants for TLC | |

A definition commented `Slip:` is a plausible bug of the code (a guard dropped, a
commit left out). No specification uses it. `PROJECT.json` pairs each with a
property of a run that must fail when the slip takes the place of the real
definition: evidence that the property depends on that piece of the code.

### PaperAccounting

Floats become integers without loss: a rate `r` is `r / Scale`, a quote is a whole
number, a fill price is in units of 1/`Scale`, money in 1/`Scale`². The code's
rates are `Scale = 10000`, `SlippageRate = 10`, `TakerFeeRate = 26`. Only a reset
without a quote rounds, since it slips an entry price that was slipped before.
`CanFill` is the negation of `_rejection_reason`, `RealisedPnl` the P&L of
`record_closed_trade`, `Marked`, `StopLossHit` and `TrailingStopHit` the stop
rules.

### PaperTrading

| State | Code |
|---|---|
| `cash`, `positions` | `paper_engine.cash`; `.positions` joined with `_position_meta`, entry fees and `_best_prices` |
| `prices` | `_current_prices` |
| `dailyLoss`, `learned` | `risk_engine.daily_loss`; what the learner was told |
| `loopPc`, `scan`, `resetting` | where the loop is suspended, the positions its stop pass has left, the reset in progress |
| `db` | `open_positions`, `orders`, `signal_outcomes`, newest `equity_snapshots` cash, `risk_state` |

Every handler is given by the values it ends with (`Completes`) and by the set of
databases a crash between its commits leaves (`CrashesIn`), in the order of the
code's commits; a crash restarts the process from one of them (`RestartFrom`).
`OpenBySignal` and `CloseBySignal` are the two effects of `execute` under the
automatic loop and under `approve_trade`, which commit in different orders;
`ManualClose`, `BeginReset`/`ResetOne`/`EndReset` and `StopClose` the three
targeted closes. The reset closes one position per step but holds the event loop
from the first to the last. `Tick`, `AccountAnswered`, `TrimDone`, `StopClose`,
`AlertSent`, `EndScan` are one tick, cut where the code suspends.

The strategy, the operator and the verdict of the risk engine are inputs: any
idea, market, direction and size, at any time the guards of the code allow.
Properties hold for a superset of what the strategies and the engine ask for.

### ApprovalQueue and TradingLoop

`pending` is `_pending`, `rows` the table. `Submit`, `SubmitDuplicate`, `Decide`,
`TouchExpired`, `Read`, `Clear` are the service's methods, each with the purge it
makes; a purge commits row by row, hence `PartlyPurged`. The clock is an integer;
`Expired` and `Recovered` keep the code's asymmetry at the last instant (`<` in
one, `>` in the other).

`TradingLoop` adds who calls the service. `loopPc` is where the loop suspends:
`evaluating` (prices, account, model), `acting` (it holds the event loop),
`waiting` (an exchange call or an alert inside the idea loop). `handler[id]` is an
approval suspended in its account snapshot or its exchange call. The mode and the
environment are read at process start, so a restart may change them. An order is
an entry in `trades`; what it does to the account is `PaperTrading`'s.

### StopLossWatch

A quote is a price with the number of its market's change, so that "later" is
decidable. `cached` and `table` are `_latest_market_snapshots` and
`_current_prices`. `TickStarts` filters by enabled market and copies the cache;
`Answered` is the REST call for the missing markets, which may return any part of
them; `Swap` replaces the table; `StopPass` closes what is past its stop.
`feed` is how the subscription works at the moment: the stream brings a quote once, when
it is new; it may go silent without an error, which the adapter takes for a quiet market;
after an error the subscription polls until the process ends, and then brings every
current quote anew, unless it is refused (`Brings`, `FeedChanges`). One long stands for
the positions of a market.

### RiskGate

`Decision` is `evaluate_trade` with its checks in the code's order. Order sizes
are in units of 1/(`Scale` + `FeeAndSlippage`) so that shrinking to
cash / (1 + costs) is exact. `CurrentLoss` is the counter as
`_check_daily_reset` leaves it; `onFile` the `risk_state` row. `lossesToday` is a
history variable. A crash between an outcome and its loss is modelled in
`PaperTrading`, where both are on file (`CrashForgetsOneLossAtMost`).

### KrakenOrders

| State | Code |
|---|---|
| `calls[r]` | the `execute()` of request `r`: who made it, its try, where it is suspended |
| `exchange` | orders Kraken accepted, by txid (external) |
| `rows`, `rejected` | `order_records`, `rejected_trades` |
| `loopPc`, `even`, `asked` | where the loop is suspended, parity of its tick, the orders of the query in flight |

`Accept` is the exchange's; the answer may be an order with or without a txid, a
response with errors or an exception, which may come after the acceptance.
`MayRetry` is the rule of `call_with_kraken_backoff` for both kinds of failure: a last
exception is booked rejected, a last response with errors returned and saved. An
answer to the reconciliation query names any part of the orders that have ended
(`QueryAnswered`); a crash may come between the commits of two of them
(`ReconcileInterrupted`). Ideas and their sizes are inputs.

### LLMSwitching

| State | Code |
|---|---|
| `up` | whether the endpoint answers (external) |
| `primary`, `fallback` | `_available`, circuit state and "retry time reached" of each client's mixin (`llm/common.py`) |
| `loaded` | `TransformersClient._pipeline` is set |
| `call[c]` | the chat of a caller: waiting for the endpoint, in the worker thread, or how it ended |
| `keeper` | startup (`main.py`) and the news loop's `recheck_primary`: where it is suspended and the `was_available` it read before its probe |

`ChatStarts`, `RemoteEnds` and `LocalEnds` cut `SwitchingLLMClient.chat` where it suspends;
the outcomes of the endpoint are told apart by what they do to the breaker. `BootProbeEnds`,
`RecheckStarts`, `ProbeEnds` and `LoadEnds` cut the keeper. The length of a retry delay, and the
failure count that only determines it, are left out: `RetryDuePrimary` and `RetryDueFallback`
say that it has passed. Nothing of it is kept on file, so a restart is `LLMInit`.

### NewsBriefing

| State | Code |
|---|---|
| `published` | articles of the feeds and of the index, in the order of their dates (external) |
| `index`, `primed` | the article of the index's present reading; `FearGreedAdapter._last_value` is set |
| `filed` | rows of `news_items` |
| `loop`, `unread`, `fetched`, `given` | where the news loop is suspended, the feed it reads next, what the cycle has of the feeds and of the index |
| `briefedIds` | `_briefed_news_ids`, the ids of `_latest_news` |
| `asked`, `waiting` | the articles of each `_market_briefing_task`, the tasks whose chat is under way |
| `priced` | `_current_prices` is not empty |
| `shown`, `onFile` | `_analyser.latest_briefing`, newest row of `llm_briefings` |
| `handed`, `whole`, `last`, `saved` | history: articles given to tasks; nothing was missing from what the cycle has read; how complete the cycle listed last was; the briefing shown last was saved |

An article is the rank of its publication time, a briefing the set of articles it was
asked about. The feeds are read one after the other, each at its own time, and show
their `Window` newest articles (20 in the code); articles may be published in between. The
index comes last and yields an article only when its value is not the one read before
(`IndexYields`), so that its article is in one listing and gone in the next. `Lists` is the
stretch without an `await` from the listing to the start of the task. What the LLM does to
a chat is `LLMSwitching`'s; here it may answer, refuse or fail at any time. Articles
without a date, which every fetch dates anew, are left out.

### IndicatorVote, Learner, SignalPipeline

`IndicatorVote` follows one market through `BasicStrategy.evaluate`: `Look` is the momentum gate
(against the ATR) and the trend filter, `Read` one indicator with its hard filter and its
vote, `Conclude` the gates for support, consensus and confidence, and the size. What an
indicator shows is an input. Confidences and sizes are in units of 1/10000, momentum and ATR
in basis points. `basic_and_llm_strategy.py` repeats the same code up to its model call.

`Learner` keeps the decayed sums exact: an older trade weighs 23/25 of the next, so the
sums of `n` outcomes are multiplied by 25^(n-1), and only their quotient is used. `newest` and `oldest`
carry the powers along, as what the next outcome weighs and what one before them all
would: recording a result and loading an older row are then the same operator, `Known`. `QualityScore` and
`AdjustConfidence` round down to 1/10000 where the code keeps floats.

`SignalPipeline` composes them in fully automated mode for one market: `strategy` (selected),
`stats` (by the direction of the key), `outcomes` (rows of `signal_outcomes`; the startup reads the newest
`RowLimit` of them, 1000 in the code), `seeded` (rows the learner was rebuilt from), `book` (directions with an open position). The vote runs in full
until the first trade; later its ideas come with any confidence it can end in, which
`IdeasStayInBounds` proves to be the right range. `Recommends` is the model-only strategy, `Analysed`
the model's scale and veto, `Adjusts` the learner (`main.py:569`), `Judged` the gate and the trade.
Between the two the alert or the live order of an earlier idea of the tick may suspend the loop, and
a close may teach the learner. `RiskGate` may reject anything here.

## The runs

### Runs that pass

`paper_account` (`MCPaperTrading`, 224 533 states). One market, one order size (two are
`paper_alerts`'s), two
positions over the life of the account, two quotes more than a stop apart, one restart that
may fall between any two commits. Two quotes make a gain and a loss on either side
and trigger both stop rules; two positions are a long and a short, or one after
the other; the starting capital of 16 units pays for one opening at the low quote
but not at both, so that the funding rule bites. It shows, over all five routes:
memory and rows agree outside a handler (`RowsMatchBook`), one position per
direction (`OnePositionPerDirection`), a result is recorded once (`SettledAtMostOnce`),
the ledger and the outcomes never tell two results (`LedgerMatchesOutcomes`),
a crash forgets the loss of one trade at most (`CrashForgetsOneLossAtMost`), the
learner knows exactly the outcomes on file (`LearnerFollowsOutcomes`), only stop-outs leave
the cash on file behind (`CashLagsOnlyBehindStops`), only closing a short overdraws
(`OnlyShortClosesOverdraw`), and the database implements `PositionBook`.

`paper_alerts` (`MCPaperTrading`, 228 001 states). The live environment with a
webhook: the loop suspends in its account call and after each stop-out, and any
handler may close what it still has on its list: still nothing is settled twice. There are two
order sizes, as in the code, where a size is an amount of money over a price: a short may close
a long of another size. Cash, what the open positions tie up and the recorded results balance
to the last unit over every handler (`PnlMatchesCash`), except in that very case, where they
are off by the difference of the two sizes at the exit price and by nothing else.

`approval_queue` (`MCApprovalQueue`, 290 974 states). Two markets, four requests,
a clock of four instants with a lifetime of one, so that a market is asked for
again after an expiry, two restarts. Queue and table agree (`QueueIsOnFile`,
`NoHiddenRequests`), one request per market, a decision is final, and the queue
implements `ApprovalLifecycle`.

`loop_stop` (`MCTradingLoop`, 329 760 states). A live and a paper market, semi- and
fully automated modes, both environments and a webhook, so that every place to
suspend occurs; two requests, one restart, possibly with other settings. An
approval sends at most one order over crashes and restarts (`AtMostOneTradePerApproval`); the
stop survives a restart (`StopSurvivesRestart`); while it is active the set of
activities in flight only shrinks (`NothingStartsWhileStopped`) and in the end it
is empty (`StopQuiesces`). The writes of the control state succeed here
(`PersistMayFail = FALSE`); `loop_lost_stop` lets one fail, and the stop is lost.

`watch_losses` (`MCStopLossWatch`, 369 664 states). A market with two prices one stop
apart that may change twice, and one whose price stands still but whose quote and position may
both be there or not; one restart; toggles, stops, streams that go silent or
fail, refused polls and failing ticks without bound. `LossesAreCut`: a position past its stop
does not stay open for ever in an enabled market of a running bot with a feed that is up.
`ReceivedQuotesAreUsed`: a tick that waited for REST writes older quotes over those the stream
brought meanwhile; the received quote returns to the table all the same, also when the
stream, which sends a quote once, brings nothing any more.

`risk_gate` (`MCRiskGate`, 10 224 states). Every idea over a grid of cash, longs and
equity around the thresholds, two losses and a gain, three days, restarts without
bound. The limit counts exactly the losses of today (`GateCountsToday`), approvals
and daily-loss rejections tell the truth about them (`DailyLimitIsExact`), and an
approved size lies between the minimum and what was wanted and is covered by the
longs or the cash (`SizesAreCovered`).

`kraken_orders` (`MCKrakenOrders`, 393 188 states). One live market, two requests with two
tries each, two orders at the exchange, that is one per request or two for one of them;
one restart, with or without credentials. Whatever is lost, left out or interrupted, the
ledger tells only what the exchange said of that very order (`LedgerTellsExchange`), a
request leads to as many orders as tries at most (`DuplicatesComeFromRetries`), results on
file stay (`ResultsAreFinal`), and an order with a txid does not stay pending for ever once
it has ended (`EndsAreSeen`), unless an order without a txid is in every query. Only buys, two ways to end and the live environment: the
ledger makes no difference between sides or results, and in a paper environment
nothing is reconciled.

`llm_switching` (`MCLLMSwitching`, 4 706 states). Two overlapping callers and the keeper, an
endpoint that comes and goes without bound, loads that may fail. Whatever order chats,
probes, loads and unloads end in, an available client has a closed circuit and a half-open
circuit lets the next caller through (`BreakersAreSound`); a client calls itself available
without a model only after a chat that was in its thread when the model was unloaded
(`PhantomOnlyFromLateAnswers`); an endpoint that stays up is used again (`EndpointIsUsedAgain`),
one that stays down is noticed (`OutageIsNoticed`), and a loaded model is asked while it is
(`LoadedModelIsAsked`). Two callers are a caller and whoever ends its chat in between.

`news_briefing` (`MCNewsBriefing`, 1 067 370 states). One feed that shows two articles, a
listing of one, and the index: a later article, or the index's, pushes an article off the list
that the feed goes on showing. Two tasks that overlap and are answered in either order, fail, or
are not saved; unreadable feeds and unsaved articles; one restart between any two steps. A
cycle that reads every feed, after a listing that had every feed and nothing of the index, gives
no article to a task that was ever given to one (`NothingIsBriefedTwice`), whatever failed or
restarted before. A restart shows the briefing that was shown before it (`RestartKeepsBriefing`),
unless just that one was not saved; the older of two overlapping answers may be the one that
is shown and kept. Two feeds read one after the other, the windows they push articles off and
longer lists are left to the proof, which holds for all of them.

`signals` (`MCSignalPipeline`, 1 050 813 states). Momentum, ATR and trend on both sides of their
gates, every indicator on both sides of its thresholds, the three strategies, `MIN_SAMPLES` of
two and three closed positions, of which a restart, possible after each, reads the last two. A mirrored market gets the opposite
idea of the same confidence, gate for gate (`LongsAndShortsAreAlike`); a learner
rebuilt from the rows equals the one that saw every close (`LessonsSurviveRestart`), unless a
short closed a long or the query cut the rows off; and a key whose history keeps its best
idea below the confidence gate, with no position open and no idea about to pass, opens no
position and stays so (`SuppressedStaySuppressed`), over restarts too while everything is
remembered: the learner has no way out of its own verdict.

### Bounds

The bounds are named constants: `MaxPositions`, `MaxRequests`, `MaxTime`,
`MaxRestarts`, `MaxAutoTrades`, `MaxMoves`, `MaxLoss`, `MaxDay`, `MaxOrders`, `MaxAttempts`,
`MaxArticles`, `MaxOutcomes`, `FeedCount`, and the sets `Tasks` and `Callers`. They count
operations over the whole run; between them every order of operations, crashes and
suspensions is explored. The code has no limits of its own at these places (a
queue, a book and a day take any number), its rules speak of pairs (two positions
of a market, two requests of a market, two overlapping tasks or chats, a restart and what
came before), and the invariants that are proved hold for all values of the bounds. The
rates are coarse (`Scale = 10`, 10% and 10%, stops at 20% and 30%) so that two quotes reach
every branch; `Cap` (60 in the code), `Window` (20) and `MinSamples` (5) are small so that they
are reached; the proofs hold for all of them.

Deadlock is checked in every run: the environment (clock, prices, the operator's
reads, the endpoint) or the loop always has a step.

Type invariants are proved and not run again: `TypeOK`, `QueueTypeOK`, `LoopTypeOK`,
`RiskTypeOK`, `OrdersTypeOK` and `NewsTypeOK` are theorems or part of one, `LLMTypeOK` is a
conjunct of `BreakersAreSound`. `WatchTypeOK` documents the types of `StopLossWatch`.

Symmetry is used over trade ideas, markets and briefing tasks in runs that check safety only.

### Runs that refute a statement of the repository

`paper_stop_cash` and `llm_fallback` each check one statement that a document or comment makes and the
code does not keep; see [what the checks found](#what-the-checks-found). Nine more
configurations, listed there too, do the same for further statements. Their bounds are the
smallest that reach the case, and nothing fails in them that need not: no feed, write or chat
in those about news, no write of the control state but in `loop_lost_stop`, whose subject it is.

## Fairness

Four specifications state it.

`TradingLoop!FairSpec`: weak fairness of `Evaluated`, `LoopAct`, `CallReturns` and, per
request, `AccountAnswered` and `OrderAnswered`. Nothing obliges a tick to start, an
operator to click or a price to change. The event loop runs what is runnable, and a
suspended call returns: the LLM's HTTP client times out after 30 s, the webhook
after 5 s, the ticker request after 10 s. The Kraken SDK and the local
Transformers model run in worker threads without a timeout of their own; that they
return is an assumption, and without it `StopQuiesces` is not to be had.

`StopLossWatch!FairSpec`: weak fairness of `TickStarts` (the loop sleeps at most 30 s
and begins again, `main.py:361`), of `FetchReturns` (the REST call ends in an answer
or an error) and, per market, of `Deliver`: a feed that is up brings what it has to bring. For
the stream that is a quote that is not the cached one; nothing sends an unchanged quote
again, so the fairness repairs no table that a tick has overwritten. Only polling does that,
as in the code. Strong
fairness of `StopPass`: a tick may fail on its way to the pass again and again
(`main.py:822`), but not every tick for ever.

`KrakenOrders!FairSpec`: weak fairness of `TickActs`, `TickEnds`, `QueryAnswered` and of the
ends of a call and its backoff; strong fairness of `TickQueries` (not every even tick
fails first) and, per request, of an answer that tells of its order (a query may fail,
not every one for ever), as long as every order asked about has a txid: one query names the
txids of all pending orders (`kraken.py:184`), and with an empty one among them it may be
refused every time, for all of them.

`LLMSwitching!LLMFairSpec`: weak fairness of the ends of probes, loads, retry delays and, per
caller, of the start and the end of a chat: requests have time-outs, generations a token
limit, delays an end, and some caller comes back with every tick. That the worker thread of
the local model returns is the assumption made above. Strong fairness of `RecheckStarts`: a
news cycle may fail before it gets to its probe (`main.py:931`), but not every one for ever.
The endpoint is under no obligation.

## The proofs

All theorems hold for every value of the constants under the named assumptions:
`RatesAssumption`, `PaperAssumption`, `QueueAssumption`, `LoopAssumption`, `RiskAssumption`,
`OrdersAssumption`, `NewsAssumption`, `MarketAssumption`, `ReadingAssumption` (and
`WatchAssumption`, `LoadAssumption`, `SampleAssumption`, `ProposedAssumption`, which no proof
needs). They say that rates, sizes and readings are numbers in their natural ranges, bounds
are positive where the code needs one, and sentinels are not members of what they stand out
from; TLC evaluates them in every run.

**`PaperTradingProofs`.** `TypeCorrect`, `RowsAlwaysMatch`, `SignsAlwaysMatch`, `OneAtATime`,
`SettledOnce`: `Spec => []` of `TypeOK`, `RowsMatchBook`, `SignMatchesDirection`,
`OnePositionPerDirection`, `SettledAtMostOnce`. None is inductive. A restart rebuilds
the book from whichever database a crash left, so the argument is about databases:
`DbOK(d)` says that the rows of `d` are typed, one per direction and with the right
sign, that every row has its opening order, and that outcomes are about ordered
positions without a row, one each. There is one lemma per commit (`OrderCommit`,
`OpenRowCommit`, `RemoveRowCommit`, `OutcomeCommit`, `NumberCommit`, `StampCommit`): each
preserves `DbOK` under the condition the handlers meet. A handler's final and partial
databases are compositions of commits, so that `CompleteStep` and `CrashStep` treat
both alike. The inductive invariant is `Inv == MemoryOK /\ DbOK(db) /\ RowsMatchBook`;
the last conjunct carries `DbOK` over to the open positions. `OneAtATime` needs that the
one-position rule of `_rejection_reason` is evaluated on the book that is on file;
`SettledOnce` that an id is never used twice and that the row goes before the outcome
comes.

The other theorems of the module are about what a step changes. `StepEnds` says that every step ends
in one of four ways: it opens and closes nothing (`Idles`), it opens one position (`OpensOne`), it
closes one (`ClosesOne`), or the process dies in it and restarts (`Crashes`) from a database in
`Reached`: one to which the first commits of an opening (two of them) or of a close (five) have been
applied. The handlers are gone through once for that; after it, no proof looks at a handler again.

| Theorem | Property | Why |
|---|---|---|
| `AccountImplementsBook` | `ImplementsPositionBook` | stage and slot of a position are read off its row, its orders and its outcomes; whatever is `Reached` is one step of the book away or none |
| `LedgerTellsOneStory` | `LedgerMatchesOutcomes` | the outcome is committed before the order is stamped with its P&L |
| `LearnerIsToldOfOutcomes` | `LearnerFollowsOutcomes` | a close commits its outcome and teaches it, a restart teaches exactly the file |
| `OneLossPerCrash` | `CrashForgetsOneLossAtMost` | the row has the counter's value (`LossOnFile`), and only a crash between outcome and `risk_state` adds the one to the file and not the other |
| `OnlyStopsLagBehind` | `CashLagsOnlyBehindStops` | assumes `Environment = "paper"`, as the property says: with live orders the snapshot has the exchange's balance |
| `OnlyShortsOverdraw` | `OnlyShortClosesOverdraw` | openings are funded with their fee; the proceeds of a sale cover its fee because a fee never exceeds the value it is charged on (`TakerFeeRate \in 0..Scale`) |
| `ResultsMatchCash` | `PnlMatchesCash` | for all sizes: a closing signal moves the cash by its own size and records the result of the position's, so that their difference is the fill value of the difference of the two sizes, the exception the property names |

`OneLossPerCrash` and `ResultsMatchCash` are about sums over any number of outcomes and positions. The
library's `MapThenFoldSet` is a recursive function on the subsets of a set; that the recursion has a
solution, that all solutions agree, and that one summand more adds that summand, in
whatever order `CHOOSE` takes them (`SumsExist`, `SumsAgree`, `SumGrows`), is shown by looking at a
smallest set for which it fails (`SmallestSet`).

**`ApprovalQueueProofs`.** `OneRequestPerMarket` (`OnePendingPerMarket`), `QueueMatchesTable` (`QueueIsOnFile`) and
`NoRequestIsHidden` (`NoHiddenRequests`). They carry each other: after a restart one request per market is queued
because what is recovered was queued before (`NoHiddenRequests`) and is on file as it was
queued (`QueueIsOnFile`). `QueueShrinks`, `QueueGrows` and `QueueRestarts` say what a handler may
do to queue and table; every operation is an instance of one of them. `DecisionsStay`
(`DecisionsAreFinal`) goes through the operations once more: each marks pending rows only.
`QueueImplementsLifecycle` (`ImplementsApprovalLifecycle`) maps every operation, a purge in its middle, a crash
in its middle and a restart to a step of `ApprovalLifecycle`, with the requests that time has run out
for as the ones that lapse along with it.

**`TradingLoopProofs`.** `OneTradePerApproval`: `AtMostOneTradePerApproval`. The argument crosses
the two modules: `QueueInv` holds under the loop too, since every step of the loop is a step of
the queue or leaves it alone (`QueueSurvivesLoop` states it for `QueueIsOnFile`); no step of the
queue makes an approved row anything else (`KeepsApprovals`); and whoever traded or is suspended
on its way to a trade is approved on file and no longer queued (`Linked`). A request leaves the
queue once, so it is handled once, crashes included. `LoopTypeCorrect` is `LoopTypeOK`.
`StopStartsNothing` (`NothingStartsWhileStopped`) goes through the actions: those that begin
something read the flag in the same step. `StopIsKept` (`StopSurvivesRestart`) assumes
`PersistMayFail = FALSE`; then the flag and its row agree, which is inductive.

**`RiskGateProofs`.** `LimitCountsTheDay` (`GateCountsToday`) from `RiskInv`: the counter, if it was
reset today, and the row, if it is of today, say what was lost today, otherwise nothing
was, and neither date lies in the future. `DailyLimitHolds` (`DailyLimitIsExact`) uses it for the verdict;
`SizesAreAlwaysCovered` (`SizesAreCovered`) is arithmetic about the two-step sizing, by
cases on the checks. `RiskTypeCorrect` is `RiskTypeOK`.

**`KrakenOrdersProofs`.** `LedgerIsTrue` (`LedgerTellsExchange`), `OnlyTriesMultiply`
(`DuplicatesComeFromRetries`), `ResultsStay` (`ResultsAreFinal`), `OrdersTypeCorrect`, all from `OrdersInv`:
a row has the txid its own call was answered with, what it says of the order's end is what
the exchange has, and a call whose try may still be accepted has one order less than tries.
The last conjunct is what a retry after a lost answer would break if it counted tries
otherwise. A call ends in one of four ways (saved, rejected, backing off, still under way), each
with a lemma; both kinds of reconciliation, the finished one and the interrupted one, are
updates from the same set of ended orders.

**`LLMSwitchingProofs`.** `BreakersStaySound` (`BreakersAreSound`), which is inductive because every handler that
comes back from an `await` replaces the whole breaker instead of patching the one it left;
the exceptions (an attempt, an unload) have lemmas. `PhantomsComeLate` (`PhantomOnlyFromLateAnswers`).

**`NewsBriefingProofs`.** `NoneIsBriefedTwice` (`NothingIsBriefedTwice`): why an article that was briefed and has left the
listing does not come back. Two facts carry it. What is not among the newest `n` of a set is not
among the newest `n` of a larger one (`WindowMoves`, `RankMoves`), so an article that was pushed off its feed
stays off it (`Places`). And an article below the rank `Cap` of a complete listing has `Cap` later ones, which
their feeds go on showing unless still later ones have replaced them (`PublicationShows`), so
the next complete listing has no room for it either (`LeftBehind`, `SeesAll`). An article of
the index in that next listing has not been listed before, or has the place of a newer one
(`IndexIsNew`). Failed cycles, listings that were not complete and restarts only have to leave `handed` and
the feeds alone. `BriefingSurvives` (`RestartKeepsBriefing`) and `NewsTypeCorrect` are inductive with the types.

**`SignalPipelineProofs`.** The vote, by itself and in the pipeline. `FiveAlwaysSuffice` and `FiveSufficeInPipeline`
(`FiveSupportersSuffice`, about the five supporters the code asks for) from the tally: votes are twice the supporters less the available, and at most
nine are available. `DirectionsAreAlike` and `DirectionsAreAlikeInPipeline` (`LongsAndShortsAreAlike`), indicator by
indicator for every reading of its scale. `IdeasStayInBounds`: a voted idea has a confidence of 0.25
to 0.95 and a size of 5% to 20%, which justifies the range of `Proposed`. `IdeasKeepTheirLimits`
(`IdeasOnTheirWay`): from there to the gate, or from the model's advice, through scale and learner, it stays
between 0 and 0.95 and in the same sizes.

The learner. `SeedingRestoresLessons` (`LessonsSurviveRestart`): the code has the same decay twice, once as a
factor on all that is known (`record_outcome`) and once as a weight that shrinks from row to row
(`load_from_outcomes`). `OrderOfLearning` says that recording a newer outcome and loading an older
one may be swapped, field by field; from it `NewerRow`, by looking at the first row where
it would fail, and `SeededGrows`: a file that grows by a row seeds a learner that knows one outcome
more. With that the property is inductive, given the types of `stats`, `outcomes` and `seeded`: a
result filed under the key it is learnt under keeps it, any other makes its hypothesis
false, and a restart establishes it. That the recursion over the rows has a solution is proved, too (`LoadsExist`).

The gate. `NoWayOutOfTheVerdict` (`SuppressedStaySuppressed`): a score lies between -1 and 1 (`ScoreBounds`; its
denominator is positive once there is an outcome), so the adjustment multiplies by something
that is not negative and keeps the order of confidences (`AdjustmentKeepsOrder`). If the best idea
is below the gate, every idea that is adjusted then is, and so it opens no position. A lesson
needs a position of its own key or, for a short that closes a long, a short that is about
to pass; both are excluded in the state the property starts from, and stay so. Over a restart it
takes `LessonsSurviveRestart`.

**Only model-checked.** The liveness properties (`StopQuiesces`, `LossesAreCut`,
`ReceivedQuotesAreUsed`, `EndsAreSeen`, `EndpointIsUsedAgain`, `OutageIsNoticed`, `LoadedModelIsAsked`): liveness
under fairness is beyond the prover. What a history adds up to as such, its exact score for
instance, is not proved either, only how two ways to add it up compare.

## What the checks found

Statements of the repository that the code does not keep; TLC finds a counterexample to each. The first
two are runs and findings of `PROJECT.json`.

| Configuration | Module | Statement | What happens |
|---|---|---|---|
| `paper_stop_cash` | `MCPaperTrading` | "No data is lost" in a restart (`docs/03-background-loops.md:298`) | The stop pass closes a position, deletes its row and saves no equity snapshot (`main.py:476`). A restart before the next one restores the cash of before the sale. |
| `llm_fallback` | `MCLLMSwitching` | the local model "is reloaded automatically" (`switching_client.py:5`) | A failed chat marks the primary down; the next probe finds no change and loads nothing (`switching_client.py:126`). |
| `kraken_no_txid` | `MCKrakenOrders` | orders are reconciled "so fills are visible promptly" (`main.py:524`) | An answer without a txid is saved as a pending order with an empty one (`kraken.py:127`). The exchange fills it; no answer is ever matched to it. |
| `loop_lost_stop` | `MCTradingLoop` | state "is written ... on every change so it survives restarts" (`control/state.py:4`) | `_persist` swallows a failed write (`state.py:76`); the stop is active until the process ends, and a restart trades again. |
| `news_restart` | `MCNewsBriefing` | the first cycle "doesn't re-brief on articles processed before this restart" (`main.py:208`) | The 60 newest rows count as briefed, among them the index's. The first listing without an index article has room for one more, which was briefed before. |
| `news_index` | `MCNewsBriefing` | "genuinely new articles" (`main.py:872`) | The index's article is listed once and pushes the last article off the list; the next cycle lists that again and briefs it as new (`main.py:916`). |
| `news_first_fetch` | `MCNewsBriefing` | after a restart the set "starts empty. The first news fetch always triggers a full briefing" (`docs/09-ingestion-adapters.md:223`) | It starts with what is on file (`main.py:210`); the first cycle lists that and briefs nothing. |
| `news_skipped` | `MCNewsBriefing` | a briefing skipped for want of prices is made up for in "the next news cycle" (`docs/09-ingestion-adapters.md:270`) | The ids count as briefed before the task runs (`main.py:916`). |
| `paper_gross` | `MCPaperTrading` | the recorded result is "the gross P&L before fees" (`docs/05-execution-engine.md:327`, `docs/08-api-endpoints.md:390`) | `record_closed_trade` subtracts both fees (`paper.py:261`). |
| `signals_support` | `MCSignalPipeline` | "at least six indicators" support an idea (`docs/03-background-loops.md:80`, `docs/06-strategy-and-learning.md:353`) | The gate asks for five (`constants.py:21`). |
| `signals_llm_only` | `MCSignalPipeline` | no "learner confidence adjustment" for the model-only strategy (`docs/06-strategy-and-learning.md:362`) | The tick adjusts every idea (`main.py:569`). |

`news_restart`, `news_index` and `NothingIsBriefedTwice` are one picture: what the loop remembers is one
listing, which is enough from a complete one without the index to the next, and neither across
a restart nor across an article of the index.

**Seen while modelling**, not checked:

* In a live market the book is not changed by an order, and the one-position rule reads the
  book (`main.py:730`): the automatic loop sends a second buy beside the first. Whether that is wanted
  is not said.
* A second briefing may be overtaken by the first when the model is slower than the news; the older
  answer is then shown and kept (`analyser.py:454`).
* Orders of a tick or an approval that is under way when the stop is pressed still go out, and a tick under way
  submits approvals after the stop has cleared the queue (`main.py:709`).
* `docs/10-approval-and-control.md:9` and `:160` say that pending approvals are lost in a restart; the code recovers
  them (`approval/service.py:119`), as `ApprovalQueue` does.
* `docs/09-ingestion-adapters.md:242` rebuilds the cache from 30 articles, the code from 60 (`main.py:909`).
* `backtest/replay.py` calls `evaluate()` with arguments the strategies do not take.

## What is not modelled

`PROJECT.json` gives the status of every component. Left out for good: the arithmetic of the
indicators (their readings are inputs), prompts and the parsing of answers, the reflection
and translation texts, the OHLC refresh (it replaces a cache), the backtest replay, which
is sequential and does not run (above), the portfolio report, HTTP and WebSocket
transport, settings, logging, CLI and frontend, whose operator actions are actions of the
models. Inside the modelled parts: rows written for display only, the warmup (it only
delays openings), the price history, the age-based trims (their suspension is modelled).
Floating-point rounding is out of scope: amounts are exact, scores rounded by a rule of
their own. The selection of another strategy while the bot trades is left out: an idea
carries the name of the strategy that made it, and so do the learner's keys.

The paper account and the risk engine see no database errors: a repository call
commits or the process dies. Only the control state's swallowed errors are modelled
(`PersistMayFail`).

## Plan

Done: 1-10, with the safety and action properties of the runs as theorems. The order is that of what a failure costs: money on paper and on file first, then
orders at the exchange, then what feeds the decisions.

1. `PaperAccounting`, `PaperTrading`, `PositionBook`: the account and its crashes.
2. `ApprovalQueue`, `ApprovalLifecycle`.
3. `TradingLoop`: the stop against everything that suspends; composes 2.
4. `RiskGate`.
5. `StopLossWatch`.
6. Proofs: type correctness and the invariants of 1, 2, 4.
7. `KrakenOrders`: `AddOrder` with retries after lost answers, answers without a txid, the
   ledger and its reconciliation.
8. `LLMSwitching`: probe, fallback, load and unload in worker threads, the breaker's states.
9. `NewsBriefing`: briefed before the task has run, overlapping tasks, restart.
10. `IndicatorVote`, `Learner`, `SignalPipeline`: from a price to a lesson; and the proofs of 3, 7,
    8, 9, of the vote and of the learner.

Left:

11. `ApprovedRisk`: `RiskGate` composed with `ApprovalQueue` and the account's cash and equity:
    stale verdicts, a tick's ideas against one snapshot, equity counted twice.
12. Equity history and the second reader of the account (`main.py:287`); the persistence of
    the market and strategy toggles.

## Running it

    tlc -workers 2 -config paper_account.cfg MCPaperTrading.tla
    tlapm PaperTradingProofs.tla

The module of each configuration is in `PROJECT.json` under `runs` or in the table above. Every
passing run ends within minutes on two workers; the proofs need Z3, Zenon and LS4 only.
