---------------------------- MODULE PaperTrading ----------------------------
(***************************************************************************)
(* The paper account: PaperExecutionEngine (execution/paper.py), the       *)
(* handlers of main.py that drive it, the rows they leave in SQLite, and   *)
(* what a restart makes of those rows.                                     *)
(*                                                                         *)
(* A handler runs on the event loop without suspending, so it is one step  *)
(* for every other coroutine.  For a crash it is not one step: each        *)
(* repository call commits on its own.  A handler is therefore given by    *)
(* its final state and by the set of databases a crash between two of its  *)
(* commits leaves behind; in the crash case the process restarts from one  *)
(* of those.  Commits that change nothing modelled (fills, activity, mark  *)
(* prices) are not counted.                                                *)
(*                                                                         *)
(* The risk engine's verdict, the strategy and the operator are inputs:    *)
(* an idea, a market, a direction and a size.  The UTC day does not change *)
(* here, so the loss of the day only grows.                                *)
(***************************************************************************)
EXTENDS PaperAccounting, Sequences

CONSTANTS
  Markets,          \* trading pairs
  Ideas,            \* opening or closing trade ideas (strategy, confidence, id)
  NoIdea,           \* an order no idea asked for: stop, manual close, reset
  Sizes,            \* order sizes in base units
  Quotes,           \* market prices
  ExchangeCash,     \* cash balances the real exchange account may report
  StartingCapital,  \* settings.starting_capital, in 1/Scale^2 units
  Environment,      \* settings.trading_environment
  AlertWebhook,     \* settings.alert_webhook_url is set
  MaxPositions,     \* bound: positions ever opened
  MaxRestarts       \* bound: process restarts

ASSUME PaperAssumption ==
  /\ NoIdea \notin Ideas
  /\ Sizes \subseteq Nat \ {0}
  /\ Quotes \subseteq Nat \ {0}
  /\ ExchangeCash \subseteq Int
  /\ StartingCapital \in Int
  /\ Environment \in {"paper", "live"}
  /\ AlertWebhook \in BOOLEAN
  /\ MaxPositions \in Nat
  /\ MaxRestarts \in Nat

VARIABLES
  cash,       \* paper_engine.cash
  positions,  \* paper_engine.positions joined with _position_meta
  prices,     \* _current_prices
  dailyLoss,  \* risk_engine.daily_loss
  learned,    \* what the learner was told: closed position, idea, direction
  loopPc,     \* the strategy loop: idle, in its stop pass, or suspended in it
  scan,       \* positions its stop pass has still to look at
  resetting,  \* the operator-reset handler holds the event loop
  db,         \* the SQLite rows
  restarts    \* number of restarts so far

account == <<cash, positions, dailyLoss, learned>>
vars == <<account, prices, loopPc, scan, resetting, db, restarts>>

PosIds == 1..MaxPositions

EmptyBook == [id \in {} |-> {}]

-----------------------------------------------------------------------------
(* The database: one record with a field per table (risk_state and the     *)
(* newest equity_snapshots row hold one number each).                      *)

RowOf(pos) ==
  [market |-> pos.market, size |-> pos.size, avgPrice |-> pos.avgPrice,
   direction |-> pos.direction, idea |-> pos.idea]

WithOrder(d, id, kind, m, direction, idea) ==
  [d EXCEPT !.orders = Append(@, [pos |-> id, kind |-> kind, market |-> m,
                                  direction |-> direction, idea |-> idea,
                                  pnl |-> 0])]

WithRow(d, id, pos) ==
  [d EXCEPT !.rows = [i \in DOMAIN @ \cup {id} |-> IF i = id THEN RowOf(pos) ELSE @[i]]]

\* Slip: the row of a closed position stays.
RowKept(d, id) == d

WithoutRow(d, id) ==
  [d EXCEPT !.rows = [i \in DOMAIN @ \ {id} |-> @[i]]]

WithOutcome(d, id, pos, pnl, reason) ==
  [d EXCEPT !.outcomes = Append(@, [pos |-> id, direction |-> pos.direction,
                                    idea |-> pos.idea, pnl |-> pnl, reason |-> reason])]

\* Slip: the risk state is not persisted.
LossKeptInMemory(d, loss) == d

WithLoss(d, loss) == [d EXCEPT !.loss = loss]

\* Slip: the pnl goes to the oldest order instead.
StampOldest(d, pnl) == [d EXCEPT !.orders[1].pnl = pnl]

\* update_order_pnl, on the order the handler saved last.
WithStamp(d, pnl) == [d EXCEPT !.orders[Len(d.orders)].pnl = pnl]

\* Slip: no snapshot after a trade; the next one waits for the ticker.
CashLeftToTicker(d, amount) == d

WithCash(d, amount) == [d EXCEPT !.cash = amount]

\* Position ids are fresh uuids.  Every opening saves its order first, so the
\* ids ever used are those of the saved orders.
UsedIds == {db.orders[n].pos : n \in DOMAIN db.orders}

\* Slip: the id of a closed position is handed out again.
IsNotOpen(id) ==
  /\ id \in PosIds \ DOMAIN positions
  /\ \A i \in PosIds : i < id => i \in DOMAIN positions

IsFresh(id) ==
  /\ id \in PosIds \ UsedIds
  /\ \A i \in PosIds : i < id => i \in UsedIds

-----------------------------------------------------------------------------
(* Restart: module-level startup code, run on the rows of database d.      *)

Restored(d) ==
  [id \in DOMAIN d.rows |->
     [market |-> d.rows[id].market, size |-> d.rows[id].size,
      avgPrice |-> d.rows[id].avgPrice, direction |-> d.rows[id].direction,
      idea |-> d.rows[id].idea, entryFee |-> 0, best |-> NoMark]]

LearnedFrom(d) ==
  {[pos |-> d.outcomes[n].pos, idea |-> d.outcomes[n].idea,
    direction |-> d.outcomes[n].direction] : n \in DOMAIN d.outcomes}

RestartFrom(d) ==
  /\ restarts < MaxRestarts
  /\ restarts' = restarts + 1
  /\ db' = d
  /\ cash' = d.cash
  /\ positions' = Restored(d)
  /\ dailyLoss' = d.loss
  /\ learned' = LearnedFrom(d)
  /\ prices' = [m \in Markets |-> NoQuote]
  /\ loopPc' = "idle"
  /\ scan' = {}
  /\ resetting' = FALSE

\* The handler reaches its end with these values.
Completes(final, newCash, newPositions, newLoss, newLearned) ==
  /\ db' = final
  /\ cash' = newCash
  /\ positions' = newPositions
  /\ dailyLoss' = newLoss
  /\ learned' = newLearned
  /\ UNCHANGED <<prices, restarts>>

\* The process dies after some of the handler's commits.
CrashesIn(partial) == \E d \in partial : RestartFrom(d)

\* No coroutine holds the event loop.
EventLoopFree == loopPc # "scan" /\ ~resetting

-----------------------------------------------------------------------------
(* The commits of a close, in the two groups every handler makes them in.  *)

\* execute() or close_position(): the closing order, then the open row.
Removal(d, id, pos, direction, idea) ==
  LET ordered == WithOrder(d, id, "close", pos.market, direction, idea)
  IN  [ordered |-> ordered, removed |-> WithoutRow(ordered, id)]

\* record_closed_trade(), _record_trade_result() and update_order_pnl().
Settlement(d, id, pos, pnl, reason) ==
  LET settled == WithOutcome(d, id, pos, pnl, reason)
      counted == WithLoss(settled, dailyLoss + LossOf(pnl))
  IN  [settled |-> settled, counted |-> counted, stamped |-> WithStamp(counted, pnl)]

Without(id) == [i \in DOMAIN positions \ {id} |-> positions[i]]

\* Slip: every lesson is booked as a long's.
LessonOfLong(id, idea, direction) == [pos |-> id, idea |-> idea, direction |-> "long"]

\* What the learner is told of a close.
Lesson(id, idea, direction) == [pos |-> id, idea |-> idea, direction |-> direction]

-----------------------------------------------------------------------------
(* Signals.  route is "auto" in fully_automated mode and "manual_approve"  *)
(* in the approval handler.                                                *)

Routes == {"auto", "manual_approve"}

\* Only the automatic route skips an idea in the direction of an open
\* position; the approval handler leaves that to the engine.
SameDirectionOpen(m, direction) ==
  IF direction = "long" THEN Longs(positions, m) # {} ELSE Shorts(positions, m) # {}

Admitted(route, m, direction, size) ==
  /\ EventLoopFree
  /\ route = "auto" => loopPc = "idle"
  /\ prices[m] # NoQuote
  /\ route = "auto" => ~SameDirectionOpen(m, direction)
  /\ CanFill(positions, cash, m, direction, size, FillPrice(direction, prices[m]))

\* A long, or a short with no long to close, opens a position.
OpenBySignal(route, m, direction, size, idea, id) ==
  LET price   == FillPrice(direction, prices[m])
      pos     == Opened(m, direction, size, price, idea)
      newCash == cash - OpeningCost(direction, size, price)
      ordered == WithOrder(db, id, "open", m, direction, idea)
      stored  == WithRow(ordered, id, pos)
      opened  == [i \in DOMAIN positions \cup {id} |-> IF i = id THEN pos ELSE positions[i]]
  IN  /\ Admitted(route, m, direction, size)
      /\ direction = "short" => Longs(positions, m) = {}
      /\ IsFresh(id)
      /\ \/ /\ Completes(WithCash(stored, newCash), newCash, opened, dailyLoss, learned)
            /\ UNCHANGED <<loopPc, scan, resetting>>
         \/ CrashesIn({ordered, stored})

\* A short closes the oldest long of its market, all of it, whatever its own
\* size is: cash moves by the intent's size, the P&L by the position's.
CloseBySignal(route, m, size, idea, id) ==
  LET price   == FillPrice("short", prices[m])
      pos     == positions[id]
      fee     == Fee(size, price)
      pnl     == RealisedPnl(pos, price, fee)
      newCash == cash + FillValue(size, price) - fee
      rm      == Removal(db, id, pos, "short", idea)
      paid    == WithCash(rm.removed, newCash)
      auto    == Settlement(rm.removed, id, pos, pnl, route)
      manual  == Settlement(paid, id, pos, pnl, route)
      final   == IF route = "auto" THEN WithCash(auto.stamped, newCash) ELSE manual.stamped
      partial == IF route = "auto"
                 THEN {rm.ordered, rm.removed, auto.settled, auto.counted, auto.stamped}
                 ELSE {rm.ordered, rm.removed, paid, manual.settled, manual.counted}
  IN  /\ Admitted(route, m, "short", size)
      /\ IsOldest(id, Longs(positions, m))
      /\ \/ /\ Completes(final, newCash, Without(id), dailyLoss + LossOf(pnl),
                         learned \cup {Lesson(id, idea, "short")})
            /\ UNCHANGED <<loopPc, scan, resetting>>
         \/ CrashesIn(partial)

-----------------------------------------------------------------------------
(* Targeted closes: close_position() on a named position at a fill price.  *)

ClosePnl(pos, price) == RealisedPnl(pos, price, Fee(Abs(pos.size), price))

CloseCash(pos, price) == cash + ClosingCredit(pos, price)

CloseRemoval(id, pos) == Removal(db, id, pos, ExitDirection(pos), NoIdea)

CloseSettlement(id, pos, price, reason) ==
  Settlement(CloseRemoval(id, pos).removed, id, pos, ClosePnl(pos, price), reason)

CloseCompletes(final, id, pos, price) ==
  Completes(final, CloseCash(pos, price), Without(id),
            dailyLoss + LossOf(ClosePnl(pos, price)),
            learned \cup {Lesson(id, pos.idea, pos.direction)})

\* Slip: the outcome is committed before the open row is deleted.
CloseCrashesSettledFirst(id, pos, price, reason) ==
  CrashesIn({WithOutcome(CloseRemoval(id, pos).ordered, id, pos, ClosePnl(pos, price), reason)})

\* A crash in the commits every targeted close makes before its last one.
CloseCrashes(id, pos, price, reason) ==
  LET rm == CloseRemoval(id, pos)
      st == CloseSettlement(id, pos, price, reason)
  IN  CrashesIn({rm.ordered, rm.removed, st.settled, st.counted})

\* POST /api/positions/{id}/close, the only targeted close that saves cash.
ManualClose(id) ==
  LET pos   == positions[id]
      price == ExitAt(pos, prices[pos.market])
      st    == CloseSettlement(id, pos, price, "manual_close")
  IN  /\ EventLoopFree
      /\ id \in DOMAIN positions
      /\ prices[pos.market] # NoQuote
      /\ \/ /\ CloseCompletes(WithCash(st.stamped, CloseCash(pos, price)), id, pos, price)
            /\ UNCHANGED <<loopPc, scan, resetting>>
         \/ CloseCrashes(id, pos, price, "manual_close")
         \/ CrashesIn({st.stamped})

-----------------------------------------------------------------------------
(* Operator reset.  The handler closes the positions one after the other   *)
(* and holds the event loop all the while, but each close commits.         *)

BeginReset ==
  /\ Environment = "paper"
  /\ EventLoopFree
  /\ resetting' = TRUE
  /\ UNCHANGED <<account, prices, loopPc, scan, db, restarts>>

ResetOne(id) ==
  LET pos   == positions[id]
      price == IF prices[pos.market] = NoQuote THEN ExitAtEntry(pos)
                                               ELSE ExitAt(pos, prices[pos.market])
      st    == CloseSettlement(id, pos, price, "operator_reset")
  IN  /\ resetting
      /\ IsOldest(id, DOMAIN positions)
      /\ \/ /\ CloseCompletes(st.stamped, id, pos, price)
            /\ UNCHANGED <<loopPc, scan, resetting>>
         \/ CloseCrashes(id, pos, price, "operator_reset")

EndReset ==
  LET cleared == [db EXCEPT !.rows = EmptyBook]
  IN  /\ resetting
      /\ DOMAIN positions = {}
      /\ \/ /\ Completes(WithCash(cleared, cash), cash, EmptyBook, dailyLoss, learned)
            /\ resetting' = FALSE
            /\ UNCHANGED <<loopPc, scan>>
         \/ CrashesIn({cleared})

-----------------------------------------------------------------------------
(* Prices, equity snapshots and the stop pass of the strategy loop.        *)

\* _cache_market_snapshot: the ticker stream writes one price.
StreamQuote(m, q) ==
  /\ EventLoopFree
  /\ prices' = [prices EXCEPT ![m] = q]
  /\ UNCHANGED <<account, loopPc, scan, resetting, db, restarts>>

\* After the snapshot the loop lists the open positions, on every tenth tick
\* only when a thread has trimmed the old rows.
ToStopPass ==
  \/ loopPc' = "trim" /\ scan' = {}
  \/ loopPc' = "scan" /\ scan' = DOMAIN positions

\* A tick replaces the price table (markets that are disabled or have no
\* ticker drop out), moves the watermarks and snapshots equity and cash.  In
\* live mode the account is read from the exchange first.  The loop goes on
\* with the same table object, so it sees what the stream writes into it.
Tick(quotes) ==
  /\ EventLoopFree
  /\ loopPc = "idle"
  /\ \E m \in Markets : quotes[m] # NoQuote
  /\ prices' = quotes
  /\ positions' = [id \in DOMAIN positions |->
                     Marked(positions[id], quotes[positions[id].market])]
  /\ IF Environment = "paper"
     THEN /\ db' = WithCash(db, cash)
          /\ ToStopPass
     ELSE /\ loopPc' = "account"
          /\ UNCHANGED <<db, scan>>
  /\ UNCHANGED <<cash, dailyLoss, learned, resetting, restarts>>

\* The exchange answered, or did not and the last known balance is used.
LiveBalances == ExchangeCash \cup {StartingCapital}

AccountAnswered(balance) ==
  /\ EventLoopFree
  /\ loopPc = "account"
  /\ db' = WithCash(db, balance)
  /\ ToStopPass
  /\ UNCHANGED <<account, prices, resetting, restarts>>

\* The thread that trimmed old rows is back.
TrimDone ==
  /\ EventLoopFree
  /\ loopPc = "trim"
  /\ loopPc' = "scan"
  /\ scan' = DOMAIN positions
  /\ UNCHANGED <<account, prices, resetting, db, restarts>>

\* _equity_ticker_loop, every ten seconds.
EquityTick(balance) ==
  /\ EventLoopFree
  /\ \E m \in Markets : prices[m] # NoQuote
  /\ db' = WithCash(db, IF Environment = "paper" THEN cash ELSE balance)
  /\ UNCHANGED <<account, prices, loopPc, scan, resetting, restarts>>

Triggered(id) ==
  id \in DOMAIN positions /\ StopHit(positions[id], prices[positions[id].market])

\* The stop pass closes the first remaining position that is past a stop; the
\* price table is the one the ticker stream writes to.  With a webhook
\* configured the loop suspends in the alert, otherwise it goes on.
StopClose(id) ==
  LET pos    == positions[id]
      quote  == prices[pos.market]
      price  == ExitAt(pos, quote)
      reason == StopReason(pos, quote)
      st     == CloseSettlement(id, pos, price, reason)
  IN  /\ loopPc = "scan"
      /\ ~resetting
      /\ id \in scan
      /\ Triggered(id)
      /\ \A passed \in scan : passed < id => ~Triggered(passed)
      /\ \/ /\ CloseCompletes(st.stamped, id, pos, price)
            /\ loopPc' = IF AlertWebhook THEN "alert" ELSE "scan"
            /\ scan' = {later \in scan : later > id}
            /\ UNCHANGED resetting
         \/ CloseCrashes(id, pos, price, reason)

AlertSent ==
  /\ EventLoopFree
  /\ loopPc = "alert"
  /\ loopPc' = "scan"
  /\ UNCHANGED <<account, prices, scan, resetting, db, restarts>>

EndScan ==
  /\ loopPc = "scan"
  /\ ~\E id \in scan : Triggered(id)
  /\ loopPc' = "idle"
  /\ scan' = {}
  /\ UNCHANGED <<account, prices, resetting, db, restarts>>

-----------------------------------------------------------------------------

Init ==
  /\ cash = StartingCapital
  /\ positions = EmptyBook
  /\ prices = [m \in Markets |-> NoQuote]
  /\ dailyLoss = 0
  /\ learned = {}
  /\ loopPc = "idle"
  /\ scan = {}
  /\ resetting = FALSE
  \* A database without snapshots leaves the starting capital in place.
  /\ db = [rows |-> EmptyBook, orders |-> <<>>, outcomes |-> <<>>,
           cash |-> StartingCapital, loss |-> 0]
  /\ restarts = 0

Signal ==
  \E route \in Routes, m \in Markets, size \in Sizes, idea \in Ideas, id \in PosIds :
    \/ \E direction \in Directions : OpenBySignal(route, m, direction, size, idea, id)
    \/ CloseBySignal(route, m, size, idea, id)

OperatorReset ==
  \/ BeginReset
  \/ \E id \in PosIds : ResetOne(id)
  \/ EndReset

StrategyTick ==
  \/ \E quotes \in [Markets -> Quotes \cup {NoQuote}] : Tick(quotes)
  \/ \E balance \in LiveBalances : AccountAnswered(balance)
  \/ TrimDone
  \/ \E id \in PosIds : StopClose(id)
  \/ AlertSent
  \/ EndScan

\* The process is killed between two handlers and started again.
Restart == RestartFrom(db)

Next ==
  \/ Signal
  \/ \E id \in PosIds : ManualClose(id)
  \/ OperatorReset
  \/ StrategyTick
  \/ \E m \in Markets, q \in Quotes : StreamQuote(m, q)
  \/ \E balance \in LiveBalances : EquityTick(balance)
  \/ Restart

Spec == Init /\ [][Next]_vars

-----------------------------------------------------------------------------
(* Types.                                                                  *)

Row ==
  [market : Markets, size : Int, avgPrice : Int, direction : Directions, idea : Ideas]

Position ==
  [market : Markets, size : Int, avgPrice : Int, direction : Directions,
   idea : Ideas, entryFee : Int, best : Int]

Order ==
  [pos : PosIds, kind : {"open", "close"}, market : Markets,
   direction : Directions, idea : Ideas \cup {NoIdea}, pnl : Int]

Reasons == Routes \cup {"stop_loss", "trailing_stop", "manual_close", "operator_reset"}

Outcome ==
  [pos : PosIds, direction : Directions, idea : Ideas, pnl : Int, reason : Reasons]

\* Databases with open rows for the positions ids.
DatabasesOver(ids) ==
  [rows : [ids -> Row], orders : Seq(Order), outcomes : Seq(Outcome),
   cash : Int, loss : Int]

TypeOK ==
  /\ cash \in Int
  /\ \E ids \in SUBSET PosIds : positions \in [ids -> Position]
  /\ prices \in [Markets -> Quotes \cup {NoQuote}]
  /\ dailyLoss \in Int
  /\ learned \subseteq [pos : PosIds, idea : Ideas, direction : Directions]
  /\ loopPc \in {"idle", "account", "trim", "scan", "alert"}
  /\ scan \subseteq PosIds
  /\ resetting \in BOOLEAN
  /\ \E ids \in SUBSET PosIds : db \in DatabasesOver(ids)
  /\ restarts \in 0..MaxRestarts

-----------------------------------------------------------------------------
(* Safety.                                                                 *)

\* paper.py:367 and 377: at most one long and one short are open per market,
\* over both routes, crashes and restarts.
OnePositionPerDirection ==
  \A i, j \in DOMAIN positions :
    /\ positions[i].market = positions[j].market
    /\ positions[i].direction = positions[j].direction
    => i = j

\* The sign of a position and its recorded direction agree; the stop rules
\* and FIFO go by the sign, the P&L and the learner by the direction.
SignMatchesDirection ==
  \A id \in DOMAIN positions :
    /\ positions[id].direction = "long" => positions[id].size > 0
    /\ positions[id].direction = "short" => positions[id].size < 0

\* paper.py:7: outside a handler the open_positions table says exactly what
\* the engine holds, so a restart there finds every position it left.
RowsMatchBook ==
  db.rows = [id \in DOMAIN positions |-> RowOf(positions[id])]

\* A closed position has at most one signal_outcome, an open one has none,
\* whatever crash interrupted its close.
SettledAtMostOnce ==
  /\ \A n \in DOMAIN db.outcomes : db.outcomes[n].pos \notin DOMAIN db.rows
  /\ \A n, k \in DOMAIN db.outcomes : db.outcomes[n].pos = db.outcomes[k].pos => n = k

\* A pnl on a closing order is the pnl of the outcome of that position: the
\* ledger and the closed-trades table never tell two results.
LedgerMatchesOutcomes ==
  \A k \in DOMAIN db.orders : db.orders[k].pnl # 0 =>
    /\ db.orders[k].kind = "close"
    /\ \E n \in DOMAIN db.outcomes :
         /\ db.outcomes[n].pos = db.orders[k].pos
         /\ db.outcomes[n].pnl = db.orders[k].pnl

\* main.py:231: the loss of the day on file is the sum of the recorded losses,
\* except that a crash may cost the loss of the one trade it interrupts.
CrashForgetsOneLossAtMost ==
  \E forgotten \in SUBSET DOMAIN db.outcomes :
    /\ Cardinality(forgotten) <= restarts
    /\ dailyLoss = SumFunctionOnSet(
                      [n \in DOMAIN db.outcomes |-> LossOf(db.outcomes[n].pnl)],
                      DOMAIN db.outcomes \ forgotten)

\* main.py:212: the learner was told of every outcome on file and of no other,
\* and books it as on file unless a signal closed the position.
LearnerFollowsOutcomes ==
  /\ {lesson.pos : lesson \in learned} = {db.outcomes[n].pos : n \in DOMAIN db.outcomes}
  /\ \A lesson \in learned \ LearnedFrom(db) : \E n \in DOMAIN db.outcomes :
       db.outcomes[n].pos = lesson.pos /\ db.outcomes[n].reason \in Routes

\* In a paper environment the newest snapshot lacks the result of stop-outs
\* at most: any other close or opening has saved its cash when it returns.
CashLagsOnlyBehindStops ==
  (db.cash # cash /\ ~resetting) =>
    \E n \in DOMAIN db.outcomes : db.outcomes[n].reason \in {"stop_loss", "trailing_stop"}

\* Cash, plus what the open positions have tied up, less the recorded P&L:
\* a number no trade may change.
Tied(pos) ==
  pos.entryFee + IF pos.size > 0 THEN FillValue(pos.size, pos.avgPrice) ELSE 0

Books ==
  cash + SumFunction([id \in DOMAIN positions |-> Tied(positions[id])])
       - SumFunction([n \in DOMAIN db.outcomes |-> db.outcomes[n].pnl])

\* A long of which a short signal of another size sells that other size: what
\* the sale brings in beyond the long (or short of it).
SoldBeyond(id) ==
  {FillValue(size - positions[id].size, FillPrice("short", prices[positions[id].market])) :
     size \in Sizes \ {positions[id].size}}

\* tests/test_paper_execution_bdd.py:205: realised P&L matches the account's
\* cash delta, for every handler that is not interrupted and every order size,
\* with one exception: a short signal closes a long of another size.  Then the
\* books are off by the difference of the two sizes at the exit price, and by
\* nothing else (paper.py:424 and 428).
PnlMatchesCash ==
  [][ restarts' = restarts =>
        \/ Books' = Books
        \/ \E id \in DOMAIN positions \ DOMAIN positions' :
             /\ positions[id].size > 0
             /\ db'.outcomes[Len(db'.outcomes)].reason \in Routes
             /\ Books' - Books \in SoldBeyond(id) ]_vars

\* Only closing a short can take cash below zero; a buy, a sale and a fee are
\* always funded.
OnlyShortClosesOverdraw ==
  [][ (restarts' = restarts /\ cash >= 0 /\ cash' < 0) =>
        \E id \in DOMAIN positions \ DOMAIN positions' : positions[id].size < 0 ]_vars

-----------------------------------------------------------------------------
(* Refinement: the rows and orders in the database implement PositionBook. *)

HasOutcome(id) == \E n \in DOMAIN db.outcomes : db.outcomes[n].pos = id

StageOf(id) ==
  CASE id \in DOMAIN db.rows -> "open"
    [] id \notin DOMAIN db.rows /\ HasOutcome(id) -> "settled"
    [] id \notin DOMAIN db.rows /\ ~HasOutcome(id) /\ id \in UsedIds -> "closed"
    [] OTHER -> "unused"

SlotOf(id) ==
  IF id \in DOMAIN db.rows THEN <<db.rows[id].market, db.rows[id].direction>> ELSE <<>>

PB == INSTANCE PositionBook WITH
        Positions <- PosIds,
        Slots <- Markets \X Directions,
        NoSlot <- <<>>,
        stage <- [id \in PosIds |-> StageOf(id)],
        slot <- [id \in PosIds |-> SlotOf(id)]

\* The paper account implements PositionBook.
ImplementsPositionBook == PB!Spec

-----------------------------------------------------------------------------
(* Statements of the repository that the code does not keep.               *)

\* docs/03-background-loops.md:298: no data is lost in a restart, here for a
\* restart that interrupts nothing, no operator reset either: the snapshot
\* table holds the cash.
CashSurvivesCleanRestart ==
  [][(restarts' # restarts /\ db' = db /\ ~resetting) => cash' = cash]_vars

\* Size by price difference, no fee taken off.
GrossPnl(pos, price) == pos.size * (price - pos.avgPrice) * Scale

\* docs/05-execution-engine.md:327: the recorded result is "the gross P&L
\* before fees", here of a manual close and at the market price or at the fill.
RecordedPnlIsGross ==
  [][ \A id \in DOMAIN positions \ DOMAIN positions' :
        LET pos    == positions[id]
            quote  == prices[pos.market]
            latest == db'.outcomes[Len(db'.outcomes)]
        IN  (restarts' = restarts /\ latest.reason = "manual_close") =>
              latest.pnl \in {GrossPnl(pos, quote * Scale), GrossPnl(pos, ExitAt(pos, quote))} ]_vars
==============================================================================
