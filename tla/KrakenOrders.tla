---------------------------- MODULE KrakenOrders ----------------------------
(***************************************************************************)
(* Live orders: KrakenExecutionEngine (execution/kraken.py), the retries   *)
(* of its calls (kraken_retry.py), the order ledger, and the strategy loop *)
(* that sends orders and reconciles the ledger with the exchange.          *)
(*                                                                         *)
(* The SDK calls run in worker threads: each one suspends the loop or the  *)
(* approval handler that makes it.  The exchange may accept an order whose *)
(* answer is lost, and an answer is an order with or without a txid, a     *)
(* response that carries errors, or an exception.  Orders are kept in the  *)
(* table in one commit, so that a crash in a call is one before that       *)
(* commit.                                                                 *)
(*                                                                         *)
(* Strategy, risk engine and operator are inputs.  Their one-position rule *)
(* looks at the paper engine's positions, which no live order changes; in  *)
(* an account without paper positions it passes every idea.  All markets   *)
(* here are live ones.                                                     *)
(***************************************************************************)
EXTENDS Integers, Sequences, FiniteSets

CONSTANTS
  Markets,
  Sides,         \* buy and sell orders
  Finals,        \* statuses an order does not leave
  Environments,  \* values of settings.trading_environment
  MaxAttempts,   \* tries of a call, max_attempts in the code
  MaxRequests,   \* bound: orders the bot asks for
  MaxOrders,     \* bound: orders the exchange accepts
  MaxRestarts    \* bound: process restarts

ASSUME OrdersAssumption ==
  /\ Sides \subseteq {"buy", "sell"}
  /\ Finals \subseteq {"filled", "canceled", "expired"}
  /\ Environments \subseteq {"paper", "live"}
  /\ MaxAttempts \in Nat \ {0}
  /\ MaxRequests \in Nat /\ MaxOrders \in Nat /\ MaxRestarts \in Nat

VARIABLES
  settings,    \* the environment, and whether there are API credentials
  stop,        \* control.emergency_stop
  loopPc,      \* the loop: idle, querying, acting or sending
  even,        \* the tick has an even number
  asked,       \* requests whose orders it queries
  calls,       \* by request: the AddOrder call made for it
  exchange,    \* accepted orders by txid
  rows,        \* order_records, by request
  rejected,    \* rejected_trades
  restarts

loopVars == <<loopPc, even, asked>>
tables == <<rows, rejected>>
vars == <<settings, stop, loopVars, calls, exchange, tables, restarts>>

Requests == 1..MaxRequests

\* An order on file with the empty string for its txid.
NoTx == 0

Settings == [environment : Environments, credentials : BOOLEAN]

IsUnderWay(r) == calls[r].pc \in {"calling", "accepted", "backoff"}

-----------------------------------------------------------------------------
(* The end of execute().                                                   *)

\* The handler goes on; the loop was suspended in this call if it is its own.
Returns(r, pc) ==
  /\ calls' = [calls EXCEPT ![r].pc = pc]
  /\ loopPc' = IF calls[r].by = "loop" THEN "acting" ELSE loopPc
  /\ UNCHANGED <<settings, stop, even, asked, exchange, restarts>>

Saves(r, txid) ==
  /\ rows' = [q \in DOMAIN rows \cup {r} |->
                IF q = r THEN [txid |-> txid, status |-> "pending"] ELSE rows[q]]
  /\ UNCHANGED rejected
  /\ Returns(r, "done")

Rejects(r) ==
  /\ rejected' = rejected \cup {r}
  /\ UNCHANGED rows
  /\ Returns(r, "done")

-----------------------------------------------------------------------------
(* One call of AddOrder and its retries.                                   *)

\* Slip: one retry too many.
MayRetryOnceMore(r, transient) == transient /\ calls[r].attempt <= MaxAttempts

MayRetry(r, transient) == transient /\ calls[r].attempt < MaxAttempts

BacksOff(r) ==
  /\ calls' = [calls EXCEPT ![r].pc = "backoff", ![r].txid = NoTx]
  /\ UNCHANGED <<settings, stop, loopVars, exchange, tables, restarts>>

\* The loop sends an order for an idea, an approval handler for a request.
\* Without credentials the order is rejected on the spot.
Sends(by, m, side, r) ==
  /\ r \in Requests \ DOMAIN calls
  /\ \A q \in Requests : q < r => q \in DOMAIN calls
  /\ LET call == [by |-> by, market |-> m, side |-> side, attempt |-> 1, txid |-> NoTx,
                  pc |-> IF settings.credentials THEN "calling" ELSE "done"]
     IN  calls' = [q \in DOMAIN calls \cup {r} |-> IF q = r THEN call ELSE calls[q]]
  /\ rejected' = IF settings.credentials THEN rejected ELSE rejected \cup {r}
  /\ loopPc' = IF by = "loop" /\ settings.credentials THEN "sending" ELSE loopPc
  /\ UNCHANGED <<settings, stop, even, asked, exchange, rows, restarts>>

SendFromLoop(m, side, r) ==
  /\ loopPc = "acting"
  /\ Sends("loop", m, side, r)

SendApproved(m, side, r) ==
  /\ loopPc # "acting"
  /\ Sends("approval", m, side, r)

Accept(r) ==
  /\ calls[r].pc = "calling"
  /\ Len(exchange) < MaxOrders
  /\ exchange' = Append(exchange, [request |-> r, status |-> "open"])
  /\ calls' = [calls EXCEPT ![r].pc = "accepted", ![r].txid = Len(exchange) + 1]
  /\ UNCHANGED <<settings, stop, loopVars, tables, restarts>>

\* The call raises, also when only the answer was lost: a rate limit or an
\* unavailable service is transient, anything else is not.
CallRaises(r, transient) ==
  /\ calls[r].pc \in {"calling", "accepted"}
  /\ IF MayRetry(r, transient) THEN BacksOff(r) ELSE Rejects(r)

\* The call returns a response with errors in it.  The last one is returned
\* like any other, and its order saved as pending.
CallReturnsErrors(r, transient) ==
  /\ calls[r].pc = "calling"
  /\ IF MayRetry(r, transient) THEN BacksOff(r) ELSE Saves(r, NoTx)

CallReturnsOrder(r, txid) ==
  /\ calls[r].pc = "accepted"
  /\ txid \in {calls[r].txid, NoTx}
  /\ Saves(r, txid)

BackoffEnds(r) ==
  /\ calls[r].pc = "backoff"
  /\ calls' = [calls EXCEPT ![r].pc = "calling", ![r].attempt = @ + 1]
  /\ UNCHANGED <<settings, stop, loopVars, exchange, tables, restarts>>

\* The exchange fills an order or gives it up.
OrderEnds(n, status) ==
  /\ exchange[n].status = "open"
  /\ exchange' = [exchange EXCEPT ![n].status = status]
  /\ UNCHANGED <<settings, stop, loopVars, calls, tables, restarts>>

-----------------------------------------------------------------------------
(* The strategy loop and reconcile_pending_orders().                       *)

\* Slip: only the newest order is asked about.
PendingNewest ==
  {r \in DOMAIN rows : /\ rows[r].status = "pending"
                       /\ \A q \in DOMAIN rows : rows[q].status = "pending" => q <= r}

\* get_pending_live_orders: an empty txid is not a missing one.
Pending == {r \in DOMAIN rows : rows[r].status = "pending"}

\* Every second tick of a live environment queries the pending orders.
Reconciles ==
  /\ ~even
  /\ settings.environment = "live" /\ settings.credentials
  /\ Pending # {}

TickQueries ==
  /\ loopPc = "idle" /\ ~stop
  /\ Reconciles
  /\ loopPc' = "querying"
  /\ even' = ~even
  /\ asked' = Pending
  /\ UNCHANGED <<settings, stop, calls, exchange, tables, restarts>>

TickActs ==
  /\ loopPc = "idle" /\ ~stop
  /\ ~Reconciles
  /\ loopPc' = "acting"
  /\ even' = ~even
  /\ UNCHANGED <<settings, stop, asked, calls, exchange, tables, restarts>>

\* A tick that is part of the warmup, or fails before it reconciles.
TickFails ==
  /\ loopPc = "idle" /\ ~stop
  /\ even' = ~even
  /\ UNCHANGED <<settings, stop, loopPc, asked, calls, exchange, tables, restarts>>

TickEnds ==
  /\ loopPc = "acting"
  /\ loopPc' = "idle"
  /\ UNCHANGED <<settings, stop, even, asked, calls, exchange, tables, restarts>>

\* Slips: an order the answer leaves out is taken for canceled; a canceled
\* order leaves the ledger.
UpdatedUnlisted(seen) ==
  [r \in DOMAIN rows |->
     IF r \in seen THEN [rows[r] EXCEPT !.status = exchange[rows[r].txid].status]
     ELSE IF r \in asked THEN [rows[r] EXCEPT !.status = "canceled"] ELSE rows[r]]
UpdatedOrDropped(seen) ==
  [r \in {q \in DOMAIN rows : q \in seen => exchange[rows[q].txid].status # "canceled"} |->
     IF r \in seen THEN [rows[r] EXCEPT !.status = exchange[rows[r].txid].status]
     ELSE rows[r]]

\* update_order_status_and_fill for each of seen.
Updated(seen) ==
  [r \in DOMAIN rows |->
     IF r \in seen THEN [rows[r] EXCEPT !.status = exchange[rows[r].txid].status]
     ELSE rows[r]]

\* Orders an answer can tell of: it names txids.
Ended ==
  {r \in asked : rows[r].txid # NoTx /\ exchange[rows[r].txid].status \in Finals}

\* The query and its retries end in an answer about some of the orders, or in
\* an error, which tells of none.
QueryAnswered(seen) ==
  /\ loopPc = "querying"
  /\ seen \subseteq Ended
  /\ rows' = Updated(seen)
  /\ loopPc' = "acting"
  /\ asked' = {}
  /\ UNCHANGED <<settings, stop, even, calls, exchange, rejected, restarts>>

-----------------------------------------------------------------------------
(* The operator and the process.                                           *)

StopOrResume ==
  /\ loopPc # "acting"
  /\ stop' = ~stop
  /\ UNCHANGED <<settings, loopVars, calls, exchange, tables, restarts>>

\* Calls under way are forgotten, not so the orders they led to.
RestartWith(table) ==
  /\ restarts < MaxRestarts
  /\ restarts' = restarts + 1
  /\ settings' \in Settings
  /\ loopPc' = "idle" /\ even' = TRUE /\ asked' = {}
  /\ calls' = [r \in DOMAIN calls |->
                 IF IsUnderWay(r) THEN [calls[r] EXCEPT !.pc = "cut"] ELSE calls[r]]
  /\ rows' = table
  /\ UNCHANGED <<stop, exchange, rejected>>

Restart == RestartWith(rows)

\* A crash between the updates of a reconciliation, one commit each.
ReconcileInterrupted(seen) ==
  /\ loopPc = "querying"
  /\ seen \subseteq Ended
  /\ RestartWith(Updated(seen))

-----------------------------------------------------------------------------

Init ==
  /\ settings \in Settings
  /\ stop = FALSE
  /\ loopPc = "idle" /\ even = TRUE /\ asked = {}
  /\ calls = [r \in {} |-> {}]
  /\ exchange = <<>>
  /\ rows = [r \in {} |-> {}] /\ rejected = {}
  /\ restarts = 0

CallEnds(r) ==
  \/ \E transient \in BOOLEAN : CallRaises(r, transient) \/ CallReturnsErrors(r, transient)
  \/ \E txid \in 0..Len(exchange) : CallReturnsOrder(r, txid)

Next ==
  \/ \E r \in Requests, m \in Markets, side \in Sides :
       SendFromLoop(m, side, r) \/ SendApproved(m, side, r)
  \/ \E r \in DOMAIN calls : Accept(r) \/ CallEnds(r) \/ BackoffEnds(r)
  \/ \E n \in DOMAIN exchange, status \in Finals : OrderEnds(n, status)
  \/ TickQueries
  \/ TickActs
  \/ TickFails
  \/ TickEnds
  \/ \E seen \in SUBSET Requests : QueryAnswered(seen) \/ ReconcileInterrupted(seen)
  \/ StopOrResume
  \/ Restart

Spec == Init /\ [][Next]_vars

\* One query names the txids of all orders asked about.
AnswersAbout(r) ==
  /\ \A q \in asked : rows[q].txid # NoTx
  /\ \E seen \in SUBSET Requests : r \in seen /\ QueryAnswered(seen)

\* Calls return and the loop goes on; not every tick is skipped.  A query that
\* names an empty txid may be refused every time; of the others not every one
\* fails and no order is left out of every answer.
Fairness ==
  /\ WF_vars(TickActs) /\ WF_vars(TickEnds) /\ SF_vars(TickQueries)
  /\ WF_vars(\E seen \in SUBSET Requests : QueryAnswered(seen))
  /\ \A r \in Requests :
       /\ SF_vars(AnswersAbout(r))
       /\ WF_vars(r \in DOMAIN calls /\ (CallEnds(r) \/ BackoffEnds(r)))

FairSpec == Spec /\ Fairness

-----------------------------------------------------------------------------

OrdersOf(r) == {n \in DOMAIN exchange : exchange[n].request = r}

OrdersTypeOK ==
  /\ settings \in Settings /\ stop \in BOOLEAN
  /\ loopPc \in {"idle", "querying", "acting", "sending"} /\ even \in BOOLEAN
  /\ asked \subseteq DOMAIN rows
  /\ DOMAIN calls \subseteq Requests
  /\ \A r \in DOMAIN calls :
       calls[r] \in [by : {"loop", "approval"}, market : Markets, side : Sides,
                     attempt : 1..MaxAttempts, txid : 0..MaxOrders,
                     pc : {"calling", "accepted", "backoff", "done", "cut"}]
  /\ exchange \in Seq([request : Requests, status : Finals \cup {"open"}])
  /\ \A r \in DOMAIN rows :
       rows[r] \in [txid : 0..MaxOrders, status : Finals \cup {"pending"}]
  /\ rejected \subseteq DOMAIN calls
  /\ restarts \in 0..MaxRestarts

\* kraken.py:172: an order on file never has a result the exchange has not
\* given that very order, whatever answers leave out and crashes interrupt;
\* one without a txid never has any.
LedgerTellsExchange ==
  \A r \in DOMAIN rows :
    LET row == rows[r]
    IN  /\ row.txid # NoTx => exchange[row.txid].request = r
        /\ row.status # "pending" =>
             row.txid # NoTx /\ exchange[row.txid].status = row.status

\* kraken_retry.py:44: however answers are lost, the exchange holds at most as
\* many orders for one request as it was tried, and it is tried MaxAttempts
\* times at most, through crashes and restarts.
DuplicatesComeFromRetries ==
  \A r \in DOMAIN calls :
    /\ Cardinality(OrdersOf(r)) <= calls[r].attempt
    /\ calls[r].attempt <= MaxAttempts

\* repository.py:396: an order stays on file and keeps its result.
ResultsAreFinal ==
  [][ \A r \in DOMAIN rows :
        /\ r \in DOMAIN rows'
        /\ rows[r].status # "pending" => rows'[r] = rows[r] ]_vars

\* main.py:525: an order whose txid is on file does not stay pending for ever
\* once it has ended, whatever the other orders, failed queries and restarts
\* do, unless the bot stays stopped or may not ask, or an order without a txid
\* is in the query with it (kraken.py:184).
EndsAreSeen ==
  \A r \in Requests :
    ~<>[]( /\ r \in DOMAIN rows /\ rows[r].status = "pending" /\ rows[r].txid # NoTx
           /\ exchange[rows[r].txid].status \in Finals
           /\ \A q \in Pending : rows[q].txid # NoTx
           /\ ~stop /\ settings.environment = "live" /\ settings.credentials )

-----------------------------------------------------------------------------
(* A statement of the repository that the code does not keep.              *)

\* main.py:524: pending orders are reconciled "so fills are visible promptly",
\* here: a filled order does not stay pending for ever, unless the bot stays
\* stopped or may not ask.
FillsBecomeVisible ==
  \A r \in Requests :
    ~<>[]( /\ r \in DOMAIN rows /\ rows[r].status = "pending"
           /\ \E n \in OrdersOf(r) : exchange[n].status = "filled"
           /\ ~stop /\ settings.environment = "live" /\ settings.credentials )
==============================================================================
