-------------------------- MODULE KrakenOrdersProofs --------------------------
(***************************************************************************)
(* The order ledger against the exchange, for any number of markets,       *)
(* requests, orders, tries and restarts.                                   *)
(*                                                                         *)
(* What the ledger says of an order holds because a row gets its txid from *)
(* its own call, once, when the call is done; that an order is not         *)
(* multiplied beyond its tries holds because a call that may still be      *)
(* accepted has an order less than tries.                                  *)
(***************************************************************************)
EXTENDS KrakenOrders, FiniteSetTheorems, TLAPS

CallRecord ==
  [by : {"loop", "approval"}, market : Markets, side : Sides,
   attempt : 1..MaxAttempts, txid : 0..MaxOrders,
   pc : {"calling", "accepted", "backoff", "done", "cut"}]

OrderRecord == [request : Requests, status : Finals \cup {"open"}]

ScalarsOK ==
  /\ settings \in Settings /\ stop \in BOOLEAN
  /\ loopPc \in {"idle", "querying", "acting", "sending"} /\ even \in BOOLEAN
  /\ restarts \in 0..MaxRestarts

CallsOK ==
  /\ DOMAIN calls \subseteq Requests
  /\ \A r \in DOMAIN calls : calls[r] \in CallRecord
  /\ rejected \subseteq DOMAIN calls

ExchangeOK ==
  /\ exchange \in Seq(OrderRecord)
  /\ Len(exchange) <= MaxOrders
  /\ \A n \in 1..Len(exchange) : exchange[n].request \in DOMAIN calls

\* A call knows only its own order.
TxidsOK ==
  \A r \in DOMAIN calls :
    /\ calls[r].txid \in 0..Len(exchange)
    /\ calls[r].txid # NoTx => exchange[calls[r].txid].request = r

\* Rows belong to calls that are over.
RowsOK ==
  /\ asked \subseteq DOMAIN rows
  /\ \A r \in DOMAIN rows :
       /\ r \in DOMAIN calls /\ calls[r].pc = "done"
       /\ rows[r] \in [txid : 0..MaxOrders, status : Finals \cup {"pending"}]
       /\ rows[r].txid \in 0..Len(exchange)
       /\ rows[r].txid # NoTx => exchange[rows[r].txid].request = r
       /\ rows[r].status # "pending" =>
            rows[r].txid # NoTx /\ exchange[rows[r].txid].status = rows[r].status

\* A call that may still be accepted has an order less than tries.
TriesOK ==
  \A r \in DOMAIN calls :
    /\ Cardinality(OrdersOf(r)) \in Nat
    /\ Cardinality(OrdersOf(r)) <= calls[r].attempt
    /\ calls[r].pc = "calling" => Cardinality(OrdersOf(r)) < calls[r].attempt
    /\ calls[r].pc = "backoff" => calls[r].attempt < MaxAttempts

OrdersInv == ScalarsOK /\ CallsOK /\ ExchangeOK /\ TxidsOK /\ RowsOK /\ TriesOK

-----------------------------------------------------------------------------

LEMMA NothingPendingIsFinal == "pending" \notin Finals /\ "open" \notin Finals
BY OrdersAssumption

LEMMA OrdersFinite ==
  ASSUME ExchangeOK, NEW r
  PROVE  IsFiniteSet(OrdersOf(r)) /\ Cardinality(OrdersOf(r)) \in Nat
<1>1. Len(exchange) \in Nat /\ DOMAIN exchange = 1..Len(exchange)
  BY DEF ExchangeOK
<1>2. IsFiniteSet(1..Len(exchange))
  BY <1>1, FS_Interval
<1>3. OrdersOf(r) \subseteq 1..Len(exchange)
  BY <1>1 DEF OrdersOf
<1> QED BY <1>2, <1>3, FS_Subset, FS_CardinalityType

LEMMA InitHolds == Init => OrdersInv
<1> SUFFICES ASSUME Init PROVE OrdersInv
  OBVIOUS
<1>1. DOMAIN calls = {} /\ DOMAIN rows = {} /\ rejected = {} /\ asked = {}
  BY DEF Init
<1>2. exchange \in Seq(OrderRecord) /\ Len(exchange) = 0
  BY DEF Init
<1>3. ScalarsOK
  <2>1. restarts \in 0..MaxRestarts
    BY OrdersAssumption DEF Init
  <2> QED BY <2>1, Zenon DEF Init, ScalarsOK
<1>4. ExchangeOK
  <2>1. 1..Len(exchange) = {} /\ 0 <= MaxOrders
    BY <1>2, OrdersAssumption
  <2> QED BY <1>2, <2>1 DEF ExchangeOK
<1>5. CallsOK /\ TxidsOK /\ RowsOK /\ TriesOK
  BY <1>1 DEF CallsOK, TxidsOK, RowsOK, TriesOK
<1> QED BY <1>3, <1>4, <1>5 DEF OrdersInv

\* A call that moves on, or is cut, without a new order on the exchange.
LEMMA CallMoves ==
  ASSUME OrdersInv, UNCHANGED exchange,
         NEW moved \in SUBSET DOMAIN calls,
         DOMAIN calls' = DOMAIN calls,
         \A q \in DOMAIN calls \ moved : calls'[q] = calls[q],
         \A q \in moved :
           /\ calls[q].pc # "done"
           /\ calls'[q] \in CallRecord
           /\ calls'[q].txid \in {calls[q].txid, NoTx}
           /\ \/ calls'[q].pc \in {"done", "cut"} /\ calls'[q].attempt = calls[q].attempt
              \/ /\ calls'[q].pc = "backoff" /\ calls'[q].attempt = calls[q].attempt
                 /\ calls[q].attempt < MaxAttempts
              \/ /\ calls'[q].pc = "calling" /\ calls'[q].attempt = calls[q].attempt + 1
                 /\ calls[q].pc = "backoff",
         rejected' \subseteq DOMAIN calls
  PROVE  CallsOK' /\ ExchangeOK' /\ TxidsOK' /\ TriesOK'
<1>1. CallsOK'
  BY DEF OrdersInv, CallsOK
<1>2. ExchangeOK'
  BY DEF OrdersInv, ExchangeOK
<1>3. TxidsOK'
  <2> SUFFICES ASSUME NEW q \in DOMAIN calls
               PROVE  /\ calls'[q].txid \in 0..Len(exchange)
                      /\ calls'[q].txid # NoTx => exchange[calls'[q].txid].request = q
    BY DEF TxidsOK
  <2>1. calls'[q].txid \in {calls[q].txid, NoTx}
    OBVIOUS
  <2>2. Len(exchange) \in Nat
    BY DEF OrdersInv, ExchangeOK
  <2> QED BY <2>1, <2>2 DEF OrdersInv, TxidsOK, NoTx
<1>4. TriesOK'
  <2>1. ASSUME NEW q \in DOMAIN calls, NEW placed \in Nat,
               placed = Cardinality(OrdersOf(q))
        PROVE  /\ placed <= calls'[q].attempt
               /\ calls'[q].pc = "calling" => placed < calls'[q].attempt
               /\ calls'[q].pc = "backoff" => calls'[q].attempt < MaxAttempts
    <3>1. /\ placed <= calls[q].attempt
          /\ calls[q].pc = "calling" => placed < calls[q].attempt
          /\ calls[q].pc = "backoff" => calls[q].attempt < MaxAttempts
      BY <2>1 DEF OrdersInv, TriesOK
    <3>2. calls[q].attempt \in Nat
      BY DEF OrdersInv, CallsOK, CallRecord
    <3>3. CASE q \in moved
      BY <3>1, <3>2, <3>3
    <3>4. CASE q \notin moved
      BY <3>1, <3>2, <3>4
    <3> QED BY <3>3, <3>4
  <2>2. \A q \in DOMAIN calls : Cardinality(OrdersOf(q)) \in Nat
    BY OrdersFinite DEF OrdersInv
  <2>3. \A q : OrdersOf(q)' = OrdersOf(q)
    BY DEF OrdersOf
  <2> QED BY <2>1, <2>2, <2>3 DEF TriesOK
<1> QED BY <1>1, <1>2, <1>3, <1>4

\* Rows do not notice what becomes of calls that are under way.
LEMMA RowsStay ==
  ASSUME OrdersInv, UNCHANGED <<rows, exchange>>, asked' \subseteq DOMAIN rows,
         DOMAIN calls \subseteq DOMAIN calls',
         \A q \in DOMAIN calls : calls[q].pc = "done" => calls'[q].pc = "done"
  PROVE  RowsOK'
BY DEF OrdersInv, RowsOK

-----------------------------------------------------------------------------

LEMMA CallIs ==
  ASSUME OrdersInv, NEW r \in DOMAIN calls
  PROVE  calls[r] \in CallRecord
BY DEF OrdersInv, CallsOK

\* The end of execute(): the call is done, and the loop goes on if it was its own.
LEMMA ReturnsKeeps ==
  ASSUME OrdersInv, NEW r \in DOMAIN calls, IsUnderWay(r), Returns(r, "done"),
         rejected' \subseteq DOMAIN calls
  PROVE  ScalarsOK' /\ CallsOK' /\ ExchangeOK' /\ TxidsOK' /\ TriesOK'
<1>1. calls[r] \in CallRecord
  BY CallIs
<1>2. /\ calls'[r] \in CallRecord /\ calls'[r].txid = calls[r].txid
      /\ calls'[r].pc = "done" /\ calls'[r].attempt = calls[r].attempt
  BY <1>1 DEF Returns, CallRecord
<1>3. /\ DOMAIN calls' = DOMAIN calls /\ UNCHANGED exchange
      /\ \A q \in DOMAIN calls \ {r} : calls'[q] = calls[q]
  BY DEF Returns
<1>4. CallsOK' /\ ExchangeOK' /\ TxidsOK' /\ TriesOK'
  <2> DEFINE moved == {r}
  <2>1. moved \in SUBSET DOMAIN calls
    OBVIOUS
  <2> QED BY <1>2, <1>3, <2>1, CallMoves DEF IsUnderWay
<1>5. ScalarsOK'
  BY DEF OrdersInv, ScalarsOK, Returns
<1> QED BY <1>4, <1>5

LEMMA RejectsKeeps ==
  ASSUME OrdersInv, NEW r \in DOMAIN calls, IsUnderWay(r), Rejects(r)
  PROVE  OrdersInv'
<1>1. rejected' \subseteq DOMAIN calls
  BY DEF Rejects, OrdersInv, CallsOK
<1>2. ScalarsOK' /\ CallsOK' /\ ExchangeOK' /\ TxidsOK' /\ TriesOK'
  BY <1>1, ReturnsKeeps DEF Rejects
<1>3. RowsOK'
  <2>1. /\ UNCHANGED <<rows, exchange>> /\ asked' = asked
        /\ DOMAIN calls' = DOMAIN calls
        /\ \A q \in DOMAIN calls : calls[q].pc = "done" => calls'[q].pc = "done"
    BY DEF Rejects, Returns
  <2>2. asked' \subseteq DOMAIN rows
    BY <2>1 DEF OrdersInv, RowsOK
  <2> QED BY <2>1, <2>2, RowsStay
<1> QED BY <1>2, <1>3 DEF OrdersInv

\* The new row has the txid of its own call, or none.
LEMMA SavesKeeps ==
  ASSUME OrdersInv, NEW r \in DOMAIN calls, IsUnderWay(r),
         NEW txid \in {calls[r].txid, NoTx}, Saves(r, txid)
  PROVE  OrdersInv'
<1>1. rejected' \subseteq DOMAIN calls
  BY DEF Saves, OrdersInv, CallsOK
<1>2. ScalarsOK' /\ CallsOK' /\ ExchangeOK' /\ TxidsOK' /\ TriesOK'
  BY <1>1, ReturnsKeeps DEF Saves
<1>3. RowsOK'
  <2>1. /\ UNCHANGED exchange /\ asked' = asked
        /\ DOMAIN calls' = DOMAIN calls /\ calls'[r].pc = "done"
        /\ \A q \in DOMAIN calls \ {r} : calls'[q] = calls[q]
    BY CallIs DEF Saves, Returns, CallRecord
  <2>2. /\ DOMAIN rows' = DOMAIN rows \cup {r}
        /\ rows'[r] = [txid |-> txid, status |-> "pending"]
        /\ \A q \in DOMAIN rows \ {r} : rows'[q] = rows[q]
    BY DEF Saves
  <2>3. /\ txid \in 0..MaxOrders /\ txid \in 0..Len(exchange)
        /\ txid # NoTx => exchange[txid].request = r
    <3>1. calls[r].txid \in 0..Len(exchange) /\ Len(exchange) \in Nat /\ Len(exchange) <= MaxOrders
      BY DEF OrdersInv, TxidsOK, ExchangeOK
    <3> QED BY <3>1, OrdersAssumption DEF OrdersInv, TxidsOK, NoTx
  <2>4. asked' \subseteq DOMAIN rows'
    BY <2>1, <2>2 DEF OrdersInv, RowsOK
  <2>5. ASSUME NEW q \in DOMAIN rows'
        PROVE  /\ q \in DOMAIN calls' /\ calls'[q].pc = "done"
               /\ rows'[q] \in [txid : 0..MaxOrders, status : Finals \cup {"pending"}]
               /\ rows'[q].txid \in 0..Len(exchange)
               /\ rows'[q].txid # NoTx => exchange[rows'[q].txid].request = q
               /\ rows'[q].status # "pending" =>
                    rows'[q].txid # NoTx /\ exchange[rows'[q].txid].status = rows'[q].status
    <3>1. CASE q = r
      BY <2>1, <2>2, <2>3, <3>1
    <3>2. CASE q # r
      BY <2>1, <2>2, <3>2 DEF OrdersInv, RowsOK
    <3> QED BY <3>1, <3>2
  <2> QED BY <2>1, <2>4, <2>5 DEF RowsOK
<1> QED BY <1>2, <1>3 DEF OrdersInv

-----------------------------------------------------------------------------

\* A call whose exchange, rows and scalars stay as they are.
LEMMA CallOnlyKeeps ==
  ASSUME OrdersInv, UNCHANGED <<settings, stop, loopVars, exchange, tables, restarts>>,
         CallsOK', ExchangeOK', TxidsOK', TriesOK',
         DOMAIN calls \subseteq DOMAIN calls',
         \A q \in DOMAIN calls : calls[q].pc = "done" => calls'[q].pc = "done"
  PROVE  OrdersInv'
<1>1. ScalarsOK'
  BY DEF OrdersInv, ScalarsOK, loopVars
<1>2. RowsOK'
  <2>1. asked' \subseteq DOMAIN rows
    BY DEF OrdersInv, RowsOK, loopVars
  <2> QED BY <2>1, RowsStay DEF tables
<1> QED BY <1>1, <1>2 DEF OrdersInv

LEMMA BacksOffKeeps ==
  ASSUME OrdersInv, NEW r \in DOMAIN calls, IsUnderWay(r), BacksOff(r),
         calls[r].attempt < MaxAttempts
  PROVE  OrdersInv'
<1>1. calls[r] \in CallRecord
  BY CallIs
<1>2. /\ calls'[r] \in CallRecord /\ calls'[r].txid = NoTx
      /\ calls'[r].pc = "backoff" /\ calls'[r].attempt = calls[r].attempt
  <2>1. calls'[r] = [calls[r] EXCEPT !.pc = "backoff", !.txid = NoTx]
    BY DEF BacksOff
  <2>2. NoTx \in 0..MaxOrders
    BY OrdersAssumption DEF NoTx
  <2> QED BY <1>1, <2>1, <2>2 DEF CallRecord
<1>3. /\ DOMAIN calls' = DOMAIN calls
      /\ \A q \in DOMAIN calls \ {r} : calls'[q] = calls[q]
      /\ UNCHANGED <<settings, stop, loopVars, exchange, tables, restarts>>
  BY DEF BacksOff
<1>4. rejected' \subseteq DOMAIN calls
  BY <1>3 DEF tables, OrdersInv, CallsOK
<1>5. CallsOK' /\ ExchangeOK' /\ TxidsOK' /\ TriesOK'
  <2> DEFINE moved == {r}
  <2>1. moved \in SUBSET DOMAIN calls
    OBVIOUS
  <2> QED BY <1>2, <1>3, <1>4, <2>1, CallMoves DEF IsUnderWay
<1> QED BY <1>2, <1>3, <1>5, CallOnlyKeeps DEF IsUnderWay

LEMMA BackoffEndsKeeps ==
  ASSUME OrdersInv, NEW r \in DOMAIN calls, BackoffEnds(r)
  PROVE  OrdersInv'
<1>1. calls[r] \in CallRecord /\ calls[r].attempt < MaxAttempts
  BY CallIs DEF BackoffEnds, OrdersInv, TriesOK
<1>2. /\ calls'[r] \in CallRecord /\ calls'[r].txid = calls[r].txid
      /\ calls'[r].pc = "calling" /\ calls'[r].attempt = calls[r].attempt + 1
  <2>1. calls'[r] = [calls[r] EXCEPT !.pc = "calling", !.attempt = @ + 1]
    BY DEF BackoffEnds
  <2>2. calls[r].attempt + 1 \in 1..MaxAttempts
    BY <1>1, OrdersAssumption DEF CallRecord
  <2> QED BY <1>1, <2>1, <2>2 DEF CallRecord
<1>3. /\ DOMAIN calls' = DOMAIN calls /\ calls[r].pc = "backoff"
      /\ \A q \in DOMAIN calls \ {r} : calls'[q] = calls[q]
      /\ UNCHANGED <<settings, stop, loopVars, exchange, tables, restarts>>
  BY DEF BackoffEnds
<1>4. rejected' \subseteq DOMAIN calls
  BY <1>3 DEF tables, OrdersInv, CallsOK
<1>5. CallsOK' /\ ExchangeOK' /\ TxidsOK' /\ TriesOK'
  <2> DEFINE moved == {r}
  <2>1. moved \in SUBSET DOMAIN calls
    OBVIOUS
  <2> QED BY <1>2, <1>3, <1>4, <2>1, CallMoves
<1> QED BY <1>3, <1>5, CallOnlyKeeps

LEMMA CallEndsKeeps ==
  ASSUME OrdersInv, NEW r \in DOMAIN calls, CallEnds(r)
  PROVE  OrdersInv'
<1>1. ASSUME NEW transient \in BOOLEAN, CallRaises(r, transient) \/ CallReturnsErrors(r, transient)
      PROVE  OrdersInv'
  <2>1. IsUnderWay(r)
    BY <1>1 DEF CallRaises, CallReturnsErrors, IsUnderWay
  <2>2. CASE MayRetry(r, transient) /\ BacksOff(r)
    BY <2>1, <2>2, BacksOffKeeps DEF MayRetry
  <2>3. CASE Rejects(r)
    BY <2>1, <2>3, RejectsKeeps
  <2>4. CASE Saves(r, NoTx)
    BY <2>1, <2>4, SavesKeeps
  <2> QED BY <1>1, <2>2, <2>3, <2>4 DEF CallRaises, CallReturnsErrors
<1>2. ASSUME NEW txid, CallReturnsOrder(r, txid) PROVE OrdersInv'
  <2>1. IsUnderWay(r) /\ txid \in {calls[r].txid, NoTx} /\ Saves(r, txid)
    BY <1>2 DEF CallReturnsOrder, IsUnderWay
  <2> QED BY <2>1, SavesKeeps
<1> QED BY <1>1, <1>2 DEF CallEnds

LEMMA SendsKeeps ==
  ASSUME OrdersInv, NEW by \in {"loop", "approval"}, NEW m \in Markets, NEW side \in Sides,
         NEW r \in Requests, Sends(by, m, side, r)
  PROVE  OrdersInv'
<1> DEFINE new == [by |-> by, market |-> m, side |-> side, attempt |-> 1, txid |-> NoTx,
                   pc |-> IF settings.credentials THEN "calling" ELSE "done"]
<1>1. /\ r \notin DOMAIN calls /\ DOMAIN calls' = DOMAIN calls \cup {r} /\ calls'[r] = new
      /\ \A q \in DOMAIN calls : calls'[q] = calls[q]
      /\ rejected' \subseteq rejected \cup {r}
      /\ UNCHANGED <<settings, stop, even, asked, exchange, rows, restarts>>
  BY DEF Sends
<1>2. /\ new \in CallRecord /\ new.attempt = 1 /\ new.txid = NoTx
      /\ new.pc \in {"calling", "done"}
  BY OrdersAssumption DEF CallRecord, NoTx
<1> HIDE DEF new
<1>3. ScalarsOK'
  <2>1. loopPc' \in {"idle", "querying", "acting", "sending"}
    BY DEF Sends, OrdersInv, ScalarsOK
  <2> QED BY <1>1, <2>1 DEF OrdersInv, ScalarsOK
<1>4. CallsOK'
  BY <1>1, <1>2 DEF OrdersInv, CallsOK
<1>5. ExchangeOK'
  BY <1>1 DEF OrdersInv, ExchangeOK
<1>6. TxidsOK'
  <2>1. Len(exchange) \in Nat
    BY DEF OrdersInv, ExchangeOK
  <2> QED BY <1>1, <1>2, <2>1 DEF OrdersInv, TxidsOK, NoTx
<1>7. RowsOK'
  <2>1. asked' \subseteq DOMAIN rows
    BY <1>1 DEF OrdersInv, RowsOK
  <2> QED BY <1>1, <2>1, RowsStay
<1>8. TriesOK'
  <2>1. OrdersOf(r) = {}
    BY <1>1 DEF OrdersOf, OrdersInv, ExchangeOK
  <2>2. Cardinality(OrdersOf(r)) = 0
    BY <2>1, FS_EmptySet
  <2>3. \A q : OrdersOf(q)' = OrdersOf(q)
    BY <1>1 DEF OrdersOf
  <2>4. MaxAttempts >= 1
    BY OrdersAssumption
  <2> QED BY <1>1, <1>2, <2>2, <2>3, <2>4 DEF OrdersInv, TriesOK
<1> QED BY <1>3, <1>4, <1>5, <1>6, <1>7, <1>8 DEF OrdersInv

-----------------------------------------------------------------------------

\* The one step that adds an order: its call had an order less than tries.
LEMMA AcceptKeeps ==
  ASSUME OrdersInv, NEW r \in DOMAIN calls, Accept(r)
  PROVE  OrdersInv'
<1> DEFINE n == Len(exchange) + 1
           order == [request |-> r, status |-> "open"]
<1>1. calls[r] \in CallRecord /\ r \in Requests
  BY CallIs DEF OrdersInv, CallsOK
<1>2. /\ exchange \in Seq(OrderRecord) /\ Len(exchange) \in Nat
      /\ exchange' = Append(exchange, order) /\ order \in OrderRecord /\ n <= MaxOrders
  BY <1>1, OrdersAssumption DEF Accept, OrdersInv, ExchangeOK, OrderRecord
<1>3. /\ exchange' \in Seq(OrderRecord) /\ Len(exchange') = n /\ exchange'[n] = order
      /\ \A k \in 1..Len(exchange) : exchange'[k] = exchange[k]
  BY <1>2
<1>4. /\ DOMAIN calls' = DOMAIN calls
      /\ \A q \in DOMAIN calls \ {r} : calls'[q] = calls[q]
      /\ calls[r].pc = "calling"
      /\ UNCHANGED <<settings, stop, loopVars, tables, restarts>>
  BY DEF Accept
<1>5. /\ calls'[r] \in CallRecord /\ calls'[r].txid = n
      /\ calls'[r].pc = "accepted" /\ calls'[r].attempt = calls[r].attempt
  <2>1. calls'[r] = [calls[r] EXCEPT !.pc = "accepted", !.txid = n]
    BY DEF Accept
  <2>2. n \in 0..MaxOrders
    BY <1>2, OrdersAssumption
  <2> HIDE DEF n
  <2> QED BY <1>1, <2>1, <2>2 DEF CallRecord
<1>6. n \in Nat \ {0}
  BY <1>2
<1> HIDE DEF n
<1>7. ScalarsOK'
  BY <1>4 DEF OrdersInv, ScalarsOK, loopVars
<1>8. CallsOK'
  BY <1>4, <1>5 DEF OrdersInv, CallsOK, tables
<1>9. ExchangeOK'
  <2>1. \A k \in 1..n : k = n \/ k \in 1..Len(exchange)
    BY <1>2 DEF n
  <2> QED BY <1>2, <1>3, <1>4, <2>1 DEF OrdersInv, ExchangeOK
<1>10. 0..Len(exchange) \subseteq 0..n /\ \A k \in 0..Len(exchange) : k # NoTx => k \in 1..Len(exchange)
  BY <1>2 DEF n, NoTx
<1>11. TxidsOK'
  <2> SUFFICES ASSUME NEW q \in DOMAIN calls
               PROVE  /\ calls'[q].txid \in 0..n
                      /\ calls'[q].txid # NoTx => exchange'[calls'[q].txid].request = q
    BY <1>3, <1>4 DEF TxidsOK
  <2>1. CASE q = r
    BY <1>3, <1>5, <1>6, <2>1
  <2>2. CASE q # r
    BY <1>3, <1>4, <1>10, <2>2 DEF OrdersInv, TxidsOK
  <2> QED BY <2>1, <2>2
<1>12. RowsOK'
  <2>1. asked' \subseteq DOMAIN rows /\ rows' = rows
    BY <1>4 DEF OrdersInv, RowsOK, loopVars, tables
  <2> SUFFICES ASSUME NEW q \in DOMAIN rows
               PROVE  /\ q \in DOMAIN calls' /\ calls'[q].pc = "done"
                      /\ rows[q] \in [txid : 0..MaxOrders, status : Finals \cup {"pending"}]
                      /\ rows[q].txid \in 0..n
                      /\ rows[q].txid # NoTx => exchange'[rows[q].txid].request = q
                      /\ rows[q].status # "pending" =>
                           rows[q].txid # NoTx /\ exchange'[rows[q].txid].status = rows[q].status
    BY <1>3, <2>1 DEF RowsOK
  <2>2. q # r
    BY <1>4 DEF OrdersInv, RowsOK
  <2> QED BY <1>3, <1>4, <1>10, <2>2 DEF OrdersInv, RowsOK
<1>13. TriesOK'
  <2>1. OrdersOf(r)' = OrdersOf(r) \cup {n}
    <3>1. DOMAIN exchange = 1..Len(exchange) /\ DOMAIN exchange' = 1..n
      BY <1>2, <1>3
    <3>2. 1..n = (1..Len(exchange)) \cup {n}
      BY <1>2 DEF n
    <3> QED BY <1>3, <3>1, <3>2 DEF OrdersOf
  <2>2. \A q \in DOMAIN calls \ {r} : OrdersOf(q)' = OrdersOf(q)
    <3>1. DOMAIN exchange = 1..Len(exchange) /\ DOMAIN exchange' = 1..n
      BY <1>2, <1>3
    <3>2. 1..n = (1..Len(exchange)) \cup {n}
      BY <1>2 DEF n
    <3> QED BY <1>3, <3>1, <3>2 DEF OrdersOf
  <2>3. Cardinality(OrdersOf(r)') \in {Cardinality(OrdersOf(r)), Cardinality(OrdersOf(r)) + 1}
    BY <2>1, OrdersFinite, FS_AddElement DEF OrdersInv
  <2>4. Cardinality(OrdersOf(r)) \in Nat /\ Cardinality(OrdersOf(r)) < calls[r].attempt
    BY <1>4, OrdersFinite DEF OrdersInv, TriesOK
  <2>5. calls[r].attempt \in Nat
    BY <1>1 DEF CallRecord
  <2>6. Cardinality(OrdersOf(r)') \in Nat /\ Cardinality(OrdersOf(r)') <= calls'[r].attempt
    BY <1>5, <2>3, <2>4, <2>5
  <2> SUFFICES ASSUME NEW q \in DOMAIN calls
               PROVE  /\ Cardinality(OrdersOf(q)') \in Nat
                      /\ Cardinality(OrdersOf(q)') <= calls'[q].attempt
                      /\ calls'[q].pc = "calling" => Cardinality(OrdersOf(q)') < calls'[q].attempt
                      /\ calls'[q].pc = "backoff" => calls'[q].attempt < MaxAttempts
    BY <1>4 DEF TriesOK
  <2>7. CASE q = r
    BY <1>5, <2>6, <2>7
  <2>8. CASE q # r
    BY <1>4, <2>2, <2>8 DEF OrdersInv, TriesOK
  <2> QED BY <2>7, <2>8
<1> QED BY <1>7, <1>8, <1>9, <1>11, <1>12, <1>13 DEF OrdersInv

\* An order only ends while it is open, so no row on file is contradicted.
LEMMA OrderEndsKeeps ==
  ASSUME OrdersInv, NEW n \in DOMAIN exchange, NEW status \in Finals, OrderEnds(n, status)
  PROVE  OrdersInv'
<1>1. /\ exchange \in Seq(OrderRecord) /\ n \in 1..Len(exchange)
      /\ \A k \in 1..Len(exchange) : exchange[k] \in OrderRecord
  BY DEF OrdersInv, ExchangeOK
<1>2. /\ exchange' = [exchange EXCEPT ![n].status = status]
      /\ exchange[n].status = "open"
      /\ UNCHANGED <<settings, stop, loopVars, calls, tables, restarts>>
  BY DEF OrderEnds
<1>3. /\ exchange'[n] = [exchange[n] EXCEPT !.status = status]
      /\ \A k \in 1..Len(exchange) \ {n} : exchange'[k] = exchange[k]
      /\ DOMAIN exchange' = 1..Len(exchange)
  BY <1>1, <1>2
<1>4. exchange'[n] \in OrderRecord /\ exchange'[n].request = exchange[n].request
  BY <1>1, <1>3 DEF OrderRecord
<1>5. \A k \in 1..Len(exchange) :
        exchange'[k] \in OrderRecord /\ exchange'[k].request = exchange[k].request
  BY <1>1, <1>3, <1>4
<1>6. exchange' \in Seq(OrderRecord) /\ Len(exchange') = Len(exchange) /\ Len(exchange) \in Nat
  <2>1. Len(exchange) \in Nat
    BY <1>1
  <2>2. exchange' \in [1..Len(exchange) -> OrderRecord]
    BY <1>2, <1>3, <1>5
  <2> QED BY <2>1, <2>2, <1>3
<1>7. ScalarsOK' /\ CallsOK'
  BY <1>2 DEF OrdersInv, ScalarsOK, CallsOK, loopVars, tables
<1>8. ExchangeOK'
  BY <1>2, <1>5, <1>6 DEF OrdersInv, ExchangeOK
<1>9. \A k \in 0..Len(exchange) : k # NoTx => k \in 1..Len(exchange)
  BY <1>6 DEF NoTx
<1>10. TxidsOK'
  BY <1>2, <1>5, <1>6, <1>9 DEF OrdersInv, TxidsOK
<1>11. RowsOK'
  <2> SUFFICES ASSUME NEW q \in DOMAIN rows
               PROVE  /\ rows[q].txid # NoTx => exchange'[rows[q].txid].request = q
                      /\ rows[q].status # "pending" =>
                           rows[q].txid # NoTx /\ exchange'[rows[q].txid].status = rows[q].status
    BY <1>2, <1>6 DEF OrdersInv, RowsOK, loopVars, tables
  <2>1. /\ rows[q].txid \in 0..Len(exchange)
        /\ rows[q] \in [txid : 0..MaxOrders, status : Finals \cup {"pending"}]
        /\ rows[q].txid # NoTx => exchange[rows[q].txid].request = q
        /\ rows[q].status # "pending" =>
             rows[q].txid # NoTx /\ exchange[rows[q].txid].status = rows[q].status
    BY DEF OrdersInv, RowsOK
  <2>2. rows[q].status # "pending" => rows[q].txid # n
    BY <1>2, <2>1, NothingPendingIsFinal
  <2> QED BY <1>3, <1>5, <1>9, <2>1, <2>2
<1>12. TriesOK'
  <2>1. DOMAIN exchange = 1..Len(exchange)
    BY <1>1
  <2>2. \A q : OrdersOf(q)' = OrdersOf(q)
    BY <1>3, <1>5, <2>1 DEF OrdersOf
  <2> QED BY <1>2, <2>2 DEF OrdersInv, TriesOK
<1> QED BY <1>7, <1>8, <1>10, <1>11, <1>12 DEF OrdersInv

\* The loop and the operator leave calls, exchange and rows alone.
LEMMA LoopKeeps ==
  ASSUME OrdersInv, UNCHANGED <<settings, calls, exchange, tables, restarts>>,
         stop' \in BOOLEAN, even' \in BOOLEAN,
         loopPc' \in {"idle", "querying", "acting", "sending"}, asked' \subseteq DOMAIN rows
  PROVE  OrdersInv'
<1>1. ScalarsOK'
  BY Zenon DEF OrdersInv, ScalarsOK
<1>2. CallsOK' /\ ExchangeOK' /\ TxidsOK'
  BY DEF OrdersInv, CallsOK, ExchangeOK, TxidsOK, tables
<1>3. RowsOK'
  BY RowsStay DEF tables
<1>4. TriesOK'
  BY DEF OrdersInv, TriesOK, OrdersOf
<1> QED BY <1>1, <1>2, <1>3, <1>4 DEF OrdersInv

LEMMA TicksKeep ==
  ASSUME OrdersInv,
         TickQueries \/ TickActs \/ TickFails \/ TickEnds \/ StopOrResume \/ UNCHANGED vars
  PROVE  OrdersInv'
<1>1. UNCHANGED <<settings, calls, exchange, tables, restarts>>
  BY Zenon DEF TickQueries, TickActs, TickFails, TickEnds, StopOrResume, vars
<1>2. stop' \in BOOLEAN /\ even' \in BOOLEAN
  BY DEF TickQueries, TickActs, TickFails, TickEnds, StopOrResume, vars, loopVars, OrdersInv, ScalarsOK
<1>3. loopPc' \in {"idle", "querying", "acting", "sending"}
  BY DEF TickQueries, TickActs, TickFails, TickEnds, StopOrResume, vars, loopVars, OrdersInv, ScalarsOK
<1>4. asked' \subseteq DOMAIN rows
  BY DEF TickQueries, TickActs, TickFails, TickEnds, StopOrResume, vars, loopVars, OrdersInv, RowsOK,
         Pending
<1> QED BY <1>1, <1>2, <1>3, <1>4, LoopKeeps

\* What an answer updates is what the exchange says of the row's own order.
LEMMA UpdatedIsTrue ==
  ASSUME OrdersInv, NEW seen \in SUBSET Ended, rows' \in {rows, Updated(seen)},
         UNCHANGED exchange,
         DOMAIN calls' = DOMAIN calls, asked' = {},
         \A q \in DOMAIN calls : calls[q].pc = "done" => calls'[q].pc = "done"
  PROVE  RowsOK'
<1>1. DOMAIN rows' = DOMAIN rows
  BY DEF Updated
<1> SUFFICES ASSUME NEW q \in DOMAIN rows
             PROVE  /\ q \in DOMAIN calls' /\ calls'[q].pc = "done"
                    /\ rows'[q] \in [txid : 0..MaxOrders, status : Finals \cup {"pending"}]
                    /\ rows'[q].txid \in 0..Len(exchange)
                    /\ rows'[q].txid # NoTx => exchange[rows'[q].txid].request = q
                    /\ rows'[q].status # "pending" =>
                         rows'[q].txid # NoTx /\ exchange[rows'[q].txid].status = rows'[q].status
  BY <1>1 DEF RowsOK
<1>2. CASE q \in seen /\ rows' = Updated(seen)
  <2>1. /\ rows[q].txid # NoTx /\ exchange[rows[q].txid].status \in Finals
        /\ rows'[q] = [rows[q] EXCEPT !.status = exchange[rows[q].txid].status]
    BY <1>2 DEF Ended, Updated
  <2>2. /\ rows[q] \in [txid : 0..MaxOrders, status : Finals \cup {"pending"}]
        /\ q \in DOMAIN calls /\ calls[q].pc = "done"
        /\ rows[q].txid \in 0..Len(exchange)
        /\ rows[q].txid # NoTx => exchange[rows[q].txid].request = q
    BY DEF OrdersInv, RowsOK
  <2> QED BY <2>1, <2>2
<1>3. CASE q \notin seen \/ rows' = rows
  <2>1. rows'[q] = rows[q]
    BY <1>3 DEF Updated
  <2> QED BY <2>1 DEF OrdersInv, RowsOK
<1> QED BY <1>2, <1>3

LEMMA QueryAnsweredKeeps ==
  ASSUME OrdersInv, NEW seen \in SUBSET Requests, QueryAnswered(seen)
  PROVE  OrdersInv'
<1>1. /\ seen \in SUBSET Ended /\ rows' = Updated(seen) /\ asked' = {}
      /\ UNCHANGED <<settings, stop, even, calls, exchange, rejected, restarts>>
      /\ loopPc' = "acting"
  BY DEF QueryAnswered
<1>2. RowsOK'
  BY <1>1, UpdatedIsTrue
<1>3. ScalarsOK'
  BY <1>1 DEF OrdersInv, ScalarsOK
<1>4. CallsOK' /\ ExchangeOK' /\ TxidsOK'
  BY <1>1 DEF OrdersInv, CallsOK, ExchangeOK, TxidsOK
<1>5. TriesOK'
  BY <1>1 DEF OrdersInv, TriesOK, OrdersOf
<1> QED BY <1>2, <1>3, <1>4, <1>5 DEF OrdersInv

\* A crash cuts the calls that were under way.
LEMMA RestartKeeps ==
  ASSUME OrdersInv, NEW seen \in SUBSET Ended, NEW table \in {rows, Updated(seen)},
         RestartWith(table)
  PROVE  OrdersInv'
<1> DEFINE moved == {q \in DOMAIN calls : IsUnderWay(q)}
<1>1. /\ rows' \in {rows, Updated(seen)} /\ asked' = {}
      /\ UNCHANGED <<exchange, rejected, stop>>
      /\ DOMAIN calls' = DOMAIN calls
      /\ \A q \in DOMAIN calls \ moved : calls'[q] = calls[q]
      /\ \A q \in moved : calls'[q] = [calls[q] EXCEPT !.pc = "cut"]
  BY DEF RestartWith
<1>2. \A q \in moved :
        /\ calls[q].pc # "done" /\ calls'[q] \in CallRecord /\ calls'[q].txid = calls[q].txid
        /\ calls'[q].pc = "cut" /\ calls'[q].attempt = calls[q].attempt
  BY <1>1, CallIs DEF IsUnderWay, CallRecord
<1>3. rejected' \subseteq DOMAIN calls
  BY <1>1 DEF OrdersInv, CallsOK
<1>4. \A q \in DOMAIN calls : calls[q].pc = "done" => calls'[q].pc = "done"
  BY <1>1, <1>2
<1>5. CallsOK' /\ ExchangeOK' /\ TxidsOK' /\ TriesOK'
  <2>1. moved \in SUBSET DOMAIN calls
    OBVIOUS
  <2> HIDE DEF moved
  <2> QED BY <1>1, <1>2, <1>3, <2>1, CallMoves
<1>6. RowsOK'
  BY <1>1, <1>4, UpdatedIsTrue
<1>7. ScalarsOK'
  <2>1. restarts' \in 0..MaxRestarts
    BY OrdersAssumption DEF RestartWith, OrdersInv, ScalarsOK
  <2> QED BY <1>1, <2>1, Zenon DEF RestartWith, OrdersInv, ScalarsOK
<1> QED BY <1>5, <1>6, <1>7 DEF OrdersInv

LEMMA StepKeeps ==
  ASSUME OrdersInv, [Next]_vars PROVE OrdersInv'
<1>1. ASSUME NEW r \in Requests, NEW m \in Markets, NEW side \in Sides,
             SendFromLoop(m, side, r) \/ SendApproved(m, side, r)
      PROVE  OrdersInv'
  BY <1>1, SendsKeeps DEF SendFromLoop, SendApproved
<1>2. ASSUME NEW r \in DOMAIN calls, Accept(r) \/ CallEnds(r) \/ BackoffEnds(r)
      PROVE  OrdersInv'
  BY <1>2, AcceptKeeps, CallEndsKeeps, BackoffEndsKeeps
<1>3. ASSUME NEW seen \in SUBSET Requests, QueryAnswered(seen) \/ ReconcileInterrupted(seen)
      PROVE  OrdersInv'
  BY <1>3, QueryAnsweredKeeps, RestartKeeps DEF ReconcileInterrupted
<1>4. CASE Restart
  <2>1. {} \in SUBSET Ended /\ rows \in {rows, Updated({})}
    OBVIOUS
  <2> QED BY <1>4, <2>1, RestartKeeps DEF Restart
<1> QED BY <1>1, <1>2, <1>3, <1>4, OrderEndsKeeps, TicksKeep, Zenon DEF Next

LEMMA Invariance == Spec => []OrdersInv
BY InitHolds, StepKeeps, PTL DEF Spec

-----------------------------------------------------------------------------

THEOREM OrdersTypeCorrect == Spec => []OrdersTypeOK
<1>1. OrdersInv => OrdersTypeOK
  <2> SUFFICES ASSUME OrdersInv PROVE OrdersTypeOK
    OBVIOUS
  <2>1. exchange \in Seq([request : Requests, status : Finals \cup {"open"}])
    BY DEF OrdersInv, ExchangeOK, OrderRecord
  <2>2. asked \subseteq DOMAIN rows
    BY DEF OrdersInv, RowsOK
  <2>3. \A r \in DOMAIN rows : rows[r] \in [txid : 0..MaxOrders, status : Finals \cup {"pending"}]
    BY DEF OrdersInv, RowsOK
  <2> QED BY <2>1, <2>2, <2>3, Zenon
          DEF OrdersInv, OrdersTypeOK, ScalarsOK, CallsOK, CallRecord
<1> QED BY <1>1, Invariance, PTL

\* kraken.py:172: the ledger never says of an order what the exchange has not
\* said of that very order, for any number of orders, tries and restarts.
THEOREM LedgerIsTrue == Spec => []LedgerTellsExchange
<1>1. OrdersInv => LedgerTellsExchange
  BY DEF OrdersInv, RowsOK, LedgerTellsExchange
<1> QED BY <1>1, Invariance, PTL

\* kraken_retry.py:44: lost answers multiply an order at most by the number of
\* its tries.
THEOREM OnlyTriesMultiply == Spec => []DuplicatesComeFromRetries
<1>1. OrdersInv => DuplicatesComeFromRetries
  <2> SUFFICES ASSUME OrdersInv, NEW r \in DOMAIN calls
               PROVE  Cardinality(OrdersOf(r)) <= calls[r].attempt /\ calls[r].attempt <= MaxAttempts
    BY DEF DuplicatesComeFromRetries
  <2>1. Cardinality(OrdersOf(r)) <= calls[r].attempt
    BY DEF OrdersInv, TriesOK
  <2>2. calls[r].attempt \in 1..MaxAttempts
    BY CallIs DEF CallRecord
  <2> QED BY <2>1, <2>2, OrdersAssumption
<1> QED BY <1>1, Invariance, PTL

\* repository.py:396: a result on file is final: the answers still to come
\* say what the exchange said, and new rows are for other requests.
THEOREM ResultsStay == Spec => ResultsAreFinal
<1>1. ASSUME OrdersInv, [Next]_vars, NEW r \in DOMAIN rows
      PROVE  r \in DOMAIN rows' /\ (rows[r].status # "pending" => rows'[r] = rows[r])
  <2>1. ASSUME NEW seen, rows' = Updated(seen), seen \subseteq Ended
        PROVE  r \in DOMAIN rows' /\ (rows[r].status # "pending" => rows'[r] = rows[r])
    <3>1. r \in DOMAIN rows'
      BY <2>1 DEF Updated
    <3>2. /\ rows[r] \in [txid : 0..MaxOrders, status : Finals \cup {"pending"}]
          /\ rows[r].status # "pending" => exchange[rows[r].txid].status = rows[r].status
      BY <1>1 DEF OrdersInv, RowsOK
    <3>3. rows'[r] \in {rows[r], [rows[r] EXCEPT !.status = exchange[rows[r].txid].status]}
      BY <2>1 DEF Updated
    <3> QED BY <3>1, <3>2, <3>3
  <2>2. ASSUME NEW q \in DOMAIN calls, NEW txid, Saves(q, txid), IsUnderWay(q)
        PROVE  r \in DOMAIN rows' /\ (rows[r].status # "pending" => rows'[r] = rows[r])
    <3>1. r # q
      BY <1>1, <2>2 DEF IsUnderWay, OrdersInv, RowsOK
    <3> QED BY <2>2, <3>1 DEF Saves
  <2>3. ASSUME NEW q \in DOMAIN calls, CallEnds(q)
        PROVE  r \in DOMAIN rows' /\ (rows[r].status # "pending" => rows'[r] = rows[r])
    <3>1. IsUnderWay(q) /\ (UNCHANGED rows \/ \E txid : Saves(q, txid))
      BY <2>3 DEF CallEnds, CallRaises, CallReturnsErrors, CallReturnsOrder, BacksOff, Rejects,
                  IsUnderWay, tables
    <3> QED BY <2>2, <3>1
  <2>4. ASSUME NEW q \in DOMAIN calls, Accept(q) \/ BackoffEnds(q) PROVE UNCHANGED rows
    BY <2>4 DEF Accept, BackoffEnds, tables
  <2>5. ASSUME NEW q, NEW m, NEW side, SendFromLoop(m, side, q) \/ SendApproved(m, side, q)
        PROVE  UNCHANGED rows
    BY <2>5 DEF SendFromLoop, SendApproved, Sends
  <2>6. ASSUME \/ TickQueries \/ TickActs \/ TickFails \/ TickEnds \/ StopOrResume \/ Restart
               \/ UNCHANGED vars
               \/ \E n \in DOMAIN exchange, status \in Finals : OrderEnds(n, status)
        PROVE  UNCHANGED rows
    BY <2>6 DEF TickQueries, TickActs, TickFails, TickEnds, StopOrResume, Restart, RestartWith, vars,
                OrderEnds, tables
  <2>7. ASSUME NEW seen, QueryAnswered(seen) \/ ReconcileInterrupted(seen)
        PROVE  rows' = Updated(seen) /\ seen \subseteq Ended
    BY <2>7 DEF QueryAnswered, ReconcileInterrupted, RestartWith
  <2> QED BY <1>1, <2>1, <2>3, <2>4, <2>5, <2>6, <2>7 DEF Next
<1>2. OrdersInv /\ [Next]_vars =>
        \A r \in DOMAIN rows :
          /\ r \in DOMAIN rows'
          /\ rows[r].status # "pending" => rows'[r] = rows[r]
  BY <1>1
<1> QED BY <1>2, Invariance, PTL DEF ResultsAreFinal, Spec
==============================================================================
