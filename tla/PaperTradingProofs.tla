------------------------- MODULE PaperTradingProofs -------------------------
(***************************************************************************)
(* Proofs about PaperTrading.                                              *)
(*                                                                         *)
(* The first half is about one database at a time.  DbOK(d) says of the    *)
(* database d that its rows and outcomes are consistent; every commit of   *)
(* every handler preserves it, so the databases a crash leaves behind and  *)
(* the one the handler completes with satisfy it alike.  Outside a handler *)
(* the engine holds exactly the rows (RowsMatchBook), which carries what   *)
(* DbOK says of the rows over to the open positions.                       *)
(*                                                                         *)
(* The second half is about what a step changes.  A step ends in one of    *)
(* four ways (StepEnds): it opens and closes nothing, it opens one         *)
(* position, it closes one, or the process dies in it and restarts from    *)
(* one of the databases that Reached describes.  The refinement, the       *)
(* ledgers and the cash are read off these four, handlers aside.           *)
(***************************************************************************)
EXTENDS PaperTrading, SequenceTheorems, FiniteSetTheorems, TLAPS

\* Functions from some of the position ids to S.
ById(S) == UNION {[ids -> S] : ids \in SUBSET PosIds}

\* The tables with their types; DatabasesOver fixes the ids, this does not.
Databases ==
  [rows : ById(Row), orders : Seq(Order), outcomes : Seq(Outcome),
   cash : Int, loss : Int]

\* Ids that a database has an order for.
IdsOf(d) == {d.orders[n].pos : n \in DOMAIN d.orders}

\* The one-position rule, of the rows.
OneRowPerDirection(d) ==
  \A i, j \in DOMAIN d.rows :
    /\ d.rows[i].market = d.rows[j].market
    /\ d.rows[i].direction = d.rows[j].direction
    => i = j

\* Long rows have positive sizes, short rows negative ones.
RowSigns(d) ==
  \A id \in DOMAIN d.rows :
    IF d.rows[id].direction = "long" THEN d.rows[id].size > 0 ELSE d.rows[id].size < 0

\* Outcomes are about closed positions, one each.
OneOutcomeEach(d) ==
  /\ \A n \in DOMAIN d.outcomes : d.outcomes[n].pos \in IdsOf(d) \ DOMAIN d.rows
  /\ \A n, k \in DOMAIN d.outcomes : d.outcomes[n].pos = d.outcomes[k].pos => n = k

\* The consistent databases.
DbOK(d) ==
  /\ d \in Databases
  /\ DOMAIN d.rows \subseteq IdsOf(d)
  /\ OneRowPerDirection(d)
  /\ RowSigns(d)
  /\ OneOutcomeEach(d)

\* The types of what the process holds in memory.
MemoryOK ==
  /\ cash \in Int
  /\ positions \in ById(Position)
  /\ prices \in [Markets -> Quotes \cup {NoQuote}]
  /\ dailyLoss \in Int
  /\ learned \subseteq [pos : PosIds, idea : Ideas, direction : Directions]
  /\ loopPc \in {"idle", "account", "trim", "scan", "alert"}
  /\ scan \subseteq PosIds
  /\ resetting \in BOOLEAN
  /\ restarts \in 0..MaxRestarts

\* The inductive invariant.
Inv == MemoryOK /\ DbOK(db) /\ RowsMatchBook

-----------------------------------------------------------------------------
(* Functions from some of the ids.                                         *)

\* A function from some of the ids is one.
LEMMA ByIdIntro ==
  ASSUME NEW S, NEW ids \in SUBSET PosIds, NEW f, f \in [ids -> S]
  PROVE  f \in ById(S)
BY DEF ById

\* What a function from some of the ids has for its domain.
LEMMA ByIdElim ==
  ASSUME NEW S, NEW f \in ById(S)
  PROVE  /\ DOMAIN f \subseteq PosIds
         /\ f \in [DOMAIN f -> S]
BY DEF ById

-----------------------------------------------------------------------------
(* One lemma per commit.                                                   *)

\* save_order keeps the database consistent and touches no other table.
LEMMA OrderCommit ==
  ASSUME NEW d, DbOK(d), NEW id \in PosIds, NEW kind \in {"open", "close"},
         NEW m \in Markets, NEW direction \in Directions,
         NEW idea \in Ideas \cup {NoIdea}
  PROVE  LET o == WithOrder(d, id, kind, m, direction, idea)
         IN  /\ DbOK(o)
             /\ o.rows = d.rows
             /\ o.outcomes = d.outcomes
             /\ IdsOf(o) = IdsOf(d) \cup {id}
<1> DEFINE new == [pos |-> id, kind |-> kind, market |-> m,
                   direction |-> direction, idea |-> idea, pnl |-> 0]
           o == WithOrder(d, id, kind, m, direction, idea)
<1>1. d \in Databases
  BY DEF DbOK
<1>2. new \in Order
  BY DEF Order
<1>3. o = [d EXCEPT !.orders = Append(d.orders, new)]
  BY <1>1 DEF WithOrder, Databases
<1>4. /\ d.orders \in Seq(Order)
      /\ Append(d.orders, new) \in Seq(Order)
      /\ DOMAIN Append(d.orders, new) = 1..(Len(d.orders) + 1)
      /\ DOMAIN d.orders = 1..Len(d.orders)
      /\ \A n \in 1..Len(d.orders) : Append(d.orders, new)[n] = d.orders[n]
      /\ Append(d.orders, new)[Len(d.orders) + 1] = new
      /\ Len(d.orders) \in Nat
  BY <1>1, <1>2, AppendProperties, LenProperties DEF Databases
<1>5. /\ o \in Databases
      /\ o.rows = d.rows
      /\ o.outcomes = d.outcomes
      /\ o.orders = Append(d.orders, new)
  BY <1>1, <1>3, <1>4 DEF Databases
<1>6. IdsOf(o) = IdsOf(d) \cup {id}
  <2>1. IdsOf(o) = {Append(d.orders, new)[n].pos : n \in 1..(Len(d.orders) + 1)}
    BY <1>4, <1>5 DEF IdsOf
  <2>2. \A n \in 1..(Len(d.orders) + 1) :
          \/ n \in 1..Len(d.orders) /\ Append(d.orders, new)[n].pos = d.orders[n].pos
          \/ n = Len(d.orders) + 1 /\ Append(d.orders, new)[n].pos = id
    BY <1>4
  <2>3. Len(d.orders) + 1 \in 1..(Len(d.orders) + 1)
    BY <1>4
  <2>4. \A n \in 1..Len(d.orders) : n \in 1..(Len(d.orders) + 1)
    BY <1>4
  <2>5. IdsOf(d) = {d.orders[n].pos : n \in 1..Len(d.orders)}
    BY <1>4 DEF IdsOf
  <2> DEFINE appended == Append(d.orders, new)
  <2> HIDE DEF appended, new
  <2>6. IdsOf(o) \subseteq IdsOf(d) \cup {id}
    BY <2>1, <2>2, <2>5 DEF appended
  <2>7. IdsOf(d) \cup {id} \subseteq IdsOf(o)
    BY <2>1, <2>2, <2>3, <2>4, <2>5, <1>4 DEF appended, new
  <2> QED
    BY <2>6, <2>7
<1>7. DbOK(o)
  BY <1>5, <1>6 DEF DbOK, OneRowPerDirection, RowSigns, OneOutcomeEach
<1> QED
  BY <1>5, <1>6, <1>7

\* save_position of a position whose order is on file, in a free slot.
LEMMA OpenRowCommit ==
  ASSUME NEW d, DbOK(d), NEW id \in IdsOf(d), NEW pos \in Position,
         id \in PosIds,
         id \notin DOMAIN d.rows,
         \A n \in DOMAIN d.outcomes : d.outcomes[n].pos # id,
         \A i \in DOMAIN d.rows : ~(/\ d.rows[i].market = pos.market
                                    /\ d.rows[i].direction = pos.direction),
         IF pos.direction = "long" THEN pos.size > 0 ELSE pos.size < 0
  PROVE  LET r == WithRow(d, id, pos)
         IN  /\ DbOK(r)
             /\ r.rows = [i \in DOMAIN d.rows \cup {id} |->
                            IF i = id THEN RowOf(pos) ELSE d.rows[i]]
<1> DEFINE rows == [i \in DOMAIN d.rows \cup {id} |->
                      IF i = id THEN RowOf(pos) ELSE d.rows[i]]
           r == WithRow(d, id, pos)
<1>1. /\ d \in Databases
      /\ d.rows \in ById(Row)
  BY DEF DbOK, Databases
<1>2. /\ DOMAIN d.rows \subseteq PosIds
      /\ d.rows \in [DOMAIN d.rows -> Row]
  BY <1>1, ByIdElim
<1>3. RowOf(pos) \in Row
  BY DEF RowOf, Row, Position
<1>4. rows \in ById(Row)
  <2>1. rows \in [DOMAIN d.rows \cup {id} -> Row]
    BY <1>2, <1>3
  <2>2. DOMAIN d.rows \cup {id} \in SUBSET PosIds
    BY <1>2
  <2> QED
    BY <2>1, <2>2, ByIdIntro
<1>5. r = [d EXCEPT !.rows = rows]
  BY <1>1 DEF WithRow, Databases
<1>6. /\ r \in Databases
      /\ r.rows = rows
      /\ r.orders = d.orders
      /\ r.outcomes = d.outcomes
  BY <1>1, <1>4, <1>5 DEF Databases
<1>7. DOMAIN r.rows = DOMAIN d.rows \cup {id}
  BY <1>6
<1>8. IdsOf(r) = IdsOf(d)
  BY <1>6 DEF IdsOf
<1>9. /\ RowOf(pos).market = pos.market
      /\ RowOf(pos).direction = pos.direction
      /\ RowOf(pos).size = pos.size
  BY DEF RowOf
<1>10. OneRowPerDirection(r)
  BY <1>6, <1>7, <1>9 DEF DbOK, OneRowPerDirection
<1>11. RowSigns(r)
  BY <1>6, <1>7, <1>9 DEF DbOK, RowSigns
<1>12. OneOutcomeEach(r)
  BY <1>6, <1>7, <1>8 DEF DbOK, OneOutcomeEach
<1>13. DOMAIN r.rows \subseteq IdsOf(r)
  BY <1>7, <1>8 DEF DbOK
<1> QED
  BY <1>6, <1>10, <1>11, <1>12, <1>13 DEF DbOK

\* close_position takes one row away.
LEMMA RemoveRowCommit ==
  ASSUME NEW d, DbOK(d), NEW id
  PROVE  LET r == WithoutRow(d, id)
         IN  /\ DbOK(r)
             /\ r.rows = [i \in DOMAIN d.rows \ {id} |-> d.rows[i]]
             /\ r.outcomes = d.outcomes
             /\ IdsOf(r) = IdsOf(d)
<1> DEFINE rows == [i \in DOMAIN d.rows \ {id} |-> d.rows[i]]
           r == WithoutRow(d, id)
<1>1. /\ d \in Databases
      /\ d.rows \in ById(Row)
  BY DEF DbOK, Databases
<1>2. /\ DOMAIN d.rows \subseteq PosIds
      /\ d.rows \in [DOMAIN d.rows -> Row]
  BY <1>1, ByIdElim
<1>3. rows \in ById(Row)
  <2>1. rows \in [DOMAIN d.rows \ {id} -> Row]
    BY <1>2
  <2> QED
    BY <1>2, <2>1, ByIdIntro
<1>4. r = [d EXCEPT !.rows = rows]
  BY <1>1 DEF WithoutRow, Databases
<1>5. /\ r \in Databases
      /\ r.rows = rows
      /\ r.orders = d.orders
      /\ r.outcomes = d.outcomes
  BY <1>1, <1>3, <1>4 DEF Databases
<1>6. DOMAIN r.rows = DOMAIN d.rows \ {id}
  BY <1>5
<1>7. IdsOf(r) = IdsOf(d)
  BY <1>5 DEF IdsOf
<1>8. OneRowPerDirection(r) /\ RowSigns(r)
  BY <1>5, <1>6 DEF DbOK, OneRowPerDirection, RowSigns
<1>9. OneOutcomeEach(r) /\ DOMAIN r.rows \subseteq IdsOf(r)
  BY <1>5, <1>6, <1>7 DEF DbOK, OneOutcomeEach
<1> QED
  BY <1>5, <1>7, <1>8, <1>9 DEF DbOK

\* save_trade_outcome of a position that has an order, no row and no outcome.
LEMMA OutcomeCommit ==
  ASSUME NEW d, DbOK(d), NEW id \in IdsOf(d), NEW pos \in Position,
         NEW pnl \in Int, NEW reason \in Reasons,
         id \in PosIds,
         id \notin DOMAIN d.rows,
         \A n \in DOMAIN d.outcomes : d.outcomes[n].pos # id
  PROVE  LET o == WithOutcome(d, id, pos, pnl, reason)
         IN  DbOK(o) /\ o.rows = d.rows
<1> DEFINE new == [pos |-> id, direction |-> pos.direction,
                   idea |-> pos.idea, pnl |-> pnl, reason |-> reason]
           o == WithOutcome(d, id, pos, pnl, reason)
<1>1. d \in Databases
  BY DEF DbOK
<1>2. new \in Outcome
  BY DEF Outcome, Position
<1>3. o = [d EXCEPT !.outcomes = Append(d.outcomes, new)]
  BY <1>1 DEF WithOutcome, Databases
<1>4. /\ d.outcomes \in Seq(Outcome)
      /\ Append(d.outcomes, new) \in Seq(Outcome)
      /\ DOMAIN Append(d.outcomes, new) = 1..(Len(d.outcomes) + 1)
      /\ DOMAIN d.outcomes = 1..Len(d.outcomes)
      /\ \A n \in 1..Len(d.outcomes) : Append(d.outcomes, new)[n] = d.outcomes[n]
      /\ Append(d.outcomes, new)[Len(d.outcomes) + 1] = new
      /\ Len(d.outcomes) \in Nat
  BY <1>1, <1>2, AppendProperties, LenProperties DEF Databases
<1>5. /\ o \in Databases
      /\ o.rows = d.rows
      /\ o.orders = d.orders
      /\ o.outcomes = Append(d.outcomes, new)
  BY <1>1, <1>3, <1>4 DEF Databases
<1>6. IdsOf(o) = IdsOf(d)
  BY <1>5 DEF IdsOf
<1>7. new.pos = id
  OBVIOUS
<1>8. \A n \in DOMAIN o.outcomes :
        \/ n \in DOMAIN d.outcomes /\ o.outcomes[n] = d.outcomes[n]
        \/ n = Len(d.outcomes) + 1 /\ o.outcomes[n].pos = id
  BY <1>4, <1>5, <1>7
<1>9. OneOutcomeEach(o)
  BY <1>5, <1>6, <1>8 DEF DbOK, OneOutcomeEach
<1>10. OneRowPerDirection(o) /\ RowSigns(o) /\ DOMAIN o.rows \subseteq IdsOf(o)
  BY <1>5, <1>6 DEF DbOK, OneRowPerDirection, RowSigns
<1> QED
  BY <1>5, <1>9, <1>10 DEF DbOK

\* The cash of a snapshot and the row of the risk state are numbers.
LEMMA NumberCommit ==
  ASSUME NEW d, DbOK(d), NEW amount \in Int
  PROVE  /\ DbOK(WithCash(d, amount)) /\ WithCash(d, amount).rows = d.rows
         /\ DbOK(WithLoss(d, amount)) /\ WithLoss(d, amount).rows = d.rows
<1>1. d \in Databases
  BY DEF DbOK
<1> DEFINE c == WithCash(d, amount)
           l == WithLoss(d, amount)
<1>2. /\ c \in Databases
      /\ c.rows = d.rows /\ c.orders = d.orders /\ c.outcomes = d.outcomes
  BY <1>1 DEF WithCash, Databases
<1>3. /\ l \in Databases
      /\ l.rows = d.rows /\ l.orders = d.orders /\ l.outcomes = d.outcomes
  BY <1>1 DEF WithLoss, Databases
<1> HIDE DEF c, l
<1>4. DbOK(c)
  BY <1>2 DEF DbOK, OneRowPerDirection, RowSigns, OneOutcomeEach, IdsOf
<1>5. DbOK(l)
  BY <1>3 DEF DbOK, OneRowPerDirection, RowSigns, OneOutcomeEach, IdsOf
<1> QED
  BY <1>2, <1>3, <1>4, <1>5 DEF c, l

\* update_order_realized_pnl rewrites a number in the last order.
LEMMA StampCommit ==
  ASSUME NEW d, DbOK(d), NEW pnl \in Int
  PROVE  DbOK(WithStamp(d, pnl)) /\ WithStamp(d, pnl).rows = d.rows
<1> DEFINE last == Len(d.orders)
           orders == [d.orders EXCEPT ![last].pnl = pnl]
           s == WithStamp(d, pnl)
<1>1. d \in Databases
  BY DEF DbOK
<1>2. /\ d.orders \in Seq(Order)
      /\ last \in Nat
      /\ DOMAIN d.orders = 1..last
      /\ \A n \in 1..last : d.orders[n] \in Order
  BY <1>1, LenProperties, ElementOfSeq DEF Databases
<1>3. /\ orders \in Seq(Order)
      /\ DOMAIN orders = DOMAIN d.orders
      /\ \A n \in DOMAIN d.orders : orders[n].pos = d.orders[n].pos
  <2>1. CASE last = 0
    <3>1. orders = d.orders
      BY <1>2, <2>1
    <3> QED
      BY <1>2, <3>1
  <2>2. CASE last # 0
    <3>1. last \in 1..last
      BY <1>2, <2>2
    <3>2. [d.orders[last] EXCEPT !.pnl = pnl] \in Order
      BY <1>2, <3>1 DEF Order
    <3>3. orders = [d.orders EXCEPT ![last] = [d.orders[last] EXCEPT !.pnl = pnl]]
      OBVIOUS
    <3>4. orders \in Seq(Order)
      BY <1>2, <3>1, <3>2, <3>3, ExceptSeq
    <3>5. [d.orders[last] EXCEPT !.pnl = pnl].pos = d.orders[last].pos
      BY <1>2, <3>1 DEF Order
    <3> QED
      BY <1>2, <3>1, <3>3, <3>4, <3>5
  <2> QED
    BY <2>1, <2>2
<1>4. s = [d EXCEPT !.orders = orders]
  BY <1>1 DEF WithStamp, Databases
<1>5. /\ s \in Databases
      /\ s.rows = d.rows
      /\ s.outcomes = d.outcomes
      /\ s.orders = orders
  BY <1>1, <1>3, <1>4 DEF Databases
<1>6. IdsOf(s) = IdsOf(d)
  BY <1>3, <1>5 DEF IdsOf
<1> HIDE DEF s
<1>7. DbOK(s)
  BY <1>5, <1>6 DEF DbOK, OneRowPerDirection, RowSigns, OneOutcomeEach
<1> QED
  BY <1>5, <1>7 DEF s

-----------------------------------------------------------------------------
(* The commits of a close, in order.                                       *)

\* The order of a close and the removal of its row.
LEMMA RemovalCommits ==
  ASSUME NEW d, DbOK(d), NEW id \in DOMAIN d.rows, NEW pos \in Position,
         NEW direction \in Directions, NEW idea \in Ideas \cup {NoIdea}
  PROVE  LET rm == Removal(d, id, pos, direction, idea)
         IN  /\ DbOK(rm.ordered)
             /\ DbOK(rm.removed)
             /\ rm.removed.rows = [i \in DOMAIN d.rows \ {id} |-> d.rows[i]]
             /\ id \in IdsOf(rm.removed)
             /\ \A n \in DOMAIN rm.removed.outcomes : rm.removed.outcomes[n].pos # id
<1> DEFINE o == WithOrder(d, id, "close", pos.market, direction, idea)
           r == WithoutRow(o, id)
<1>1. id \in PosIds /\ pos.market \in Markets
  BY ByIdElim DEF DbOK, Databases, Position
<1>2. /\ DbOK(o)
      /\ o.rows = d.rows
      /\ o.outcomes = d.outcomes
      /\ IdsOf(o) = IdsOf(d) \cup {id}
  BY <1>1, OrderCommit
<1> HIDE DEF o
<1>3. /\ DbOK(r)
      /\ r.rows = [i \in DOMAIN d.rows \ {id} |-> d.rows[i]]
      /\ r.outcomes = d.outcomes
      /\ IdsOf(r) = IdsOf(d) \cup {id}
  BY <1>2, RemoveRowCommit
<1>4. \A n \in DOMAIN d.outcomes : d.outcomes[n].pos # id
  BY DEF DbOK, OneOutcomeEach
<1> QED
  BY <1>2, <1>3, <1>4 DEF Removal, o

\* The outcome, the loss and the stamp of a close.
LEMMA SettlementCommits ==
  ASSUME NEW d, DbOK(d), NEW id \in IdsOf(d), NEW pos \in Position,
         NEW pnl \in Int, NEW reason \in Reasons, dailyLoss \in Int,
         id \in PosIds,
         id \notin DOMAIN d.rows,
         \A n \in DOMAIN d.outcomes : d.outcomes[n].pos # id
  PROVE  LET st == Settlement(d, id, pos, pnl, reason)
         IN  /\ DbOK(st.settled)
             /\ DbOK(st.counted)
             /\ DbOK(st.stamped) /\ st.stamped.rows = d.rows
<1> DEFINE settled == WithOutcome(d, id, pos, pnl, reason)
           counted == WithLoss(settled, dailyLoss + LossOf(pnl))
<1>1. DbOK(settled) /\ settled.rows = d.rows
  BY OutcomeCommit
<1>2. dailyLoss + LossOf(pnl) \in Int
  BY DEF LossOf
<1> HIDE DEF settled
<1>3. DbOK(counted) /\ counted.rows = d.rows
  BY <1>1, <1>2, NumberCommit
<1> HIDE DEF counted
<1>4. /\ DbOK(WithStamp(counted, pnl))
      /\ WithStamp(counted, pnl).rows = d.rows
  BY <1>3, StampCommit
<1> QED
  BY <1>1, <1>3, <1>4 DEF Settlement, settled, counted

-----------------------------------------------------------------------------
(* Amounts are integers.                                                   *)

\* Fill and exit prices.
LEMMA PriceTypes ==
  ASSUME NEW direction, NEW quote \in Int, NEW pos \in Position
  PROVE  /\ FillPrice(direction, quote) \in Int
         /\ ExitAt(pos, quote) \in Int
         /\ ExitAtEntry(pos) \in Int
<1>1. \A side : \A q \in Int : FillPrice(side, q) \in Int
  BY RatesAssumption DEF FillPrice
<1>2. pos.avgPrice \in Int
  BY DEF Position
<1> QED
  BY <1>1, <1>2, RatesAssumption DEF ExitAt, ExitAtEntry

\* Values, fees and sizes.
LEMMA AmountTypes ==
  ASSUME NEW size \in Int, NEW price \in Int
  PROVE  /\ FillValue(size, price) \in Int
         /\ Fee(size, price) \in Int
         /\ Abs(size) \in Int
         /\ -size \in Int
BY RatesAssumption DEF FillValue, Fee, Abs

\* Result and proceeds of a close.
LEMMA CloseTypes ==
  ASSUME NEW pos \in Position, NEW price \in Int, NEW fee \in Int, cash \in Int
  PROVE  /\ RealisedPnl(pos, price, fee) \in Int
         /\ LossOf(RealisedPnl(pos, price, fee)) \in Int
         /\ ClosePnl(pos, price) \in Int
         /\ CloseCash(pos, price) \in Int
<1>1. /\ pos.size \in Int /\ Abs(pos.size) \in Int
      /\ pos.avgPrice \in Int /\ pos.entryFee \in Int
  BY AmountTypes DEF Position
<1>2. \A f \in Int : RealisedPnl(pos, price, f) \in Int
  BY <1>1, RatesAssumption DEF RealisedPnl
<1>3. ClosingCredit(pos, price) \in Int
  <2>1. /\ FillValue(Abs(pos.size), price) \in Int
        /\ FillValue(Abs(pos.size), pos.avgPrice) \in Int
        /\ Fee(Abs(pos.size), price) \in Int
    BY <1>1, AmountTypes
  <2> QED
    BY <2>1 DEF ClosingCredit
<1>4. Fee(Abs(pos.size), price) \in Int
  BY <1>1, AmountTypes
<1> QED
  BY <1>2, <1>3, <1>4 DEF LossOf, ClosePnl, CloseCash

-----------------------------------------------------------------------------
(* The two ways a handler ends.                                            *)

\* A restart from a consistent database rebuilds an engine that matches it.
LEMMA CrashStep ==
  ASSUME Inv, NEW d, DbOK(d), RestartFrom(d)
  PROVE  Inv'
<1> DEFINE rows == d.rows
<1>1. /\ d \in Databases
      /\ rows \in ById(Row)
      /\ DOMAIN rows \subseteq PosIds
      /\ rows \in [DOMAIN rows -> Row]
  BY ByIdElim DEF DbOK, Databases
<1>2. \A id \in DOMAIN rows : Restored(d)[id] \in Position /\ RowOf(Restored(d)[id]) = rows[id]
  <2> SUFFICES ASSUME NEW id \in DOMAIN rows
               PROVE  Restored(d)[id] \in Position /\ RowOf(Restored(d)[id]) = rows[id]
    OBVIOUS
  <2>1. rows[id] \in Row
    BY <1>1
  <2>2. Restored(d)[id] = [market |-> rows[id].market, size |-> rows[id].size,
                           avgPrice |-> rows[id].avgPrice,
                           direction |-> rows[id].direction,
                           idea |-> rows[id].idea, entryFee |-> 0, best |-> NoMark]
    BY DEF Restored
  <2>3. Restored(d)[id] \in Position
    BY <2>1, <2>2 DEF Position, Row, NoMark
  <2>4. RowOf(Restored(d)[id]) = rows[id]
    BY <2>1, <2>2 DEF Row, RowOf
  <2> QED
    BY <2>3, <2>4
<1>3. DOMAIN Restored(d) = DOMAIN rows
  BY DEF Restored
<1>4. Restored(d) \in ById(Position)
  <2>1. Restored(d) \in [DOMAIN rows -> Position]
    BY <1>2 DEF Restored
  <2> QED
    BY <1>1, <2>1, ByIdIntro
<1>5. rows = [id \in DOMAIN Restored(d) |-> RowOf(Restored(d)[id])]
  BY <1>1, <1>2, <1>3
<1>6. LearnedFrom(d) \subseteq [pos : PosIds, idea : Ideas, direction : Directions]
  <2>1. \A n \in DOMAIN d.outcomes : d.outcomes[n] \in Outcome
    BY <1>1, LenProperties, ElementOfSeq DEF Databases
  <2> QED
    BY <2>1 DEF LearnedFrom, Outcome
<1>7. d.cash \in Int /\ d.loss \in Int
  BY <1>1 DEF Databases
<1>8. [m \in Markets |-> NoQuote] \in [Markets -> Quotes \cup {NoQuote}]
  OBVIOUS
<1>9. restarts' \in 0..MaxRestarts
  BY PaperAssumption DEF Inv, MemoryOK, RestartFrom
<1>10. MemoryOK'
  BY <1>4, <1>6, <1>7, <1>8, <1>9 DEF RestartFrom, MemoryOK
<1>11. DbOK(db)'
  BY DEF RestartFrom, DbOK, OneRowPerDirection, RowSigns, OneOutcomeEach, IdsOf
<1>12. RowsMatchBook'
  BY <1>5 DEF RestartFrom, RowsMatchBook
<1> QED
  BY <1>10, <1>11, <1>12 DEF Inv

\* A handler that runs to its end on a consistent database, with a book that
\* mirrors the rows.
LEMMA CompleteStep ==
  ASSUME Inv, NEW d, DbOK(d), NEW newCash \in Int, NEW book \in ById(Position),
         NEW newLoss \in Int, NEW lessons,
         lessons \subseteq [pos : PosIds, idea : Ideas, direction : Directions],
         d.rows = [id \in DOMAIN book |-> RowOf(book[id])],
         Completes(d, newCash, book, newLoss, lessons),
         loopPc' \in {"idle", "account", "trim", "scan", "alert"},
         scan' \subseteq PosIds,
         resetting' \in BOOLEAN
  PROVE  Inv'
<1>1. MemoryOK'
  BY DEF Inv, MemoryOK, Completes
<1>2. DbOK(db)'
  BY DEF Completes, DbOK, OneRowPerDirection, RowSigns, OneOutcomeEach, IdsOf
<1>3. RowsMatchBook'
  BY DEF Completes, RowsMatchBook
<1> QED
  BY <1>1, <1>2, <1>3 DEF Inv

-----------------------------------------------------------------------------
(* One lemma per action.                                                   *)

\* What the invariant says of one open position.
LEMMA OpenPosition ==
  ASSUME Inv, NEW id \in DOMAIN positions
  PROVE  /\ id \in PosIds
         /\ positions[id] \in Position
         /\ id \in DOMAIN db.rows
         /\ DOMAIN db.rows = DOMAIN positions
         /\ db.rows[id] = RowOf(positions[id])
<1>1. /\ DOMAIN positions \subseteq PosIds
      /\ positions \in [DOMAIN positions -> Position]
  BY ByIdElim DEF Inv, MemoryOK
<1>2. db.rows = [i \in DOMAIN positions |-> RowOf(positions[i])]
  BY DEF Inv, RowsMatchBook
<1> QED
  BY <1>1, <1>2

\* Without the closed position the engine holds what is left of the rows.
LEMMA WithoutBook ==
  ASSUME Inv, NEW id \in DOMAIN positions
  PROVE  /\ Without(id) \in ById(Position)
         /\ [i \in DOMAIN db.rows \ {id} |-> db.rows[i]]
              = [i \in DOMAIN Without(id) |-> RowOf(Without(id)[i])]
<1>1. /\ DOMAIN positions \subseteq PosIds
      /\ positions \in [DOMAIN positions -> Position]
  BY ByIdElim DEF Inv, MemoryOK
<1>2. Without(id) \in [DOMAIN positions \ {id} -> Position]
  BY <1>1 DEF Without
<1>3. Without(id) \in ById(Position)
  BY <1>1, <1>2, ByIdIntro
<1>4. db.rows = [i \in DOMAIN positions |-> RowOf(positions[i])]
  BY DEF Inv, RowsMatchBook
<1>5. /\ DOMAIN Without(id) = DOMAIN positions \ {id}
      /\ \A i \in DOMAIN positions \ {id} : Without(id)[i] = positions[i]
  BY DEF Without
<1>6. /\ DOMAIN db.rows = DOMAIN positions
      /\ \A i \in DOMAIN positions : db.rows[i] = RowOf(positions[i])
  BY <1>4
<1> QED
  BY <1>3, <1>5, <1>6

\* Quotes, order sizes, cash and the loss of the day are numbers.
LEMMA ScalarTypes ==
  ASSUME Inv
  PROVE  /\ \A m \in Markets : prices[m] \in Int
         /\ \A size \in Sizes : size \in Int /\ size > 0
         /\ cash \in Int
         /\ dailyLoss \in Int
<1>1. Quotes \cup {NoQuote} \subseteq Int
  BY PaperAssumption DEF NoQuote
<1>2. /\ prices \in [Markets -> Quotes \cup {NoQuote}]
      /\ cash \in Int
      /\ dailyLoss \in Int
  BY DEF Inv, MemoryOK
<1>3. \A size \in Sizes : size \in Int /\ size > 0
  BY PaperAssumption
<1> QED
  BY <1>1, <1>2, <1>3

\* A signal or an approval that opens a position.
LEMMA OpenStep ==
  ASSUME Inv, NEW route \in Routes, NEW m \in Markets, NEW direction \in Directions,
         NEW size \in Sizes, NEW idea \in Ideas, NEW id \in PosIds,
         OpenBySignal(route, m, direction, size, idea, id)
  PROVE  Inv'
<1> DEFINE price   == FillPrice(direction, prices[m])
           pos     == Opened(m, direction, size, price, idea)
           newCash == cash - OpeningCost(direction, size, price)
           ordered == WithOrder(db, id, "open", m, direction, idea)
           stored  == WithRow(ordered, id, pos)
           opened  == [i \in DOMAIN positions \cup {id} |->
                         IF i = id THEN pos ELSE positions[i]]
<1>1. prices[m] \in Int /\ size \in Int /\ size > 0 /\ cash \in Int
  BY ScalarTypes
<1>2. price \in Int
  BY <1>1, RatesAssumption DEF FillPrice
<1> HIDE DEF price
<1>3. newCash \in Int
  <2>1. OpeningCost(direction, size, price) \in Int
    <3>1. FillValue(size, price) \in Int /\ Fee(size, price) \in Int
      BY <1>1, <1>2, AmountTypes
    <3> QED
      BY <3>1 DEF OpeningCost
  <2> QED
    BY <1>1, <2>1
<1>4. pos \in Position
  BY <1>1, <1>2, AmountTypes DEF Opened, Position
<1>5. /\ pos.market = m
      /\ pos.direction = direction
      /\ IF pos.direction = "long" THEN pos.size > 0 ELSE pos.size < 0
  BY <1>1 DEF Opened, Directions
<1>6. /\ DOMAIN positions \subseteq PosIds
      /\ positions \in [DOMAIN positions -> Position]
  BY ByIdElim DEF Inv, MemoryOK
<1>7. /\ DOMAIN db.rows = DOMAIN positions
      /\ \A i \in DOMAIN positions : db.rows[i] = RowOf(positions[i])
  BY DEF Inv, RowsMatchBook
<1>8. /\ DbOK(db)
      /\ id \notin IdsOf(db)
  BY DEF Inv, OpenBySignal, IsFresh, UsedIds, IdsOf
<1>9. /\ id \notin DOMAIN db.rows
      /\ \A n \in DOMAIN db.outcomes : db.outcomes[n].pos # id
  BY <1>8 DEF DbOK, OneOutcomeEach
<1>10. \A i \in DOMAIN db.rows : ~(/\ db.rows[i].market = pos.market
                                   /\ db.rows[i].direction = pos.direction)
  <2> SUFFICES ASSUME NEW i \in DOMAIN db.rows,
                      db.rows[i].market = m, db.rows[i].direction = direction
               PROVE  FALSE
    BY <1>5
  <2>1. /\ positions[i].market = m
        /\ positions[i].size = db.rows[i].size
        /\ i \in DOMAIN positions
    <3>1. i \in DOMAIN positions /\ db.rows[i] = RowOf(positions[i])
      BY <1>7
    <3>2. /\ RowOf(positions[i]).market = positions[i].market
          /\ RowOf(positions[i]).size = positions[i].size
      BY DEF RowOf
    <3> QED
      BY <3>1, <3>2
  <2>2. IF direction = "long" THEN positions[i].size > 0 ELSE positions[i].size < 0
    BY <1>8, <2>1 DEF DbOK, RowSigns
  <2>3. CanFill(positions, cash, m, direction, size, price)
    BY DEF OpenBySignal, Admitted, price
  <2>4. CASE direction = "long"
    <3>1. Longs(positions, m) = {}
      BY <2>3, <2>4 DEF CanFill
    <3> QED
      BY <2>1, <2>2, <2>4, <3>1 DEF Longs
  <2>5. CASE direction = "short"
    <3>1. Longs(positions, m) = {}
      BY <2>5 DEF OpenBySignal
    <3>2. Shorts(positions, m) = {}
      BY <2>3, <2>5, <3>1 DEF CanFill
    <3> QED
      BY <2>1, <2>2, <2>5, <3>2 DEF Shorts
  <2> QED
    BY <2>4, <2>5 DEF Directions
<1>11. /\ DbOK(ordered)
       /\ ordered.rows = db.rows
       /\ ordered.outcomes = db.outcomes
       /\ id \in IdsOf(ordered)
  BY <1>8, OrderCommit
<1> HIDE DEF pos, ordered
<1>12. /\ DbOK(stored)
       /\ stored.rows = [i \in DOMAIN db.rows \cup {id} |->
                           IF i = id THEN RowOf(pos) ELSE db.rows[i]]
  BY <1>4, <1>5, <1>9, <1>10, <1>11, OpenRowCommit
<1> HIDE DEF stored, newCash
<1>13. opened \in ById(Position)
  <2>1. opened \in [DOMAIN positions \cup {id} -> Position]
    BY <1>4, <1>6
  <2> QED
    BY <1>6, <2>1, ByIdIntro
<1>14. stored.rows = [i \in DOMAIN opened |-> RowOf(opened[i])]
  BY <1>7, <1>12
<1>15. /\ DbOK(WithCash(stored, newCash))
       /\ WithCash(stored, newCash).rows = stored.rows
  BY <1>3, <1>12, NumberCommit
<1> HIDE DEF opened
<1>16. ASSUME Completes(WithCash(stored, newCash), newCash, opened, dailyLoss, learned),
              UNCHANGED <<loopPc, scan, resetting>>
       PROVE  Inv'
  BY <1>3, <1>13, <1>14, <1>15, <1>16, CompleteStep DEF Inv, MemoryOK
<1>17. ASSUME CrashesIn({ordered, stored})
       PROVE  Inv'
  BY <1>11, <1>12, <1>17, CrashStep DEF CrashesIn
<1> QED
  BY <1>16, <1>17 DEF OpenBySignal, price, pos, newCash, ordered, stored, opened

\* A signal or an approval that closes the long position of its market.
LEMMA CloseBySignalStep ==
  ASSUME Inv, NEW route \in Routes, NEW m \in Markets,
         NEW size \in Sizes, NEW idea \in Ideas, NEW id \in PosIds,
         CloseBySignal(route, m, size, idea, id)
  PROVE  Inv'
<1> DEFINE price   == FillPrice("short", prices[m])
           pos     == positions[id]
           fee     == Fee(size, price)
           pnl     == RealisedPnl(pos, price, fee)
           newCash == cash + FillValue(size, price) - fee
           rm      == Removal(db, id, pos, "short", idea)
           paid    == WithCash(rm.removed, newCash)
           auto    == Settlement(rm.removed, id, pos, pnl, route)
           manual  == Settlement(paid, id, pos, pnl, route)
           final   == IF route = "auto" THEN WithCash(auto.stamped, newCash)
                                        ELSE manual.stamped
           partial == IF route = "auto"
                      THEN {rm.ordered, rm.removed, auto.settled, auto.counted, auto.stamped}
                      ELSE {rm.ordered, rm.removed, paid, manual.settled, manual.counted}
           taught  == learned \cup {Lesson(id, idea, "short")}
<1>1. /\ prices[m] \in Int /\ size \in Int /\ cash \in Int
      /\ dailyLoss \in Int
  BY ScalarTypes
<1>2. id \in DOMAIN positions
  BY DEF CloseBySignal, IsOldest, Longs
<1>3. pos \in Position /\ id \in DOMAIN db.rows
  BY <1>2, OpenPosition
<1>4. price \in Int
  BY <1>1, RatesAssumption DEF FillPrice
<1> HIDE DEF price, pos
<1>5. fee \in Int /\ newCash \in Int
  <2>1. Fee(size, price) \in Int /\ FillValue(size, price) \in Int
    BY <1>1, <1>4, AmountTypes
  <2> QED
    BY <1>1, <2>1
<1> HIDE DEF fee, newCash
<1>6. pnl \in Int /\ dailyLoss + LossOf(pnl) \in Int
  BY <1>1, <1>3, <1>4, <1>5, CloseTypes
<1> HIDE DEF pnl
<1>7. /\ DbOK(rm.ordered)
      /\ DbOK(rm.removed)
      /\ rm.removed.rows = [i \in DOMAIN db.rows \ {id} |-> db.rows[i]]
      /\ id \in IdsOf(rm.removed)
      /\ \A n \in DOMAIN rm.removed.outcomes : rm.removed.outcomes[n].pos # id
  BY <1>3, RemovalCommits DEF Inv, Directions
<1> HIDE DEF rm
<1>8. /\ DbOK(paid)
      /\ paid.rows = rm.removed.rows
      /\ IdsOf(paid) = IdsOf(rm.removed)
      /\ paid.outcomes = rm.removed.outcomes
  <2>1. /\ DbOK(paid)
        /\ paid.rows = rm.removed.rows
    BY <1>5, <1>7, NumberCommit
  <2>2. rm.removed \in Databases
    BY <1>7 DEF DbOK
  <2>3. /\ paid.orders = rm.removed.orders
        /\ paid.outcomes = rm.removed.outcomes
    BY <2>2 DEF WithCash, Databases
  <2> QED
    BY <2>1, <2>3 DEF IdsOf
<1>9. id \notin DOMAIN rm.removed.rows /\ route \in Reasons
  BY <1>7 DEF Reasons
<1>10. /\ DbOK(auto.settled) /\ DbOK(auto.counted) /\ DbOK(auto.stamped)
       /\ auto.stamped.rows = rm.removed.rows
  BY <1>1, <1>3, <1>6, <1>7, <1>9, SettlementCommits
<1> HIDE DEF paid
<1>11. /\ DbOK(manual.settled) /\ DbOK(manual.counted) /\ DbOK(manual.stamped)
       /\ manual.stamped.rows = rm.removed.rows
  BY <1>1, <1>3, <1>6, <1>7, <1>8, <1>9, SettlementCommits
<1> HIDE DEF auto, manual
<1>12. DbOK(final) /\ final.rows = rm.removed.rows
  BY <1>5, <1>10, <1>11, NumberCommit
<1>13. \A d \in partial : DbOK(d)
  BY <1>7, <1>8, <1>10, <1>11
<1>14. taught \subseteq [pos : PosIds, idea : Ideas, direction : Directions]
  BY DEF Inv, MemoryOK, Lesson, Directions
<1> HIDE DEF final, partial, taught
<1>15. /\ Without(id) \in ById(Position)
       /\ final.rows = [i \in DOMAIN Without(id) |-> RowOf(Without(id)[i])]
  BY <1>2, <1>7, <1>12, WithoutBook
<1>16. ASSUME Completes(final, newCash, Without(id), dailyLoss + LossOf(pnl), taught),
              UNCHANGED <<loopPc, scan, resetting>>
       PROVE  Inv'
  BY <1>5, <1>6, <1>12, <1>14, <1>15, <1>16, CompleteStep DEF Inv, MemoryOK
<1>17. ASSUME CrashesIn(partial)
       PROVE  Inv'
  BY <1>13, <1>17, CrashStep DEF CrashesIn
<1> QED
  BY <1>16, <1>17 DEF CloseBySignal, price, pos, fee, pnl, newCash, rm, paid, auto,
                      manual, final, partial, taught

\* What every targeted close has in common.
LEMMA TargetedClose ==
  ASSUME Inv, NEW id \in DOMAIN positions, NEW price \in Int, NEW reason \in Reasons
  PROVE  LET st == CloseSettlement(id, positions[id], price, reason)
         IN  /\ DbOK(st.stamped)
             /\ st.stamped.rows = [i \in DOMAIN Without(id) |-> RowOf(Without(id)[i])]
             /\ CloseCrashes(id, positions[id], price, reason) => Inv'
<1> DEFINE pos == positions[id]
           rm == Removal(db, id, pos, ExitDirection(pos), NoIdea)
           st == CloseSettlement(id, pos, price, reason)
<1>1. /\ pos \in Position
      /\ id \in PosIds
      /\ id \in DOMAIN db.rows
      /\ DbOK(db)
  BY OpenPosition DEF Inv
<1>2. cash \in Int /\ dailyLoss \in Int
  BY ScalarTypes
<1> HIDE DEF pos
<1>3. ClosePnl(pos, price) \in Int
  <2>1. 0 \in Int
    OBVIOUS
  <2> QED
    BY <1>1, <1>2, <2>1, CloseTypes
<1>4. ExitDirection(pos) \in Directions
  BY DEF ExitDirection, Directions
<1>5. /\ DbOK(rm.ordered)
      /\ DbOK(rm.removed)
      /\ rm.removed.rows = [i \in DOMAIN db.rows \ {id} |-> db.rows[i]]
      /\ id \in IdsOf(rm.removed)
      /\ \A n \in DOMAIN rm.removed.outcomes : rm.removed.outcomes[n].pos # id
  <2> DEFINE side == ExitDirection(pos)
  <2>1. NoIdea \in Ideas \cup {NoIdea}
    OBVIOUS
  <2>2. side \in Directions
    BY <1>4
  <2> HIDE DEF side
  <2>3. LET r == Removal(db, id, pos, side, NoIdea)
        IN  /\ DbOK(r.ordered)
            /\ DbOK(r.removed)
            /\ r.removed.rows = [i \in DOMAIN db.rows \ {id} |-> db.rows[i]]
            /\ id \in IdsOf(r.removed)
            /\ \A n \in DOMAIN r.removed.outcomes : r.removed.outcomes[n].pos # id
    BY <1>1, <2>1, <2>2, RemovalCommits
  <2> QED
    BY <2>3 DEF side
<1>6. id \notin DOMAIN rm.removed.rows
  BY <1>5
<1> HIDE DEF rm
<1>7. st = Settlement(rm.removed, id, pos, ClosePnl(pos, price), reason)
  BY DEF CloseSettlement, CloseRemoval, rm
<1>8. /\ DbOK(st.settled)
      /\ DbOK(st.counted)
      /\ DbOK(st.stamped) /\ st.stamped.rows = rm.removed.rows
  BY <1>1, <1>2, <1>3, <1>5, <1>6, <1>7, SettlementCommits
<1>9. rm.removed.rows = [i \in DOMAIN Without(id) |-> RowOf(Without(id)[i])]
  BY <1>5, WithoutBook
<1> HIDE DEF st
<1>10. ASSUME CloseCrashes(id, pos, price, reason)
       PROVE  Inv'
  <2>1. CrashesIn({rm.ordered, rm.removed, st.settled, st.counted})
    BY <1>10 DEF CloseCrashes, CloseRemoval, rm, st
  <2> QED
    BY <1>5, <1>8, <2>1, CrashStep DEF CrashesIn
<1> QED
  BY <1>8, <1>9, <1>10 DEF st, pos

\* A close by id that ends, whatever asked for it.
LEMMA TargetedCloseCompletes ==
  ASSUME Inv, NEW id \in DOMAIN positions, NEW price \in Int, NEW final,
         DbOK(final),
         final.rows = [i \in DOMAIN Without(id) |-> RowOf(Without(id)[i])],
         CloseCompletes(final, id, positions[id], price),
         loopPc' \in {"idle", "account", "trim", "scan", "alert"},
         scan' \subseteq PosIds,
         resetting' \in BOOLEAN
  PROVE  Inv'
<1> DEFINE pos == positions[id]
<1>1. pos \in Position /\ id \in PosIds
  BY OpenPosition
<1>2. cash \in Int /\ dailyLoss \in Int
  BY ScalarTypes
<1>3. Without(id) \in ById(Position)
  BY WithoutBook
<1> HIDE DEF pos
<1>4. ClosePnl(pos, price) \in Int /\ CloseCash(pos, price) \in Int
  <2>1. 0 \in Int
    OBVIOUS
  <2> QED
    BY <1>1, <1>2, <2>1, CloseTypes
<1>5. dailyLoss + LossOf(ClosePnl(pos, price)) \in Int
  BY <1>2, <1>4 DEF LossOf
<1>6. learned \cup {Lesson(id, pos.idea, pos.direction)}
        \subseteq [pos : PosIds, idea : Ideas, direction : Directions]
  BY <1>1 DEF Inv, MemoryOK, Lesson, Position
<1>7. Completes(final, CloseCash(pos, price), Without(id),
                dailyLoss + LossOf(ClosePnl(pos, price)),
                learned \cup {Lesson(id, pos.idea, pos.direction)})
  BY DEF CloseCompletes, pos
<1> QED
  BY <1>3, <1>4, <1>5, <1>6, <1>7, CompleteStep

\* An operator closes a position.
LEMMA ManualCloseStep ==
  ASSUME Inv, NEW id \in PosIds, ManualClose(id)
  PROVE  Inv'
<1> DEFINE pos   == positions[id]
           price == ExitAt(pos, prices[pos.market])
           st    == CloseSettlement(id, pos, price, "manual_close")
<1>1. id \in DOMAIN positions
  BY DEF ManualClose
<1>2. pos \in Position
  BY <1>1, OpenPosition
<1>3. price \in Int
  <2>1. prices[pos.market] \in Int
    BY <1>2, ScalarTypes DEF Position
  <2> QED
    BY <1>2, <2>1, PriceTypes
<1>4. "manual_close" \in Reasons
  BY DEF Reasons
<1> HIDE DEF price
<1>5. /\ DbOK(st.stamped)
      /\ st.stamped.rows = [i \in DOMAIN Without(id) |-> RowOf(Without(id)[i])]
      /\ CloseCrashes(id, pos, price, "manual_close") => Inv'
  BY <1>1, <1>3, <1>4, TargetedClose
<1>6. CloseCash(pos, price) \in Int
  <2>1. 0 \in Int
    OBVIOUS
  <2> QED
    BY <1>2, <1>3, <2>1, CloseTypes, ScalarTypes
<1> DEFINE final == WithCash(st.stamped, CloseCash(pos, price))
<1> HIDE DEF st
<1>7. DbOK(final) /\ final.rows = st.stamped.rows
  BY <1>5, <1>6, NumberCommit
<1> HIDE DEF final
<1>8. ASSUME CloseCompletes(final, id, pos, price),
             UNCHANGED <<loopPc, scan, resetting>>
      PROVE  Inv'
  BY <1>1, <1>3, <1>5, <1>7, <1>8, TargetedCloseCompletes DEF Inv, MemoryOK
<1>9. ASSUME CrashesIn({st.stamped})
      PROVE  Inv'
  BY <1>5, <1>9, CrashStep DEF CrashesIn
<1> QED
  BY <1>5, <1>8, <1>9 DEF ManualClose, price, st, final

\* A reset closes one of the positions.
LEMMA ResetOneStep ==
  ASSUME Inv, NEW id \in PosIds, ResetOne(id)
  PROVE  Inv'
<1> DEFINE pos   == positions[id]
           price == IF prices[pos.market] = NoQuote THEN ExitAtEntry(pos)
                                                    ELSE ExitAt(pos, prices[pos.market])
           st    == CloseSettlement(id, pos, price, "operator_reset")
<1>1. id \in DOMAIN positions
  BY DEF ResetOne, IsOldest
<1>2. pos \in Position
  BY <1>1, OpenPosition
<1>3. price \in Int
  <2>1. prices[pos.market] \in Int
    BY <1>2, ScalarTypes DEF Position
  <2> QED
    BY <1>2, <2>1, PriceTypes
<1>4. "operator_reset" \in Reasons
  BY DEF Reasons
<1> HIDE DEF price
<1>5. /\ DbOK(st.stamped)
      /\ st.stamped.rows = [i \in DOMAIN Without(id) |-> RowOf(Without(id)[i])]
      /\ CloseCrashes(id, pos, price, "operator_reset") => Inv'
  BY <1>1, <1>3, <1>4, TargetedClose
<1> HIDE DEF st
<1>6. ASSUME CloseCompletes(st.stamped, id, pos, price),
             UNCHANGED <<loopPc, scan, resetting>>
      PROVE  Inv'
  BY <1>1, <1>3, <1>5, <1>6, TargetedCloseCompletes DEF Inv, MemoryOK
<1> QED
  BY <1>5, <1>6 DEF ResetOne, price, st

\* The stop pass closes a position whose stop is reached.
LEMMA StopCloseStep ==
  ASSUME Inv, NEW id \in PosIds, StopClose(id)
  PROVE  Inv'
<1> DEFINE pos    == positions[id]
           price  == ExitAt(pos, prices[pos.market])
           reason == StopReason(pos, prices[pos.market])
           st     == CloseSettlement(id, pos, price, reason)
<1>1. id \in DOMAIN positions
  BY DEF StopClose, Triggered
<1>2. pos \in Position
  BY <1>1, OpenPosition
<1>3. price \in Int
  <2>1. prices[pos.market] \in Int
    BY <1>2, ScalarTypes DEF Position
  <2> QED
    BY <1>2, <2>1, PriceTypes
<1>4. reason \in Reasons
  BY DEF StopReason, Reasons
<1> HIDE DEF price, reason
<1>5. /\ DbOK(st.stamped)
      /\ st.stamped.rows = [i \in DOMAIN Without(id) |-> RowOf(Without(id)[i])]
      /\ CloseCrashes(id, pos, price, reason) => Inv'
  BY <1>1, <1>3, <1>4, TargetedClose
<1> HIDE DEF st
<1>6. ASSUME CloseCompletes(st.stamped, id, pos, price),
             loopPc' = IF AlertWebhook THEN "alert" ELSE "scan",
             scan' = {later \in scan : later > id},
             UNCHANGED resetting
      PROVE  Inv'
  <2>1. /\ loopPc' \in {"idle", "account", "trim", "scan", "alert"}
        /\ scan' \subseteq PosIds
        /\ resetting' \in BOOLEAN
    BY <1>6 DEF Inv, MemoryOK
  <2> QED
    BY <1>1, <1>3, <1>5, <1>6, <2>1, TargetedCloseCompletes
<1> QED
  BY <1>5, <1>6 DEF StopClose, price, reason, st

\* A reset clears the tables and saves the cash.
LEMMA EndResetStep ==
  ASSUME Inv, EndReset
  PROVE  Inv'
<1> DEFINE cleared == [db EXCEPT !.rows = EmptyBook]
           final == WithCash(cleared, cash)
<1>1. db \in Databases /\ DbOK(db)
  BY DEF Inv, DbOK
<1>2. /\ EmptyBook \in ById(Row)
      /\ EmptyBook \in ById(Position)
      /\ DOMAIN EmptyBook = {}
  <2>1. \A S : EmptyBook \in [{} -> S]
    BY DEF EmptyBook
  <2>2. {} \in SUBSET PosIds
    OBVIOUS
  <2> QED
    BY <2>1, <2>2, ByIdIntro DEF EmptyBook
<1>3. /\ cleared \in Databases
      /\ cleared.rows = EmptyBook
      /\ cleared.orders = db.orders
      /\ cleared.outcomes = db.outcomes
  BY <1>1, <1>2 DEF Databases
<1>4. IdsOf(cleared) = IdsOf(db)
  BY <1>3 DEF IdsOf
<1> HIDE DEF cleared
<1>5. DbOK(cleared)
  BY <1>1, <1>2, <1>3, <1>4 DEF DbOK, OneRowPerDirection, RowSigns, OneOutcomeEach
<1>6. DbOK(final) /\ final.rows = EmptyBook
  BY <1>3, <1>5, NumberCommit, ScalarTypes
<1>7. EmptyBook = [i \in DOMAIN EmptyBook |-> RowOf(EmptyBook[i])]
  BY DEF EmptyBook
<1> HIDE DEF final
<1>8. ASSUME Completes(final, cash, EmptyBook, dailyLoss, learned),
             resetting' = FALSE,
             UNCHANGED <<loopPc, scan>>
      PROVE  Inv'
  <2>1. /\ loopPc' \in {"idle", "account", "trim", "scan", "alert"}
        /\ scan' \subseteq PosIds
        /\ resetting' \in BOOLEAN
        /\ learned \subseteq [pos : PosIds, idea : Ideas, direction : Directions]
    BY <1>8 DEF Inv, MemoryOK
  <2> QED
    BY <1>2, <1>6, <1>7, <1>8, <2>1, CompleteStep, ScalarTypes
<1>9. ASSUME CrashesIn({cleared})
      PROVE  Inv'
  BY <1>5, <1>9, CrashStep DEF CrashesIn
<1> QED
  BY <1>8, <1>9 DEF EndReset, cleared, final

\* Steps that leave the database alone, or only snapshot a cash balance.
LEMMA SnapshotStep ==
  ASSUME Inv, NEW amount \in Int, db' = db \/ db' = WithCash(db, amount),
         MemoryOK',
         DOMAIN positions' = DOMAIN positions,
         \A id \in DOMAIN positions : RowOf(positions'[id]) = RowOf(positions[id])
  PROVE  Inv'
<1>1. DbOK(db') /\ db'.rows = db.rows
  BY NumberCommit DEF Inv
<1>2. DbOK(db)'
  BY <1>1 DEF DbOK, OneRowPerDirection, RowSigns, OneOutcomeEach, IdsOf
<1>3. db.rows = [id \in DOMAIN positions |-> RowOf(positions[id])]
  BY DEF Inv, RowsMatchBook
<1>4. RowsMatchBook'
  BY <1>1, <1>3 DEF RowsMatchBook
<1> QED
  BY <1>2, <1>4 DEF Inv

\* The loop reads quotes and moves the trailing stops.
LEMMA TickStep ==
  ASSUME Inv, NEW quotes \in [Markets -> Quotes \cup {NoQuote}], Tick(quotes)
  PROVE  Inv'
<1>1. /\ DOMAIN positions \subseteq PosIds
      /\ positions \in [DOMAIN positions -> Position]
  BY ByIdElim DEF Inv, MemoryOK
<1>2. Quotes \cup {NoQuote} \subseteq Int
  BY PaperAssumption DEF NoQuote
<1>3. \A pos \in Position, quote \in Int :
         Marked(pos, quote) \in Position /\ RowOf(Marked(pos, quote)) = RowOf(pos)
  <2> SUFFICES ASSUME NEW pos \in Position, NEW quote \in Int
               PROVE  Marked(pos, quote) \in Position /\ RowOf(Marked(pos, quote)) = RowOf(pos)
    OBVIOUS
  <2>1. quote * Scale \in Int
    BY RatesAssumption
  <2> QED
    BY <2>1 DEF Marked, Position, RowOf
<1>4. \A id \in DOMAIN positions :
         /\ positions[id] \in Position
         /\ quotes[positions[id].market] \in Int
  BY <1>1, <1>2 DEF Position
<1>5. /\ DOMAIN positions' = DOMAIN positions
      /\ \A id \in DOMAIN positions :
           /\ positions'[id] = Marked(positions[id], quotes[positions[id].market])
  BY DEF Tick
<1>6. \A id \in DOMAIN positions :
         positions'[id] \in Position /\ RowOf(positions'[id]) = RowOf(positions[id])
  BY <1>3, <1>4, <1>5
<1>7. positions' \in ById(Position)
  <2>1. positions' \in [DOMAIN positions -> Position]
    BY <1>6 DEF Tick
  <2> QED
    BY <1>1, <2>1, ByIdIntro
<1>8. MemoryOK'
  <2>1. scan' \subseteq PosIds /\ loopPc' \in {"idle", "account", "trim", "scan", "alert"}
    BY <1>1, <1>5 DEF Tick, ToStopPass, Inv, MemoryOK
  <2> QED
    BY <1>7, <2>1 DEF Tick, Inv, MemoryOK
<1>9. db' = db \/ db' = WithCash(db, cash)
  BY DEF Tick
<1> QED
  BY <1>5, <1>6, <1>8, <1>9, SnapshotStep, ScalarTypes

\* The steps that leave the positions as they are.
LEMMA QuietStep ==
  ASSUME Inv,
         \/ BeginReset
         \/ \E m \in Markets, q \in Quotes : StreamQuote(m, q)
         \/ \E balance \in LiveBalances : EquityTick(balance) \/ AccountAnswered(balance)
         \/ TrimDone
         \/ AlertSent
         \/ EndScan
         \/ UNCHANGED vars
  PROVE  Inv'
<1> USE DEF Inv, MemoryOK, account, vars
<1>1. \A balance \in LiveBalances : balance \in Int
  BY PaperAssumption DEF LiveBalances
<1>2. DOMAIN positions \subseteq PosIds
  BY ByIdElim
<1>3. CASE BeginReset
  BY <1>3, ScalarTypes, SnapshotStep DEF BeginReset
<1>4. ASSUME NEW m \in Markets, NEW q \in Quotes, StreamQuote(m, q)
      PROVE  Inv'
  <2>1. prices' \in [Markets -> Quotes \cup {NoQuote}]
    BY <1>4 DEF StreamQuote
  <2> QED
    BY <1>4, <2>1, ScalarTypes, SnapshotStep DEF StreamQuote
<1>5. ASSUME NEW balance \in LiveBalances, EquityTick(balance)
      PROVE  Inv'
  BY <1>1, <1>5, ScalarTypes, SnapshotStep DEF EquityTick
<1>6. ASSUME NEW balance \in LiveBalances, AccountAnswered(balance)
      PROVE  Inv'
  BY <1>1, <1>2, <1>6, SnapshotStep DEF AccountAnswered, ToStopPass
<1>7. CASE TrimDone
  BY <1>2, <1>7, ScalarTypes, SnapshotStep DEF TrimDone
<1>8. CASE AlertSent
  BY <1>8, ScalarTypes, SnapshotStep DEF AlertSent
<1>9. CASE EndScan
  BY <1>9, ScalarTypes, SnapshotStep DEF EndScan
<1>10. CASE UNCHANGED vars
  BY <1>10, ScalarTypes, SnapshotStep
<1> QED
  BY <1>3, <1>4, <1>5, <1>6, <1>7, <1>8, <1>9, <1>10

-----------------------------------------------------------------------------
(* The invariant.                                                          *)

\* The first start, on an empty database.
LEMMA InitInv ==
  ASSUME Init
  PROVE  Inv
<1>1. EmptyBook \in ById(Position) /\ EmptyBook \in ById(Row)
  <2>1. \A S : EmptyBook \in [{} -> S]
    BY DEF EmptyBook
  <2> QED
    BY <2>1, ByIdIntro
<1>2. << >> \in Seq(Order) /\ << >> \in Seq(Outcome) /\ DOMAIN << >> = {}
  OBVIOUS
<1>3. db \in Databases
  BY <1>1, <1>2, PaperAssumption DEF Init, Databases
<1>4. db.rows = EmptyBook /\ db.orders = << >> /\ db.outcomes = << >> /\ DOMAIN EmptyBook = {}
  BY DEF Init, EmptyBook
<1>5. DbOK(db)
  BY <1>2, <1>3, <1>4 DEF DbOK, OneRowPerDirection, RowSigns, OneOutcomeEach
<1>6. MemoryOK
  <2>1. [m \in Markets |-> NoQuote] \in [Markets -> Quotes \cup {NoQuote}]
    OBVIOUS
  <2>2. 0 \in 0..MaxRestarts
    BY PaperAssumption
  <2>3. /\ learned \subseteq [pos : PosIds, idea : Ideas, direction : Directions]
        /\ scan \subseteq PosIds
        /\ loopPc \in {"idle", "account", "trim", "scan", "alert"}
        /\ resetting \in BOOLEAN
    BY DEF Init
  <2>4. cash \in Int /\ dailyLoss \in Int
    BY PaperAssumption DEF Init
  <2>5. /\ positions \in ById(Position)
        /\ prices \in [Markets -> Quotes \cup {NoQuote}]
        /\ restarts \in 0..MaxRestarts
    BY <1>1, <2>1, <2>2 DEF Init
  <2> QED
    BY <2>3, <2>4, <2>5 DEF MemoryOK
<1>7. RowsMatchBook
  BY <1>4 DEF Init, RowsMatchBook, EmptyBook
<1> QED
  BY <1>5, <1>6, <1>7 DEF Inv

\* Every step, handler by handler.
LEMMA NextInv ==
  ASSUME Inv, [Next]_vars
  PROVE  Inv'
<1>1. CASE Signal
  BY <1>1, OpenStep, CloseBySignalStep DEF Signal
<1>2. ASSUME NEW id \in PosIds, ManualClose(id)
      PROVE  Inv'
  BY <1>2, ManualCloseStep
<1>3. CASE OperatorReset
  BY <1>3, QuietStep, ResetOneStep, EndResetStep DEF OperatorReset
<1>4. CASE StrategyTick
  BY <1>4, TickStep, QuietStep, StopCloseStep DEF StrategyTick
<1>5. CASE Restart
  BY <1>5, CrashStep DEF Restart, Inv
<1>6. CASE \/ \E m \in Markets, q \in Quotes : StreamQuote(m, q)
           \/ \E balance \in LiveBalances : EquityTick(balance)
           \/ UNCHANGED vars
  BY <1>6, QuietStep
<1> QED
  BY <1>1, <1>2, <1>3, <1>4, <1>5, <1>6 DEF Next

\* The engine mirrors the rows, and the database is consistent, whatever
\* handler runs and wherever a crash interrupts it.
THEOREM InvHolds == Spec => []Inv
<1>1. Init => Inv
  BY InitInv
<1>2. Inv /\ [Next]_vars => Inv'
  BY NextInv
<1> QED
  BY <1>1, <1>2, PTL DEF Spec

-----------------------------------------------------------------------------
(* What follows from it.                                                   *)

\* Every variable keeps its type, through crashes and restarts.
THEOREM TypeCorrect == Spec => []TypeOK
<1>1. ASSUME Inv PROVE TypeOK
  <2>1. \E ids \in SUBSET PosIds : positions \in [ids -> Position]
    BY <1>1 DEF Inv, MemoryOK, ById
  <2>2. \E ids \in SUBSET PosIds : db \in DatabasesOver(ids)
    <3>1. db \in Databases
      BY <1>1 DEF Inv, DbOK
    <3>2. PICK ids \in SUBSET PosIds : db.rows \in [ids -> Row]
      BY <3>1 DEF Databases, ById
    <3>3. db \in DatabasesOver(ids)
      BY <3>1, <3>2 DEF Databases, DatabasesOver
    <3> QED
      BY <3>3
  <2> QED
    BY <1>1, <2>1, <2>2 DEF Inv, MemoryOK, TypeOK
<1> QED
  BY <1>1, InvHolds, PTL

\* Outside a handler the open_positions table says exactly what the engine
\* holds.
THEOREM RowsAlwaysMatch == Spec => []RowsMatchBook
<1>1. Inv => RowsMatchBook
  BY DEF Inv
<1> QED
  BY <1>1, InvHolds, PTL

\* The sign of a position is that of the direction on record.
THEOREM SignsAlwaysMatch == Spec => []SignMatchesDirection
<1>1. ASSUME Inv PROVE SignMatchesDirection
  <2> SUFFICES ASSUME NEW id \in DOMAIN positions
               PROVE  /\ positions[id].direction = "long" => positions[id].size > 0
                      /\ positions[id].direction = "short" => positions[id].size < 0
    BY DEF SignMatchesDirection
  <2>1. id \in DOMAIN db.rows /\ db.rows[id] = RowOf(positions[id])
    BY <1>1, OpenPosition
  <2>2. /\ RowOf(positions[id]).direction = positions[id].direction
        /\ RowOf(positions[id]).size = positions[id].size
    BY DEF RowOf
  <2>3. RowSigns(db)
    BY <1>1 DEF Inv, DbOK
  <2> QED
    BY <2>1, <2>2, <2>3 DEF RowSigns
<1> QED
  BY <1>1, InvHolds, PTL

\* At most one long and one short are open in a market, whatever crashes.
THEOREM OneAtATime == Spec => []OnePositionPerDirection
<1>1. ASSUME Inv PROVE OnePositionPerDirection
  <2> SUFFICES ASSUME NEW i \in DOMAIN positions, NEW j \in DOMAIN positions,
                      positions[i].market = positions[j].market,
                      positions[i].direction = positions[j].direction
               PROVE  i = j
    BY DEF OnePositionPerDirection
  <2>1. /\ i \in DOMAIN db.rows /\ db.rows[i] = RowOf(positions[i])
        /\ j \in DOMAIN db.rows /\ db.rows[j] = RowOf(positions[j])
    BY <1>1, OpenPosition
  <2>2. \A pos : RowOf(pos).market = pos.market /\ RowOf(pos).direction = pos.direction
    BY DEF RowOf
  <2>3. OneRowPerDirection(db)
    BY <1>1 DEF Inv, DbOK
  <2> QED
    BY <2>1, <2>2, <2>3 DEF OneRowPerDirection
<1> QED
  BY <1>1, InvHolds, PTL

\* A position has at most one outcome, and none while it is open, whichever
\* crash interrupted its close.
THEOREM SettledOnce == Spec => []SettledAtMostOnce
<1>1. Inv => SettledAtMostOnce
  BY DEF Inv, DbOK, OneOutcomeEach, SettledAtMostOnce
<1> QED
  BY <1>1, InvHolds, PTL

-----------------------------------------------------------------------------
(* What a step leaves behind.  Every database a handler ends with, or that *)
(* a crash in its middle leaves to the restart, is one of three kinds:     *)
(* nothing but the cash has changed, or a position was opened up to some   *)
(* commit, or one was closed up to some commit.                            *)

\* Nothing but the cash differs from the database before the step.
Keeps(d) ==
  /\ d.orders = db.orders
  /\ d.rows = db.rows
  /\ d.outcomes = db.outcomes
  /\ d.loss = db.loss

\* The opening of id: its order, its row.
Opens(d, k, id, order, row) ==
  /\ d.orders = Append(db.orders, order)
  /\ d.rows = IF k = 1 THEN db.rows
              ELSE [i \in DOMAIN db.rows \cup {id} |-> IF i = id THEN row ELSE db.rows[i]]
  /\ d.outcomes = db.outcomes
  /\ d.loss = db.loss

\* The close of id: its order, its row, the outcome, the loss, the stamp.
Closes(d, k, id, order, outcome) ==
  /\ d.orders = Append(db.orders, IF k < 5 THEN order
                                  ELSE [order EXCEPT !.pnl = outcome.pnl])
  /\ d.rows = IF k < 2 THEN db.rows ELSE [i \in DOMAIN db.rows \ {id} |-> db.rows[i]]
  /\ d.outcomes = IF k < 3 THEN db.outcomes ELSE Append(db.outcomes, outcome)
  /\ d.loss = IF k < 4 THEN db.loss ELSE dailyLoss + LossOf(outcome.pnl)

\* What is opened: a fresh id, in a market and direction that nothing holds.
Opening(id, order, row) ==
  /\ id \in PosIds \ UsedIds
  /\ order \in Order /\ order.pos = id /\ order.pnl = 0
  /\ row \in Row /\ row.avgPrice > 0
  /\ row.size \in Sizes \/ -row.size \in Sizes
  /\ \A i \in DOMAIN db.rows :
       ~(db.rows[i].market = row.market /\ db.rows[i].direction = row.direction)

\* What is closed: an open position, with the order and the outcome it gets.
Closing(id, order, outcome) ==
  /\ id \in DOMAIN db.rows
  /\ order \in Order /\ order.pos = id /\ order.kind = "close" /\ order.pnl = 0
  /\ outcome \in Outcome /\ outcome.pos = id

\* What a handler, or a crash in its middle, can leave on file.
Reached(d) ==
  \/ Keeps(d)
  \/ \E id, order, row : Opening(id, order, row) /\ \E k \in 1..2 : Opens(d, k, id, order, row)
  \/ \E id, order, outcome : /\ Closing(id, order, outcome)
                             /\ \E k \in 1..5 : Closes(d, k, id, order, outcome)

\* d is a record with a field per table and no other.
HasTables(d) ==
  d = [rows |-> d.rows, orders |-> d.orders, outcomes |-> d.outcomes,
       cash |-> d.cash, loss |-> d.loss]

\* A record is its fields.
LEMMA DatabaseHasTables == ASSUME NEW d \in Databases PROVE HasTables(d)
BY DEF Databases, HasTables

\* Stamping the order that was appended last.
LEMMA StampsTheLast ==
  ASSUME NEW orders \in Seq(Order), NEW order \in Order, NEW pnl \in Int
  PROVE  LET all == Append(orders, order)
         IN  [all EXCEPT ![Len(all)].pnl = pnl] = Append(orders, [order EXCEPT !.pnl = pnl])
<1> DEFINE all == Append(orders, order)
           stamped == [order EXCEPT !.pnl = pnl]
           last == Len(orders) + 1
           after == Append(orders, stamped)
<1>1. stamped \in Order
  BY DEF Order
<1> HIDE DEF stamped
<1>2. /\ all \in Seq(Order) /\ Len(all) = last /\ all[last] = order
      /\ \A n \in 1..Len(orders) : all[n] = orders[n]
  BY AppendProperties
<1>3. /\ after \in Seq(Order) /\ Len(after) = last /\ after[last] = stamped
      /\ \A n \in 1..Len(orders) : after[n] = orders[n]
  BY <1>1, AppendProperties
<1>4. Len(orders) \in Nat
  BY LenProperties
<1> HIDE DEF all, after
<1> DEFINE both == [all EXCEPT ![last] = stamped]
<1>5. /\ both \in Seq(Order) /\ Len(both) = last
      /\ \A n \in 1..last : both[n] = IF n = last THEN stamped ELSE all[n]
  BY <1>1, <1>2, <1>4, ExceptSeq
<1>6. \A n \in 1..last : both[n] = after[n]
  BY <1>2, <1>3, <1>4, <1>5
<1> HIDE DEF both
<1>7. both = after
  BY <1>3, <1>5, <1>6, SeqEqual
<1>8. [all EXCEPT ![Len(all)].pnl = pnl] = [all EXCEPT ![last] = [all[last] EXCEPT !.pnl = pnl]]
  BY <1>2
<1> QED
  BY <1>2, <1>7, <1>8 DEF all, after, both, stamped

\* The first two commits of a close are the first two of Closes.
LEMMA RemovalReaches ==
  ASSUME Inv, NEW id, NEW pos, NEW direction, NEW idea, NEW outcome
  PROVE  LET rm == Removal(db, id, pos, direction, idea)
             order == [pos |-> id, kind |-> "close", market |-> pos.market,
                       direction |-> direction, idea |-> idea, pnl |-> 0]
         IN  /\ HasTables(rm.ordered) /\ Closes(rm.ordered, 1, id, order, outcome)
             /\ HasTables(rm.removed) /\ Closes(rm.removed, 2, id, order, outcome)
<1> DEFINE order == [pos |-> id, kind |-> "close", market |-> pos.market,
                     direction |-> direction, idea |-> idea, pnl |-> 0]
           ordered == [db EXCEPT !.orders = Append(@, order)]
           rows == [i \in DOMAIN ordered.rows \ {id} |-> ordered.rows[i]]
           removed == [ordered EXCEPT !.rows = rows]
           rm == Removal(db, id, pos, direction, idea)
<1>1. HasTables(db)
  BY DatabaseHasTables DEF Inv, DbOK
<1>2. rm.ordered = ordered /\ rm.removed = removed
  BY DEF Removal, WithOrder, WithoutRow
<1> HIDE DEF order, rm
<1>5. ordered = [db EXCEPT !.orders = Append(db.orders, order)]
  BY <1>1 DEF HasTables
<1>6. removed = [ordered EXCEPT !.rows = rows]
  OBVIOUS
<1> HIDE DEF ordered, removed
<1>3. /\ HasTables(ordered) /\ ordered.orders = Append(db.orders, order)
      /\ ordered.rows = db.rows /\ ordered.outcomes = db.outcomes /\ ordered.loss = db.loss
  BY <1>1, <1>5 DEF HasTables
<1>4. /\ HasTables(removed) /\ removed.orders = ordered.orders
      /\ removed.rows = [i \in DOMAIN db.rows \ {id} |-> db.rows[i]]
      /\ removed.outcomes = ordered.outcomes /\ removed.loss = ordered.loss
  BY <1>3, <1>6 DEF HasTables
<1> QED
  BY <1>2, <1>3, <1>4 DEF Closes, rm, order

\* Saving a snapshot changes nothing that Keeps, Opens and Closes look at.
LEMMA CashIsNoMatter ==
  ASSUME NEW d, HasTables(d), NEW amount, NEW k, NEW id, NEW order, NEW outcome, NEW row
  PROVE  /\ HasTables(WithCash(d, amount)) /\ WithCash(d, amount).cash = amount
         /\ Keeps(d) => Keeps(WithCash(d, amount))
         /\ Opens(d, k, id, order, row) => Opens(WithCash(d, amount), k, id, order, row)
         /\ Closes(d, k, id, order, outcome) => Closes(WithCash(d, amount), k, id, order, outcome)
BY DEF HasTables, WithCash, Keeps, Opens, Closes

\* The last three commits of a close are the last three of Closes.
LEMMA SettlementReaches ==
  ASSUME Inv, NEW d, HasTables(d), NEW id, NEW order \in Order, NEW pos, NEW pnl \in Int,
         NEW reason,
         Closes(d, 2, id, order,
                [pos |-> id, direction |-> pos.direction, idea |-> pos.idea,
                 pnl |-> pnl, reason |-> reason])
  PROVE  LET st == Settlement(d, id, pos, pnl, reason)
             outcome == [pos |-> id, direction |-> pos.direction, idea |-> pos.idea,
                         pnl |-> pnl, reason |-> reason]
         IN  /\ Closes(st.settled, 3, id, order, outcome)
             /\ Closes(st.counted, 4, id, order, outcome)
             /\ Closes(st.stamped, 5, id, order, outcome)
             /\ HasTables(st.stamped) /\ st.stamped.cash = d.cash
<1> DEFINE outcome == [pos |-> id, direction |-> pos.direction, idea |-> pos.idea,
                       pnl |-> pnl, reason |-> reason]
           settled == [d EXCEPT !.outcomes = Append(@, outcome)]
           counted == [settled EXCEPT !.loss = dailyLoss + LossOf(pnl)]
           stamped == WithStamp(counted, pnl)
           st == Settlement(d, id, pos, pnl, reason)
<1>1. st.settled = settled /\ st.counted = counted /\ st.stamped = stamped
  BY DEF Settlement, WithOutcome, WithLoss
<1>2. outcome.pnl = pnl
  OBVIOUS
<1>0. Closes(d, 2, id, order, outcome)
  OBVIOUS
<1> HIDE DEF outcome, st
<1>11. settled = [d EXCEPT !.outcomes = Append(d.outcomes, outcome)]
  BY DEF HasTables
<1>12. counted = [settled EXCEPT !.loss = dailyLoss + LossOf(pnl)]
  OBVIOUS
<1> HIDE DEF settled, counted
<1>3. /\ HasTables(settled) /\ settled.outcomes = Append(d.outcomes, outcome)
      /\ settled.orders = d.orders /\ settled.rows = d.rows /\ settled.loss = d.loss
      /\ settled.cash = d.cash
  BY <1>11 DEF HasTables
<1>4. /\ HasTables(counted) /\ counted.outcomes = settled.outcomes
      /\ counted.orders = settled.orders /\ counted.rows = settled.rows
      /\ counted.loss = dailyLoss + LossOf(pnl) /\ counted.cash = settled.cash
  BY <1>3, <1>12 DEF HasTables
<1> DEFINE orders == [counted.orders EXCEPT ![Len(counted.orders)].pnl = pnl]
<1>5. stamped = [counted EXCEPT !.orders = orders]
  BY <1>4 DEF WithStamp, HasTables
<1> HIDE DEF orders, stamped
<1>6. /\ HasTables(stamped) /\ stamped.outcomes = counted.outcomes
      /\ stamped.orders = orders /\ stamped.rows = counted.rows
      /\ stamped.loss = counted.loss /\ stamped.cash = counted.cash
  BY <1>4, <1>5 DEF HasTables
<1>7. orders = Append(db.orders, [order EXCEPT !.pnl = pnl])
  <2>1. db.orders \in Seq(Order)
    BY DEF Inv, DbOK, Databases
  <2>2. counted.orders = Append(db.orders, order)
    BY <1>0, <1>3, <1>4 DEF Closes
  <2> DEFINE all == Append(db.orders, order)
  <2>3. [all EXCEPT ![Len(all)].pnl = pnl] = Append(db.orders, [order EXCEPT !.pnl = pnl])
    BY <2>1, StampsTheLast
  <2> HIDE DEF all
  <2>4. counted.orders = all
    BY <2>2 DEF all
  <2> QED
    BY <2>3, <2>4 DEF orders
<1>8. Closes(settled, 3, id, order, outcome)
  BY <1>0, <1>3 DEF Closes
<1>9. Closes(counted, 4, id, order, outcome)
  BY <1>0, <1>2, <1>3, <1>4 DEF Closes
<1>10. Closes(stamped, 5, id, order, outcome)
  BY <1>0, <1>2, <1>3, <1>4, <1>6, <1>7 DEF Closes
<1> QED
  BY <1>1, <1>3, <1>4, <1>6, <1>8, <1>9, <1>10 DEF outcome, st
-----------------------------------------------------------------------------
(* The four ways a step can end.                                           *)

\* Nothing is opened or closed.  In a paper environment the newest snapshot is
\* left alone or has the cash, unless a reset is under way.
Idles ==
  /\ Keeps(db')
  /\ UNCHANGED <<cash, dailyLoss, learned, restarts>>
  /\ DOMAIN positions' = DOMAIN positions
  /\ \A id \in DOMAIN positions : Tied(positions'[id]) = Tied(positions[id])
  /\ Environment = "paper" =>
       \/ db'.cash = cash' \/ resetting'
       \/ db'.cash = db.cash /\ resetting' = resetting

\* Cash pays what the new position ties up.
OpensAs(id, order, pos) ==
  /\ Opening(id, order, RowOf(pos))
  /\ Opens(db', 2, id, order, RowOf(pos))
  /\ positions' = [i \in DOMAIN positions \cup {id} |-> IF i = id THEN pos ELSE positions[i]]
  /\ pos \in Position /\ cash' = cash - Tied(pos)
  /\ UNCHANGED <<dailyLoss, learned, restarts>>
  /\ db'.cash = cash'

\* A position is opened.
OpensOne == \E id, order, pos : OpensAs(id, order, pos)

\* A signal of another size than the long it closes.
SellsBeyond(id, outcome, more) ==
  positions[id].size > 0 /\ outcome.reason \in Routes /\ more \in SoldBeyond(id)

\* Cash gets back what the position tied up, its result, and more.
PaysBack(id, outcome, more) ==
  more \in Int /\ cash' = cash + Tied(positions[id]) + outcome.pnl + more

\* A close pays what the position tied up and its result, unless a signal
\* sells beyond it.  Only stop-outs, and closes of a reset that goes on, leave
\* the cash unsaved; only a close by signal teaches something else than what is
\* on file.
ClosesAs(id, order, outcome, lesson) ==
  /\ Closing(id, order, outcome)
  /\ Closes(db', 5, id, order, outcome)
  /\ positions' = Without(id)
  /\ \E more : PaysBack(id, outcome, more) /\ (more = 0 \/ SellsBeyond(id, outcome, more))
  /\ dailyLoss' = dailyLoss + LossOf(outcome.pnl)
  /\ learned' = learned \cup {lesson} /\ lesson.pos = id
  /\ \/ outcome.reason \in Routes
     \/ lesson = Lesson(id, outcome.idea, outcome.direction)
  /\ db'.cash = cash' \/ resetting' \/ outcome.reason \in {"stop_loss", "trailing_stop"}
  /\ UNCHANGED restarts

\* A position is closed.
ClosesOne == \E id, order, outcome, lesson : ClosesAs(id, order, outcome, lesson)

\* The process dies between two commits and starts again.
Crashes == \E d : Reached(d) /\ RestartFrom(d)

\* A handler that dies leaves one of its partial databases.
LEMMA CrashIsReached ==
  ASSUME NEW partial, CrashesIn(partial), \A d \in partial : Reached(d)
  PROVE  Crashes
BY DEF CrashesIn, Crashes

-----------------------------------------------------------------------------
(* What a trade does to the account.                                       *)

\* A watermark ties up nothing.
LEMMA MarksTieNothing ==
  ASSUME NEW pos \in Position, NEW quote
  PROVE  Tied(Marked(pos, quote)) = Tied(pos)
BY DEF Position, Marked, Tied

\* A sale brings in what the position tied up and its result.
LEMMA SalesBalance ==
  ASSUME NEW pos \in Position, NEW price \in Int, NEW fee \in Int, pos.size > 0,
         pos.direction = "long"
  PROVE  FillValue(pos.size, price) - fee = Tied(pos) + RealisedPnl(pos, price, fee)
<1> DEFINE n == pos.size
           entry == pos.avgPrice
<1>1. n \in Int /\ entry \in Int /\ pos.entryFee \in Int /\ Scale \in Int
  BY RatesAssumption DEF Position
<1>2. Tied(pos) = pos.entryFee + n * entry * Scale
  BY DEF Tied, FillValue
<1>3. RealisedPnl(pos, price, fee) = n * (price - entry) * Scale - pos.entryFee - fee
  BY <1>1 DEF RealisedPnl, Abs
<1>4. FillValue(pos.size, price) = n * price * Scale
  BY DEF FillValue
<1> HIDE DEF n, entry
<1>5. n * (price - entry) * Scale = n * price * Scale - n * entry * Scale
  BY <1>1, SMT
<1>6. n * price * Scale \in Int /\ n * entry * Scale \in Int
  BY <1>1, SMT
<1> QED
  BY <1>1, <1>2, <1>3, <1>4, <1>5, <1>6

\* So does every targeted close.
LEMMA ClosesBalance ==
  ASSUME NEW pos \in Position, NEW price \in Int, cash \in Int,
         IF pos.direction = "long" THEN pos.size > 0 ELSE pos.size < 0
  PROVE  CloseCash(pos, price) = cash + Tied(pos) + ClosePnl(pos, price)
<1> DEFINE fee == Fee(Abs(pos.size), price)
<1>1. /\ pos.size \in Int /\ pos.avgPrice \in Int /\ pos.entryFee \in Int /\ Scale \in Int
      /\ fee \in Int /\ Tied(pos) \in Int /\ RealisedPnl(pos, price, fee) \in Int
  <2>1. pos.size \in Int /\ pos.avgPrice \in Int /\ pos.entryFee \in Int /\ Scale \in Int
    BY RatesAssumption DEF Position
  <2>2. Abs(pos.size) \in Int /\ FillValue(pos.size, pos.avgPrice) \in Int
    BY <2>1, AmountTypes
  <2>3. fee \in Int
    BY <2>2, AmountTypes
  <2>4. RealisedPnl(pos, price, fee) \in Int
    BY <2>3, CloseTypes
  <2> QED
    BY <2>1, <2>2, <2>3, <2>4 DEF Tied
<1>2. ClosePnl(pos, price) = RealisedPnl(pos, price, fee)
  BY DEF ClosePnl
<1>3. CloseCash(pos, price) = cash + ClosingCredit(pos, price)
  BY DEF CloseCash
<1>4. CASE pos.direction = "long"
  <2>1. Abs(pos.size) = pos.size /\ pos.size > 0
    BY <1>1, <1>4 DEF Abs
  <2>2. ClosingCredit(pos, price) = FillValue(pos.size, price) - fee
    BY <2>1 DEF ClosingCredit
  <2>3. FillValue(pos.size, price) - fee = Tied(pos) + RealisedPnl(pos, price, fee)
    BY <1>1, <1>4, <2>1, SalesBalance
  <2> QED
    BY <1>1, <1>2, <1>3, <2>2, <2>3
<1>5. CASE pos.direction # "long"
  <2> DEFINE n == Abs(pos.size)
             entry == pos.avgPrice
  <2>1. pos.size < 0 /\ n \in Int
    BY <1>1, <1>5 DEF Abs
  <2>2. ClosingCredit(pos, price) = n * entry * Scale - n * price * Scale - fee
    BY <1>1, <2>1 DEF ClosingCredit, FillValue
  <2>3. RealisedPnl(pos, price, fee) = (-n) * (price - entry) * Scale - pos.entryFee - fee
    BY <1>1, <1>5, <2>1 DEF RealisedPnl
  <2>4. Tied(pos) = pos.entryFee
    BY <1>1, <2>1 DEF Tied
  <2> HIDE DEF n, entry
  <2>5. entry \in Int
    BY <1>1 DEF entry
  <2>6. (-n) * (price - entry) * Scale = n * entry * Scale - n * price * Scale
    BY <1>1, <2>1, <2>5, SMT
  <2>7. n * entry * Scale \in Int /\ n * price * Scale \in Int
    BY <1>1, <2>1, <2>5, SMT
  <2> HIDE DEF fee
  <2> QED
    BY <1>1, <1>2, <1>3, <2>2, <2>3, <2>4, <2>6, <2>7
<1> QED
  BY <1>4, <1>5

\* An opening takes a fresh id, and a market and direction that nothing holds.
LEMMA NothingInTheWay ==
  ASSUME Inv, NEW route \in Routes, NEW m \in Markets, NEW direction \in Directions,
         NEW size \in Sizes, NEW idea \in Ideas, NEW id \in PosIds,
         OpenBySignal(route, m, direction, size, idea, id)
  PROVE  /\ id \notin IdsOf(db)
         /\ \A i \in DOMAIN db.rows : ~(/\ db.rows[i].market = m
                                        /\ db.rows[i].direction = direction)
<1>1. id \notin IdsOf(db) /\ DbOK(db)
  BY DEF Inv, OpenBySignal, IsFresh, UsedIds, IdsOf
<1> SUFFICES ASSUME NEW i \in DOMAIN db.rows,
                    db.rows[i].market = m, db.rows[i].direction = direction
             PROVE  FALSE
  BY <1>1
<1> DEFINE price == FillPrice(direction, prices[m])
<1>2. /\ i \in DOMAIN positions
      /\ positions[i].market = m
      /\ positions[i].size = db.rows[i].size
  <2>1. i \in DOMAIN positions /\ db.rows[i] = RowOf(positions[i])
    BY DEF Inv, RowsMatchBook
  <2>2. /\ RowOf(positions[i]).market = positions[i].market
        /\ RowOf(positions[i]).size = positions[i].size
    BY DEF RowOf
  <2> QED
    BY <2>1, <2>2
<1>3. IF direction = "long" THEN positions[i].size > 0 ELSE positions[i].size < 0
  BY <1>1, <1>2 DEF DbOK, RowSigns
<1>4. CanFill(positions, cash, m, direction, size, price)
  BY DEF OpenBySignal, Admitted
<1> HIDE DEF price
<1>5. CASE direction = "long"
  <2>1. Longs(positions, m) = {}
    BY <1>4, <1>5 DEF CanFill
  <2> QED
    BY <1>2, <1>3, <1>5, <2>1 DEF Longs
<1>6. CASE direction = "short"
  <2>1. Longs(positions, m) = {}
    BY <1>6 DEF OpenBySignal
  <2>2. Shorts(positions, m) = {}
    BY <1>4, <1>6, <2>1 DEF CanFill
  <2> QED
    BY <1>2, <1>3, <1>6, <2>2 DEF Shorts
<1> QED
  BY <1>5, <1>6 DEF Directions

\* A fill has a price above zero when the quote has.
LEMMA FillsArePositive ==
  ASSUME NEW direction, NEW quote \in Int, quote > 0
  PROVE  FillPrice(direction, quote) \in Int /\ FillPrice(direction, quote) > 0
<1>1. /\ Scale + SlippageRate \in Int /\ Scale + SlippageRate > 0
      /\ Scale - SlippageRate \in Int /\ Scale - SlippageRate > 0
  BY RatesAssumption
<1>2. \A a, b \in Int : a > 0 /\ b > 0 => a * b \in Int /\ a * b > 0
  OBVIOUS
<1> QED
  BY <1>1, <1>2 DEF FillPrice

\* An opening signal opens its position or dies in its middle.
LEMMA OpenEnds ==
  ASSUME Inv, NEW route \in Routes, NEW m \in Markets, NEW direction \in Directions,
         NEW size \in Sizes, NEW idea \in Ideas, NEW id \in PosIds,
         OpenBySignal(route, m, direction, size, idea, id)
  PROVE  OpensOne \/ Crashes
<1> DEFINE price   == FillPrice(direction, prices[m])
           pos     == Opened(m, direction, size, price, idea)
           newCash == cash - OpeningCost(direction, size, price)
           order   == [pos |-> id, kind |-> "open", market |-> m,
                       direction |-> direction, idea |-> idea, pnl |-> 0]
           row     == RowOf(pos)
           ordered == WithOrder(db, id, "open", m, direction, idea)
           stored  == WithRow(ordered, id, pos)
           opened  == [i \in DOMAIN positions \cup {id} |->
                         IF i = id THEN pos ELSE positions[i]]
<1>1. price \in Int /\ price > 0
  <2>1. prices[m] \in Int /\ prices[m] > 0
    <3>1. prices[m] # NoQuote
      BY DEF OpenBySignal, Admitted
    <3>2. prices \in [Markets -> Quotes \cup {NoQuote}]
      BY DEF Inv, MemoryOK
    <3>3. prices[m] \in Quotes
      BY <3>1, <3>2
    <3>4. \A q \in Quotes : q \in Int /\ q > 0
      BY PaperAssumption
    <3> QED
      BY <3>3, <3>4
  <2> QED
    BY <2>1, FillsArePositive
<1> HIDE DEF price
<1>14. size \in Int /\ -size \in Int /\ size > 0 /\ cash \in Int
  BY ScalarTypes
<1>15. Fee(size, price) \in Int /\ FillValue(size, price) \in Int
  BY <1>1, <1>14, AmountTypes
<1>16. pos \in Position /\ newCash = cash - Tied(pos)
  <2>1. pos \in Position
    BY <1>1, <1>14, <1>15 DEF Opened, Position
  <2>2. /\ pos.entryFee = Fee(size, price) /\ pos.avgPrice = price
        /\ pos.size = IF direction = "long" THEN size ELSE -size
    BY DEF Opened
  <2>3. OpeningCost(direction, size, price) = Tied(pos)
    BY <1>14, <1>15, <2>2 DEF OpeningCost, Tied
  <2> QED
    BY <2>1, <2>3
<1>2. /\ row \in Row /\ row.avgPrice > 0 /\ row.market = m /\ row.direction = direction
      /\ row.size \in Sizes \/ -row.size \in Sizes
  BY <1>1, <1>14 DEF Opened, RowOf, Row
<1>3. order \in Order /\ order.pos = id /\ order.pnl = 0
  BY DEF Order
<1>4. Opening(id, order, row)
  BY <1>2, <1>3, NothingInTheWay DEF Opening, UsedIds, IdsOf
<1>5. HasTables(db)
  BY DatabaseHasTables DEF Inv, DbOK
<1>6. ordered = [db EXCEPT !.orders = Append(db.orders, order)]
  BY DEF WithOrder
<1> HIDE DEF order, ordered
<1>7. HasTables(ordered) /\ Opens(ordered, 1, id, order, row)
  BY <1>5, <1>6 DEF HasTables, Opens
<1> DEFINE rows == [i \in DOMAIN ordered.rows \cup {id} |-> IF i = id THEN row ELSE ordered.rows[i]]
<1>12. stored = [ordered EXCEPT !.rows = rows]
  BY DEF WithRow
<1>13. rows = [i \in DOMAIN db.rows \cup {id} |-> IF i = id THEN row ELSE db.rows[i]]
  BY <1>7 DEF Opens
<1> HIDE DEF rows, pos, stored
<1>8. HasTables(stored) /\ Opens(stored, 2, id, order, row)
  BY <1>7, <1>12, <1>13 DEF HasTables, Opens
<1> HIDE DEF newCash, opened
<1>9. /\ HasTables(WithCash(stored, newCash)) /\ WithCash(stored, newCash).cash = newCash
      /\ Opens(WithCash(stored, newCash), 2, id, order, row)
  BY <1>8, CashIsNoMatter
<1>10. ASSUME Completes(WithCash(stored, newCash), newCash, opened, dailyLoss, learned)
       PROVE  OpensOne
  <2>1. /\ db' = WithCash(stored, newCash) /\ cash' = newCash /\ positions' = opened
        /\ UNCHANGED <<dailyLoss, learned, restarts>>
    BY <1>10 DEF Completes
  <2>2. Opens(db', 2, id, order, row) /\ db'.cash = cash'
    BY <1>9, <2>1 DEF Opens
  <2>3. OpensAs(id, order, pos)
    BY <1>4, <1>16, <2>1, <2>2 DEF OpensAs, opened
  <2> QED
    BY <2>3 DEF OpensOne
<1>11. ASSUME CrashesIn({ordered, stored})
       PROVE  Crashes
  <2>1. Reached(ordered)
    BY <1>4, <1>7 DEF Reached
  <2>2. Reached(stored)
    BY <1>4, <1>8 DEF Reached
  <2> QED
    BY <1>11, <2>1, <2>2, CrashIsReached
<1> QED
  BY <1>10, <1>11 DEF OpenBySignal, price, pos, newCash, ordered, stored, opened

\* The order and the outcome of a close are those of an open position.
LEMMA ClosesAnOpenPosition ==
  ASSUME Inv, NEW id \in DOMAIN positions, NEW direction \in Directions,
         NEW idea \in Ideas \cup {NoIdea}, NEW pnl \in Int, NEW reason \in Reasons
  PROVE  LET pos == positions[id]
         IN  Closing(id, [pos |-> id, kind |-> "close", market |-> pos.market,
                          direction |-> direction, idea |-> idea, pnl |-> 0],
                     [pos |-> id, direction |-> pos.direction, idea |-> pos.idea,
                      pnl |-> pnl, reason |-> reason])
<1>1. id \in PosIds /\ positions[id] \in Position /\ id \in DOMAIN db.rows
  BY OpenPosition
<1> QED
  BY <1>1 DEF Closing, Order, Outcome, Position

\* The sign of an open position is that of its direction.
LEMMA OpenSigns ==
  ASSUME Inv, NEW id \in DOMAIN positions
  PROVE  IF positions[id].direction = "long" THEN positions[id].size > 0
                                             ELSE positions[id].size < 0
<1> DEFINE pos == positions[id]
<1>1. id \in DOMAIN db.rows /\ db.rows[id] = RowOf(pos) /\ RowSigns(db)
  BY OpenPosition DEF Inv, DbOK
<1>2. RowOf(pos).direction = pos.direction /\ RowOf(pos).size = pos.size
  BY DEF RowOf
<1> QED
  BY <1>1, <1>2 DEF RowSigns

\* A closing signal closes its position or dies in its middle.
LEMMA CloseBySignalEnds ==
  ASSUME Inv, NEW route \in Routes, NEW m \in Markets,
         NEW size \in Sizes, NEW idea \in Ideas, NEW id \in PosIds,
         CloseBySignal(route, m, size, idea, id)
  PROVE  ClosesOne \/ Crashes
<1> DEFINE price   == FillPrice("short", prices[m])
           pos     == positions[id]
           fee     == Fee(size, price)
           pnl     == RealisedPnl(pos, price, fee)
           newCash == cash + FillValue(size, price) - fee
           rm      == Removal(db, id, pos, "short", idea)
           paid    == WithCash(rm.removed, newCash)
           auto    == Settlement(rm.removed, id, pos, pnl, route)
           manual  == Settlement(paid, id, pos, pnl, route)
           final   == IF route = "auto" THEN WithCash(auto.stamped, newCash)
                                        ELSE manual.stamped
           partial == IF route = "auto"
                      THEN {rm.ordered, rm.removed, auto.settled, auto.counted, auto.stamped}
                      ELSE {rm.ordered, rm.removed, paid, manual.settled, manual.counted}
           order   == [pos |-> id, kind |-> "close", market |-> pos.market,
                       direction |-> "short", idea |-> idea, pnl |-> 0]
           outcome == [pos |-> id, direction |-> pos.direction, idea |-> pos.idea,
                       pnl |-> pnl, reason |-> route]
<1>1. id \in DOMAIN positions
  BY DEF CloseBySignal, IsOldest, Longs
<1>2. prices[m] \in Int /\ size \in Int /\ cash \in Int
  BY ScalarTypes
<1>3. pos \in Position
  BY <1>1, OpenPosition
<1>4. price \in Int
  BY <1>2, RatesAssumption DEF FillPrice
<1> HIDE DEF price, pos
<1>5. fee \in Int
  BY <1>2, <1>4, AmountTypes
<1> HIDE DEF fee
<1>6. pnl \in Int
  BY <1>2, <1>3, <1>4, <1>5, CloseTypes
<1> DEFINE more == FillValue(size - pos.size, price)
<1>17. /\ more \in Int /\ newCash = cash + Tied(pos) + pnl + more
       /\ pos.size > 0 /\ (size = pos.size => more = 0)
       /\ size # pos.size => more \in SoldBeyond(id)
  <2>1. pos.size > 0 /\ pos.market = m
    BY DEF CloseBySignal, IsOldest, Longs, pos
  <2>2. pos.size \in Int /\ pos.avgPrice \in Int /\ pos.entryFee \in Int /\ Scale \in Int
    BY <1>3, RatesAssumption DEF Position
  <2>3. pos.direction = "long"
    <3>1. IF pos.direction = "long" THEN pos.size > 0 ELSE pos.size < 0
      BY <1>1, OpenSigns DEF pos
    <3> QED
      BY <2>1, <2>2, <3>1
  <2>4. FillValue(pos.size, price) - fee = Tied(pos) + pnl
    BY <1>3, <1>4, <1>5, <2>1, <2>3, SalesBalance
  <2>5. FillValue(pos.size, price) \in Int /\ Tied(pos) \in Int
    <3>1. FillValue(pos.size, price) \in Int /\ FillValue(pos.size, pos.avgPrice) \in Int
      BY <1>4, <2>2, AmountTypes
    <3> QED
      BY <2>2, <3>1 DEF Tied
  <2>6. /\ more \in Int /\ FillValue(size, price) = FillValue(pos.size, price) + more
        /\ size = pos.size => more = 0
    <3> DEFINE n == pos.size
    <3>1. n \in Int
      BY <2>2
    <3> HIDE DEF n
    <3>2. /\ size * price * Scale = n * price * Scale + (size - n) * price * Scale
          /\ (size - n) * price * Scale \in Int
          /\ size = n => (size - n) * price * Scale = 0
      BY <1>2, <1>4, <2>2, <3>1, SMT
    <3> QED
      BY <3>2 DEF FillValue, n
  <2>7. size # pos.size => more \in SoldBeyond(id)
    <3>1. price = FillPrice("short", prices[pos.market])
      BY <2>1 DEF price
    <3> QED
      BY <3>1 DEF SoldBeyond, pos
  <2> HIDE DEF pnl, more
  <2> QED
    BY <1>2, <1>5, <1>6, <2>1, <2>4, <2>5, <2>6, <2>7
<1> HIDE DEF more
<1> HIDE DEF pnl, newCash
<1>7. Closing(id, order, outcome)
  BY <1>1, <1>6, ClosesAnOpenPosition DEF pos, Reasons, Directions
<1>8. order \in Order /\ outcome.pnl = pnl /\ outcome.reason = route
  BY <1>7 DEF Closing
<1>9. /\ HasTables(rm.ordered) /\ Closes(rm.ordered, 1, id, order, outcome)
      /\ HasTables(rm.removed) /\ Closes(rm.removed, 2, id, order, outcome)
  BY RemovalReaches
<1> HIDE DEF rm, order
<1>10. /\ HasTables(paid) /\ paid.cash = newCash /\ Closes(paid, 2, id, order, outcome)
  BY <1>9, CashIsNoMatter
<1> HIDE DEF paid
<1>11. /\ Closes(auto.settled, 3, id, order, outcome)
       /\ Closes(auto.counted, 4, id, order, outcome)
       /\ Closes(auto.stamped, 5, id, order, outcome)
       /\ HasTables(auto.stamped)
  BY <1>6, <1>8, <1>9, SettlementReaches
<1>12. /\ Closes(manual.settled, 3, id, order, outcome)
       /\ Closes(manual.counted, 4, id, order, outcome)
       /\ Closes(manual.stamped, 5, id, order, outcome)
       /\ manual.stamped.cash = newCash
  BY <1>6, <1>8, <1>10, SettlementReaches
<1> HIDE DEF auto, manual, outcome
<1>13. Closes(final, 5, id, order, outcome) /\ final.cash = newCash
  BY <1>11, <1>12, CashIsNoMatter
<1>14. \A d \in partial : Reached(d)
  <2>1. \A d : \A k \in 1..5 : Closes(d, k, id, order, outcome) => Reached(d)
    BY <1>7 DEF Reached
  <2> QED
    BY <1>9, <1>10, <1>11, <1>12, <2>1
<1> HIDE DEF final, partial
<1>15. ASSUME Completes(final, newCash, Without(id), dailyLoss + LossOf(pnl),
                        learned \cup {Lesson(id, idea, "short")})
       PROVE  ClosesOne
  <2>1. /\ db' = final /\ cash' = newCash /\ dailyLoss' = dailyLoss + LossOf(pnl)
        /\ learned' = learned \cup {Lesson(id, idea, "short")} /\ restarts' = restarts
        /\ positions' = Without(id)
    BY <1>15 DEF Completes
  <2>2. Closes(db', 5, id, order, outcome) /\ db'.cash = cash'
    BY <1>13, <2>1 DEF Closes
  <2> DEFINE lesson == Lesson(id, idea, "short")
  <2>3. lesson.pos = id
    BY DEF Lesson
  <2> HIDE DEF lesson
  <2>4. ClosesAs(id, order, outcome, lesson)
    <3>1. outcome.reason \in Routes
      BY <1>8 DEF Routes
    <3>2. \E extra : PaysBack(id, outcome, extra) /\ (extra = 0 \/ SellsBeyond(id, outcome, extra))
      BY <1>8, <1>17, <2>1, <3>1 DEF PaysBack, SellsBeyond, pos
    <3> QED
      BY <1>7, <1>8, <2>1, <2>2, <2>3, <3>1, <3>2 DEF ClosesAs, lesson, pos
  <2> QED
    BY <2>4 DEF ClosesOne
<1>16. ASSUME CrashesIn(partial)
       PROVE  Crashes
  BY <1>14, <1>16, CrashIsReached
<1> QED
  BY <1>15, <1>16 DEF CloseBySignal, price, pos, fee, pnl, newCash, rm, paid, auto,
                      manual, final, partial

\* What every targeted close leaves behind.
LEMMA TargetedCloseEnds ==
  ASSUME Inv, NEW id \in DOMAIN positions, NEW price \in Int, NEW reason \in Reasons,
         NEW newCash
  PROVE  LET pos == positions[id]
             st == CloseSettlement(id, pos, price, reason)
             paid == WithCash(st.stamped, newCash)
         IN  /\ CrashesIn({st.stamped}) => Crashes
             /\ CloseCrashes(id, pos, price, reason) => Crashes
             /\ /\ CloseCompletes(st.stamped, id, pos, price)
                /\ resetting' \/ reason \in {"stop_loss", "trailing_stop"}
                => ClosesOne
             /\ /\ CloseCompletes(paid, id, pos, price)
                /\ newCash = CloseCash(pos, price)
                => ClosesOne
<1> DEFINE pos == positions[id]
           side == ExitDirection(pos)
           pnl == ClosePnl(pos, price)
           rm == Removal(db, id, pos, side, NoIdea)
           st == Settlement(rm.removed, id, pos, pnl, reason)
           paid == WithCash(st.stamped, newCash)
           order == [pos |-> id, kind |-> "close", market |-> pos.market,
                     direction |-> side, idea |-> NoIdea, pnl |-> 0]
           outcome == [pos |-> id, direction |-> pos.direction, idea |-> pos.idea,
                       pnl |-> pnl, reason |-> reason]
<1>1. pos \in Position
  BY OpenPosition
<1>2. side \in Directions
  BY DEF ExitDirection, Directions
<1>14. CloseCash(pos, price) = cash + Tied(pos) + pnl
  <2>1. /\ cash \in Int
        /\ IF pos.direction = "long" THEN pos.size > 0 ELSE pos.size < 0
    BY ScalarTypes, OpenSigns
  <2> HIDE DEF pos
  <2> QED
    BY <1>1, <2>1, ClosesBalance
<1>3. CloseSettlement(id, pos, price, reason) = st /\ CloseRemoval(id, pos) = rm
  BY DEF CloseSettlement, CloseRemoval
<1> HIDE DEF pos, side
<1>4. pnl \in Int
  <2>1. 0 \in Int /\ cash \in Int
    BY ScalarTypes
  <2> QED
    BY <1>1, <2>1, CloseTypes
<1>15. /\ CloseCash(pos, price) \in Int
       /\ cash \in Int /\ Tied(pos) \in Int
  <2>1. cash \in Int
    BY ScalarTypes
  <2>2. /\ pos.size \in Int /\ pos.avgPrice \in Int /\ pos.entryFee \in Int
    BY <1>1 DEF Position
  <2>3. FillValue(pos.size, pos.avgPrice) \in Int
    BY <2>2, AmountTypes
  <2>4. Tied(pos) \in Int
    BY <2>2, <2>3 DEF Tied
  <2> QED
    BY <1>4, <1>14, <2>1, <2>4
<1> HIDE DEF pnl
<1>5. Closing(id, order, outcome)
  BY <1>2, <1>4, ClosesAnOpenPosition DEF pos
<1>6. /\ order \in Order /\ outcome.pnl = pnl /\ outcome.reason = reason
      /\ outcome.idea = pos.idea /\ outcome.direction = pos.direction
  BY <1>5 DEF Closing
<1>7. /\ HasTables(rm.ordered) /\ Closes(rm.ordered, 1, id, order, outcome)
      /\ HasTables(rm.removed) /\ Closes(rm.removed, 2, id, order, outcome)
  BY RemovalReaches
<1> HIDE DEF rm, order
<1>8. /\ Closes(st.settled, 3, id, order, outcome)
      /\ Closes(st.counted, 4, id, order, outcome)
      /\ Closes(st.stamped, 5, id, order, outcome)
      /\ HasTables(st.stamped)
  BY <1>4, <1>6, <1>7, SettlementReaches
<1> HIDE DEF st, outcome
<1>9. Closes(paid, 5, id, order, outcome) /\ paid.cash = newCash
  BY <1>8, CashIsNoMatter
<1>10. \A d : \A k \in 1..5 : Closes(d, k, id, order, outcome) => Reached(d)
  BY <1>5 DEF Reached
<1> HIDE DEF paid
<1>11. ASSUME NEW partial \in SUBSET {rm.ordered, rm.removed, st.settled, st.counted,
                                      st.stamped},
              CrashesIn(partial)
       PROVE  Crashes
  BY <1>7, <1>8, <1>10, <1>11, CrashIsReached
<1>12. CloseCrashes(id, pos, price, reason) => Crashes
  BY <1>3, <1>11 DEF CloseCrashes
<1>13. ASSUME NEW final, Closes(final, 5, id, order, outcome),
              CloseCompletes(final, id, pos, price),
              \/ final.cash = CloseCash(pos, price)
              \/ resetting' \/ reason \in {"stop_loss", "trailing_stop"}
       PROVE  ClosesOne
  <2>1. /\ db' = final /\ cash' = CloseCash(pos, price) /\ positions' = Without(id)
        /\ dailyLoss' = dailyLoss + LossOf(pnl)
        /\ learned' = learned \cup {Lesson(id, pos.idea, pos.direction)}
        /\ restarts' = restarts
    BY <1>13 DEF CloseCompletes, Completes, pnl
  <2>2. Closes(db', 5, id, order, outcome)
    BY <1>13, <2>1 DEF Closes
  <2>3. db'.cash = cash' \/ resetting' \/ outcome.reason \in {"stop_loss", "trailing_stop"}
    BY <1>6, <1>13, <2>1
  <2> DEFINE lesson == Lesson(id, pos.idea, pos.direction)
  <2>4. lesson.pos = id
    BY DEF Lesson
  <2> HIDE DEF lesson
  <2>5. ClosesAs(id, order, outcome, lesson)
    <3>1. cash' \in Int /\ cash' = cash + Tied(pos) + outcome.pnl + 0
      BY <1>6, <1>14, <1>15, <2>1
    <3>2. PaysBack(id, outcome, 0)
      BY <3>1 DEF PaysBack, pos
    <3> QED
      BY <1>5, <1>6, <2>1, <2>2, <2>3, <2>4, <3>2 DEF ClosesAs, lesson, pos
  <2> QED
    BY <2>5 DEF ClosesOne
<1> QED
  BY <1>3, <1>8, <1>9, <1>11, <1>12, <1>13 DEF pos, paid

\* In a paper environment the loop never waits for the exchange's balance.
NeverAsks == Environment = "paper" => loopPc # "account"

\* Only a live environment takes the loop to the exchange's balance.
LEMMA NeverAsksStep == NeverAsks /\ [Next]_vars => NeverAsks'
<1> SUFFICES ASSUME NeverAsks, [Next]_vars, Environment = "paper", loopPc' = "account"
             PROVE  FALSE
  BY DEF NeverAsks
<1>1. loopPc # "account"
  BY DEF NeverAsks
<1>2. ~CrashesIn({}) /\ \A partial : ~CrashesIn(partial)
  BY DEF CrashesIn, RestartFrom
<1>3. \A d : ~RestartFrom(d)
  BY DEF RestartFrom
<1>4. ASSUME NEW quotes, Tick(quotes) PROVE FALSE
  BY <1>4 DEF Tick, ToStopPass
<1>5. ASSUME NEW id, StopClose(id) PROVE FALSE
  BY <1>2, <1>5 DEF StopClose, CloseCrashes
<1>6. ~Signal
  <2>1. ASSUME NEW route, NEW m, NEW direction, NEW size, NEW idea, NEW id,
               OpenBySignal(route, m, direction, size, idea, id)
        PROVE  FALSE
    <3>1. \/ loopPc' = loopPc
          \/ \E partial : CrashesIn(partial)
      BY <2>1 DEF OpenBySignal
    <3> QED
      BY <1>1, <1>2, <3>1
  <2>2. ASSUME NEW route, NEW m, NEW size, NEW idea, NEW id,
               CloseBySignal(route, m, size, idea, id)
        PROVE  FALSE
    <3>1. \/ loopPc' = loopPc
          \/ \E partial : CrashesIn(partial)
      BY <2>2 DEF CloseBySignal
    <3> QED
      BY <1>1, <1>2, <3>1
  <2> QED
    BY <2>1, <2>2 DEF Signal
<1>7. ~OperatorReset
  BY <1>1, <1>2 DEF OperatorReset, BeginReset, ResetOne, EndReset, CloseCrashes
<1>8. ~StrategyTick
  BY <1>1, <1>4, <1>5
     DEF StrategyTick, AccountAnswered, ToStopPass, TrimDone, AlertSent, EndScan
<1>9. \A id : ~ManualClose(id)
  BY <1>1, <1>2 DEF ManualClose, CloseCrashes
<1>10. ~UNCHANGED vars
  BY <1>1 DEF vars
<1> QED
  BY <1>1, <1>3, <1>6, <1>7, <1>8, <1>9, <1>10
     DEF Next, Restart, StreamQuote, EquityTick

\* The steps that neither open nor close anything.
LEMMA QuietEnds ==
  ASSUME Inv, NeverAsks,
         \/ BeginReset
         \/ \E m \in Markets, q \in Quotes : StreamQuote(m, q)
         \/ \E balance \in LiveBalances : EquityTick(balance) \/ AccountAnswered(balance)
         \/ \E quotes \in [Markets -> Quotes \cup {NoQuote}] : Tick(quotes)
         \/ TrimDone
         \/ AlertSent
         \/ EndScan
         \/ UNCHANGED vars
  PROVE  Idles
<1>1. HasTables(db)
  BY DatabaseHasTables DEF Inv, DbOK
<1>2. Keeps(db)
  BY DEF Keeps
<1>3. \A amount : Keeps(WithCash(db, amount)) /\ WithCash(db, amount).cash = amount
  BY <1>1, <1>2, CashIsNoMatter
<1>11. ASSUME UNCHANGED positions
       PROVE  /\ DOMAIN positions' = DOMAIN positions
              /\ \A id \in DOMAIN positions : Tied(positions'[id]) = Tied(positions[id])
  BY <1>11
<1>4. ASSUME UNCHANGED <<db, cash, dailyLoss, learned, restarts, positions>>,
             resetting' \/ resetting' = resetting
      PROVE  Idles
  BY <1>4, <1>11 DEF Idles, Keeps
<1>5. ASSUME NEW amount, db' = WithCash(db, amount), Environment = "paper" => amount = cash,
             UNCHANGED <<cash, dailyLoss, learned, restarts>>, DOMAIN positions' = DOMAIN positions,
             \A id \in DOMAIN positions : Tied(positions'[id]) = Tied(positions[id])
      PROVE  Idles
  <2>1. Keeps(db') /\ db'.cash = amount
    BY <1>3, <1>5 DEF Keeps
  <2> QED
    BY <1>5, <2>1 DEF Idles
<1>6. ASSUME NEW balance \in LiveBalances, EquityTick(balance)
      PROVE  Idles
  <2> DEFINE amount == IF Environment = "paper" THEN cash ELSE balance
  <2>1. /\ db' = WithCash(db, amount)
        /\ UNCHANGED <<cash, dailyLoss, learned, restarts, positions>>
    BY <1>6 DEF EquityTick, account
  <2> QED
    BY <1>5, <1>11, <2>1
<1>7. ASSUME NEW balance \in LiveBalances, AccountAnswered(balance)
      PROVE  Idles
  <2>1. /\ db' = WithCash(db, balance) /\ Environment # "paper"
        /\ UNCHANGED <<cash, dailyLoss, learned, restarts, positions>>
    BY <1>7 DEF AccountAnswered, account, NeverAsks
  <2> QED
    BY <1>5, <1>11, <2>1
<1>8. ASSUME NEW quotes, Tick(quotes)
      PROVE  Idles
  <2>1. /\ UNCHANGED <<cash, dailyLoss, learned, restarts, resetting>>
        /\ DOMAIN positions' = DOMAIN positions
        /\ \A id \in DOMAIN positions : Tied(positions'[id]) = Tied(positions[id])
    <3>1. /\ UNCHANGED <<cash, dailyLoss, learned, restarts, resetting>>
          /\ positions' = [id \in DOMAIN positions |->
                             Marked(positions[id], quotes[positions[id].market])]
      BY <1>8 DEF Tick
    <3>2. \A id \in DOMAIN positions : positions[id] \in Position
      BY OpenPosition
    <3> QED
      BY <3>1, <3>2, MarksTieNothing
  <2>2. CASE Environment = "paper"
    BY <1>5, <1>8, <2>1, <2>2 DEF Tick
  <2>3. CASE Environment # "paper"
    <3>1. db' = db
      BY <1>8, <2>3 DEF Tick
    <3> QED
      BY <2>1, <2>3, <3>1 DEF Idles, Keeps
  <2> QED
    BY <2>2, <2>3
<1>9. CASE BeginReset \/ TrimDone \/ AlertSent \/ EndScan \/ UNCHANGED vars
  BY <1>4, <1>9 DEF BeginReset, TrimDone, AlertSent, EndScan, vars, account
<1>10. ASSUME NEW m \in Markets, NEW q \in Quotes, StreamQuote(m, q)
       PROVE  Idles
  BY <1>4, <1>10 DEF StreamQuote, account
<1> QED
  BY <1>6, <1>7, <1>8, <1>9, <1>10

\* A reset that ends has closed everything already.
LEMMA EndResetEnds == ASSUME Inv, EndReset PROVE Idles \/ Crashes
<1> DEFINE cleared == [db EXCEPT !.rows = EmptyBook]
           final == WithCash(cleared, cash)
<1>1. HasTables(db)
  BY DatabaseHasTables DEF Inv, DbOK
<1>2. DOMAIN positions = {} /\ db.rows = EmptyBook
  BY DEF EndReset, Inv, RowsMatchBook, EmptyBook
<1>3. HasTables(cleared) /\ Keeps(cleared)
  BY <1>1, <1>2 DEF HasTables, Keeps
<1>4. DOMAIN EmptyBook = {}
  BY DEF EmptyBook
<1> HIDE DEF cleared
<1>5. Keeps(final) /\ final.cash = cash
  BY <1>3, CashIsNoMatter
<1> HIDE DEF final
<1>6. ASSUME Completes(final, cash, EmptyBook, dailyLoss, learned)
      PROVE  Idles
  BY <1>2, <1>4, <1>5, <1>6 DEF Completes, Idles, Keeps
<1>7. ASSUME CrashesIn({cleared})
      PROVE  Crashes
  BY <1>3, <1>7, CrashIsReached DEF Reached
<1> QED
  BY <1>6, <1>7 DEF EndReset, cleared, final

\* Every step ends in one of the four ways.
LEMMA StepEnds ==
  ASSUME Inv, NeverAsks, [Next]_vars
  PROVE  Idles \/ OpensOne \/ ClosesOne \/ Crashes
<1>1. ASSUME NEW id \in DOMAIN positions
      PROVE  /\ ExitAt(positions[id], prices[positions[id].market]) \in Int
             /\ ExitAtEntry(positions[id]) \in Int
  <2>1. positions[id] \in Position /\ prices[positions[id].market] \in Int
    BY OpenPosition, ScalarTypes DEF Position
  <2> QED
    BY <2>1, PriceTypes
<1>2. CASE Signal
  BY <1>2, OpenEnds, CloseBySignalEnds DEF Signal
<1>3. ASSUME NEW id \in PosIds, ManualClose(id)
      PROVE  ClosesOne \/ Crashes
  <2> DEFINE price == ExitAt(positions[id], prices[positions[id].market])
             newCash == CloseCash(positions[id], price)
  <2>1. id \in DOMAIN positions /\ "manual_close" \in Reasons
    BY <1>3 DEF ManualClose, Reasons
  <2>2. price \in Int
    BY <1>1, <2>1
  <2> HIDE DEF price
  <2> DEFINE st == CloseSettlement(id, positions[id], price, "manual_close")
  <2>3. \/ CloseCompletes(WithCash(st.stamped, newCash), id, positions[id], price)
        \/ CloseCrashes(id, positions[id], price, "manual_close")
        \/ CrashesIn({st.stamped})
    BY <1>3 DEF ManualClose, price
  <2> HIDE DEF st, newCash
  <2> QED
    BY <2>1, <2>2, <2>3, TargetedCloseEnds DEF st, newCash
<1>4. ASSUME NEW id \in PosIds, ResetOne(id)
      PROVE  ClosesOne \/ Crashes
  <2> DEFINE pos == positions[id]
             price == IF prices[pos.market] = NoQuote THEN ExitAtEntry(pos)
                                                      ELSE ExitAt(pos, prices[pos.market])
  <2>1. id \in DOMAIN positions /\ "operator_reset" \in Reasons
    BY <1>4 DEF ResetOne, IsOldest, Reasons
  <2>2. price \in Int
    BY <1>1, <2>1
  <2> HIDE DEF price
  <2> DEFINE st == CloseSettlement(id, pos, price, "operator_reset")
  <2>3. \/ CloseCompletes(st.stamped, id, pos, price) /\ resetting'
        \/ CloseCrashes(id, pos, price, "operator_reset")
    BY <1>4 DEF ResetOne, price
  <2> HIDE DEF st
  <2> QED
    BY <2>1, <2>2, <2>3, TargetedCloseEnds DEF st
<1>5. ASSUME NEW id \in PosIds, StopClose(id)
      PROVE  ClosesOne \/ Crashes
  <2> DEFINE pos == positions[id]
             price == ExitAt(pos, prices[pos.market])
             reason == StopReason(pos, prices[pos.market])
  <2>1. id \in DOMAIN positions
    BY <1>5 DEF StopClose, Triggered
  <2>2. price \in Int
    BY <1>1, <2>1
  <2>3. reason \in Reasons /\ reason \in {"stop_loss", "trailing_stop"}
    BY DEF StopReason, Reasons
  <2> HIDE DEF price, reason
  <2> DEFINE st == CloseSettlement(id, pos, price, reason)
  <2>4. \/ CloseCompletes(st.stamped, id, pos, price)
        \/ CloseCrashes(id, pos, price, reason)
    BY <1>5 DEF StopClose, price, reason
  <2> HIDE DEF st
  <2> QED
    BY <2>1, <2>2, <2>3, <2>4, TargetedCloseEnds DEF st
<1>6. CASE OperatorReset
  BY <1>4, <1>6, QuietEnds, EndResetEnds DEF OperatorReset
<1>7. CASE StrategyTick
  BY <1>5, <1>7, QuietEnds DEF StrategyTick
<1>8. CASE Restart
  <2>1. Reached(db)
    BY DEF Reached, Keeps
  <2> QED
    BY <1>8, <2>1 DEF Restart, Crashes
<1>9. CASE \/ \E m \in Markets, q \in Quotes : StreamQuote(m, q)
           \/ \E balance \in LiveBalances : EquityTick(balance)
           \/ UNCHANGED vars
  BY <1>9, QuietEnds
<1> QED
  BY <1>2, <1>3, <1>6, <1>7, <1>8, <1>9 DEF Next

\* In a paper environment the strategy loop never waits for the exchange.
LEMMA NeverAsksHolds == Spec => []NeverAsks
<1>1. Init => NeverAsks
  BY DEF Init, NeverAsks
<1> QED
  BY <1>1, NeverAsksStep, PTL DEF Spec

-----------------------------------------------------------------------------
(* What the rows say of each other.                                        *)

\* The databases whose orders carry no result but that of an outcome.
LedgerOK(d) ==
  \A k \in DOMAIN d.orders : d.orders[k].pnl # 0 =>
    /\ d.orders[k].kind = "close"
    /\ \E n \in DOMAIN d.outcomes :
         /\ d.outcomes[n].pos = d.orders[k].pos
         /\ d.outcomes[n].pnl = d.orders[k].pnl

\* Appending to a sequence.
LEMMA Appended ==
  ASSUME NEW S, NEW seq \in Seq(S), NEW e \in S
  PROVE  /\ DOMAIN seq \subseteq DOMAIN Append(seq, e)
         /\ DOMAIN Append(seq, e) = DOMAIN seq \cup {Len(seq) + 1}
         /\ \A n \in DOMAIN seq : Append(seq, e)[n] = seq[n]
         /\ Append(seq, e)[Len(seq) + 1] = e
<1>1. /\ DOMAIN Append(seq, e) = 1..(Len(seq) + 1)
      /\ DOMAIN seq = 1..Len(seq)
      /\ \A n \in 1..Len(seq) : Append(seq, e)[n] = seq[n]
      /\ Append(seq, e)[Len(seq) + 1] = e
      /\ Len(seq) \in Nat
  BY AppendProperties, LenProperties
<1> QED
  BY <1>1

\* Every commit keeps the results of orders and outcomes in step.
LEMMA ReachedLedger ==
  ASSUME Inv, LedgerOK(db), NEW d, Reached(d)
  PROVE  LedgerOK(d)
<1>1. db.orders \in Seq(Order) /\ db.outcomes \in Seq(Outcome)
  BY DEF Inv, DbOK, Databases
<1>2. CASE Keeps(d)
  BY <1>2 DEF Keeps, LedgerOK
<1>3. ASSUME NEW id, NEW order, NEW row, NEW k \in 1..2,
             Opening(id, order, row), Opens(d, k, id, order, row)
      PROVE  LedgerOK(d)
  <2>1. d.orders = Append(db.orders, order) /\ d.outcomes = db.outcomes
    BY <1>3 DEF Opens
  <2>2. order \in Order /\ order.pnl = 0
    BY <1>3 DEF Opening
  <2>3. /\ DOMAIN d.orders = DOMAIN db.orders \cup {Len(db.orders) + 1}
        /\ \A n \in DOMAIN db.orders : d.orders[n] = db.orders[n]
        /\ d.orders[Len(db.orders) + 1] = order
    BY <1>1, <2>1, <2>2, Appended
  <2> QED
    BY <2>1, <2>2, <2>3 DEF LedgerOK
<1>4. ASSUME NEW id, NEW order, NEW outcome, NEW k \in 1..5,
             Closing(id, order, outcome), Closes(d, k, id, order, outcome)
      PROVE  LedgerOK(d)
  <2> DEFINE new == IF k < 5 THEN order ELSE [order EXCEPT !.pnl = outcome.pnl]
  <2>1. /\ order \in Order /\ order.kind = "close" /\ order.pos = id /\ order.pnl = 0
        /\ outcome \in Outcome /\ outcome.pos = id /\ outcome.pnl \in Int
    BY <1>4 DEF Closing, Outcome
  <2>2. /\ new \in Order /\ new.kind = "close" /\ new.pos = id
        /\ new.pnl # 0 => k = 5 /\ new.pnl = outcome.pnl
    BY <2>1 DEF Order
  <2>3. d.orders = Append(db.orders, new)
    BY <1>4 DEF Closes
  <2> HIDE DEF new
  <2>4. /\ DOMAIN d.orders = DOMAIN db.orders \cup {Len(db.orders) + 1}
        /\ \A n \in DOMAIN db.orders : d.orders[n] = db.orders[n]
        /\ d.orders[Len(db.orders) + 1] = new
    BY <1>1, <2>2, <2>3, Appended
  <2>5. /\ \A n \in DOMAIN db.outcomes : n \in DOMAIN d.outcomes /\ d.outcomes[n] = db.outcomes[n]
        /\ k = 5 => \E n \in DOMAIN d.outcomes : d.outcomes[n] = outcome
    <3>1. CASE k < 3
      BY <1>4, <3>1 DEF Closes
    <3>2. CASE ~(k < 3)
      <4>1. d.outcomes = Append(db.outcomes, outcome)
        BY <1>4, <3>2 DEF Closes
      <4> QED
        BY <1>1, <2>1, <4>1, Appended
    <3> QED
      BY <3>1, <3>2
  <2> SUFFICES ASSUME NEW j \in DOMAIN d.orders, d.orders[j].pnl # 0
               PROVE  /\ d.orders[j].kind = "close"
                      /\ \E n \in DOMAIN d.outcomes :
                           /\ d.outcomes[n].pos = d.orders[j].pos
                           /\ d.outcomes[n].pnl = d.orders[j].pnl
    BY DEF LedgerOK
  <2>6. CASE j \in DOMAIN db.orders
    BY <2>4, <2>5, <2>6 DEF LedgerOK
  <2>7. CASE j = Len(db.orders) + 1
    BY <2>1, <2>2, <2>4, <2>5, <2>7
  <2> QED
    BY <2>4, <2>6, <2>7
<1> QED
  BY <1>2, <1>3, <1>4 DEF Reached

\* The database after a step is one that the step can leave behind.
LEMMA StepReaches ==
  ASSUME Inv, NeverAsks, [Next]_vars
  PROVE  Reached(db')
<1>1. ASSUME Idles PROVE Reached(db')
  BY <1>1 DEF Idles, Reached
<1>2. ASSUME OpensOne PROVE Reached(db')
  BY <1>2 DEF OpensOne, OpensAs, Reached
<1>3. ASSUME ClosesOne PROVE Reached(db')
  BY <1>3 DEF ClosesOne, ClosesAs, Reached
<1>4. ASSUME Crashes PROVE Reached(db')
  <2>1. PICK d : Reached(d) /\ RestartFrom(d)
    BY <1>4 DEF Crashes
  <2>2. d = db'
    BY <2>1 DEF RestartFrom
  <2>3. \A e : e = db' /\ Reached(e) => Reached(db')
    OBVIOUS
  <2> QED
    BY <2>1, <2>2, <2>3
<1> QED
  BY <1>1, <1>2, <1>3, <1>4, StepEnds

\* A result on an order is that of the outcome on file, for every set of
\* markets, sizes and quotes and after any number of crashes: the outcome is
\* saved before the order is stamped, and only the order of a close is.
THEOREM LedgerTellsOneStory == Spec => []LedgerMatchesOutcomes
<1>1. LedgerMatchesOutcomes <=> LedgerOK(db)
  BY DEF LedgerMatchesOutcomes, LedgerOK
<1>2. Init => LedgerMatchesOutcomes
  BY DEF Init, LedgerMatchesOutcomes
<1>3. ASSUME Inv, NeverAsks, LedgerMatchesOutcomes, [Next]_vars
      PROVE  LedgerMatchesOutcomes'
  <2>1. \A d : Reached(d) => LedgerOK(d)
    BY <1>1, <1>3, ReachedLedger
  <2>2. Reached(db')
    BY <1>3, StepReaches
  <2>3. LedgerOK(db')
    BY <2>1, <2>2
  <2> QED
    BY <2>3 DEF LedgerMatchesOutcomes, LedgerOK
<1> QED
  BY <1>2, <1>3, InvHolds, NeverAsksHolds, PTL DEF Spec

-----------------------------------------------------------------------------
(* What the learner and the newest snapshot know of the outcomes.          *)

\* A close adds its outcome to those on file.
LEMMA CloseAddsOutcome ==
  ASSUME Inv, NEW id, NEW order, NEW outcome, NEW lesson,
         ClosesAs(id, order, outcome, lesson)
  PROVE  LET new == Len(db.outcomes) + 1
         IN  /\ DOMAIN db'.outcomes = DOMAIN db.outcomes \cup {new}
             /\ \A n \in DOMAIN db.outcomes : db'.outcomes[n] = db.outcomes[n]
             /\ db'.outcomes[new] = outcome
             /\ outcome \in Outcome /\ outcome.pos = id
<1>1. db.outcomes \in Seq(Outcome)
  BY DEF Inv, DbOK, Databases
<1>2. /\ outcome \in Outcome /\ outcome.pos = id
      /\ db'.outcomes = Append(db.outcomes, outcome)
  BY DEF ClosesAs, Closing, Closes
<1> QED
  BY <1>1, <1>2, Appended

\* A step that neither closes anything nor crashes leaves learner and outcomes.
LEMMA NothingToLearn ==
  ASSUME Idles \/ OpensOne
  PROVE  learned' = learned /\ db'.outcomes = db.outcomes
BY DEF Idles, OpensOne, OpensAs, Keeps, Opens

\* LearnerFollowsOutcomes as a relation between lessons and outcomes.
LessonsOf(outcomes) ==
  {[pos |-> outcomes[n].pos, idea |-> outcomes[n].idea,
    direction |-> outcomes[n].direction] : n \in DOMAIN outcomes}

\* The lessons are about the outcomes; only closes by signal teach another idea.
Follow(lessons, outcomes) ==
  /\ {lesson.pos : lesson \in lessons} = {outcomes[n].pos : n \in DOMAIN outcomes}
  /\ \A lesson \in lessons \ LessonsOf(outcomes) : \E n \in DOMAIN outcomes :
       outcomes[n].pos = lesson.pos /\ outcomes[n].reason \in Routes

\* Every restart teaches what is on file, and nothing else.
LEMMA RestartTeachesTheFile ==
  ASSUME NEW outcomes
  PROVE  Follow(LessonsOf(outcomes), outcomes)
<1>1. \A n \in DOMAIN outcomes :
        \E lesson \in LessonsOf(outcomes) : lesson.pos = outcomes[n].pos
  <2> TAKE n \in DOMAIN outcomes
  <2> DEFINE filed == [pos |-> outcomes[n].pos, idea |-> outcomes[n].idea,
                       direction |-> outcomes[n].direction]
  <2>1. filed \in LessonsOf(outcomes)
    BY DEF LessonsOf
  <2>2. filed.pos = outcomes[n].pos
    OBVIOUS
  <2> WITNESS filed \in LessonsOf(outcomes)
  <2> QED
    BY <2>2
<1>2. \A lesson \in LessonsOf(outcomes) :
        \E n \in DOMAIN outcomes : lesson.pos = outcomes[n].pos
  BY DEF LessonsOf
<1> HIDE DEF LessonsOf
<1> DEFINE all == LessonsOf(outcomes)
<1>4. {lesson.pos : lesson \in all} = {outcomes[n].pos : n \in DOMAIN outcomes}
  BY <1>1, <1>2
<1> QED
  BY <1>4 DEF Follow

\* The learner was told of the outcomes on file and of no other, and books
\* each as it is on file unless a signal closed the position.
THEOREM LearnerIsToldOfOutcomes == Spec => []LearnerFollowsOutcomes
<1> DEFINE Follows == Follow(learned, db.outcomes)
<1>1. Follows <=> LearnerFollowsOutcomes
  BY DEF LearnerFollowsOutcomes, LearnedFrom, LessonsOf, Follow
<1>2. Init => Follows
  BY DEF Init, Follow
<1>3. ASSUME Follows, Idles \/ OpensOne
      PROVE  Follows'
  BY <1>3, NothingToLearn
<1>4. ASSUME Inv, Follows,
             NEW id, NEW order, NEW outcome, NEW lesson,
             ClosesAs(id, order, outcome, lesson)
      PROVE  Follows'
  <2> DEFINE new == Len(db.outcomes) + 1
             filed == [pos |-> id, idea |-> outcome.idea, direction |-> outcome.direction]
             after == db'.outcomes
             taught == learned'
  <2>1. /\ DOMAIN after = DOMAIN db.outcomes \cup {new}
        /\ \A n \in DOMAIN db.outcomes : after[n] = db.outcomes[n]
        /\ after[new] = outcome
        /\ outcome \in Outcome /\ outcome.pos = id
    BY <1>4, CloseAddsOutcome
  <2>2. /\ taught = learned \cup {lesson} /\ lesson.pos = id
        /\ outcome.reason \in Routes \/ lesson = filed
    BY <1>4 DEF ClosesAs, Lesson
  <2> HIDE DEF new, after, taught
  <2>3. filed \in LessonsOf(after) /\ LessonsOf(db.outcomes) \subseteq LessonsOf(after)
    BY <2>1 DEF LessonsOf
  <2>4. {l.pos : l \in taught} = {l.pos : l \in learned} \cup {id}
    BY <2>2
  <2>5. {after[n].pos : n \in DOMAIN after}
        = {db.outcomes[n].pos : n \in DOMAIN db.outcomes} \cup {id}
    BY <2>1
  <2>6. ASSUME NEW l \in taught, l \notin LessonsOf(after)
        PROVE  \E n \in DOMAIN after : after[n].pos = l.pos /\ after[n].reason \in Routes
    <3>1. CASE l \in learned
      <4>1. PICK n \in DOMAIN db.outcomes :
                   db.outcomes[n].pos = l.pos /\ db.outcomes[n].reason \in Routes
        BY <1>4, <2>3, <2>6, <3>1 DEF Follow
      <4> QED
        BY <2>1, <4>1
    <3>2. CASE l = lesson
      BY <2>1, <2>2, <2>3, <2>6, <3>2
    <3> QED
      BY <2>2, <2>6, <3>1, <3>2
  <2>7. Follow(taught, after)
    BY <1>4, <2>4, <2>5, <2>6 DEF Follow
  <2> QED
    BY <2>7 DEF taught, after
<1>5. ASSUME Crashes
      PROVE  Follows'
  <2>1. PICK d : db' = d /\ learned' = LearnedFrom(d)
    BY <1>5 DEF Crashes, RestartFrom
  <2>2. LearnedFrom(d) = LessonsOf(d.outcomes)
    BY DEF LearnedFrom, LessonsOf
  <2> QED
    BY <2>1, <2>2, RestartTeachesTheFile
<1>6. ASSUME Inv, NeverAsks, Follows, [Next]_vars
      PROVE  Follows'
  BY <1>3, <1>4, <1>5, <1>6, StepEnds DEF ClosesOne
<1> QED
  BY <1>1, <1>2, <1>6, InvHolds, NeverAsksHolds, PTL DEF Spec

\* In a paper environment only stop-outs leave the newest snapshot behind the
\* cash of the account.
THEOREM OnlyStopsLagBehind ==
  ASSUME Environment = "paper"
  PROVE  Spec => []CashLagsOnlyBehindStops
<1>1. Init => CashLagsOnlyBehindStops
  BY DEF Init, CashLagsOnlyBehindStops
<1>2. ASSUME CashLagsOnlyBehindStops, Idles
      PROVE  CashLagsOnlyBehindStops'
  <2>1. /\ db'.outcomes = db.outcomes /\ cash' = cash
        /\ \/ db'.cash = cash' \/ resetting'
           \/ db'.cash = db.cash /\ resetting' = resetting
    BY <1>2 DEF Idles, Keeps
  <2> QED
    BY <1>2, <2>1 DEF CashLagsOnlyBehindStops
<1>3. ASSUME OpensOne
      PROVE  CashLagsOnlyBehindStops'
  BY <1>3 DEF OpensOne, OpensAs, CashLagsOnlyBehindStops
<1>4. ASSUME Inv, CashLagsOnlyBehindStops,
             NEW id, NEW order, NEW outcome, NEW lesson,
             ClosesAs(id, order, outcome, lesson)
      PROVE  CashLagsOnlyBehindStops'
  <2>1. db'.cash = cash' \/ resetting' \/ outcome.reason \in {"stop_loss", "trailing_stop"}
    BY <1>4 DEF ClosesAs
  <2>2. \E n \in DOMAIN db'.outcomes : db'.outcomes[n] = outcome
    BY <1>4, CloseAddsOutcome
  <2> QED
    BY <2>1, <2>2 DEF CashLagsOnlyBehindStops
<1>5. ASSUME Crashes
      PROVE  CashLagsOnlyBehindStops'
  <2>1. db'.cash = cash'
    BY <1>5 DEF Crashes, RestartFrom
  <2> QED
    BY <2>1 DEF CashLagsOnlyBehindStops
<1>6. ASSUME Inv, NeverAsks, CashLagsOnlyBehindStops, [Next]_vars
      PROVE  CashLagsOnlyBehindStops'
  BY <1>2, <1>3, <1>4, <1>5, <1>6, StepEnds DEF ClosesOne
<1> QED
  BY <1>1, <1>6, InvHolds, NeverAsksHolds, PTL DEF Spec

-----------------------------------------------------------------------------
(* The refinement of PositionBook.  Stage and slot of a position are those *)
(* of the database alone, so what Reached says of the database after a     *)
(* step decides which step of the book it is.                              *)

\* Positions that have an outcome on file.
SettledIn(d) == {d.outcomes[n].pos : n \in DOMAIN d.outcomes}

\* StageOf, of a given database.
StageIn(d, id) ==
  IF id \in DOMAIN d.rows THEN "open"
  ELSE IF id \in SettledIn(d) THEN "settled"
  ELSE IF id \in IdsOf(d) THEN "closed" ELSE "unused"

\* SlotOf, of a given database.
SlotIn(d, id) ==
  IF id \in DOMAIN d.rows THEN <<d.rows[id].market, d.rows[id].direction>> ELSE <<>>

\* StageOf and SlotOf are the stage and the slot in the database.
LEMMA StageAndSlot ==
  ASSUME NEW id
  PROVE  /\ StageOf(id) = StageIn(db, id) /\ SlotOf(id) = SlotIn(db, id)
         /\ StageOf(id)' = StageIn(db', id) /\ SlotOf(id)' = SlotIn(db', id)
<1>1. HasOutcome(id) <=> id \in SettledIn(db)
  BY DEF HasOutcome, SettledIn
<1>2. UsedIds = IdsOf(db)
  BY DEF UsedIds, IdsOf
<1>3. HasOutcome(id)' <=> id \in SettledIn(db')
  BY DEF HasOutcome, SettledIn
<1>4. UsedIds' = IdsOf(db')
  BY DEF UsedIds, IdsOf
<1>5. SlotOf(id) = SlotIn(db, id) /\ SlotOf(id)' = SlotIn(db', id)
  BY DEF SlotOf, SlotIn
<1>6. StageOf(id) = StageIn(db, id)
  BY <1>1, <1>2 DEF StageOf, StageIn
<1>7. StageOf(id)' = StageIn(db', id)
  BY <1>3, <1>4 DEF StageOf, StageIn
<1> QED
  BY <1>5, <1>6, <1>7

\* An appended order brings its position's id.
LEMMA AppendedIds ==
  ASSUME NEW orders \in Seq(Order), NEW order \in Order, NEW d,
         d.orders = Append(orders, order)
  PROVE  IdsOf(d) = {orders[n].pos : n \in DOMAIN orders} \cup {order.pos}
<1> DEFINE new == Len(orders) + 1
<1>1. /\ DOMAIN d.orders = DOMAIN orders \cup {new}
      /\ \A n \in DOMAIN orders : d.orders[n] = orders[n]
      /\ d.orders[new] = order
  BY Appended
<1> HIDE DEF new
<1> QED
  BY <1>1 DEF IdsOf

\* What an opening does to stages and slots.
LEMMA OpeningMoves ==
  ASSUME Inv, NEW id, NEW order, NEW row, NEW k \in 1..2, NEW d,
         Opening(id, order, row), Opens(d, k, id, order, row)
  PROVE  /\ StageIn(db, id) = "unused" /\ SlotIn(db, id) = <<>>
         /\ StageIn(d, id) = IF k = 1 THEN "closed" ELSE "open"
         /\ SlotIn(d, id) = IF k = 1 THEN <<>> ELSE <<row.market, row.direction>>
         /\ \A other : other # id =>
              StageIn(d, other) = StageIn(db, other) /\ SlotIn(d, other) = SlotIn(db, other)
<1>1. /\ db.orders \in Seq(Order) /\ DOMAIN db.rows \subseteq IdsOf(db)
      /\ \A n \in DOMAIN db.outcomes : db.outcomes[n].pos \in IdsOf(db)
  BY DEF Inv, DbOK, Databases, OneOutcomeEach
<1>2. /\ id \notin IdsOf(db) /\ order \in Order /\ order.pos = id
      /\ d.orders = Append(db.orders, order) /\ d.outcomes = db.outcomes
  BY DEF Opening, Opens, UsedIds, IdsOf
<1>3. IdsOf(d) = IdsOf(db) \cup {id}
  <2>1. IdsOf(d) = {db.orders[n].pos : n \in DOMAIN db.orders} \cup {order.pos}
    BY <1>1, <1>2, AppendedIds
  <2> QED
    BY <1>2, <2>1 DEF IdsOf
<1>4. SettledIn(d) = SettledIn(db) /\ SettledIn(db) \subseteq IdsOf(db)
  BY <1>1, <1>2 DEF SettledIn
<1>5. CASE k = 1
  <2>1. d.rows = db.rows
    BY <1>5 DEF Opens
  <2> QED
    BY <1>1, <1>2, <1>3, <1>4, <1>5, <2>1 DEF StageIn, SlotIn
<1>6. CASE k = 2
  <2>1. d.rows = [i \in DOMAIN db.rows \cup {id} |-> IF i = id THEN row ELSE db.rows[i]]
    BY <1>6 DEF Opens
  <2>2. /\ DOMAIN d.rows = DOMAIN db.rows \cup {id} /\ d.rows[id] = row
        /\ \A i \in DOMAIN db.rows : i # id => d.rows[i] = db.rows[i]
    BY <2>1
  <2>3. /\ StageIn(db, id) = "unused" /\ StageIn(d, id) = "open"
        /\ \A other : other # id => StageIn(d, other) = StageIn(db, other)
    BY <1>1, <1>2, <1>3, <1>4, <2>2 DEF StageIn
  <2>4. /\ SlotIn(db, id) = <<>> /\ SlotIn(d, id) = <<row.market, row.direction>>
        /\ \A other : other # id => SlotIn(d, other) = SlotIn(db, other)
    BY <1>1, <1>2, <2>2 DEF SlotIn
  <2> QED
    BY <1>6, <2>3, <2>4
<1> QED
  BY <1>5, <1>6

\* What a close does to stages and slots.
LEMMA ClosingMoves ==
  ASSUME Inv, NEW id, NEW order, NEW outcome, NEW k \in 1..5, NEW d,
         Closing(id, order, outcome), Closes(d, k, id, order, outcome)
  PROVE  /\ StageIn(db, id) = "open"
         /\ StageIn(d, id) = IF k = 1 THEN "open" ELSE IF k = 2 THEN "closed" ELSE "settled"
         /\ SlotIn(d, id) = IF k = 1 THEN SlotIn(db, id) ELSE <<>>
         /\ \A other : other # id =>
              StageIn(d, other) = StageIn(db, other) /\ SlotIn(d, other) = SlotIn(db, other)
<1> DEFINE new == IF k < 5 THEN order ELSE [order EXCEPT !.pnl = outcome.pnl]
<1>1. /\ db.orders \in Seq(Order) /\ db.outcomes \in Seq(Outcome)
      /\ DOMAIN db.rows \subseteq IdsOf(db)
      /\ \A n \in DOMAIN db.outcomes : db.outcomes[n].pos \notin DOMAIN db.rows
  BY DEF Inv, DbOK, Databases, OneOutcomeEach
<1>2. /\ id \in DOMAIN db.rows /\ order \in Order /\ order.pos = id
      /\ outcome \in Outcome /\ outcome.pos = id /\ outcome.pnl \in Int
      /\ d.orders = Append(db.orders, new)
  BY DEF Closing, Closes, Outcome
<1>3. new \in Order /\ new.pos = id
  BY <1>2 DEF Order
<1> HIDE DEF new
<1>4. IdsOf(d) = IdsOf(db)
  <2>1. IdsOf(d) = {db.orders[n].pos : n \in DOMAIN db.orders} \cup {new.pos}
    BY <1>1, <1>2, <1>3, AppendedIds
  <2> QED
    BY <1>1, <1>2, <1>3, <2>1 DEF IdsOf
<1>5. SettledIn(d) = IF k < 3 THEN SettledIn(db) ELSE SettledIn(db) \cup {id}
  <2>1. CASE k < 3
    BY <2>1 DEF Closes, SettledIn
  <2>2. CASE ~(k < 3)
    <3> DEFINE last == Len(db.outcomes) + 1
    <3>1. d.outcomes = Append(db.outcomes, outcome)
      BY <2>2 DEF Closes
    <3>2. /\ DOMAIN d.outcomes = DOMAIN db.outcomes \cup {last}
          /\ \A n \in DOMAIN db.outcomes : d.outcomes[n] = db.outcomes[n]
          /\ d.outcomes[last] = outcome
      BY <1>1, <1>2, <3>1, Appended
    <3> HIDE DEF last
    <3>3. SettledIn(d) = SettledIn(db) \cup {id}
      BY <1>2, <3>2 DEF SettledIn
    <3> QED
      BY <2>2, <3>3
  <2> QED
    BY <2>1, <2>2
<1>6. id \notin SettledIn(db)
  BY <1>1, <1>2 DEF SettledIn
<1>7. CASE k = 1
  <2>1. d.rows = db.rows
    BY <1>7 DEF Closes
  <2> QED
    BY <1>1, <1>2, <1>4, <1>5, <1>7, <2>1 DEF StageIn, SlotIn
<1>8. CASE k \in 2..5
  <2>1. d.rows = [i \in DOMAIN db.rows \ {id} |-> db.rows[i]]
    BY <1>8 DEF Closes
  <2>2. /\ DOMAIN d.rows = DOMAIN db.rows \ {id}
        /\ \A i \in DOMAIN db.rows : i # id => d.rows[i] = db.rows[i]
    BY <2>1
  <2> QED
    BY <1>1, <1>2, <1>4, <1>5, <1>6, <1>8, <2>2 DEF StageIn, SlotIn
<1> QED
  BY <1>7, <1>8

\* A step that takes one position from one stage to another.
LEMMA BookMoves ==
  ASSUME NEW p \in PosIds, NEW from, NEW to, NEW s,
         StageIn(db, p) = from, StageIn(db', p) = to, SlotIn(db', p) = s,
         \A other : other # p => /\ StageIn(db', other) = StageIn(db, other)
                                 /\ SlotIn(db', other) = SlotIn(db, other)
  PROVE  PB!Moves(p, from, to, s)
<1>1. \A id \in PosIds : /\ StageOf(id)' = IF id = p THEN to ELSE StageOf(id)
                         /\ SlotOf(id)' = IF id = p THEN s ELSE SlotOf(id)
  BY StageAndSlot
<1>2. StageOf(p) = from
  BY StageAndSlot
<1> QED
  BY <1>1, <1>2 DEF PB!Moves

\* A step that leaves every stage and slot leaves the book.
LEMMA BookStutters ==
  ASSUME \A id : StageIn(db', id) = StageIn(db, id) /\ SlotIn(db', id) = SlotIn(db, id)
  PROVE  UNCHANGED <<[id \in PosIds |-> StageOf(id)], [id \in PosIds |-> SlotOf(id)]>>
BY StageAndSlot

\* Whatever a step leaves behind is a step of the book.
LEMMA BookStep ==
  ASSUME Inv, Reached(db')
  PROVE  \/ PB!Next
         \/ UNCHANGED <<[id \in PosIds |-> StageOf(id)], [id \in PosIds |-> SlotOf(id)]>>
<1>1. CASE Keeps(db')
  <2>1. \A id : StageIn(db', id) = StageIn(db, id) /\ SlotIn(db', id) = SlotIn(db, id)
    BY <1>1 DEF Keeps, StageIn, SlotIn, SettledIn, IdsOf
  <2> QED
    BY <2>1, BookStutters
<1>2. ASSUME NEW id, NEW order, NEW row, NEW k \in 1..2,
             Opening(id, order, row), Opens(db', k, id, order, row)
      PROVE  PB!Next
  <2>1. /\ StageIn(db, id) = "unused"
        /\ StageIn(db', id) = IF k = 1 THEN "closed" ELSE "open"
        /\ SlotIn(db', id) = IF k = 1 THEN <<>> ELSE <<row.market, row.direction>>
        /\ \A other : other # id =>
             StageIn(db', other) = StageIn(db, other) /\ SlotIn(db', other) = SlotIn(db, other)
    BY <1>2, OpeningMoves
  <2>2. id \in PosIds /\ row \in Row
    BY <1>2 DEF Opening
  <2>3. CASE k = 1
    <3>1. PB!Moves(id, "unused", "closed", <<>>)
      BY <2>1, <2>2, <2>3, BookMoves
    <3> QED
      BY <2>2, <3>1 DEF PB!Next, PB!Lose
  <2>4. CASE k = 2
    <3> DEFINE s == <<row.market, row.direction>>
    <3>1. PB!Moves(id, "unused", "open", s)
      BY <2>1, <2>2, <2>4, BookMoves
    <3>2. s \in Markets \X Directions
      BY <2>2 DEF Row
    <3>3. \A other \in PosIds : SlotOf(other) # s
      <4>1. \A i \in DOMAIN db.rows :
              ~(db.rows[i].market = row.market /\ db.rows[i].direction = row.direction)
        BY <1>2 DEF Opening
      <4>2. \A other : SlotIn(db, other) # s
        BY <4>1 DEF SlotIn
      <4> QED
        BY <4>2, StageAndSlot
    <3> HIDE DEF s
    <3>4. PB!Open(id, s)
      BY <3>1, <3>3 DEF PB!Open
    <3> QED
      BY <2>2, <3>2, <3>4 DEF PB!Next
  <2> QED
    BY <2>3, <2>4
<1>3. ASSUME NEW id, NEW order, NEW outcome, NEW k \in 1..5,
             Closing(id, order, outcome), Closes(db', k, id, order, outcome)
      PROVE  \/ PB!Next
             \/ UNCHANGED <<[i \in PosIds |-> StageOf(i)], [i \in PosIds |-> SlotOf(i)]>>
  <2>1. /\ StageIn(db, id) = "open"
        /\ StageIn(db', id) = IF k = 1 THEN "open" ELSE IF k = 2 THEN "closed" ELSE "settled"
        /\ SlotIn(db', id) = IF k = 1 THEN SlotIn(db, id) ELSE <<>>
        /\ \A other : other # id =>
             StageIn(db', other) = StageIn(db, other) /\ SlotIn(db', other) = SlotIn(db, other)
    BY <1>3, ClosingMoves
  <2>2. id \in PosIds
    BY <1>3 DEF Closing, Outcome
  <2>3. CASE k = 1
    BY <2>1, <2>3, BookStutters
  <2>4. CASE k = 2
    <3>1. PB!Moves(id, "open", "closed", <<>>)
      BY <2>1, <2>2, <2>4, BookMoves
    <3> QED
      BY <2>2, <3>1 DEF PB!Next, PB!CloseUnsettled
  <2>5. CASE k \in 3..5
    <3>1. PB!Moves(id, "open", "settled", <<>>)
      BY <2>1, <2>2, <2>5, BookMoves
    <3> QED
      BY <2>2, <3>1 DEF PB!Next, PB!Settle
  <2> QED
    BY <2>3, <2>4, <2>5
<1> QED
  BY <1>1, <1>2, <1>3 DEF Reached

\* The paper account implements PositionBook: over crashes and restarts a
\* position is opened and closed once, in a slot of its own, and its result
\* is recorded at most once.
THEOREM AccountImplementsBook == Spec => ImplementsPositionBook
<1>1. ASSUME Init PROVE PB!Init
  <2>1. db.rows = EmptyBook /\ db.orders = <<>> /\ db.outcomes = <<>>
    BY <1>1 DEF Init
  <2>2. DOMAIN db.rows = {} /\ IdsOf(db) = {} /\ SettledIn(db) = {}
    BY <2>1 DEF EmptyBook, IdsOf, SettledIn
  <2>3. \A id : StageOf(id) = "unused" /\ SlotOf(id) = <<>>
    BY <2>2, StageAndSlot DEF StageIn, SlotIn
  <2> QED
    BY <2>3 DEF PB!Init
<1>2. ASSUME Inv, NeverAsks, [Next]_vars
      PROVE  \/ PB!Next
             \/ UNCHANGED <<[id \in PosIds |-> StageOf(id)], [id \in PosIds |-> SlotOf(id)]>>
  BY <1>2, StepReaches, BookStep
<1> QED
  BY <1>1, <1>2, InvHolds, NeverAsksHolds, PTL DEF Spec, ImplementsPositionBook, PB!Spec

-----------------------------------------------------------------------------
(* Which steps can take cash below zero.                                   *)

\* Every open row has the size of an order and was filled at a price above
\* zero.
AsOrdered(row) ==
  /\ row.avgPrice > 0
  /\ row.size \in Sizes \/ -row.size \in Sizes

\* Every open row is as it was ordered.
RowsAsOrdered == \A id \in DOMAIN db.rows : AsOrdered(db.rows[id])

\* An opening adds such a row, everything else leaves or removes rows.
LEMMA RowsStayAsOrdered == Spec => []RowsAsOrdered
<1>1. Init => RowsAsOrdered
  BY DEF Init, RowsAsOrdered, EmptyBook
<1>2. ASSUME RowsAsOrdered, NEW d, Reached(d)
      PROVE  \A id \in DOMAIN d.rows : AsOrdered(d.rows[id])
  <2>1. CASE Keeps(d)
    BY <1>2, <2>1 DEF Keeps, RowsAsOrdered
  <2>2. ASSUME NEW id, NEW order, NEW row, NEW k \in 1..2,
               Opening(id, order, row), Opens(d, k, id, order, row)
        PROVE  \A i \in DOMAIN d.rows : AsOrdered(d.rows[i])
    <3>1. AsOrdered(row)
      BY <2>2 DEF Opening, AsOrdered
    <3>2. \/ d.rows = db.rows
          \/ d.rows = [i \in DOMAIN db.rows \cup {id} |-> IF i = id THEN row ELSE db.rows[i]]
      BY <2>2 DEF Opens
    <3> QED
      BY <1>2, <3>1, <3>2 DEF RowsAsOrdered
  <2>3. ASSUME NEW id, NEW order, NEW outcome, NEW k \in 1..5,
               Closes(d, k, id, order, outcome)
        PROVE  \A i \in DOMAIN d.rows : AsOrdered(d.rows[i])
    <3>1. \/ d.rows = db.rows
          \/ d.rows = [i \in DOMAIN db.rows \ {id} |-> db.rows[i]]
      BY <2>3 DEF Closes
    <3> QED
      BY <1>2, <3>1 DEF RowsAsOrdered
  <2> QED
    BY <1>2, <2>1, <2>2, <2>3 DEF Reached
<1>3. ASSUME Inv, NeverAsks, RowsAsOrdered, [Next]_vars
      PROVE  RowsAsOrdered'
  <2>1. Reached(db')
    BY <1>3, StepReaches
  <2> QED
    BY <1>2, <1>3, <2>1 DEF RowsAsOrdered
<1> QED
  BY <1>1, <1>3, InvHolds, NeverAsksHolds, PTL DEF Spec

\* A fill is worth at least its fee, and neither is negative.
LEMMA FillsCoverTheirFee ==
  ASSUME NEW size \in Nat, NEW price \in Nat
  PROVE  /\ FillValue(size, price) \in Int /\ Fee(size, price) \in Int
         /\ 0 <= Fee(size, price) /\ Fee(size, price) <= FillValue(size, price)
<1>1. /\ Scale \in Int /\ TakerFeeRate \in Int
      /\ 0 <= TakerFeeRate /\ TakerFeeRate <= Scale
  BY RatesAssumption
<1> DEFINE base == size * price
<1>2. base \in Int /\ base >= 0
  BY SMT
<1>3. \A v, f, s \in Int : v >= 0 /\ 0 <= f /\ f <= s =>
        /\ v * f \in Int /\ v * s \in Int /\ 0 <= v * f /\ v * f <= v * s
  BY SMT
<1> HIDE DEF base
<1>4. FillValue(size, price) = base * Scale /\ Fee(size, price) = base * TakerFeeRate
  BY DEF FillValue, Fee, base
<1> QED
  BY <1>1, <1>2, <1>3, <1>4

\* A quote the table has is a price above zero.
LEMMA QuotesArePositive ==
  ASSUME Inv, NEW m \in Markets, prices[m] # NoQuote
  PROVE  prices[m] \in Int /\ prices[m] > 0
<1>1. prices[m] \in Quotes
  BY DEF Inv, MemoryOK
<1>2. \A q \in Quotes : q \in Int /\ q > 0
  BY PaperAssumption
<1> QED
  BY <1>1, <1>2

\* What an opening costs is what the funds check asked for, or less.
LEMMA OpeningsAreFunded ==
  ASSUME Inv, NEW route \in Routes, NEW m \in Markets, NEW direction \in Directions,
         NEW size \in Sizes, NEW idea \in Ideas, NEW id \in PosIds,
         OpenBySignal(route, m, direction, size, idea, id), restarts' = restarts
  PROVE  cash' \in Int /\ cash' >= 0
<1> DEFINE price == FillPrice(direction, prices[m])
<1>1. prices[m] # NoQuote
  BY DEF OpenBySignal, Admitted
<1>2. price \in Int /\ price > 0
  BY <1>1, QuotesArePositive, FillsArePositive
<1>3. size \in Int /\ size > 0 /\ cash \in Int /\ restarts \in Int
  <2>1. restarts \in 0..MaxRestarts /\ MaxRestarts \in Nat
    BY PaperAssumption DEF Inv, MemoryOK
  <2> QED
    BY <2>1, ScalarTypes
<1>4. CanFill(positions, cash, m, direction, size, price)
  BY DEF OpenBySignal, Admitted
<1>5. cash' = cash - OpeningCost(direction, size, price)
  <2>1. \A partial : ~CrashesIn(partial)
    BY <1>3 DEF CrashesIn, RestartFrom
  <2> QED
    BY <2>1 DEF OpenBySignal, Completes
<1>6. direction = "short" => Longs(positions, m) = {}
  BY DEF OpenBySignal
<1> HIDE DEF price
<1>7. /\ FillValue(size, price) \in Int /\ Fee(size, price) \in Int
      /\ 0 <= Fee(size, price) /\ Fee(size, price) <= FillValue(size, price)
  <2>1. size \in Nat /\ price \in Nat
    BY <1>2, <1>3
  <2> QED
    BY <2>1, FillsCoverTheirFee
<1>8. cash >= FillValue(size, price) + Fee(size, price)
  BY <1>4, <1>6 DEF CanFill
<1>9. \/ OpeningCost(direction, size, price) = FillValue(size, price) + Fee(size, price)
      \/ OpeningCost(direction, size, price) = Fee(size, price)
  BY DEF OpeningCost
<1> QED
  BY <1>3, <1>5, <1>7, <1>8, <1>9

\* A sale by signal brings in at least its fee.
LEMMA SalesPayTheirFee ==
  ASSUME Inv, NEW route \in Routes, NEW m \in Markets, NEW size \in Sizes,
         NEW idea \in Ideas, NEW id \in PosIds,
         CloseBySignal(route, m, size, idea, id), restarts' = restarts, cash >= 0
  PROVE  cash' \in Int /\ cash' >= 0
<1> DEFINE price == FillPrice("short", prices[m])
<1>1. prices[m] # NoQuote
  BY DEF CloseBySignal, Admitted
<1>2. price \in Int /\ price > 0
  BY <1>1, QuotesArePositive, FillsArePositive
<1>3. size \in Int /\ size > 0 /\ cash \in Int /\ restarts \in Int
  <2>1. restarts \in 0..MaxRestarts /\ MaxRestarts \in Nat
    BY PaperAssumption DEF Inv, MemoryOK
  <2> QED
    BY <2>1, ScalarTypes
<1>4. cash' = cash + FillValue(size, price) - Fee(size, price)
  <2>1. \A partial : ~CrashesIn(partial)
    BY <1>3 DEF CrashesIn, RestartFrom
  <2> QED
    BY <2>1 DEF CloseBySignal, Completes
<1> HIDE DEF price
<1>5. /\ FillValue(size, price) \in Int /\ Fee(size, price) \in Int
      /\ Fee(size, price) <= FillValue(size, price)
  <2>1. size \in Nat /\ price \in Nat
    BY <1>2, <1>3
  <2> QED
    BY <2>1, FillsCoverTheirFee
<1> QED
  BY <1>3, <1>4, <1>5

\* So does the targeted close of a long; a targeted close that leaves cash
\* below zero closes a short.
LEMMA LongsPayTheirFee ==
  ASSUME Inv, NEW id \in DOMAIN positions, NEW price \in Int, NEW final,
         CloseCompletes(final, id, positions[id], price),
         positions[id].size > 0 => price >= 0,
         cash >= 0, cash' < 0
  PROVE  id \in DOMAIN positions \ DOMAIN positions' /\ positions[id].size < 0
<1> DEFINE pos == positions[id]
<1>1. /\ cash' = cash + ClosingCredit(pos, price)
      /\ positions' = [i \in DOMAIN positions \ {id} |-> positions[i]]
  BY DEF CloseCompletes, Completes, CloseCash, Without
<1>2. cash \in Int /\ pos.size \in Int /\ pos.size # 0
  <2>1. pos \in Position /\ id \in DOMAIN db.rows /\ db.rows[id] = RowOf(pos)
    BY OpenPosition
  <2>2. RowSigns(db) /\ RowOf(pos).size = pos.size
    BY DEF Inv, DbOK, RowOf
  <2> HIDE DEF pos
  <2> QED
    BY <2>1, <2>2, ScalarTypes DEF RowSigns, Position
<1>3. CASE pos.size > 0
  <2> DEFINE size == pos.size
  <2>1. ClosingCredit(pos, price) = FillValue(size, price) - Fee(size, price)
    BY <1>2, <1>3 DEF ClosingCredit, Abs
  <2> HIDE DEF size
  <2>2. size \in Nat /\ price \in Nat
    BY <1>2, <1>3 DEF size
  <2>3. /\ FillValue(size, price) \in Int /\ Fee(size, price) \in Int
        /\ Fee(size, price) <= FillValue(size, price)
    BY <2>2, FillsCoverTheirFee
  <2>4. ClosingCredit(pos, price) >= 0 /\ ClosingCredit(pos, price) \in Int
    BY <2>1, <2>3
  <2>5. cash' >= 0
    BY <1>1, <1>2, <2>4
  <2> QED
    BY <1>1, <1>2, <2>4, <2>5
<1> QED
  BY <1>1, <1>2, <1>3

\* The fill of a long's exit has a price of zero or more, at a quote and at
\* its entry price.
LEMMA ExitsAreNotNegative ==
  ASSUME Inv, RowsAsOrdered, NEW id \in DOMAIN positions
  PROVE  /\ ExitAtEntry(positions[id]) \in Int
         /\ positions[id].size > 0 => ExitAtEntry(positions[id]) >= 0
         /\ prices[positions[id].market] # NoQuote =>
              /\ ExitAt(positions[id], prices[positions[id].market]) \in Int
              /\ ExitAt(positions[id], prices[positions[id].market]) >= 0
<1> DEFINE pos == positions[id]
           entry == FillPrice(ExitDirection(pos), pos.avgPrice)
<1>1. pos \in Position /\ id \in DOMAIN db.rows /\ db.rows[id] = RowOf(pos)
  BY OpenPosition
<1>2. pos.market \in Markets /\ pos.avgPrice \in Int /\ pos.avgPrice > 0
  <2>1. RowOf(pos).avgPrice = pos.avgPrice
    BY DEF RowOf
  <2> QED
    BY <1>1, <2>1 DEF Position, RowsAsOrdered, AsOrdered
<1>3. ASSUME prices[pos.market] # NoQuote
      PROVE  ExitAt(pos, prices[pos.market]) \in Int /\ ExitAt(pos, prices[pos.market]) >= 0
  BY <1>2, <1>3, QuotesArePositive, FillsArePositive DEF ExitAt
<1>4. entry \in Int /\ entry > 0
  BY <1>2, FillsArePositive
<1> HIDE DEF entry
<1>5. entry \div Scale \in Int /\ entry \div Scale >= 0
  BY <1>4, RatesAssumption
<1>6. ExitAtEntry(pos) = entry \div Scale
  BY DEF ExitAtEntry, entry
<1> QED
  BY <1>3, <1>5, <1>6

\* Only the close of a short takes cash below zero.
LEMMA OverdrawStep ==
  ASSUME Inv, RowsAsOrdered, Next, restarts' = restarts, cash >= 0, cash' < 0
  PROVE  \E id \in DOMAIN positions \ DOMAIN positions' : positions[id].size < 0
<1> DEFINE Goal == \E id \in DOMAIN positions \ DOMAIN positions' : positions[id].size < 0
<1>1. /\ \A d : ~RestartFrom(d)
      /\ \A partial : ~CrashesIn(partial)
      /\ \A id, pos, price, reason : ~CloseCrashes(id, pos, price, reason)
  <2>1. restarts \in 0..MaxRestarts /\ MaxRestarts \in Nat
    BY PaperAssumption DEF Inv, MemoryOK
  <2>2. \A d : ~RestartFrom(d)
    BY <2>1 DEF RestartFrom
  <2>3. \A partial : ~CrashesIn(partial)
    BY <2>2 DEF CrashesIn
  <2> QED
    BY <2>2, <2>3 DEF CloseCrashes
<1>2. cash' # cash
  BY ScalarTypes
<1>3. ASSUME NEW id \in DOMAIN positions, NEW price \in Int, NEW final,
             CloseCompletes(final, id, positions[id], price),
             positions[id].size > 0 => price >= 0
      PROVE  Goal
  BY <1>3, LongsPayTheirFee
<1> HIDE DEF Goal
<1>4. CASE Signal
  <2>1. ASSUME NEW route \in Routes, NEW m \in Markets, NEW direction \in Directions,
               NEW size \in Sizes, NEW idea \in Ideas, NEW id \in PosIds,
               OpenBySignal(route, m, direction, size, idea, id)
        PROVE  FALSE
    <3>1. cash' \in Int /\ cash' >= 0
      BY <2>1, OpeningsAreFunded
    <3> QED
      BY <3>1
  <2>2. ASSUME NEW route \in Routes, NEW m \in Markets, NEW size \in Sizes,
               NEW idea \in Ideas, NEW id \in PosIds,
               CloseBySignal(route, m, size, idea, id)
        PROVE  FALSE
    <3>1. cash' \in Int /\ cash' >= 0
      BY <2>2, SalesPayTheirFee
    <3> QED
      BY <3>1
  <2> QED
    BY <1>4, <2>1, <2>2 DEF Signal
<1>5. ASSUME NEW id \in PosIds, ManualClose(id)
      PROVE  Goal
  <2>1. /\ id \in DOMAIN positions /\ prices[positions[id].market] # NoQuote
        /\ \E final : CloseCompletes(final, id, positions[id],
                                     ExitAt(positions[id], prices[positions[id].market]))
    BY <1>1, <1>5 DEF ManualClose
  <2> QED
    BY <1>3, <2>1, ExitsAreNotNegative
<1>6. ASSUME NEW id \in PosIds, ResetOne(id)
      PROVE  Goal
  <2> DEFINE pos == positions[id]
             price == IF prices[pos.market] = NoQuote THEN ExitAtEntry(pos)
                                                      ELSE ExitAt(pos, prices[pos.market])
  <2>1. id \in DOMAIN positions /\ \E final : CloseCompletes(final, id, pos, price)
    BY <1>1, <1>6 DEF ResetOne, IsOldest
  <2>2. price \in Int /\ (pos.size > 0 => price >= 0)
    BY <2>1, ExitsAreNotNegative
  <2> HIDE DEF price
  <2> QED
    BY <1>3, <2>1, <2>2
<1>7. ASSUME NEW id \in PosIds, StopClose(id)
      PROVE  Goal
  <2>1. /\ id \in DOMAIN positions /\ prices[positions[id].market] # NoQuote
        /\ \E final : CloseCompletes(final, id, positions[id],
                                     ExitAt(positions[id], prices[positions[id].market]))
    BY <1>1, <1>7 DEF StopClose, Triggered, StopHit
  <2> QED
    BY <1>3, <2>1, ExitsAreNotNegative
<1>8. ~BeginReset /\ ~EndReset
  BY <1>1, <1>2 DEF BeginReset, EndReset, Completes, account
<1>9. ~TrimDone /\ ~AlertSent /\ ~EndScan
  BY <1>2 DEF TrimDone, AlertSent, EndScan, account
<1>10. \A quotes, balance : ~Tick(quotes) /\ ~AccountAnswered(balance) /\ ~EquityTick(balance)
  BY <1>2 DEF Tick, AccountAnswered, EquityTick, account
<1>11. \A m, q : ~StreamQuote(m, q)
  BY <1>2 DEF StreamQuote, account
<1> QED
  BY <1>1, <1>4, <1>5, <1>6, <1>7, <1>8, <1>9, <1>10, <1>11
     DEF Next, OperatorReset, StrategyTick, Restart, Goal

\* Only closing a short can take cash below zero: a buy, a sale and a fee are
\* funded, whatever was traded and whatever crashed before.
THEOREM OnlyShortsOverdraw == Spec => OnlyShortClosesOverdraw
<1>1. ASSUME Inv, RowsAsOrdered, [Next]_vars,
             restarts' = restarts, cash >= 0, cash' < 0
      PROVE  \E id \in DOMAIN positions \ DOMAIN positions' : positions[id].size < 0
  <2>1. CASE Next
    BY <1>1, <2>1, OverdrawStep
  <2>2. CASE UNCHANGED vars
    <3>1. cash' = cash
      BY <2>2 DEF vars, account
    <3> QED
      BY <1>1, <3>1, ScalarTypes
  <2> QED
    BY <1>1, <2>1, <2>2
<1>2. Inv /\ RowsAsOrdered /\ [Next]_vars =>
        [ (restarts' = restarts /\ cash >= 0 /\ cash' < 0) =>
            \E id \in DOMAIN positions \ DOMAIN positions' : positions[id].size < 0 ]_vars
  BY <1>1
<1> QED
  BY <1>2, InvHolds, RowsStayAsOrdered, PTL DEF Spec, OnlyShortClosesOverdraw

-----------------------------------------------------------------------------
(* Sums over finite sets.  MapThenSumSet is a recursive function on the    *)
(* subsets of its set.  That the recursion has a solution, that every      *)
(* solution gives the same sum and that the order of the summands does not *)
(* matter is shown by looking at a smallest set for which it fails.        *)

\* Among finitely many sets there is a smallest.
LEMMA SmallestSet ==
  ASSUME NEW S, IsFiniteSet(S), NEW T, T \subseteq SUBSET S, T # {}
  PROVE  \E x \in T : \A y \in T : y \subseteq x => y = x
<1>1. IsWellFoundedOn(StrictSubsetOrdering(S), SUBSET S)
  BY FS_StrictSubsetOrderingWellFounded, FS_FiniteSubsetsOfFinite
<1>2. PICK x \in T : \A y \in T : ~(<<y, x>> \in StrictSubsetOrdering(S))
  BY <1>1, WFMin
<1>3. \A y \in T : y \subseteq x /\ y # x => <<y, x>> \in StrictSubsetOrdering(S)
  <2> TAKE y \in T
  <2> HAVE y \subseteq x /\ y # x
  <2>1. y \in SUBSET S /\ x \in SUBSET S
    OBVIOUS
  <2>2. <<y, x>> \in (SUBSET S) \X (SUBSET S)
    BY <2>1
  <2>3. <<y, x>>[1] = y /\ <<y, x>>[2] = x
    OBVIOUS
  <2> QED
    BY <2>2, <2>3 DEF StrictSubsetOrdering
<1>4. \A y \in T : y \subseteq x => y = x
  BY <1>2, <1>3
<1> QED
  BY <1>4

\* The element that the recursion takes next.
FirstOf(s) == CHOOSE x \in s : TRUE

\* It is an element.
LEMMA FirstIsIn == \A s : s # {} => FirstOf(s) \in s
BY DEF FirstOf

\* g sums up v over every subset of S.
Sums(g, v, S) ==
  g = [s \in SUBSET S |-> IF s = {} THEN 0 ELSE v[FirstOf(s)] + g[s \ {FirstOf(s)}]]

\* What the recursion says of one subset.
LEMMA SumsRule ==
  ASSUME NEW g, NEW v, NEW S, Sums(g, v, S), NEW s \in SUBSET S
  PROVE  g[s] = IF s = {} THEN 0 ELSE v[FirstOf(s)] + g[s \ {FirstOf(s)}]
BY DEF Sums

\* Two sums of summands that agree are equal.
LEMMA SumsAgree ==
  ASSUME NEW g, NEW v, NEW S, Sums(g, v, S),
         NEW h, NEW w, NEW R, Sums(h, w, R),
         NEW s, s \subseteq S, s \subseteq R, IsFiniteSet(s),
         \A x \in s : v[x] = w[x]
  PROVE  g[s] = h[s]
<1> DEFINE bad == {t \in SUBSET s : g[t] # h[t]}
<1> SUFFICES ASSUME bad # {} PROVE FALSE
  OBVIOUS
<1>1. PICK t \in bad : \A u \in bad : u \subseteq t => u = t
  <2>1. bad \subseteq SUBSET s
    OBVIOUS
  <2> HIDE DEF bad
  <2> QED
    BY <2>1, SmallestSet
<1>0. t \in SUBSET S /\ t \in SUBSET R
  OBVIOUS
<1>7. g[t] = IF t = {} THEN 0 ELSE v[FirstOf(t)] + g[t \ {FirstOf(t)}]
  BY <1>0, SumsRule
<1>8. h[t] = IF t = {} THEN 0 ELSE w[FirstOf(t)] + h[t \ {FirstOf(t)}]
  BY <1>0, SumsRule
<1>2. t \subseteq s /\ g[t] # h[t]
  OBVIOUS
<1>3. t # {} /\ FirstOf(t) \in t
  BY <1>2, <1>7, <1>8, FirstIsIn
<1> DEFINE rest == t \ {FirstOf(t)}
<1>4. rest \subseteq t /\ rest # t
  BY <1>3
<1>5. g[rest] = h[rest]
  BY <1>1, <1>2, <1>4
<1>6. v[FirstOf(t)] = w[FirstOf(t)]
  BY <1>2, <1>3
<1> QED
  BY <1>2, <1>3, <1>5, <1>6, <1>7, <1>8

\* Every finite set has a sum.
LEMMA SumsExist ==
  ASSUME NEW v, NEW S, IsFiniteSet(S)
  PROVE  \E g : Sums(g, v, S)
<1> DEFINE bad == {t \in SUBSET S : ~\E g : Sums(g, v, t)}
<1> SUFFICES ASSUME bad # {} PROVE FALSE
  OBVIOUS
<1>1. PICK t \in bad : \A u \in bad : u \subseteq t => u = t
  <2>1. bad \subseteq SUBSET S
    OBVIOUS
  <2> HIDE DEF bad
  <2> QED
    BY <2>1, SmallestSet
<1>2. t \subseteq S /\ ~\E g : Sums(g, v, t)
  OBVIOUS
<1>3. \A u : u \subseteq t /\ u # t => \E g : Sums(g, v, u)
  BY <1>1, <1>2
<1> HIDE DEF bad
<1> DEFINE G(u) == CHOOSE g : Sums(g, v, u)
           total(u) == IF u = {} THEN 0
                       ELSE v[FirstOf(u)] + G(u \ {FirstOf(u)})[u \ {FirstOf(u)}]
           g == [u \in SUBSET t |-> total(u)]
<1>4. ASSUME NEW u, u \subseteq t, u # t PROVE Sums(G(u), v, u)
  BY <1>3, <1>4
<1> HIDE DEF G
<1>5. ASSUME NEW u, u \subseteq t, u # t PROVE G(u)[u] = g[u]
  <2> DEFINE rest == u \ {FirstOf(u)}
  <2>1. G(u)[u] = IF u = {} THEN 0 ELSE v[FirstOf(u)] + G(u)[rest]
    BY <1>4, <1>5, SumsRule
  <2>2. CASE u = {}
    BY <2>1, <2>2
  <2>3. CASE u # {}
    <3>1. FirstOf(u) \in u
      BY <2>3, FirstIsIn
    <3>2. rest \subseteq u /\ rest \subseteq t /\ rest # t /\ IsFiniteSet(rest)
      <4>1. rest \subseteq S
        BY <1>2, <1>5
      <4> QED
        BY <1>5, <3>1, <4>1, FS_Subset
    <3>3. Sums(G(u), v, u) /\ Sums(G(rest), v, rest)
      BY <1>4, <1>5, <3>2
    <3>4. G(u)[rest] = G(rest)[rest]
      BY <3>2, <3>3, SumsAgree
    <3>5. g[u] = total(u)
      BY <1>5
    <3> QED
      BY <2>1, <2>3, <3>4, <3>5
  <2> QED
    BY <2>2, <2>3
<1>6. ASSUME NEW u \in SUBSET t
      PROVE  g[u] = IF u = {} THEN 0 ELSE v[FirstOf(u)] + g[u \ {FirstOf(u)}]
  <2>1. g[u] = total(u)
    OBVIOUS
  <2>2. CASE u = {}
    BY <2>1, <2>2
  <2>3. CASE u # {}
    <3> DEFINE rest == u \ {FirstOf(u)}
    <3>1. rest \subseteq t /\ rest # t
      BY <2>3, FirstIsIn
    <3>2. G(rest)[rest] = g[rest]
      BY <1>5, <3>1
    <3> QED
      BY <2>1, <2>3, <3>2
  <2> QED
    BY <2>2, <2>3
<1>7. Sums(g, v, t)
  <2>1. g = [u \in SUBSET t |-> g[u]]
    OBVIOUS
  <2> HIDE DEF g
  <2> QED
    BY <1>6, <2>1 DEF Sums
<1> QED
  BY <1>2, <1>7

\* SumFunctionOnSet is the sum.
LEMMA SumIsSums ==
  ASSUME NEW g, NEW v, NEW S, IsFiniteSet(S), Sums(g, v, S)
  PROVE  \A s \in SUBSET S : SumFunctionOnSet(v, s) = g[s]
<1> TAKE s \in SUBSET S
<1>1. IsFiniteSet(s)
  BY FS_Subset
<1> DEFINE h == CHOOSE h : Sums(h, v, s)
<1>2. Sums(h, v, s)
  BY <1>1, SumsExist
<1>3. SumFunctionOnSet(v, s) = h[s]
  BY DEF SumFunctionOnSet, FoldFunctionOnSet, MapThenFoldSet, Sums, FirstOf
<1> HIDE DEF h
<1>4. g[s] = h[s]
  BY <1>1, <1>2, SumsAgree
<1> QED
  BY <1>3, <1>4

\* Summands that agree have the same sum.
LEMMA SumsOfEquals ==
  ASSUME NEW v, NEW w, NEW S, IsFiniteSet(S), \A x \in S : v[x] = w[x]
  PROVE  SumFunctionOnSet(v, S) = SumFunctionOnSet(w, S)
<1>1. PICK g : Sums(g, v, S)
  BY SumsExist
<1>2. PICK h : Sums(h, w, S)
  BY SumsExist
<1>3. g[S] = h[S]
  BY <1>1, <1>2, SumsAgree
<1>4. S \in SUBSET S
  OBVIOUS
<1> QED
  BY <1>1, <1>2, <1>3, <1>4, SumIsSums

\* The sum of integers is an integer, and any summand may be taken first.
LEMMA SumsOfIntegers ==
  ASSUME NEW v, NEW S, IsFiniteSet(S), \A x \in S : v[x] \in Int
  PROVE  /\ SumFunctionOnSet(v, {}) = 0
         /\ \A s \in SUBSET S :
              /\ SumFunctionOnSet(v, s) \in Int
              /\ \A x \in s : SumFunctionOnSet(v, s) = SumFunctionOnSet(v, s \ {x}) + v[x]
<1>1. PICK g : Sums(g, v, S)
  BY SumsExist
<1>2. \A s \in SUBSET S :
        g[s] = IF s = {} THEN 0 ELSE v[FirstOf(s)] + g[s \ {FirstOf(s)}]
  BY <1>1, SumsRule
<1>3. \A s \in SUBSET S : g[s] \in Int
  <2> DEFINE bad == {t \in SUBSET S : g[t] \notin Int}
  <2> SUFFICES ASSUME bad # {} PROVE FALSE
    OBVIOUS
  <2>1. PICK t \in bad : \A u \in bad : u \subseteq t => u = t
    <3>1. bad \subseteq SUBSET S
      OBVIOUS
    <3> HIDE DEF bad
    <3> QED
      BY <3>1, SmallestSet
  <2>2. t # {} /\ FirstOf(t) \in t
    BY <1>2, FirstIsIn
  <2> DEFINE rest == t \ {FirstOf(t)}
  <2>3. rest \in SUBSET S /\ rest \subseteq t /\ rest # t
    BY <2>2
  <2>4. g[rest] \in Int
    BY <2>1, <2>3
  <2> QED
    BY <1>2, <2>2, <2>4
<1>4. \A s \in SUBSET S : \A x \in s : g[s] = g[s \ {x}] + v[x]
  <2> DEFINE bad == {t \in SUBSET S : \E x \in t : g[t] # g[t \ {x}] + v[x]}
  <2> SUFFICES ASSUME bad # {} PROVE FALSE
    OBVIOUS
  <2>1. PICK t \in bad : \A u \in bad : u \subseteq t => u = t
    <3>1. bad \subseteq SUBSET S
      OBVIOUS
    <3> HIDE DEF bad
    <3> QED
      BY <3>1, SmallestSet
  <2>2. PICK x \in t : g[t] # g[t \ {x}] + v[x]
    OBVIOUS
  <2> DEFINE f == FirstOf(t)
             noF == t \ {f}
             noX == t \ {x}
             neither == noF \ {x}
  <2>3. f \in t /\ g[t] = v[f] + g[noF]
    BY <1>2, FirstIsIn
  <2> HIDE DEF f
  <2>4. v[f] \in Int /\ v[x] \in Int /\ g[noF] \in Int /\ g[noX] \in Int
    BY <1>3, <2>3
  <2>5. x # f
    <3> SUFFICES ASSUME x = f PROVE FALSE
      OBVIOUS
    <3>1. noF = noX
      OBVIOUS
    <3> QED
      BY <2>2, <2>3, <2>4, <3>1
  <2>6. g[noF] = g[neither] + v[x]
    <3>1. noF \in SUBSET S /\ noF \subseteq t /\ noF # t /\ x \in noF
      BY <2>3, <2>5
    <3> QED
      BY <2>1, <3>1
  <2>7. g[noX] = g[neither] + v[f]
    <3>1. noX \in SUBSET S /\ noX \subseteq t /\ noX # t /\ f \in noX
      BY <2>3, <2>5
    <3>2. noX \ {f} = neither
      OBVIOUS
    <3>3. g[noX] = g[noX \ {f}] + v[f]
      BY <2>1, <3>1
    <3> QED
      BY <3>2, <3>3
  <2>8. neither \in SUBSET S /\ g[neither] \in Int
    BY <1>3
  <2> QED
    BY <2>2, <2>3, <2>4, <2>6, <2>7, <2>8
<1>5. \A s \in SUBSET S : SumFunctionOnSet(v, s) = g[s]
  BY <1>1, SumIsSums
<1>6. SumFunctionOnSet(v, {}) = 0
  BY <1>2, <1>5
<1>7. \A s \in SUBSET S : \A x \in s : s \ {x} \in SUBSET S
  OBVIOUS
<1> QED
  BY <1>3, <1>4, <1>5, <1>6, <1>7

\* v and w have the same integers on S.
Agree(v, w, S) == \A x \in S : v[x] \in Int /\ w[x] = v[x]

\* A summand more.
LEMMA SumGrows ==
  ASSUME NEW v, NEW w, NEW S, IsFiniteSet(S), NEW e, e \notin S, w[e] \in Int,
         Agree(v, w, S)
  PROVE  /\ SumFunctionOnSet(v, S) \in Int
         /\ SumFunctionOnSet(w, S) = SumFunctionOnSet(v, S)
         /\ SumFunctionOnSet(w, S \cup {e}) = SumFunctionOnSet(v, S) + w[e]
<1> DEFINE all == S \cup {e}
<1>0. \A x \in S : v[x] \in Int /\ w[x] = v[x]
  BY DEF Agree
<1>1. IsFiniteSet(all) /\ \A x \in all : w[x] \in Int
  BY <1>0, FS_AddElement
<1>2. e \in all /\ all \ {e} = S /\ all \in SUBSET all
  OBVIOUS
<1> HIDE DEF all
<1>3. SumFunctionOnSet(w, all) = SumFunctionOnSet(w, all \ {e}) + w[e]
  BY <1>1, <1>2, SumsOfIntegers
<1>4. SumFunctionOnSet(w, S) = SumFunctionOnSet(v, S)
  BY <1>0, SumsOfEquals
<1>5. S \in SUBSET S
  OBVIOUS
<1>6. SumFunctionOnSet(v, S) \in Int
  BY <1>0, <1>5, SumsOfIntegers
<1> QED
  BY <1>2, <1>3, <1>4, <1>6 DEF all

-----------------------------------------------------------------------------
(* The loss of the day and the recorded results.                           *)

\* The risk_state row has the loss the process has.
LossOnFile == db.loss = dailyLoss

\* record_trade_result saves the loss it has counted.
LEMMA LossStaysOnFile == Spec => []LossOnFile
<1>1. Init => LossOnFile
  BY DEF Init, LossOnFile
<1>2. ASSUME LossOnFile, Idles \/ OpensOne PROVE LossOnFile'
  BY <1>2 DEF LossOnFile, Idles, OpensOne, OpensAs, Keeps, Opens
<1>3. ASSUME ClosesOne PROVE LossOnFile'
  <2>1. PICK id, order, outcome, lesson : ClosesAs(id, order, outcome, lesson)
    BY <1>3 DEF ClosesOne
  <2> QED
    BY <2>1 DEF LossOnFile, ClosesAs, Closes
<1>4. ASSUME Crashes PROVE LossOnFile'
  BY <1>4 DEF LossOnFile, Crashes, RestartFrom
<1>5. ASSUME Inv, NeverAsks, LossOnFile, [Next]_vars
      PROVE  LossOnFile'
  BY <1>2, <1>3, <1>4, <1>5, StepEnds
<1> QED
  BY <1>1, <1>5, InvHolds, NeverAsksHolds, PTL DEF Spec

\* The loss of every outcome.
Losses(outcomes) == [n \in DOMAIN outcomes |-> LossOf(outcomes[n].pnl)]

\* CrashForgetsOneLossAtMost as a relation: at most count of the losses are
\* missing from loss.
Counts(loss, outcomes, count) ==
  \E forgotten \in SUBSET DOMAIN outcomes :
    /\ Cardinality(forgotten) <= count
    /\ loss = SumFunctionOnSet(Losses(outcomes), DOMAIN outcomes \ forgotten)

\* Being allowed to forget more asks for less.
LEMMA CountsLess ==
  ASSUME NEW loss, NEW outcomes \in Seq(Outcome), NEW count \in Int, Counts(loss, outcomes, count)
  PROVE  Counts(loss, outcomes, count + 1)
<1>1. PICK forgotten \in SUBSET DOMAIN outcomes :
             /\ Cardinality(forgotten) <= count
             /\ loss = SumFunctionOnSet(Losses(outcomes), DOMAIN outcomes \ forgotten)
  BY DEF Counts
<1>2. Cardinality(forgotten) \in Int
  <2>1. IsFiniteSet(DOMAIN outcomes)
    BY LenProperties, FS_Interval
  <2> QED
    BY <2>1, FS_Subset, FS_CardinalityType
<1>3. Cardinality(forgotten) <= count + 1
  BY <1>1, <1>2
<1> QED
  BY <1>1, <1>3 DEF Counts

\* One outcome more: its loss is counted, or it is one of the forgotten.
LEMMA CountsOneMore ==
  ASSUME NEW loss, NEW outcomes \in Seq(Outcome), NEW count \in Int, Counts(loss, outcomes, count),
         NEW outcome \in Outcome
  PROVE  /\ Counts(loss + LossOf(outcome.pnl), Append(outcomes, outcome), count)
         /\ Counts(loss, Append(outcomes, outcome), count + 1)
<1> DEFINE after == Append(outcomes, outcome)
           new == Len(outcomes) + 1
           v == Losses(outcomes)
           w == Losses(after)
<1>1. PICK forgotten \in SUBSET DOMAIN outcomes :
             /\ Cardinality(forgotten) <= count
             /\ loss = SumFunctionOnSet(v, DOMAIN outcomes \ forgotten)
  BY DEF Counts
<1> DEFINE counted == DOMAIN outcomes \ forgotten
<1>2. /\ DOMAIN after = DOMAIN outcomes \cup {new}
      /\ \A n \in DOMAIN outcomes : after[n] = outcomes[n]
      /\ after[new] = outcome
  BY Appended
<1>3. new \notin DOMAIN outcomes /\ IsFiniteSet(DOMAIN outcomes)
  BY LenProperties, FS_Interval
<1> HIDE DEF after, new
<1>4. /\ \A n \in DOMAIN outcomes : v[n] \in Int /\ w[n] = v[n]
      /\ w[new] = LossOf(outcome.pnl) /\ w[new] \in Int
  <2>1. \A o \in Outcome : LossOf(o.pnl) \in Int
    BY DEF Outcome, LossOf
  <2>2. \A n \in DOMAIN outcomes : outcomes[n] \in Outcome
    BY ElementOfSeq
  <2> QED
    BY <1>2, <2>1, <2>2 DEF Losses
<1>5. IsFiniteSet(counted) /\ new \notin counted /\ IsFiniteSet(forgotten)
  BY <1>3, FS_Subset
<1> HIDE DEF v, w
<1>6. /\ \A n \in counted : v[n] \in Int /\ w[n] = v[n]
      /\ loss = SumFunctionOnSet(v, counted)
  BY <1>1, <1>4
<1>10. /\ DOMAIN after \ forgotten = counted \cup {new}
       /\ DOMAIN after \ (forgotten \cup {new}) = counted
       /\ forgotten \in SUBSET DOMAIN after
       /\ forgotten \cup {new} \in SUBSET DOMAIN after
  BY <1>1, <1>2, <1>3
<1> HIDE DEF counted
<1>7. /\ SumFunctionOnSet(w, counted) = loss
      /\ SumFunctionOnSet(w, counted \cup {new}) = loss + LossOf(outcome.pnl)
  <2>1. IsFiniteSet(counted) /\ new \notin counted /\ w[new] \in Int
    BY <1>4, <1>5
  <2>2. Agree(v, w, counted)
    BY <1>6 DEF Agree
  <2>3. /\ SumFunctionOnSet(v, counted) \in Int
        /\ SumFunctionOnSet(w, counted) = SumFunctionOnSet(v, counted)
        /\ SumFunctionOnSet(w, counted \cup {new}) = SumFunctionOnSet(v, counted) + w[new]
    BY <2>1, <2>2, SumGrows
  <2>4. loss = SumFunctionOnSet(v, counted) /\ w[new] = LossOf(outcome.pnl)
    BY <1>4, <1>6
  <2> QED
    BY ONLY <2>3, <2>4
<1>8. Counts(loss + LossOf(outcome.pnl), after, count)
  <2> DEFINE more == loss + LossOf(outcome.pnl)
  <2> HIDE DEF more
  <2>1. more = SumFunctionOnSet(w, DOMAIN after \ forgotten)
    BY <1>7, <1>10 DEF more
  <2>2. Counts(more, after, count)
    BY <1>1, <1>10, <2>1 DEF Counts, w
  <2> QED
    BY <2>2 DEF more
<1>9. Counts(loss, after, count + 1)
  <2> DEFINE more == forgotten \cup {new}
  <2>1. Cardinality(forgotten) \in Int
    BY <1>5, FS_CardinalityType
  <2>2. \/ Cardinality(more) = Cardinality(forgotten)
        \/ Cardinality(more) = Cardinality(forgotten) + 1
    BY <1>5, FS_AddElement
  <2>3. Cardinality(more) <= count + 1
    BY <1>1, <2>1, <2>2
  <2> QED
    BY <1>7, <1>10, <2>3 DEF Counts, w
<1> QED
  BY <1>8, <1>9 DEF after

\* The loss of the day is the sum of the recorded losses, but for at most one
\* forgotten loss per restart.
THEOREM OneLossPerCrash == Spec => []CrashForgetsOneLossAtMost
<1> DEFINE Counted == Counts(dailyLoss, db.outcomes, restarts)
<1>1. Counted <=> CrashForgetsOneLossAtMost
  BY DEF Counts, Losses, CrashForgetsOneLossAtMost
<1>2. ASSUME Init PROVE Counted
  <2>1. dailyLoss = 0 /\ db.outcomes = <<>> /\ restarts = 0
    BY <1>2 DEF Init
  <2> DEFINE v == Losses(<<>>)
  <2>2. DOMAIN <<>> = {} /\ IsFiniteSet({}) /\ Cardinality({}) = 0
    BY FS_EmptySet
  <2>3. \A x \in {} : v[x] \in Int
    OBVIOUS
  <2> HIDE DEF v
  <2>4. SumFunctionOnSet(v, {}) = 0
    BY <2>2, <2>3, SumsOfIntegers
  <2>5. {} \in SUBSET DOMAIN <<>> /\ DOMAIN <<>> \ {} = {}
    BY <2>2
  <2>6. Counts(0, <<>>, 0)
    BY <2>2, <2>4, <2>5 DEF Counts, v
  <2> QED
    BY <2>1, <2>6
<1>3. ASSUME Counted, Idles \/ OpensOne PROVE Counted'
  BY <1>3 DEF Idles, OpensOne, OpensAs, Keeps, Opens
<1>4. ASSUME Inv, Counted, NEW id, NEW order, NEW outcome, NEW lesson,
             ClosesAs(id, order, outcome, lesson)
      PROVE  Counted'
  <2>1. /\ db.outcomes \in Seq(Outcome) /\ restarts \in Int
    BY <1>4 DEF Inv, DbOK, Databases, MemoryOK
  <2>2. /\ outcome \in Outcome /\ restarts' = restarts
        /\ db'.outcomes = Append(db.outcomes, outcome)
        /\ dailyLoss' = dailyLoss + LossOf(outcome.pnl)
    BY <1>4 DEF ClosesAs, Closing, Closes
  <2> QED
    BY <1>4, <2>1, <2>2, CountsOneMore
<1>5. ASSUME Inv, LossOnFile, Counted, Crashes
      PROVE  Counted'
  <2>1. PICK d : /\ Reached(d)
                 /\ db' = d /\ dailyLoss' = d.loss /\ restarts' = restarts + 1
    BY <1>5 DEF Crashes, RestartFrom
  <2>2. db.outcomes \in Seq(Outcome) /\ restarts \in Int
    BY <1>5 DEF Inv, DbOK, Databases, MemoryOK
  <2>3. Counts(dailyLoss, db.outcomes, restarts + 1)
    BY <1>5, <2>2, CountsLess
  <2>4. \/ d.outcomes = db.outcomes /\ d.loss = db.loss
        \/ \E outcome \in Outcome :
             /\ d.outcomes = Append(db.outcomes, outcome)
             /\ \/ d.loss = db.loss
                \/ d.loss = dailyLoss + LossOf(outcome.pnl)
    <3>1. CASE Keeps(d)
      BY <3>1 DEF Keeps
    <3>2. CASE \E id, order, row : \E k \in 1..2 : Opens(d, k, id, order, row)
      BY <3>2 DEF Opens
    <3>3. ASSUME NEW id, NEW order, NEW outcome, NEW k \in 1..5,
                 Closing(id, order, outcome), Closes(d, k, id, order, outcome)
          PROVE  \/ d.outcomes = db.outcomes /\ d.loss = db.loss
                 \/ /\ outcome \in Outcome
                    /\ d.outcomes = Append(db.outcomes, outcome)
                    /\ \/ d.loss = db.loss
                       \/ d.loss = dailyLoss + LossOf(outcome.pnl)
      BY <3>3 DEF Closing, Closes
    <3> QED
      BY <2>1, <3>1, <3>2, <3>3 DEF Reached
  <2>5. CASE d.outcomes = db.outcomes /\ d.loss = db.loss
    BY <1>5, <2>1, <2>3, <2>5 DEF LossOnFile
  <2>6. ASSUME NEW outcome \in Outcome, d.outcomes = Append(db.outcomes, outcome),
               d.loss = db.loss
        PROVE  Counted'
    BY <1>5, <2>1, <2>2, <2>6, CountsOneMore DEF LossOnFile
  <2>7. ASSUME NEW outcome \in Outcome, d.outcomes = Append(db.outcomes, outcome),
               d.loss = dailyLoss + LossOf(outcome.pnl)
        PROVE  Counted'
    <3>1. restarts + 1 \in Int
      BY <2>2
    <3>2. Counts(dailyLoss + LossOf(outcome.pnl), Append(db.outcomes, outcome), restarts + 1)
      BY <2>2, <2>3, <3>1, CountsOneMore
    <3> QED
      BY <2>1, <2>7, <3>2
  <2> QED
    BY <2>4, <2>5, <2>6, <2>7
<1>6. ASSUME Inv, NeverAsks, LossOnFile, Counted, [Next]_vars
      PROVE  Counted'
  BY <1>3, <1>4, <1>5, <1>6, StepEnds DEF ClosesOne
<1> QED
  BY <1>1, <1>2, <1>6, InvHolds, NeverAsksHolds, LossStaysOnFile, PTL DEF Spec

-----------------------------------------------------------------------------
(* The books: cash, what the positions tie up and the recorded results.    *)

\* What each position ties up.
Ties(P) == [id \in DOMAIN P |-> Tied(P[id])]

\* The result of every outcome.
Results(outcomes) == [n \in DOMAIN outcomes |-> outcomes[n].pnl]

\* Cash, plus what is tied up, less the results.
Balance(amount, P, outcomes) ==
  amount + SumFunctionOnSet(Ties(P), DOMAIN P)
         - SumFunctionOnSet(Results(outcomes), DOMAIN outcomes)

\* Books is that balance.
LEMMA BooksBalance == Books = Balance(cash, positions, db.outcomes)
<1>1. DOMAIN Ties(positions) = DOMAIN positions /\ DOMAIN Results(db.outcomes) = DOMAIN db.outcomes
  BY DEF Ties, Results
<1>2. Books = cash + SumFunction(Ties(positions)) - SumFunction(Results(db.outcomes))
  BY DEF Books, Ties, Results
<1> QED
  BY <1>1, <1>2 DEF Balance, SumFunction

\* What a position ties up is a number.
LEMMA TiedTypes == \A pos \in Position : Tied(pos) \in Int
<1> TAKE pos \in Position
<1>1. pos.size \in Int /\ pos.avgPrice \in Int /\ pos.entryFee \in Int
  BY DEF Position
<1>2. FillValue(pos.size, pos.avgPrice) \in Int
  BY <1>1, AmountTypes
<1> QED
  BY <1>1, <1>2 DEF Tied

\* The summands are integers, the sets are finite.
LEMMA BooksTypes ==
  ASSUME Inv
  PROVE  /\ cash \in Int /\ IsFiniteSet(DOMAIN positions)
         /\ \A id \in DOMAIN positions : Ties(positions)[id] \in Int
         /\ IsFiniteSet(DOMAIN db.outcomes)
         /\ \A n \in DOMAIN db.outcomes : Results(db.outcomes)[n] \in Int
<1>1. cash \in Int
  BY ScalarTypes
<1>2. IsFiniteSet(DOMAIN positions)
  <2>1. DOMAIN positions \subseteq PosIds
    BY OpenPosition
  <2>2. IsFiniteSet(PosIds)
    BY PaperAssumption, FS_Interval DEF PosIds
  <2> QED
    BY <2>1, <2>2, FS_Subset
<1>4. \A id \in DOMAIN positions : Ties(positions)[id] \in Int
  BY TiedTypes, OpenPosition DEF Ties
<1>5. db.outcomes \in Seq(Outcome)
  BY DEF Inv, DbOK, Databases
<1>6. IsFiniteSet(DOMAIN db.outcomes)
  BY <1>5, LenProperties, FS_Interval
<1>7. \A n \in DOMAIN db.outcomes : Results(db.outcomes)[n] \in Int
  <2>1. \A n \in DOMAIN db.outcomes : db.outcomes[n] \in Outcome
    BY <1>5
  <2>2. \A outcome \in Outcome : outcome.pnl \in Int
    BY DEF Outcome
  <2> QED
    BY <2>1, <2>2 DEF Results
<1> QED
  BY <1>1, <1>2, <1>4, <1>6, <1>7

\* What is tied up by one position more, or one less.
LEMMA TiesChange ==
  ASSUME Inv, NEW P, NEW id
  PROVE  /\ /\ id \notin DOMAIN positions
            /\ \E pos : /\ P = [i \in DOMAIN positions \cup {id} |->
                                  IF i = id THEN pos ELSE positions[i]]
                        /\ Tied(pos) \in Int
            => SumFunctionOnSet(Ties(P), DOMAIN P)
                 = SumFunctionOnSet(Ties(positions), DOMAIN positions) + Tied(P[id])
         /\ id \in DOMAIN positions /\ P = Without(id)
            => SumFunctionOnSet(Ties(positions), DOMAIN positions)
                 = SumFunctionOnSet(Ties(P), DOMAIN P) + Tied(positions[id])
<1> DEFINE v == Ties(positions)
           w == Ties(P)
           ids == DOMAIN positions
<1>1. IsFiniteSet(ids) /\ \A i \in ids : v[i] \in Int /\ v[i] = Tied(positions[i])
  BY BooksTypes DEF Ties
<1>2. ASSUME id \notin ids, NEW pos, Tied(pos) \in Int,
             P = [i \in ids \cup {id} |-> IF i = id THEN pos ELSE positions[i]]
      PROVE  SumFunctionOnSet(w, DOMAIN P) = SumFunctionOnSet(v, ids) + Tied(P[id])
  <2>1. DOMAIN P = ids \cup {id} /\ P[id] = pos /\ \A i \in ids : P[i] = positions[i]
    BY <1>2
  <2>2. Agree(v, w, ids) /\ w[id] = Tied(pos)
    BY <1>1, <2>1 DEF Agree, Ties
  <2> HIDE DEF v, w, ids
  <2>3. w[id] \in Int
    BY <1>2, <2>2
  <2>4. SumFunctionOnSet(w, ids \cup {id}) = SumFunctionOnSet(v, ids) + w[id]
    BY <1>1, <1>2, <2>2, <2>3, SumGrows
  <2> QED
    BY <2>1, <2>2, <2>4
<1>3. ASSUME id \in ids, P = Without(id)
      PROVE  SumFunctionOnSet(v, ids) = SumFunctionOnSet(w, DOMAIN P) + Tied(positions[id])
  <2> DEFINE rest == ids \ {id}
  <2>1. DOMAIN P = rest /\ \A i \in rest : P[i] = positions[i]
    BY <1>3 DEF Without
  <2>2. Agree(w, v, rest) /\ v[id] = Tied(positions[id]) /\ v[id] \in Int
    BY <1>1, <1>3, <2>1 DEF Agree, Ties
  <2>3. IsFiniteSet(rest) /\ id \notin rest /\ rest \cup {id} = ids
    BY <1>1, <1>3, FS_Subset
  <2> HIDE DEF v, w, rest, ids
  <2>4. SumFunctionOnSet(v, rest \cup {id}) = SumFunctionOnSet(w, rest) + v[id]
    BY <2>2, <2>3, SumGrows
  <2> QED
    BY <2>1, <2>2, <2>3, <2>4
<1> QED
  BY <1>2, <1>3

\* Cash, what is tied up and the recorded results balance in every handler
\* that is not interrupted, whatever sizes the orders have; a short signal of
\* another size than the long it closes moves them by the difference, which it
\* sells at the exit price, and nothing else does.
THEOREM ResultsMatchCash == Spec => PnlMatchesCash
<1> DEFINE Balanced == Balance(cash, positions, db.outcomes)
           tied == SumFunctionOnSet(Ties(positions), DOMAIN positions)
           results == SumFunctionOnSet(Results(db.outcomes), DOMAIN db.outcomes)
<1>1. (Books = Balanced) /\ (Books = Balanced)'
  BY BooksBalance, PTL
<1>2. ASSUME Inv PROVE cash \in Int /\ tied \in Int /\ results \in Int
  <2>1. \A S : S \in SUBSET S
    OBVIOUS
  <2> QED
    BY <1>2, <2>1, BooksTypes, SumsOfIntegers
<1>3. ASSUME Inv, Idles PROVE Balanced' = Balanced
  <2>1. /\ cash' = cash /\ db'.outcomes = db.outcomes /\ DOMAIN positions' = DOMAIN positions
        /\ \A id \in DOMAIN positions : Tied(positions'[id]) = Tied(positions[id])
    BY <1>3 DEF Idles, Keeps
  <2>2. Ties(positions') = Ties(positions)
    BY <2>1 DEF Ties
  <2> QED
    BY <2>1, <2>2 DEF Balance
<1>4. ASSUME Inv, NEW id, NEW order, NEW pos, OpensAs(id, order, pos)
      PROVE  Balanced' = Balanced
  <2> DEFINE P == positions'
  <2>1. /\ db'.outcomes = db.outcomes /\ cash' = cash - Tied(pos) /\ pos \in Position
        /\ P = [i \in DOMAIN positions \cup {id} |-> IF i = id THEN pos ELSE positions[i]]
        /\ id \notin IdsOf(db)
    BY <1>4 DEF OpensAs, Opens, Opening, UsedIds, IdsOf
  <2>2. id \notin DOMAIN positions
    BY <1>4, <2>1, OpenPosition DEF Inv, DbOK
  <2>3. Tied(pos) \in Int /\ P[id] = pos
    BY <2>1, TiedTypes
  <2> HIDE DEF P
  <2>4. SumFunctionOnSet(Ties(P), DOMAIN P) = tied + Tied(pos)
    BY <1>4, <2>1, <2>2, <2>3, TiesChange
  <2>5. Balance(cash', P, db'.outcomes) = (cash - Tied(pos)) + (tied + Tied(pos)) - results
    BY <2>1, <2>4 DEF Balance
  <2>6. Balanced = cash + tied - results
    BY DEF Balance
  <2> HIDE DEF tied, results
  <2> QED
    BY <1>2, <1>4, <2>3, <2>5, <2>6 DEF P
<1>5. ASSUME Inv, NEW id, NEW order, NEW outcome, NEW lesson, NEW more,
             ClosesAs(id, order, outcome, lesson), PaysBack(id, outcome, more)
      PROVE  Balanced' = Balanced + more
  <2> DEFINE P == positions'
             new == Len(db.outcomes) + 1
             after == db'.outcomes
             pos == positions[id]
  <2>1. /\ id \in DOMAIN positions /\ P = Without(id)
        /\ more \in Int /\ cash' = cash + Tied(pos) + outcome.pnl + more
    BY <1>5, OpenPosition DEF ClosesAs, Closing, Inv, RowsMatchBook, PaysBack
  <2>2. /\ DOMAIN after = DOMAIN db.outcomes \cup {new}
        /\ \A n \in DOMAIN db.outcomes : after[n] = db.outcomes[n]
        /\ after[new] = outcome
        /\ outcome \in Outcome
    BY <1>5, CloseAddsOutcome
  <2>3. Tied(pos) \in Int /\ outcome.pnl \in Int
    BY <1>5, <2>1, <2>2, OpenPosition, TiedTypes DEF Outcome
  <2>4. new \notin DOMAIN db.outcomes
    <3>1. db.outcomes \in Seq(Outcome)
      BY <1>5 DEF Inv, DbOK, Databases
    <3> QED
      BY <3>1, LenProperties
  <2> HIDE DEF P, new, after
  <2>5. tied = SumFunctionOnSet(Ties(P), DOMAIN P) + Tied(pos)
    BY <1>5, <2>1, TiesChange
  <2>6. SumFunctionOnSet(Results(after), DOMAIN after) = results + outcome.pnl
    <3> DEFINE v == Results(db.outcomes)
               w == Results(after)
               ns == DOMAIN db.outcomes
    <3>1. Agree(v, w, ns) /\ w[new] = outcome.pnl /\ IsFiniteSet(ns)
      BY <1>5, <2>2, BooksTypes DEF Agree, Results
    <3> HIDE DEF v, w, ns
    <3>2. w[new] \in Int /\ new \notin ns
      BY <2>3, <2>4, <3>1 DEF ns
    <3>3. SumFunctionOnSet(w, ns \cup {new}) = SumFunctionOnSet(v, ns) + w[new]
      BY <3>1, <3>2, SumGrows
    <3> QED
      BY <2>2, <3>1, <3>3 DEF v, w, ns
  <2> DEFINE less == SumFunctionOnSet(Ties(P), DOMAIN P)
  <2>7. less \in Int
    <3>1. IsFiniteSet(DOMAIN P) /\ \A i \in DOMAIN P : Ties(P)[i] \in Int
      <4>1. /\ DOMAIN P \subseteq DOMAIN positions
            /\ \A i \in DOMAIN P : Ties(P)[i] = Ties(positions)[i]
        BY <2>1 DEF Without, Ties
      <4> QED
        BY <1>5, <4>1, BooksTypes, FS_Subset
    <3>2. DOMAIN P \in SUBSET DOMAIN P
      OBVIOUS
    <3> QED
      BY <3>1, <3>2, SumsOfIntegers
  <2>8. Balance(cash', P, after)
          = (cash + Tied(pos) + outcome.pnl + more) + less - (results + outcome.pnl)
    BY <2>1, <2>6 DEF Balance
  <2>9. Balanced = cash + tied - results
    BY DEF Balance
  <2> HIDE DEF tied, results, less, pos
  <2>10. Balance(cash', P, after) = Balanced + more
    BY <1>2, <1>5, <2>1, <2>3, <2>5, <2>7, <2>8, <2>9 DEF less
  <2> QED
    BY <2>10 DEF P, after
<1>6. ASSUME Inv, Crashes PROVE restarts' # restarts
  <2>1. restarts \in 0..MaxRestarts /\ MaxRestarts \in Nat
    BY <1>6, PaperAssumption DEF Inv, MemoryOK
  <2> QED
    BY <1>6, <2>1 DEF Crashes, RestartFrom
<1>7. ASSUME Inv, NEW id, NEW order, NEW outcome, NEW lesson,
             ClosesAs(id, order, outcome, lesson)
      PROVE  \/ Balanced' = Balanced
             \/ /\ id \in DOMAIN positions \ DOMAIN positions' /\ positions[id].size > 0
                /\ db'.outcomes[Len(db'.outcomes)].reason \in Routes
                /\ Balanced' - Balanced \in SoldBeyond(id)
  <2>1. PICK more : PaysBack(id, outcome, more)
                    /\ (more = 0 \/ SellsBeyond(id, outcome, more))
    BY <1>7 DEF ClosesAs
  <2> HIDE DEF Balanced
  <2>2. Balanced' = Balanced + more /\ more \in Int
    BY <1>5, <1>7, <2>1 DEF PaysBack
  <2>3. Balanced \in Int
    BY <1>2, <1>7 DEF Balanced, Balance
  <2>4. id \in DOMAIN positions \ DOMAIN positions'
    BY <1>7, OpenPosition DEF ClosesAs, Closing, Inv, RowsMatchBook, Without
  <2>5. db'.outcomes[Len(db'.outcomes)] = outcome
    <3>1. db.outcomes \in Seq(Outcome)
      BY <1>7 DEF Inv, DbOK, Databases
    <3>2. outcome \in Outcome /\ db'.outcomes = Append(db.outcomes, outcome)
      BY <1>7 DEF ClosesAs, Closing, Closes
    <3> QED
      BY <3>1, <3>2, AppendProperties
  <2>6. CASE more = 0
    BY <2>2, <2>3, <2>6
  <2>7. CASE SellsBeyond(id, outcome, more)
    BY <2>2, <2>3, <2>4, <2>5, <2>7 DEF SellsBeyond
  <2> QED
    BY <2>1, <2>6, <2>7
<1> DEFINE Off == \E id \in DOMAIN positions \ DOMAIN positions' :
                    /\ positions[id].size > 0
                    /\ db'.outcomes[Len(db'.outcomes)].reason \in Routes
                    /\ Books' - Books \in SoldBeyond(id)
<1>8. ASSUME Inv, NeverAsks, [Next]_vars, restarts' = restarts
      PROVE  Books' = Books \/ Off
  <2>1. Idles \/ OpensOne \/ ClosesOne
    BY <1>6, <1>8, StepEnds
  <2> HIDE DEF Balanced
  <2>2. CASE Idles \/ OpensOne
    BY <1>1, <1>3, <1>4, <1>8, <2>2 DEF OpensOne
  <2>3. CASE ClosesOne
    <3>1. PICK id, order, outcome, lesson : ClosesAs(id, order, outcome, lesson)
      BY <2>3 DEF ClosesOne
    <3> QED
      BY <1>1, <1>7, <1>8, <3>1
  <2> QED
    BY <2>1, <2>2, <2>3
<1>9. Inv /\ NeverAsks /\ [Next]_vars
        => [restarts' = restarts => Books' = Books \/ Off]_vars
  BY <1>8
<1> QED
  BY <1>9, InvHolds, NeverAsksHolds, PTL DEF Spec, PnlMatchesCash, Off
=============================================================================
