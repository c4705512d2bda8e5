--------------------------- MODULE TradingLoopProofs ---------------------------
(***************************************************************************)
(* Proofs about TradingLoop, for every value of its constants.             *)
(*                                                                         *)
(* The queue under the loop keeps the invariant ApprovalQueueProofs gives  *)
(* it, although the loop adds a crash of its own, after an approval is on  *)
(* file and before its order.  One order per approval follows because an   *)
(* approval marks its row before anything goes out, the mark is never      *)
(* taken back (KeepsApprovals), and a request can be approved only while   *)
(* its row is pending: at that moment no order of it exists.               *)
(***************************************************************************)
EXTENDS TradingLoop, ApprovalQueueProofs

IsApproved(table, id) == id \in DOMAIN table /\ table[id].status = "approved"

\* What is on file as approved stays so.
KeepsApprovals == \A id \in Ids : IsApproved(rows, id) => IsApproved(rows', id)

LoopTypes ==
  /\ settings \in Settings
  /\ stop \in BOOLEAN /\ stopOnFile \in BOOLEAN
  /\ loopPc \in {"idle", "evaluating", "acting", "waiting"}
  /\ ideas \subseteq Markets
  /\ handler \in [Ids -> {"none", "account", "waiting"}]
  /\ trades \in Seq([source : Ids \cup {Loop}, market : Markets])

\* Handlers and orders belong to approvals on file; while an approval awaits
\* the account its order has not gone out.
Linked ==
  /\ \A id \in Ids : handler[id] # "none" => IsApproved(rows, id)
  /\ \A i \in DOMAIN trades : trades[i].source # Loop =>
       IsApproved(rows, trades[i].source) /\ handler[trades[i].source] # "account"

LoopInv == QueueInv /\ LoopTypes /\ Linked /\ AtMostOneTradePerApproval

-----------------------------------------------------------------------------
(* The queue's steps.                                                      *)

LEMMA MarkKeepsApprovals ==
  ASSUME QueueInv, NEW gone, NEW status \in Statuses, rows' = Mark(rows, gone, status),
         \A id \in gone : ~IsApproved(rows, id)
  PROVE  KeepsApprovals
<1>1. rows \in Tables
  BY TypeAsMembership DEF QueueInv
<1> QED
  BY <1>1, MarkedTable DEF KeepsApprovals, IsApproved

LEMMA PurgeKeepsApprovals ==
  ASSUME QueueInv, NEW gone \in SUBSET ExpiredIds, rows' = Mark(rows, gone, "expired")
  PROVE  KeepsApprovals
<1>1. \A id \in gone : ~IsApproved(rows, id)
  BY DEF ExpiredIds, QueueInv, QueueIsOnFile, IsApproved
<1> QED
  BY <1>1, MarkKeepsApprovals DEF Statuses

LEMMA CrashKeepsApprovals ==
  ASSUME QueueInv, CrashesIn(PartlyPurged \cup {Purged})
  PROVE  KeepsApprovals
<1>1. PICK table \in PartlyPurged \cup {Purged} : rows' = table
  BY DEF CrashesIn, RestartFrom
<1>2. PICK gone \in SUBSET ExpiredIds : table = Mark(rows, gone, "expired")
  BY DEF PartlyPurged, Purged
<1> QED
  BY <1>1, <1>2, PurgeKeepsApprovals

\* Every step of the queue alone.
LEMMA QueueKeepsApprovals ==
  ASSUME QueueInv, [QueueNext]_queueVars
  PROVE  KeepsApprovals
<1>1. ASSUME NEW m \in Markets, NEW id \in Ids, Submit(m, id) PROVE KeepsApprovals
  <2>1. CASE rows' = Saved(Purged, id, m, now + TTL)
    <3>1. rows \in Tables
      BY TypeAsMembership DEF QueueInv
    <3>2. /\ DOMAIN Purged = DOMAIN rows
          /\ \A i \in DOMAIN rows :
               Purged[i].status = IF i \in ExpiredIds THEN "expired" ELSE rows[i].status
      BY <3>1, MarkedTable DEF Purged, Statuses
    <3>3. /\ \A i \in ExpiredIds : ~IsApproved(rows, i)
          /\ id \notin DOMAIN rows
      BY <1>1 DEF ExpiredIds, QueueInv, QueueIsOnFile, IsApproved, Submit, NextId
    <3>4. \A i \in DOMAIN rows : i \in DOMAIN rows' /\ rows'[i] = Purged[i]
      BY <2>1, <3>2, <3>3 DEF Saved
    <3> QED
      BY <3>2, <3>3, <3>4 DEF KeepsApprovals, IsApproved
  <2>2. CASE CrashesIn(PartlyPurged \cup {Purged})
    BY <2>2, CrashKeepsApprovals
  <2> QED
    BY <1>1, <2>1, <2>2 DEF Submit, Completes
<1>2. ASSUME NEW m \in Markets, SubmitDuplicate(m) PROVE KeepsApprovals
  <2>1. CASE rows' = Purged
    BY <2>1, PurgeKeepsApprovals DEF Purged
  <2>2. CASE CrashesIn(PartlyPurged)
    BY <2>2, CrashKeepsApprovals DEF CrashesIn
  <2> QED
    BY <1>2, <2>1, <2>2 DEF SubmitDuplicate, Completes
<1>3. ASSUME NEW id \in Ids, NEW status \in {"approved", "rejected"}, Decide(id, status)
      PROVE  KeepsApprovals
  <2>1. ~IsApproved(rows, id) /\ rows' = Mark(rows, {id}, status)
    BY <1>3 DEF Decide, Completes, QueueInv, QueueIsOnFile, IsApproved
  <2> QED
    BY <2>1, MarkKeepsApprovals DEF Statuses
<1>4. ASSUME NEW id \in Ids, TouchExpired(id) PROVE KeepsApprovals
  <2>1. {id} \in SUBSET ExpiredIds /\ rows' = Mark(rows, {id}, "expired")
    BY <1>4 DEF TouchExpired, Completes, ExpiredIds
  <2> QED
    BY <2>1, PurgeKeepsApprovals
<1>5. CASE Read
  BY <1>5, PurgeKeepsApprovals DEF Read, Completes, Purged
<1>6. CASE ReadInterrupted
  BY <1>6, CrashKeepsApprovals DEF ReadInterrupted, CrashesIn
<1>7. CASE Clear
  <2>1. \A id \in PendingRows : ~IsApproved(rows, id)
    BY DEF PendingRows, IsApproved
  <2> QED
    BY <1>7, <2>1, MarkKeepsApprovals DEF Clear, Completes, Statuses
<1>8. CASE rows' = rows
  BY <1>8 DEF KeepsApprovals, IsApproved
<1> QED
  BY <1>1, <1>2, <1>3, <1>4, <1>5, <1>6, <1>7, <1>8
     DEF QueueNext, TimePasses, Restart, RestartFrom, queueVars

\* The queue's part of every step of the loop.
QueueMoves == QueueInv' /\ KeepsApprovals

LEMMA QueueStepMoves == ASSUME QueueInv, [QueueNext]_queueVars PROVE QueueMoves
  BY QueueInvStep, QueueKeepsApprovals DEF QueueMoves

\* An approval the process does not survive.
LEMMA ApprovalInterruptedMoves ==
  ASSUME QueueInv, NEW id \in DOMAIN pending, RestartFrom(Mark(rows, {id}, "approved"))
  PROVE  QueueMoves
<1>1. rows \in Tables /\ "approved" \in Statuses
  BY TypeAsMembership DEF QueueInv, Statuses
<1>2. ~IsApproved(rows, id)
  BY DEF QueueInv, QueueIsOnFile, IsApproved
<1>3. QueueInv'
  BY <1>1, MarkedTable, QueueRestarts
<1>4. KeepsApprovals
  BY <1>1, <1>2, MarkKeepsApprovals DEF RestartFrom
<1> QED
  BY <1>3, <1>4 DEF QueueMoves

\* A request that is approved: nothing of it had gone out.
LEMMA ApprovalIsNew ==
  ASSUME LoopInv, NEW id \in DOMAIN pending
  PROVE  /\ id \in Ids /\ ~IsApproved(rows, id) /\ handler[id] = "none"
         /\ pending[id].market \in Markets
         /\ \A i \in DOMAIN trades : trades[i].source # id
<1>1. id \in Ids /\ pending[id].market \in Markets
  BY DEF LoopInv, QueueInv, QueueTypeOK, Request
<1>2. ~IsApproved(rows, id)
  BY DEF LoopInv, QueueInv, QueueIsOnFile, IsApproved
<1>3. id # Loop
  BY <1>1, QueueAssumption DEF Ids, Loop
<1> QED
  BY <1>1, <1>2, <1>3 DEF LoopInv, Linked

LEMMA MarkedIsApproved ==
  ASSUME QueueInv, NEW id \in DOMAIN pending, rows' = Mark(rows, {id}, "approved")
  PROVE  IsApproved(rows', id)
<1>1. rows \in Tables /\ id \in DOMAIN rows
  BY TypeAsMembership DEF QueueInv, QueueIsOnFile
<1> QED
  BY <1>1, MarkedTable DEF IsApproved, Statuses

LEMMA TradesAreRecords ==
  ASSUME NEW Sources, NEW log \in Seq([source : Sources, market : Markets])
  PROVE  \A i \in DOMAIN log : log[i].source \in Sources
<1> DEFINE Records == [source : Sources, market : Markets]
<1>1. \A r \in Records : r.source \in Sources
  OBVIOUS
<1>2. log \in Seq(Records)
  OBVIOUS
<1> HIDE DEF Records
<1>3. \A i \in DOMAIN log : log[i] \in Records
  BY <1>2
<1> QED
  BY <1>1, <1>3

\* What a step does to the loop's own variables, given what it did to the queue.
LEMMA LinkedByStep ==
  ASSUME LoopInv, QueueMoves, UNCHANGED trades,
         \A id \in Ids : \/ handler'[id] \in {"none", handler[id]}
                         \/ IsApproved(rows', id) /\ \A i \in DOMAIN trades : trades[i].source # id
  PROVE  Linked' /\ AtMostOneTradePerApproval'
<1>1. \A id \in Ids : IsApproved(rows, id) => IsApproved(rows', id)
  BY DEF QueueMoves, KeepsApprovals
<1>2. \A i \in DOMAIN trades : trades[i].source \in Ids \cup {Loop}
  BY TradesAreRecords DEF LoopInv, LoopTypes
<1>3. AtMostOneTradePerApproval'
  BY DEF LoopInv, AtMostOneTradePerApproval
<1>4. \A id \in Ids : handler'[id] # "none" => IsApproved(rows', id)
  BY <1>1 DEF LoopInv, Linked
<1>5. \A i \in DOMAIN trades : trades[i].source # Loop =>
        IsApproved(rows', trades[i].source) /\ handler'[trades[i].source] # "account"
  BY <1>1, <1>2 DEF LoopInv, Linked
<1> QED
  BY <1>3, <1>4, <1>5 DEF Linked

\* An order goes out: the loop's, or that of an approval without one.
LEMMA LinkedByTrade ==
  ASSUME LoopInv, QueueMoves, NEW source \in Ids \cup {Loop}, NEW m \in Markets,
         Trade(source, m),
         \A id \in Ids : handler'[id] \in {"none", handler[id]} \/ id = source,
         source # Loop =>
           /\ IsApproved(rows', source) /\ handler'[source] # "account"
           /\ \A i \in DOMAIN trades : trades[i].source # source
  PROVE  /\ trades' \in Seq([source : Ids \cup {Loop}, market : Markets])
         /\ Linked' /\ AtMostOneTradePerApproval'
<1> DEFINE new == [source |-> source, market |-> m]
<1>1. \A id \in Ids : IsApproved(rows, id) => IsApproved(rows', id)
  BY DEF QueueMoves, KeepsApprovals
<1>2. /\ trades \in Seq([source : Ids \cup {Loop}, market : Markets])
      /\ trades' = Append(trades, new)
      /\ new \in [source : Ids \cup {Loop}, market : Markets]
  BY DEF LoopInv, LoopTypes, Trade
<1>3. /\ trades' \in Seq([source : Ids \cup {Loop}, market : Markets])
      /\ \A i \in DOMAIN trades' : \/ i \in DOMAIN trades /\ trades'[i] = trades[i]
                                   \/ i \notin DOMAIN trades /\ i = Len(trades) + 1 /\ trades'[i] = new
  BY <1>2
<1>4. \A i \in DOMAIN trades : trades[i].source \in Ids \cup {Loop}
  BY <1>2, TradesAreRecords
<1>5. AtMostOneTradePerApproval'
  BY <1>3 DEF LoopInv, AtMostOneTradePerApproval
<1>6. \A id \in Ids : handler'[id] # "none" => IsApproved(rows', id)
  <2>1. Loop \notin Ids
    BY QueueAssumption DEF Ids, Loop
  <2>2. \A id \in Ids : handler[id] # "none" => IsApproved(rows', id)
    BY <1>1 DEF LoopInv, Linked
  <2> QED
    BY <2>1, <2>2
<1>7. \A i \in DOMAIN trades : trades[i].source # Loop =>
        IsApproved(rows', trades[i].source) /\ handler'[trades[i].source] # "account"
  BY <1>1, <1>4 DEF LoopInv, Linked
<1>8. \A i \in DOMAIN trades' : trades'[i].source # Loop =>
        IsApproved(rows', trades'[i].source) /\ handler'[trades'[i].source] # "account"
  <2> SUFFICES ASSUME NEW i \in DOMAIN trades', trades'[i].source # Loop
               PROVE  IsApproved(rows', trades'[i].source) /\ handler'[trades'[i].source] # "account"
    OBVIOUS
  <2>1. CASE i \in DOMAIN trades /\ trades'[i] = trades[i]
    BY <1>7, <2>1
  <2>2. CASE trades'[i] = new
    BY <2>2
  <2> QED
    BY <1>3, <2>1, <2>2
<1> QED
  BY <1>3, <1>5, <1>6, <1>8 DEF Linked

-----------------------------------------------------------------------------
(* The loop's steps.                                                       *)

LEMMA NoTradeKeepsInv ==
  ASSUME LoopInv, QueueMoves, LoopTypes', UNCHANGED trades,
         \A id \in Ids : \/ handler'[id] \in {"none", handler[id]}
                         \/ IsApproved(rows', id) /\ \A i \in DOMAIN trades : trades[i].source # id
  PROVE  LoopInv'
  BY LinkedByStep DEF LoopInv, QueueMoves

\* Steps that leave the queue, the approvals and the trades alone.
LEMMA LoopAloneKeepsInv ==
  ASSUME LoopInv, UNCHANGED <<queueVars, handler, trades>>, LoopTypes'
  PROVE  LoopInv'
<1>1. QueueMoves
  BY QueueStepMoves DEF LoopInv
<1> QED
  BY <1>1, NoTradeKeepsInv

\* A restart forgets what was under way.
LEMMA RestartKeepsInv ==
  ASSUME LoopInv, QueueMoves, NEW onFile \in BOOLEAN, ControlRestartsFrom(onFile), UNCHANGED trades
  PROVE  LoopInv'
<1>1. LoopTypes'
  BY DEF LoopInv, LoopTypes, ControlRestartsFrom
<1>2. \A id \in Ids : handler'[id] = "none"
  BY DEF ControlRestartsFrom
<1> QED
  BY <1>1, <1>2, NoTradeKeepsInv

LEMMA ControlRestartKeepsInv ==
  ASSUME LoopInv, QueueMoves, ControlRestarts, UNCHANGED trades
  PROVE  LoopInv'
<1>1. stopOnFile \in BOOLEAN
  BY DEF LoopInv, LoopTypes
<1> QED
  BY <1>1, RestartKeepsInv DEF ControlRestarts

LEMMA LoopActKeepsInv == LoopInv /\ LoopAct => LoopInv'
<1> SUFFICES ASSUME LoopInv, NEW m \in ideas, DropIdea(m) \/ SubmitIdea(m) \/ ExecuteIdea(m)
             PROVE  LoopInv'
  BY DEF LoopAct
<1>0. m \in Markets /\ LoopTypes /\ QueueInv
  BY DEF LoopInv, LoopTypes
<1>1. CASE DropIdea(m)
  <2>1. LoopTypes'
    BY <1>0, <1>1 DEF LoopTypes, DropIdea, IdeaDone, IdeaWaits, controlVars
  <2> QED
    BY <1>1, <2>1, LoopAloneKeepsInv DEF DropIdea
<1>2. CASE SubmitIdea(m)
  <2>1. QueueMoves
    BY <1>0, <1>2, QueueStepMoves DEF SubmitIdea, QueueNext
  <2>2. CASE IdeaDone(m) /\ UNCHANGED <<controlVars, handler>>
    <3>1. LoopTypes'
      BY <1>0, <1>2, <2>2 DEF LoopTypes, SubmitIdea, IdeaDone, controlVars
    <3> QED
      BY <1>2, <2>1, <2>2, <3>1, NoTradeKeepsInv DEF SubmitIdea
  <2>3. CASE ControlRestarts
    BY <1>2, <2>1, <2>3, ControlRestartKeepsInv DEF SubmitIdea
  <2> QED
    BY <1>2, <2>2, <2>3 DEF SubmitIdea
<1>3. CASE ExecuteIdea(m)
  <2>1. QueueMoves
    BY <1>0, <1>3, QueueStepMoves DEF ExecuteIdea
  <2>2. Trade(Loop, m) /\ UNCHANGED <<handler, controlVars>>
    BY <1>3 DEF ExecuteIdea
  <2>3. /\ trades' \in Seq([source : Ids \cup {Loop}, market : Markets])
        /\ Linked' /\ AtMostOneTradePerApproval'
    BY <1>0, <2>1, <2>2, LinkedByTrade
  <2>4. LoopTypes'
    BY <1>0, <1>3, <2>2, <2>3 DEF LoopTypes, ExecuteIdea, IdeaDone, IdeaWaits, controlVars
  <2> QED
    BY <2>1, <2>3, <2>4 DEF LoopInv, QueueMoves
<1> QED
  BY <1>1, <1>2, <1>3

\* The order of an approval goes out.
LEMMA ExecuteApprovedKeepsInv ==
  ASSUME LoopInv, QueueMoves, NEW id \in Ids, NEW m \in Markets, ExecuteApproved(id, m),
         UNCHANGED <<loopVars, controlVars>>,
         IsApproved(rows', id), \A i \in DOMAIN trades : trades[i].source # id
  PROVE  LoopInv'
<1>1. handler \in [Ids -> {"none", "account", "waiting"}] /\ LoopTypes
  BY DEF LoopInv, LoopTypes
<1>2. /\ Trade(id, m)
      /\ handler' \in [Ids -> {"none", "account", "waiting"}] /\ handler'[id] # "account"
      /\ \A other \in Ids : handler'[other] \in {"none", handler[other]} \/ other = id
  BY <1>1 DEF ExecuteApproved
<1>3. /\ trades' \in Seq([source : Ids \cup {Loop}, market : Markets])
      /\ Linked' /\ AtMostOneTradePerApproval'
  BY <1>2, LinkedByTrade
<1>4. LoopTypes'
  BY <1>1, <1>2, <1>3 DEF LoopTypes, loopVars, controlVars
<1> QED
  BY <1>3, <1>4 DEF LoopInv, QueueMoves

LEMMA ApproveKeepsInv == ASSUME LoopInv, NEW id \in Ids, Approve(id) PROVE LoopInv'
<1>0. LoopTypes /\ QueueInv
  BY DEF LoopInv
<1>1. id \in DOMAIN pending /\ rows' = Mark(rows, {id}, "approved")
  BY DEF Approve, Decide, Completes
<1>2. QueueMoves
  BY <1>0, QueueStepMoves DEF Approve, QueueNext
<1>3. /\ pending[id].market \in Markets /\ IsApproved(rows', id)
      /\ \A i \in DOMAIN trades : trades[i].source # id
  BY <1>0, <1>1, ApprovalIsNew, MarkedIsApproved
<1>4. CASE handler' = handler /\ trades' = trades
  <2>1. LoopTypes'
    BY <1>0, <1>4 DEF LoopTypes, Approve, loopVars, controlVars
  <2> QED
    BY <1>2, <1>4, <2>1, NoTradeKeepsInv
<1>5. CASE handler' = [handler EXCEPT ![id] = "account"] /\ trades' = trades
  <2>1. handler \in [Ids -> {"none", "account", "waiting"}]
    BY <1>0 DEF LoopTypes
  <2>2. /\ handler' \in [Ids -> {"none", "account", "waiting"}]
        /\ \A other \in Ids : handler'[other] = handler[other] \/ other = id
    BY <1>5, <2>1
  <2>3. LoopTypes'
    BY <1>0, <1>5, <2>2 DEF LoopTypes, Approve, loopVars, controlVars
  <2> QED
    BY <1>2, <1>3, <1>5, <2>2, <2>3, NoTradeKeepsInv
<1>6. CASE ExecuteApproved(id, pending[id].market)
  BY <1>2, <1>3, <1>6, ExecuteApprovedKeepsInv DEF Approve
<1> QED
  BY <1>4, <1>5, <1>6 DEF Approve

LEMMA ApproveInterruptedKeepsInv ==
  ASSUME LoopInv, NEW id \in Ids, ApproveInterrupted(id) PROVE LoopInv'
<1>0. LoopTypes /\ QueueInv
  BY DEF LoopInv
<1>1. id \in DOMAIN pending /\ RestartFrom(Mark(rows, {id}, "approved"))
  BY DEF ApproveInterrupted, CrashesIn
<1>2. QueueMoves /\ rows' = Mark(rows, {id}, "approved")
  BY <1>0, <1>1, ApprovalInterruptedMoves DEF RestartFrom
<1>3. /\ pending[id].market \in Markets /\ IsApproved(rows', id)
      /\ \A i \in DOMAIN trades : trades[i].source # id
  BY <1>0, <1>1, <1>2, ApprovalIsNew, MarkedIsApproved
<1>4. CASE trades' = trades
  BY <1>2, <1>4, ControlRestartKeepsInv DEF ApproveInterrupted
<1>5. CASE Trade(id, pending[id].market)
  <2>1. \A other \in Ids : handler'[other] = "none"
    BY DEF ApproveInterrupted, ControlRestarts, ControlRestartsFrom
  <2>2. /\ trades' \in Seq([source : Ids \cup {Loop}, market : Markets])
        /\ Linked' /\ AtMostOneTradePerApproval'
    BY <1>2, <1>3, <1>5, <2>1, LinkedByTrade
  <2>3. LoopTypes'
    BY <1>0, <2>2 DEF LoopTypes, ApproveInterrupted, ControlRestarts, ControlRestartsFrom
  <2> QED
    BY <1>2, <2>2, <2>3 DEF LoopInv, QueueMoves
<1> QED
  BY <1>4, <1>5 DEF ApproveInterrupted

LEMMA AccountAnsweredKeepsInv ==
  ASSUME LoopInv, NEW id \in Ids, AccountAnswered(id) PROVE LoopInv'
<1>1. QueueMoves
  BY QueueStepMoves DEF LoopInv, AccountAnswered
<1>2. IsApproved(rows, id) /\ \A i \in DOMAIN trades : trades[i].source # id
  <2>1. handler[id] = "account"
    BY DEF AccountAnswered
  <2>2. id # Loop
    BY QueueAssumption DEF Ids, Loop
  <2> QED
    BY <2>1, <2>2 DEF LoopInv, Linked
<1>3. rows[id].market \in Markets /\ IsApproved(rows', id)
  <2>1. rows \in Tables
    BY TypeAsMembership DEF LoopInv, QueueInv
  <2>2. \A other \in DOMAIN rows : rows[other] \in Row
    BY <2>1 DEF Tables
  <2> QED
    BY <1>2, <2>2 DEF IsApproved, Row, AccountAnswered, queueVars
<1> QED
  BY <1>1, <1>2, <1>3, ExecuteApprovedKeepsInv DEF AccountAnswered

LEMMA LoopInvInit == Init => LoopInv
<1> SUFFICES ASSUME Init PROVE LoopInv
  OBVIOUS
<1>1. QueueInv /\ rows = NoRequests
  BY QueueInvInit DEF Init, QueueInit
<1>2. trades = << >> /\ handler = [id \in Ids |-> "none"] /\ DOMAIN trades = {}
  BY DEF Init
<1>3. LoopTypes
  <2>1. trades \in Seq([source : Ids \cup {Loop}, market : Markets])
    BY <1>2
  <2>2. handler \in [Ids -> {"none", "account", "waiting"}]
    BY <1>2
  <2> QED
    BY <2>1, <2>2 DEF Init, LoopTypes
<1>4. Linked /\ AtMostOneTradePerApproval
  BY <1>2 DEF Linked, AtMostOneTradePerApproval
<1> QED
  BY <1>1, <1>3, <1>4 DEF LoopInv

LEMMA LoopInvStep == LoopInv /\ [Next]_vars => LoopInv'
<1> SUFFICES ASSUME LoopInv, [Next]_vars PROVE LoopInv'
  OBVIOUS
<1>0. LoopTypes /\ QueueInv
  BY DEF LoopInv
<1>1. CASE TickStarts
  <2>1. LoopTypes'
    BY <1>0, <1>1 DEF LoopTypes, TickStarts, controlVars
  <2> QED
    BY <1>1, <2>1, LoopAloneKeepsInv DEF TickStarts
<1>2. ASSUME NEW found \in SUBSET Markets, Evaluated(found) PROVE LoopInv'
  <2>1. LoopTypes'
    BY <1>0, <1>2 DEF LoopTypes, Evaluated, controlVars
  <2> QED
    BY <1>2, <2>1, LoopAloneKeepsInv DEF Evaluated
<1>3. CASE LoopAct
  BY <1>3, LoopActKeepsInv
<1>4. CASE CallReturns
  <2>1. LoopTypes'
    BY <1>0, <1>4 DEF LoopTypes, CallReturns, controlVars
  <2> QED
    BY <1>4, <2>1, LoopAloneKeepsInv DEF CallReturns
<1>5. ASSUME NEW id \in Ids,
             Approve(id) \/ ApproveInterrupted(id) \/ AccountAnswered(id)
      PROVE  LoopInv'
  BY <1>5, ApproveKeepsInv, ApproveInterruptedKeepsInv, AccountAnsweredKeepsInv
<1>6. ASSUME NEW id \in Ids, OrderAnswered(id) PROVE LoopInv'
  <2>1. QueueMoves
    BY <1>0, <1>6, QueueStepMoves DEF OrderAnswered
  <2>2. /\ handler' \in [Ids -> {"none", "account", "waiting"}]
        /\ \A other \in Ids : handler'[other] \in {"none", handler[other]}
    BY <1>0, <1>6 DEF OrderAnswered, LoopTypes
  <2>3. LoopTypes'
    BY <1>0, <1>6, <2>2 DEF LoopTypes, OrderAnswered, loopVars, controlVars
  <2> QED
    BY <1>6, <2>1, <2>2, <2>3, NoTradeKeepsInv DEF OrderAnswered
<1>7. ASSUME NEW id \in Ids, Reject(id) PROVE LoopInv'
  <2>1. QueueMoves
    BY <1>0, <1>7, QueueStepMoves DEF Reject, QueueNext
  <2>2. LoopTypes'
    BY <1>0, <1>7 DEF LoopTypes, Reject, loopVars, controlVars
  <2> QED
    BY <1>7, <2>1, <2>2, NoTradeKeepsInv DEF Reject
<1>8. CASE Browse
  <2>1. QueueMoves
    BY <1>0, <1>8, QueueStepMoves DEF Browse, QueueNext
  <2>2. CASE UNCHANGED <<loopVars, controlVars, handler>>
    <3>1. LoopTypes'
      BY <1>0, <1>8, <2>2 DEF LoopTypes, Browse, loopVars, controlVars
    <3> QED
      BY <1>8, <2>1, <2>2, <3>1, NoTradeKeepsInv DEF Browse
  <2>3. CASE ControlRestarts
    BY <1>8, <2>1, <2>3, ControlRestartKeepsInv DEF Browse
  <2> QED
    BY <1>8, <2>2, <2>3 DEF Browse
<1>9. CASE ActivateStop
  <2>1. QueueMoves
    BY <1>0, <1>9, QueueStepMoves DEF ActivateStop, QueueNext
  <2>2. LoopTypes'
    BY <1>0, <1>9 DEF LoopTypes, ActivateStop, Persisted, loopVars
  <2> QED
    BY <1>9, <2>1, <2>2, NoTradeKeepsInv DEF ActivateStop
<1>10. CASE StopInterrupted
  <2>1. QueueMoves
    BY <1>0, <1>10, QueueStepMoves DEF StopInterrupted, QueueNext, Restart
  <2> QED
    BY <1>10, <2>1, RestartKeepsInv DEF StopInterrupted
<1>11. CASE Resume
  <2>1. LoopTypes'
    BY <1>0, <1>11 DEF LoopTypes, Resume, Persisted, loopVars
  <2> QED
    BY <1>11, <2>1, LoopAloneKeepsInv DEF Resume
<1>12. CASE ProcessRestart
  <2>1. QueueMoves
    BY <1>0, <1>12, QueueStepMoves DEF ProcessRestart, QueueNext
  <2> QED
    BY <1>12, <2>1, ControlRestartKeepsInv DEF ProcessRestart
<1>13. CASE Clock
  <2>1. QueueMoves
    BY <1>0, <1>13, QueueStepMoves DEF Clock, QueueNext
  <2>2. LoopTypes'
    BY <1>0, <1>13 DEF LoopTypes, Clock, loopVars, controlVars
  <2> QED
    BY <1>13, <2>1, <2>2, NoTradeKeepsInv DEF Clock
<1>14. CASE UNCHANGED vars
  <2>1. LoopTypes'
    BY <1>0, <1>14 DEF LoopTypes, vars, loopVars, controlVars
  <2> QED
    BY <1>14, <2>1, LoopAloneKeepsInv DEF vars
<1> QED
  BY <1>1, <1>2, <1>3, <1>4, <1>5, <1>6, <1>7, <1>8, <1>9, <1>10, <1>11, <1>12, <1>13, <1>14
     DEF Next

THEOREM LoopInvHolds == Spec => []LoopInv
<1> QED
  BY LoopInvInit, LoopInvStep, PTL DEF Spec

\* The queue, the loop, the approvals under way and the orders sent are well
\* typed.
THEOREM LoopTypeCorrect == Spec => []LoopTypeOK
<1>1. LoopInv => LoopTypeOK
  BY DEF LoopInv, LoopTypes, LoopTypeOK, QueueInv
<1> QED
  BY <1>1, LoopInvHolds, PTL

\* service.py:62: clicks, crashes and restarts together send at most one order
\* for an approval.
THEOREM OneTradePerApproval == Spec => []AtMostOneTradePerApproval
<1>1. LoopInv => AtMostOneTradePerApproval
  BY DEF LoopInv
<1> QED
  BY <1>1, LoopInvHolds, PTL

\* The queue driven by the loop, with the crash the loop adds, keeps what
\* ApprovalQueue promises of it.
THEOREM QueueSurvivesLoop == Spec => [](OnePendingPerMarket /\ QueueIsOnFile /\ NoHiddenRequests)
<1>1. LoopInv => OnePendingPerMarket /\ QueueIsOnFile /\ NoHiddenRequests
  BY DEF LoopInv, QueueInv
<1> QED
  BY <1>1, LoopInvHolds, PTL

-----------------------------------------------------------------------------
(* The emergency stop.                                                     *)

LEMMA StopStep == LoopInv /\ [Next]_vars => [stop => InFlight' \subseteq InFlight]_vars
<1> SUFFICES ASSUME LoopInv, [Next]_vars, stop PROVE InFlight' \subseteq InFlight
  OBVIOUS
<1>0. handler \in [Ids -> {"none", "account", "waiting"}]
  BY DEF LoopInv, LoopTypes
<1>1. CASE /\ loopPc = "idle" => loopPc' = "idle"
           /\ \A id \in Ids : handler[id] = "none" => handler'[id] = "none"
  BY <1>1 DEF InFlight, LoopInFlight
<1>2. CASE ControlRestarts \/ ControlRestartsFrom(TRUE)
  BY <1>1, <1>2 DEF ControlRestarts, ControlRestartsFrom
<1>3. ASSUME NEW found \in SUBSET Markets, Evaluated(found) PROVE InFlight' \subseteq InFlight
  BY <1>1, <1>3 DEF Evaluated
<1>4. CASE LoopAct
  BY <1>1, <1>2, <1>4 DEF LoopAct, DropIdea, SubmitIdea, ExecuteIdea
<1>5. ASSUME NEW id \in Ids, AccountAnswered(id) \/ OrderAnswered(id)
      PROVE  InFlight' \subseteq InFlight
  BY <1>0, <1>1, <1>5 DEF AccountAnswered, OrderAnswered, ExecuteApproved, loopVars
<1>6. CASE CallReturns
  BY <1>1, <1>6 DEF CallReturns
<1>7. CASE UNCHANGED <<loopVars, handler>>
  BY <1>1, <1>7 DEF loopVars
<1> QED
  BY <1>2, <1>3, <1>4, <1>5, <1>6, <1>7
     DEF Next, TickStarts, Approve, ApproveInterrupted, Reject, Browse, ActivateStop,
         StopInterrupted, Resume, ProcessRestart, Clock, vars

\* main.py:364, 1239: a stop ends the work under way at most.
THEOREM StopStartsNothing == Spec => NothingStartsWhileStopped
<1> QED
  BY LoopInvHolds, StopStep, PTL DEF Spec, NothingStartsWhileStopped

\* control/state.py:4: as long as the writes of the control state succeed, the
\* stop survives every restart.
THEOREM StopIsKept ==
  ASSUME PersistMayFail = FALSE
  PROVE  Spec => StopSurvivesRestart
<1> DEFINE OnFile == stopOnFile = stop
           StopKept  == OnFile' /\ (restarts' # restarts => (stop => stop'))
<1>1. Init => OnFile
  BY DEF Init
<1>2. OnFile /\ [Next]_vars => StopKept
  <2> SUFFICES ASSUME OnFile, [Next]_vars PROVE StopKept
    OBVIOUS
  <2>1. CASE UNCHANGED controlVars
    BY <2>1 DEF controlVars
  <2>2. CASE ControlRestarts
    BY <2>2 DEF ControlRestarts, ControlRestartsFrom
  <2>3. CASE ControlRestartsFrom(TRUE)
    BY <2>3 DEF ControlRestartsFrom
  <2>4. CASE LoopAct
    BY <2>1, <2>2, <2>4 DEF LoopAct, DropIdea, SubmitIdea, ExecuteIdea
  <2>5. ASSUME NEW id \in Ids, Approve(id) \/ ApproveInterrupted(id) \/ AccountAnswered(id)
                                \/ OrderAnswered(id) \/ Reject(id)
        PROVE  StopKept
    BY <2>1, <2>2, <2>5 DEF Approve, ApproveInterrupted, AccountAnswered, OrderAnswered, Reject
  <2>6. CASE ActivateStop
    BY <2>6 DEF ActivateStop, Persisted, Clear, Completes
  <2>7. CASE Resume
    BY <2>7 DEF Resume, Persisted, queueVars
  <2>8. CASE Browse
    BY <2>1, <2>2, <2>8 DEF Browse
  <2>9. CASE StopInterrupted
    BY <2>3, <2>9 DEF StopInterrupted
  <2>10. ASSUME NEW found \in SUBSET Markets, Evaluated(found) PROVE StopKept
    BY <2>1, <2>10 DEF Evaluated
  <2> QED
    BY <2>1, <2>2, <2>4, <2>5, <2>6, <2>7, <2>8, <2>9, <2>10
       DEF Next, TickStarts, CallReturns, ProcessRestart, Clock, vars
<1>3. OnFile /\ [Next]_vars => [restarts' # restarts => (stop => stop')]_vars
  BY <1>2
<1>4. OnFile /\ [Next]_vars => OnFile'
  BY <1>2
<1> QED
  BY <1>1, <1>3, <1>4, PTL DEF Spec, StopSurvivesRestart
==============================================================================
