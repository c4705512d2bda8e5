-------------------------- MODULE ApprovalQueueProofs --------------------------
(***************************************************************************)
(* Proofs about ApprovalQueue, for every value of its constants.           *)
(*                                                                         *)
(* The four invariants carry each other.  A restart rebuilds the queue     *)
(* from the table, so that one request per market is queued afterwards     *)
(* follows from NoHiddenRequests (it recovers nothing that was not queued) *)
(* and QueueIsOnFile (what it recovers is what was queued); and every      *)
(* handler, whole or interrupted, only marks rows or adds one.             *)
(***************************************************************************)
EXTENDS ApprovalQueue, TLAPS

Requests == UNION {[ids -> Request] : ids \in SUBSET Ids}
Tables   == UNION {[ids -> Row] : ids \in SUBSET Ids}

QueueInv ==
  /\ QueueTypeOK
  /\ QueueIsOnFile
  /\ NoHiddenRequests
  /\ OnePendingPerMarket

LEMMA TypeAsMembership ==
  QueueTypeOK <=> /\ pending \in Requests /\ rows \in Tables
                  /\ now \in Nat /\ restarts \in Nat
  BY DEF QueueTypeOK, Requests, Tables

\* A table some rows of which were marked.
LEMMA MarkedTable ==
  ASSUME NEW table \in Tables, NEW ids, NEW status \in Statuses
  PROVE  /\ Mark(table, ids, status) \in Tables
         /\ DOMAIN Mark(table, ids, status) = DOMAIN table
         /\ \A id \in DOMAIN table :
              /\ table[id] \in Row
              /\ Mark(table, ids, status)[id].market = table[id].market
              /\ Mark(table, ids, status)[id].expires = table[id].expires
              /\ Mark(table, ids, status)[id].status =
                   IF id \in ids THEN status ELSE table[id].status
<1> DEFINE marked == Mark(table, ids, status)
<1>1. PICK dom \in SUBSET Ids : table \in [dom -> Row]
  BY DEF Tables
<1>2. marked \in [dom -> Row]
  BY <1>1 DEF Mark, Row
<1>3. \A id \in dom : marked[id] =
        IF id \in ids THEN [table[id] EXCEPT !.status = status] ELSE table[id]
  BY <1>1 DEF Mark
<1>4. marked \in Tables /\ DOMAIN marked = DOMAIN table
  BY <1>1, <1>2 DEF Tables
<1> QED
  BY <1>1, <1>3, <1>4 DEF Row

\* A handler that takes requests off the queue and marks their rows.
LEMMA QueueShrinks ==
  ASSUME QueueInv, NEW gone, NEW keep \in SUBSET DOMAIN pending,
         NEW status \in Statuses \ {"pending"},
         keep \cap gone = {}, DOMAIN pending \ keep \subseteq gone,
         Completes(Restrict(pending, keep), Mark(rows, gone, status))
  PROVE  QueueInv'
<1>1. /\ pending \in Requests /\ rows \in Tables /\ now \in Nat /\ restarts \in Nat
  BY TypeAsMembership DEF QueueInv
<1>2. /\ pending' = [id \in keep |-> pending[id]] /\ rows' = Mark(rows, gone, status)
      /\ now' = now /\ restarts' = restarts
  BY DEF Completes, Restrict
<1>3. /\ rows' \in Tables /\ DOMAIN rows' = DOMAIN rows
      /\ \A id \in DOMAIN rows :
           /\ rows'[id].market = rows[id].market
           /\ rows'[id].expires = rows[id].expires
           /\ rows'[id].status = IF id \in gone THEN status ELSE rows[id].status
  BY <1>1, <1>2, MarkedTable
<1>4. pending' \in Requests
  BY <1>1, <1>2 DEF Requests
<1>5. QueueTypeOK'
  BY <1>1, <1>2, <1>3, <1>4 DEF QueueTypeOK, Requests, Tables
<1>6. QueueIsOnFile'
  BY <1>2, <1>3 DEF QueueInv, QueueIsOnFile
<1>7. NoHiddenRequests'
  BY <1>2, <1>3 DEF QueueInv, NoHiddenRequests
<1>8. OnePendingPerMarket'
  BY <1>2 DEF QueueInv, OnePendingPerMarket
<1> QED
  BY <1>5, <1>6, <1>7, <1>8 DEF QueueInv

\* A restart, after some rows were marked or none.
LEMMA QueueRestarts ==
  ASSUME QueueInv, NEW table \in Tables, RestartFrom(table),
         DOMAIN table = DOMAIN rows,
         \A id \in DOMAIN rows :
           /\ table[id].market = rows[id].market
           /\ table[id].expires = rows[id].expires
           /\ table[id].status = "pending" => rows[id].status = "pending"
  PROVE  QueueInv'
<1>1. now \in Nat /\ restarts \in Nat
  BY DEF QueueInv, QueueTypeOK
<1>2. /\ rows' = table /\ now' = now /\ restarts' = restarts + 1
      /\ pending' = [id \in Recovered(table) |->
                       [market |-> table[id].market, expires |-> table[id].expires]]
  BY DEF RestartFrom
<1>3. \A id \in Recovered(table) :
        /\ id \in DOMAIN table /\ id \in DOMAIN pending
        /\ table[id].status = "pending" /\ table[id].market = pending[id].market
  BY DEF Recovered, QueueInv, NoHiddenRequests, QueueIsOnFile
<1>4. PICK ids \in SUBSET Ids : table \in [ids -> Row]
  BY DEF Tables
<1>5. Recovered(table) \in SUBSET Ids /\ pending' \in [Recovered(table) -> Request]
  BY <1>2, <1>4 DEF Recovered, Row, Request
<1>6. QueueTypeOK'
  BY <1>1, <1>2, <1>4, <1>5 DEF QueueTypeOK
<1>7. QueueIsOnFile'
  BY <1>2, <1>3 DEF QueueIsOnFile
<1>8. NoHiddenRequests'
  BY <1>2 DEF NoHiddenRequests, Recovered
<1>9. OnePendingPerMarket'
  BY <1>2, <1>3 DEF QueueInv, OnePendingPerMarket
<1> QED
  BY <1>6, <1>7, <1>8, <1>9 DEF QueueInv

\* A crash in the middle of a purge.
LEMMA PurgeInterrupted ==
  ASSUME QueueInv, NEW gone, RestartFrom(Mark(rows, gone, "expired"))
  PROVE  QueueInv'
<1>1. rows \in Tables
  BY TypeAsMembership DEF QueueInv
<1>2. "expired" \in Statuses /\ "expired" # "pending"
  BY DEF Statuses
<1> QED
  BY <1>1, <1>2, MarkedTable, QueueRestarts

LEMMA CrashInPurge == QueueInv /\ CrashesIn(PartlyPurged \cup {Purged}) => QueueInv'
<1> SUFFICES ASSUME QueueInv, NEW table \in PartlyPurged \cup {Purged}, RestartFrom(table)
             PROVE  QueueInv'
  BY DEF CrashesIn
<1>1. PICK gone : table = Mark(rows, gone, "expired")
  BY DEF PartlyPurged, Purged
<1> QED
  BY <1>1, PurgeInterrupted

LEMMA PurgeCompletes ==
  ASSUME QueueInv, Completes(Restrict(pending, Kept), Purged) PROVE QueueInv'
<1>1. Kept \in SUBSET DOMAIN pending /\ Kept \cap ExpiredIds = {}
      /\ DOMAIN pending \ Kept \subseteq ExpiredIds
  BY DEF Kept, ExpiredIds
<1>2. "expired" \in Statuses \ {"pending"}
  BY DEF Statuses
<1> QED
  BY <1>1, <1>2, QueueShrinks DEF Purged

\* A new request: no other of its market is left in the queue.
LEMMA QueueGrows ==
  ASSUME QueueInv, NEW m \in Markets, NEW id \in Ids, Submit(m, id)
  PROVE  QueueInv'
<1> DEFINE request == [market |-> m, expires |-> now + TTL]
<1>1. CASE Completes([i \in Kept \cup {id} |-> IF i = id THEN request ELSE pending[i]],
                     Saved(Purged, id, m, now + TTL))
  <2>1. /\ pending \in Requests /\ rows \in Tables /\ now \in Nat /\ restarts \in Nat
    BY TypeAsMembership DEF QueueInv
  <2>2. request \in Request /\ TTL \in Nat
    BY <2>1, QueueAssumption DEF Request
  <2>3. /\ id \notin DOMAIN rows /\ \A i \in Kept : pending[i].market # m
    BY DEF Submit, NextId, IsQueued
  <2>4. /\ Purged \in Tables /\ DOMAIN Purged = DOMAIN rows
        /\ \A i \in DOMAIN rows :
             /\ Purged[i].market = rows[i].market
             /\ Purged[i].expires = rows[i].expires
             /\ Purged[i].status = IF i \in ExpiredIds THEN "expired" ELSE rows[i].status
    BY <2>1, MarkedTable DEF Purged, Statuses
  <2>5. /\ pending' = [i \in Kept \cup {id} |-> IF i = id THEN request ELSE pending[i]]
        /\ rows' = [i \in DOMAIN rows \cup {id} |->
                      IF i = id
                      THEN [market |-> m, expires |-> now + TTL, status |-> "pending"]
                      ELSE Purged[i]]
        /\ now' = now /\ restarts' = restarts
    BY <1>1, <2>4 DEF Completes, Saved
  <2>6. \E ids \in SUBSET Ids : pending' \in [ids -> Request]
    <3>1. Kept \cup {id} \in SUBSET Ids /\ \A i \in Kept : pending[i] \in Request
      BY <2>1 DEF Kept, Requests
    <3> QED
      BY <2>2, <2>5, <3>1
  <2>7. \E ids \in SUBSET Ids : rows' \in [ids -> Row]
    <3>1. DOMAIN rows \cup {id} \in SUBSET Ids /\ \A i \in DOMAIN rows : Purged[i] \in Row
      BY <2>4 DEF Tables
    <3>2. [market |-> m, expires |-> now + TTL, status |-> "pending"] \in Row
      BY <2>1, <2>2 DEF Row, Statuses
    <3> QED
      BY <2>5, <3>1, <3>2
  <2>8. QueueTypeOK'
    BY <2>1, <2>5, <2>6, <2>7 DEF QueueTypeOK
  <2>9. QueueIsOnFile'
    BY <2>3, <2>4, <2>5 DEF QueueInv, QueueIsOnFile, Kept
  <2>10. NoHiddenRequests'
    BY <2>4, <2>5 DEF QueueInv, NoHiddenRequests, Kept
  <2>11. OnePendingPerMarket'
    BY <2>3, <2>5 DEF QueueInv, OnePendingPerMarket, Kept
  <2> QED
    BY <2>8, <2>9, <2>10, <2>11 DEF QueueInv
<1>2. CASE CrashesIn(PartlyPurged \cup {Purged})
  BY <1>2, CrashInPurge
<1> QED
  BY <1>1, <1>2 DEF Submit

LEMMA QueueInvInit == QueueInit => QueueInv
<1> SUFFICES ASSUME QueueInit PROVE QueueInv
  OBVIOUS
<1>1. pending = [id \in {} |-> {}] /\ rows = [id \in {} |-> {}] /\ now = 0 /\ restarts = 0
  BY DEF QueueInit, NoRequests
<1>2. pending \in [{} -> Request] /\ rows \in [{} -> Row] /\ {} \in SUBSET Ids
  BY <1>1
<1>3. QueueTypeOK
  BY <1>1, <1>2 DEF QueueTypeOK
<1> QED
  BY <1>1, <1>3 DEF QueueInv, QueueIsOnFile, NoHiddenRequests, OnePendingPerMarket

LEMMA QueueInvStep == QueueInv /\ [QueueNext]_queueVars => QueueInv'
<1> SUFFICES ASSUME QueueInv, [QueueNext]_queueVars PROVE QueueInv'
  OBVIOUS
<1>0. rows \in Tables
  BY TypeAsMembership DEF QueueInv
<1>1. ASSUME NEW m \in Markets, NEW id \in Ids, Submit(m, id) PROVE QueueInv'
  BY <1>1, QueueGrows
<1>2. ASSUME NEW m \in Markets, SubmitDuplicate(m) PROVE QueueInv'
  BY <1>2, PurgeCompletes, CrashInPurge DEF SubmitDuplicate, CrashesIn
<1>3. ASSUME NEW id \in Ids, NEW status \in {"approved", "rejected"}, Decide(id, status)
      PROVE  QueueInv'
  BY <1>3, QueueShrinks DEF Decide, Statuses
<1>4. ASSUME NEW id \in Ids, TouchExpired(id) PROVE QueueInv'
  BY <1>4, QueueShrinks DEF TouchExpired, Statuses
<1>5. CASE Read
  BY <1>5, PurgeCompletes DEF Read
<1>6. CASE ReadInterrupted
  BY <1>6, CrashInPurge DEF ReadInterrupted, CrashesIn
<1>7. CASE Clear
  <2>1. Restrict(pending, {}) = NoRequests
    BY DEF Restrict, NoRequests
  <2>2. DOMAIN pending \subseteq PendingRows
    BY DEF QueueInv, QueueIsOnFile, PendingRows
  <2> QED
    BY <1>7, <2>1, <2>2, QueueShrinks DEF Clear, Statuses
<1>8. CASE TimePasses
  BY <1>8 DEF TimePasses, QueueInv, QueueTypeOK, QueueIsOnFile, NoHiddenRequests,
              OnePendingPerMarket, Tables, Row
<1>9. CASE Restart
  BY <1>0, <1>9, QueueRestarts DEF Restart
<1>10. CASE UNCHANGED queueVars
  BY <1>10 DEF queueVars, QueueInv, QueueTypeOK, QueueIsOnFile, NoHiddenRequests,
               OnePendingPerMarket
<1> QED
  BY <1>1, <1>2, <1>3, <1>4, <1>5, <1>6, <1>7, <1>8, <1>9, <1>10 DEF QueueNext

THEOREM QueueInvHolds == QueueSpec => []QueueInv
<1> QED
  BY QueueInvInit, QueueInvStep, PTL DEF QueueSpec

\* service.py:40: at most one request per market is queued, over any number of
\* submissions, expiries, crashes and restarts.
THEOREM OneRequestPerMarket == QueueSpec => []OnePendingPerMarket
<1>1. QueueInv => OnePendingPerMarket
  BY DEF QueueInv
<1> QED
  BY <1>1, QueueInvHolds, PTL

\* service.py:119: every queued request is on file as pending, with its market
\* and its deadline.
THEOREM QueueMatchesTable == QueueSpec => []QueueIsOnFile
<1>1. QueueInv => QueueIsOnFile
  BY DEF QueueInv
<1> QED
  BY <1>1, QueueInvHolds, PTL

\* service.py:119: a crash in the middle of any handler leaves no request with
\* time left that the operator no longer sees and the next restart revives.
THEOREM NoRequestIsHidden == QueueSpec => []NoHiddenRequests
<1>1. QueueInv => NoHiddenRequests
  BY DEF QueueInv
<1> QED
  BY <1>1, QueueInvHolds, PTL

-----------------------------------------------------------------------------
(* What a step does to the table.                                          *)

\* A decided request keeps its row.
KeepsDecisions ==
  \A id \in DOMAIN rows :
    /\ id \in DOMAIN rows'
    /\ rows[id].status # "pending" => rows'[id] = rows[id]

\* Marking pending rows only.
LEMMA MarkingPendingKeeps ==
  ASSUME NEW gone, NEW status, rows' = Mark(rows, gone, status),
         \A id \in gone \cap DOMAIN rows : rows[id].status = "pending"
  PROVE  KeepsDecisions
  BY DEF Mark, KeepsDecisions

\* What a crash in the middle of a purge leaves behind.
LEMMA PurgeMarksPending ==
  ASSUME QueueInv, NEW table \in PartlyPurged \cup {Purged}
  PROVE  \E gone \in SUBSET ExpiredIds :
           /\ table = Mark(rows, gone, "expired")
           /\ \A id \in gone : rows[id].status = "pending"
<1>1. PICK gone \in SUBSET ExpiredIds : table = Mark(rows, gone, "expired")
  BY DEF PartlyPurged, Purged
<1>2. \A id \in gone : rows[id].status = "pending"
  BY DEF ExpiredIds, QueueInv, QueueIsOnFile
<1> QED
  BY <1>1, <1>2

LEMMA PurgeKeepsDecisions ==
  ASSUME QueueInv, NEW table \in PartlyPurged \cup {Purged}, rows' = table
  PROVE  KeepsDecisions
<1>1. PICK gone \in SUBSET ExpiredIds :
        /\ table = Mark(rows, gone, "expired")
        /\ \A id \in gone : rows[id].status = "pending"
  BY PurgeMarksPending
<1> QED
  BY <1>1, MarkingPendingKeeps

LEMMA StepKeepsDecisions == QueueInv /\ [QueueNext]_queueVars => KeepsDecisions
<1> SUFFICES ASSUME QueueInv, [QueueNext]_queueVars PROVE KeepsDecisions
  OBVIOUS
<1>1. ASSUME NEW tables, CrashesIn(tables), tables \subseteq PartlyPurged \cup {Purged}
      PROVE  KeepsDecisions
  BY <1>1, PurgeKeepsDecisions DEF CrashesIn, RestartFrom
<1>2. ASSUME NEW m \in Markets, NEW id \in Ids, Submit(m, id) PROVE KeepsDecisions
  <2>1. CASE rows' = Saved(Purged, id, m, now + TTL)
    <3>1. id \notin DOMAIN rows /\ DOMAIN Purged = DOMAIN rows
      BY <1>2 DEF Submit, NextId, Purged, Mark
    <3>2. \A i \in DOMAIN rows : i \in DOMAIN rows' /\ rows'[i] = Purged[i]
      BY <2>1, <3>1 DEF Saved
    <3>3. \A i \in DOMAIN rows : rows[i].status # "pending" => Purged[i] = rows[i]
      BY DEF Purged, Mark, ExpiredIds, QueueInv, QueueIsOnFile
    <3> QED
      BY <3>2, <3>3 DEF KeepsDecisions
  <2> QED
    BY <1>1, <1>2, <2>1 DEF Submit, Completes
<1>3. ASSUME NEW m \in Markets, SubmitDuplicate(m) PROVE KeepsDecisions
  BY <1>1, <1>3, PurgeKeepsDecisions DEF SubmitDuplicate, Completes
<1>4. ASSUME NEW id \in DOMAIN pending, NEW status, rows' = Mark(rows, {id}, status)
      PROVE  KeepsDecisions
  BY <1>4, MarkingPendingKeeps DEF QueueInv, QueueIsOnFile
<1>5. CASE Read
  BY <1>5, PurgeKeepsDecisions DEF Read, Completes
<1>6. CASE ReadInterrupted
  BY <1>1, <1>6 DEF ReadInterrupted
<1>7. CASE Clear
  BY <1>7, MarkingPendingKeeps DEF Clear, Completes, PendingRows
<1>8. CASE UNCHANGED rows
  BY <1>8 DEF KeepsDecisions
<1>9. CASE TimePasses \/ Restart \/ UNCHANGED queueVars
  BY <1>8, <1>9 DEF TimePasses, Restart, RestartFrom, queueVars
<1> QED
  BY <1>2, <1>3, <1>4, <1>5, <1>6, <1>7, <1>9
     DEF QueueNext, Decide, TouchExpired, Completes

\* repository.py's update_approval_status: a request that was approved,
\* rejected, expired or cleared keeps its row, through crashes and restarts.
THEOREM DecisionsStay == QueueSpec => DecisionsAreFinal
<1>1. QueueInv /\ [QueueNext]_queueVars => [KeepsDecisions]_queueVars
  BY StepKeepsDecisions
<1> QED
  BY <1>1, QueueInvHolds, PTL DEF QueueSpec, DecisionsAreFinal, KeepsDecisions
-----------------------------------------------------------------------------
(* The queue implements ApprovalLifecycle: every step is a step of the     *)
(* lifecycle, most often the one that drops requests time has run out for. *)

StageMap    == [id \in Ids |-> StageOf(id)]
DeadlineMap == [id \in Ids |-> IF id \in DOMAIN rows THEN rows[id].expires ELSE 0]

\* A handler or a restart that adds no request and takes from the queue only
\* requests whose time has run out, none of them approved.
LEMMA DropsLapsedRequests ==
  ASSUME QueueInv, QueueInv', now' = now, DOMAIN rows' = DOMAIN rows,
         \A id \in DOMAIN rows :
           /\ rows'[id].expires = rows[id].expires
           /\ rows'[id].status = "approved" <=> rows[id].status = "approved",
         DOMAIN pending' \subseteq DOMAIN pending,
         \A id \in DOMAIN pending \ DOMAIN pending' : pending[id].expires <= now
  PROVE  AL!DropLapsed
<1> DEFINE lapsed == DOMAIN pending \ DOMAIN pending'
<1>1. /\ DOMAIN pending \subseteq Ids /\ DOMAIN rows \subseteq Ids
      /\ \A id \in DOMAIN pending :
           /\ id \in DOMAIN rows /\ rows[id].status = "pending"
           /\ rows[id].expires = pending[id].expires
  BY DEF QueueInv, QueueTypeOK, QueueIsOnFile
<1>2. lapsed \in SUBSET Ids
  BY <1>1
<1>3. \A id \in lapsed : StageMap[id] = "waiting" /\ DeadlineMap[id] <= now
  BY <1>1 DEF StageMap, StageOf, DeadlineMap
<1>4. \A id \in Ids : StageOf(id)' = IF id \in lapsed THEN "dropped" ELSE StageOf(id)
  BY <1>1 DEF StageOf
<1>5. StageMap' = [id \in Ids |-> IF id \in lapsed THEN "dropped" ELSE StageMap[id]]
  BY <1>4 DEF StageMap
<1>6. DeadlineMap' = DeadlineMap
  BY DEF DeadlineMap
<1> QED
  BY <1>2, <1>3, <1>5, <1>6 DEF AL!DropLapsed, AL!Lapse, StageMap, DeadlineMap

\* What Mark leaves alone, in the terms of DropsLapsedRequests.
LEMMA MarkingLapses ==
  ASSUME QueueInv, NEW gone \in SUBSET DOMAIN pending, NEW status \in Statuses,
         rows' = Mark(rows, gone, status)
  PROVE  /\ DOMAIN rows' = DOMAIN rows
         /\ \A id \in DOMAIN rows :
              /\ rows'[id].expires = rows[id].expires
              /\ rows'[id].status = IF id \in gone THEN status ELSE rows[id].status
         /\ \A id \in gone : rows[id].status = "pending"
<1>1. rows \in Tables
  BY TypeAsMembership DEF QueueInv
<1> QED
  BY <1>1, MarkedTable DEF QueueInv, QueueIsOnFile

\* Expiry is exact to the instant in memory and one instant early in a restart.
LEMMA ExpiredHasLapsed ==
  ASSUME QueueInv PROVE \A id \in ExpiredIds : pending[id].expires <= now
<1>1. now \in Nat /\ \A id \in DOMAIN pending : pending[id].expires \in Nat
  BY DEF QueueInv, QueueTypeOK, Request
<1> QED
  BY <1>1 DEF ExpiredIds, Expired

\* A restart from a table in which some expired requests are marked, or none.
LEMMA RestartDropsLapsed ==
  ASSUME QueueInv, QueueInv', NEW gone \in SUBSET ExpiredIds,
         RestartFrom(Mark(rows, gone, "expired"))
  PROVE  AL!DropLapsed
<1>1. rows' = Mark(rows, gone, "expired") /\ now' = now
  BY DEF RestartFrom
<1>2. /\ DOMAIN rows' = DOMAIN rows
      /\ \A id \in DOMAIN rows :
           /\ rows'[id].expires = rows[id].expires
           /\ rows'[id].status = IF id \in gone THEN "expired" ELSE rows[id].status
      /\ \A id \in gone : rows[id].status = "pending"
  BY <1>1, MarkingLapses DEF ExpiredIds, Statuses
<1>3. DOMAIN pending' = Recovered(rows')
  BY <1>1 DEF RestartFrom
<1>4. DOMAIN pending' \subseteq DOMAIN pending
  BY <1>2, <1>3 DEF Recovered, QueueInv, NoHiddenRequests
<1>5. now \in Nat /\ \A id \in DOMAIN pending : pending[id].expires \in Nat
  BY DEF QueueInv, QueueTypeOK, Request
<1>6. \A id \in DOMAIN pending \ DOMAIN pending' : pending[id].expires <= now
  <2> SUFFICES ASSUME NEW id \in DOMAIN pending \ DOMAIN pending'
               PROVE  pending[id].expires <= now
    OBVIOUS
  <2>1. /\ id \in DOMAIN rows /\ rows[id].status = "pending"
        /\ rows[id].expires = pending[id].expires
    BY DEF QueueInv, QueueIsOnFile
  <2>2. CASE id \in gone
    BY <2>2, ExpiredHasLapsed
  <2>3. CASE id \notin gone
    BY <1>2, <1>3, <1>5, <2>1, <2>3 DEF Recovered
  <2> QED
    BY <2>2, <2>3
<1> QED
  BY <1>1, <1>2, <1>4, <1>6, DropsLapsedRequests
\* A new request waits; what has expired is purged with the same call.
LEMMA SubmitSubmits ==
  ASSUME QueueInv, NEW m \in Markets, NEW id \in Ids, NextId(id),
         Completes([i \in Kept \cup {id} |->
                      IF i = id THEN [market |-> m, expires |-> now + TTL] ELSE pending[i]],
                   Saved(Purged, id, m, now + TTL))
  PROVE  AL!Submit(id)
<1>1. /\ DOMAIN pending \subseteq DOMAIN rows /\ DOMAIN rows \subseteq Ids
      /\ id \notin DOMAIN rows /\ now \in Nat /\ TTL \in Nat
  BY QueueAssumption DEF QueueInv, QueueTypeOK, QueueIsOnFile, NextId
<1>2. /\ DOMAIN Purged = DOMAIN rows
      /\ \A i \in DOMAIN rows :
           /\ Purged[i].expires = rows[i].expires
           /\ Purged[i].status = IF i \in ExpiredIds THEN "expired" ELSE rows[i].status
  BY TypeAsMembership, MarkedTable DEF QueueInv, Purged, Statuses
<1>3. /\ DOMAIN pending' = Kept \cup {id} /\ DOMAIN rows' = DOMAIN rows \cup {id}
      /\ rows'[id] = [market |-> m, expires |-> now + TTL, status |-> "pending"]
      /\ \A i \in DOMAIN rows : rows'[i] = Purged[i]
      /\ now' = now
  BY <1>1, <1>2 DEF Completes, Saved
<1>4. /\ ExpiredIds \in SUBSET (Ids \ {id}) /\ ExpiredIds \subseteq DOMAIN pending
      /\ Kept = DOMAIN pending \ ExpiredIds
  BY <1>1 DEF ExpiredIds, Kept
<1>5. StageMap[id] = "absent"
  BY <1>1 DEF StageMap, StageOf
<1>6. \A i \in ExpiredIds : StageMap[i] = "waiting" /\ DeadlineMap[i] <= now
  BY <1>1, <1>4, ExpiredHasLapsed
     DEF StageMap, StageOf, DeadlineMap, QueueInv, QueueIsOnFile
<1>7. \A i \in Ids : StageOf(i)' = IF i \in ExpiredIds THEN "dropped"
                                   ELSE IF i = id THEN "waiting" ELSE StageOf(i)
  BY <1>1, <1>2, <1>3, <1>4 DEF StageOf
<1>8. StageMap' = [i \in Ids |-> IF i \in ExpiredIds THEN "dropped"
                                 ELSE [StageMap EXCEPT ![id] = "waiting"][i]]
  BY <1>7 DEF StageMap
<1>9. /\ DeadlineMap'[id] = now + TTL
      /\ DeadlineMap' = [DeadlineMap EXCEPT ![id] = DeadlineMap'[id]]
  <2>1. \A i \in Ids :
          DeadlineMap'[i] = IF i = id THEN now + TTL ELSE DeadlineMap[i]
    BY <1>1, <1>2, <1>3 DEF DeadlineMap
  <2>2. DOMAIN DeadlineMap = Ids /\ DeadlineMap' = [i \in Ids |-> DeadlineMap'[i]]
    BY DEF DeadlineMap
  <2> QED
    BY <2>1, <2>2 DEF DeadlineMap
<1>10. DeadlineMap'[id] >= now
  BY <1>1, <1>9
<1> QED
  BY <1>3, <1>4, <1>5, <1>6, <1>8, <1>9, <1>10
     DEF AL!Submit, AL!Lapse, StageMap, DeadlineMap

\* approve() or reject() on a live request.
LEMMA DecideDecides ==
  ASSUME QueueInv, NEW id \in Ids, NEW status \in {"approved", "rejected"},
         Decide(id, status)
  PROVE  AL!Approve(id) \/ AL!Reject(id)
<1>1. /\ DOMAIN pending \subseteq DOMAIN rows /\ id \in DOMAIN pending
      /\ rows[id].expires = pending[id].expires
      /\ now \in Nat /\ pending[id].expires \in Nat
  BY DEF QueueInv, QueueTypeOK, QueueIsOnFile, Decide, Request
<1>2. now <= DeadlineMap[id] /\ StageMap[id] = "waiting"
  BY <1>1 DEF Decide, Expired, DeadlineMap, StageMap, StageOf
<1>3. /\ DOMAIN pending' = DOMAIN pending \ {id} /\ now' = now
      /\ DOMAIN rows' = DOMAIN rows
      /\ \A i \in DOMAIN rows :
           /\ rows'[i].expires = rows[i].expires
           /\ rows'[i].status = IF i = id THEN status ELSE rows[i].status
  <2>1. rows' = Mark(rows, {id}, status) /\ now' = now
        /\ DOMAIN pending' = DOMAIN pending \ {id}
    BY DEF Decide, Completes, Restrict
  <2>2. {id} \in SUBSET DOMAIN pending /\ status \in Statuses
    BY <1>1 DEF Statuses
  <2> QED
    BY <2>1, <2>2, MarkingLapses
<1>4. \A i \in Ids : StageOf(i)' =
        IF i = id THEN IF status = "approved" THEN "approved" ELSE "dropped"
                  ELSE StageOf(i)
  BY <1>1, <1>3 DEF StageOf
<1>5. StageMap' = [StageMap EXCEPT ![id] =
                     IF status = "approved" THEN "approved" ELSE "dropped"]
  BY <1>4 DEF StageMap
<1>6. DeadlineMap' = DeadlineMap
  BY <1>3 DEF DeadlineMap
<1> QED
  BY <1>2, <1>3, <1>5, <1>6 DEF AL!Approve, AL!Reject, StageMap, DeadlineMap

\* clear_pending() drops every waiting request; the rows that it clears
\* besides those had lapsed before.
LEMMA ClearDropsAll == ASSUME QueueInv, Clear PROVE AL!DropAll
<1>1. /\ DOMAIN pending \subseteq DOMAIN rows
      /\ \A id \in DOMAIN pending : rows[id].status = "pending"
  BY DEF QueueInv, QueueIsOnFile
<1>2. /\ DOMAIN pending' = {} /\ DOMAIN rows' = DOMAIN rows /\ now' = now
      /\ \A id \in DOMAIN rows :
           /\ rows'[id].expires = rows[id].expires
           /\ rows'[id].status = IF id \in PendingRows THEN "cleared" ELSE rows[id].status
  BY TypeAsMembership, MarkedTable DEF QueueInv, Clear, Completes, NoRequests, Statuses
<1>3. \A id \in Ids : StageOf(id)' = IF StageOf(id) = "waiting" THEN "dropped"
                                     ELSE StageOf(id)
  BY <1>1, <1>2 DEF StageOf, PendingRows
<1>4. StageMap' = [id \in Ids |-> IF StageMap[id] = "waiting" THEN "dropped"
                                  ELSE StageMap[id]]
  BY <1>3 DEF StageMap
<1>5. DeadlineMap' = DeadlineMap
  BY <1>2 DEF DeadlineMap
<1> QED
  BY <1>2, <1>4, <1>5 DEF AL!DropAll, StageMap, DeadlineMap

\* A purge that completes.
LEMMA PurgeDropsLapsed ==
  ASSUME QueueInv, QueueInv', Completes(Restrict(pending, Kept), Purged)
  PROVE  AL!DropLapsed
<1>1. rows' = Mark(rows, ExpiredIds, "expired") /\ now' = now
  BY DEF Completes, Purged
<1>2. DOMAIN pending' = DOMAIN pending \ ExpiredIds /\ ExpiredIds \subseteq DOMAIN pending
  BY DEF Completes, Restrict, Kept, ExpiredIds
<1>3. /\ DOMAIN rows' = DOMAIN rows
      /\ \A id \in DOMAIN rows :
           /\ rows'[id].expires = rows[id].expires
           /\ rows'[id].status = "approved" <=> rows[id].status = "approved"
  BY <1>1, <1>2, MarkingLapses DEF Statuses
<1> QED
  BY <1>1, <1>2, <1>3, ExpiredHasLapsed, DropsLapsedRequests

LEMMA StepIsLifecycleStep ==
  QueueInv /\ QueueInv' /\ [QueueNext]_queueVars => [AL!Next]_AL!vars
<1> SUFFICES ASSUME QueueInv, QueueInv', [QueueNext]_queueVars
             PROVE  [AL!Next]_AL!vars
  OBVIOUS
<1>1. ASSUME NEW tables, CrashesIn(tables), tables \subseteq PartlyPurged \cup {Purged}
      PROVE  AL!DropLapsed
  <2>1. PICK table \in tables : RestartFrom(table)
    BY <1>1 DEF CrashesIn
  <2> QED
    BY <1>1, <2>1, PurgeMarksPending, RestartDropsLapsed
<1>2. ASSUME NEW m \in Markets, NEW id \in Ids, Submit(m, id)
      PROVE  AL!Submit(id) \/ AL!DropLapsed
  BY <1>1, <1>2, SubmitSubmits DEF Submit
<1>3. ASSUME NEW m \in Markets, SubmitDuplicate(m) PROVE AL!DropLapsed
  BY <1>1, <1>3, PurgeDropsLapsed DEF SubmitDuplicate
<1>4. ASSUME NEW id \in Ids, NEW status \in {"approved", "rejected"}, Decide(id, status)
      PROVE  AL!Approve(id) \/ AL!Reject(id)
  BY <1>4, DecideDecides
<1>5. ASSUME NEW id \in Ids, TouchExpired(id) PROVE AL!DropLapsed
  <2>1. /\ rows' = Mark(rows, {id}, "expired") /\ now' = now
        /\ DOMAIN pending' = DOMAIN pending \ {id} /\ id \in ExpiredIds
    BY <1>5 DEF TouchExpired, Completes, Restrict, ExpiredIds
  <2>2. /\ DOMAIN rows' = DOMAIN rows
        /\ \A i \in DOMAIN rows :
             /\ rows'[i].expires = rows[i].expires
             /\ rows'[i].status = "approved" <=> rows[i].status = "approved"
    <3>1. {id} \in SUBSET DOMAIN pending /\ "expired" \in Statuses
      BY <2>1 DEF ExpiredIds, Statuses
    <3>2. /\ DOMAIN rows' = DOMAIN rows
          /\ \A i \in DOMAIN rows :
               /\ rows'[i].expires = rows[i].expires
               /\ rows'[i].status = IF i \in {id} THEN "expired" ELSE rows[i].status
          /\ \A i \in {id} : rows[i].status = "pending"
      BY <2>1, <3>1, MarkingLapses
    <3> QED
      BY <3>2
  <2> QED
    BY <2>1, <2>2, ExpiredHasLapsed, DropsLapsedRequests
<1>6. CASE Read
  BY <1>6, PurgeDropsLapsed DEF Read, AL!Next
<1>7. CASE ReadInterrupted
  BY <1>1, <1>7 DEF ReadInterrupted, AL!Next
<1>8. CASE Clear
  BY <1>8, ClearDropsAll DEF AL!Next
<1>9. CASE TimePasses
  <2>1. StageMap' = StageMap /\ DeadlineMap' = DeadlineMap
    BY <1>9 DEF TimePasses, StageMap, StageOf, DeadlineMap
  <2>2. AL!Wait
    BY <1>9, <2>1 DEF TimePasses, AL!Wait, StageMap, DeadlineMap
  <2> QED
    BY <2>2 DEF AL!Next
<1>10. CASE Restart
  <2>1. rows = Mark(rows, {}, "expired")
    <3>1. rows \in Tables
      BY TypeAsMembership DEF QueueInv
    <3> QED
      BY <3>1 DEF Mark, Tables
  <2> QED
    BY <1>10, <2>1, RestartDropsLapsed DEF Restart, AL!Next
<1>11. CASE UNCHANGED queueVars
  BY <1>11 DEF queueVars, AL!vars, StageOf
<1> QED
  BY <1>2, <1>3, <1>4, <1>5, <1>6, <1>7, <1>8, <1>9, <1>10, <1>11 DEF QueueNext, AL!Next

\* service.py: seen from outside, each request lives the life that
\* ApprovalLifecycle promises: it waits once, is approved only while it waits
\* and not after its deadline, and is dropped otherwise.  A crash or a restart
\* is at most a dropping of what time has run out for.
THEOREM QueueImplementsLifecycle == QueueSpec => ImplementsApprovalLifecycle
<1>1. QueueInit => AL!Init
  BY DEF QueueInit, AL!Init, NoRequests, StageOf
<1> QED
  BY <1>1, QueueInvHolds, StepIsLifecycleStep, PTL
     DEF QueueSpec, ImplementsApprovalLifecycle, AL!Spec
==============================================================================
