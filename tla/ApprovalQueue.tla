---------------------------- MODULE ApprovalQueue ----------------------------
(***************************************************************************)
(* ApprovalService (approval/service.py) and its table: the queue of trade *)
(* ideas waiting for the operator in semi_automated mode.                  *)
(*                                                                         *)
(* The queue in memory and the approval_requests table change together in  *)
(* one handler, but every row is a commit of its own: a handler is given   *)
(* by the table and queue it ends with and by the tables a crash in the    *)
(* middle leaves behind, from which the process restarts.                  *)
(*                                                                         *)
(* Requests are numbered in the order they are submitted.                  *)
(***************************************************************************)
EXTENDS Integers

CONSTANTS
  Markets,      \* trading pairs
  TTL,          \* lifetime of a request
  MaxRequests,  \* bound: requests ever saved
  MaxTime,      \* bound: clock
  MaxRestarts   \* bound: process restarts

ASSUME QueueAssumption ==
  /\ TTL \in Nat
  /\ MaxRequests \in Nat
  /\ MaxTime \in Nat
  /\ MaxRestarts \in Nat

VARIABLES
  pending,   \* _pending: the requests in memory, by id
  rows,      \* the approval_requests table, by id
  now,       \* the UTC clock
  restarts   \* number of restarts so far

queueVars == <<pending, rows, now, restarts>>

Ids == 1..MaxRequests

NoRequests == [id \in {} |-> {}]

Restrict(f, ids) == [id \in ids |-> f[id]]

-----------------------------------------------------------------------------
(* The table.                                                              *)

\* Slip: update_approval_status without the request's id.
MarkAll(table, ids, status) ==
  [id \in DOMAIN table |-> [table[id] EXCEPT !.status = status]]

\* Slip: the new status is not committed.
MarkUnsaved(table, ids, status) == table

\* update_approval_status for each of ids.
Mark(table, ids, status) ==
  [id \in DOMAIN table |->
     IF id \in ids THEN [table[id] EXCEPT !.status = status] ELSE table[id]]

\* save_approval_request.
Saved(table, id, m, expires) ==
  [i \in DOMAIN table \cup {id} |->
     IF i = id THEN [market |-> m, expires |-> expires, status |-> "pending"]
               ELSE table[i]]

\* Slip: the queue starts empty.
RecoveredNone(table) == {}

\* load_pending_approval_requests.  A request is usable up to and including
\* its last instant, but is recovered only before it.
Recovered(table) ==
  {id \in DOMAIN table : table[id].status = "pending" /\ table[id].expires > now}

RestartFrom(table) ==
  /\ restarts < MaxRestarts
  /\ restarts' = restarts + 1
  /\ rows' = table
  /\ pending' = [id \in Recovered(table) |->
                   [market |-> table[id].market, expires |-> table[id].expires]]
  /\ UNCHANGED now

Completes(newPending, table) ==
  /\ pending' = newPending
  /\ rows' = table
  /\ UNCHANGED <<now, restarts>>

CrashesIn(tables) == \E table \in tables : RestartFrom(table)

-----------------------------------------------------------------------------
(* Operations.                                                             *)

\* Slip: the deadline is not looked at.
NeverExpires(id) == FALSE

Expired(id) == pending[id].expires < now

ExpiredIds == {id \in DOMAIN pending : Expired(id)}

Kept == DOMAIN pending \ ExpiredIds

\* _purge_expired, one commit for each expired request.
Purged == Mark(rows, ExpiredIds, "expired")

PartlyPurged == {Mark(rows, {id \in ExpiredIds : id < first}, "expired") : first \in ExpiredIds}

\* Slip: duplicates are looked for among all markets but this one.
IsQueuedElsewhere(m) == \E id \in Kept : pending[id].market # m

IsQueued(m) == \E id \in Kept : pending[id].market = m

NextId(id) ==
  /\ id \in Ids \ DOMAIN rows
  /\ \A i \in Ids : i < id => i \in DOMAIN rows

\* submit() when no live request for the market is queued.
Submit(m, id) ==
  LET request == [market |-> m, expires |-> now + TTL]
  IN  /\ ~IsQueued(m)
      /\ NextId(id)
      /\ \/ Completes([i \in Kept \cup {id} |-> IF i = id THEN request ELSE pending[i]],
                      Saved(Purged, id, m, now + TTL))
         \/ CrashesIn(PartlyPurged \cup {Purged})

\* submit() when one is: only the purge takes effect.
SubmitDuplicate(m) ==
  /\ IsQueued(m)
  /\ \/ Completes(Restrict(pending, Kept), Purged)
     \/ CrashesIn(PartlyPurged)

\* approve() or reject().
Decide(id, status) ==
  /\ id \in DOMAIN pending
  /\ ~Expired(id)
  /\ Completes(Restrict(pending, DOMAIN pending \ {id}), Mark(rows, {id}, status))

\* get(), approve() or reject() on a request that has expired.
TouchExpired(id) ==
  /\ id \in DOMAIN pending
  /\ Expired(id)
  /\ Completes(Restrict(pending, DOMAIN pending \ {id}), Mark(rows, {id}, "expired"))

\* get_pending().
Read == Completes(Restrict(pending, Kept), Purged)

ReadInterrupted == CrashesIn(PartlyPurged)

PendingRows == {id \in DOMAIN rows : rows[id].status = "pending"}

\* clear_pending(): the rows in one commit, those of no request in memory too.
Clear == Completes(NoRequests, Mark(rows, PendingRows, "cleared"))

TimePasses ==
  /\ now < MaxTime
  /\ now' = now + 1
  /\ UNCHANGED <<pending, rows, restarts>>

Restart == RestartFrom(rows)

-----------------------------------------------------------------------------

QueueInit ==
  /\ pending = NoRequests
  /\ rows = NoRequests
  /\ now = 0
  /\ restarts = 0

QueueNext ==
  \/ \E m \in Markets : (\E id \in Ids : Submit(m, id)) \/ SubmitDuplicate(m)
  \/ \E id \in Ids : \E status \in {"approved", "rejected"} : Decide(id, status)
  \/ \E id \in Ids : TouchExpired(id)
  \/ Read
  \/ ReadInterrupted
  \/ Clear
  \/ TimePasses
  \/ Restart

QueueSpec == QueueInit /\ [][QueueNext]_queueVars

-----------------------------------------------------------------------------
(* Types.                                                                  *)

Statuses == {"pending", "approved", "rejected", "expired", "cleared"}

Request == [market : Markets, expires : Nat]

Row == [market : Markets, expires : Nat, status : Statuses]

QueueTypeOK ==
  /\ \E ids \in SUBSET Ids : pending \in [ids -> Request]
  /\ \E ids \in SUBSET Ids : rows \in [ids -> Row]
  /\ now \in Nat
  /\ restarts \in Nat

-----------------------------------------------------------------------------
(* Safety.                                                                 *)

\* service.py:40: at most one request per market is queued, however restarts
\* and expiry interleave with the submissions.
OnePendingPerMarket ==
  \A i, j \in DOMAIN pending : pending[i].market = pending[j].market => i = j

\* A queued request is on file as pending, with its market and deadline.
QueueIsOnFile ==
  \A id \in DOMAIN pending :
    /\ id \in DOMAIN rows
    /\ rows[id].status = "pending"
    /\ rows[id].market = pending[id].market
    /\ rows[id].expires = pending[id].expires

\* A row on file as pending that has time left is in the queue: a crash never
\* leaves a request that the operator no longer sees and a restart revives.
NoHiddenRequests ==
  \A id \in DOMAIN rows :
    rows[id].status = "pending" /\ rows[id].expires > now => id \in DOMAIN pending

\* A row that has left pending keeps its status, through crashes and restarts.
DecisionsAreFinal ==
  [][ \A id \in DOMAIN rows :
        /\ id \in DOMAIN rows'
        /\ rows[id].status # "pending" => rows'[id] = rows[id] ]_queueVars

-----------------------------------------------------------------------------
(* Refinement: the requests implement ApprovalLifecycle.                   *)

StageOf(id) ==
  IF id \in DOMAIN pending THEN "waiting"
  ELSE IF id \notin DOMAIN rows THEN "absent"
  ELSE IF rows[id].status = "approved" THEN "approved" ELSE "dropped"

AL == INSTANCE ApprovalLifecycle WITH
        Requests <- Ids,
        stage <- [id \in Ids |-> StageOf(id)],
        deadline <- [id \in Ids |-> IF id \in DOMAIN rows THEN rows[id].expires ELSE 0],
        clock <- now

\* The queue implements ApprovalLifecycle.
ImplementsApprovalLifecycle == AL!Spec
==============================================================================
