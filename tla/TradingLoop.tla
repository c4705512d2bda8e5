----------------------------- MODULE TradingLoop -----------------------------
(***************************************************************************)
(* The strategy loop, the approval endpoints and the emergency stop, around *)
(* the approval queue: which work is under way when the operator stops the *)
(* bot, and what becomes of it.                                            *)
(*                                                                         *)
(* Coroutines share one event loop and switch only where they suspend.     *)
(* The loop checks the stop once, at the top of a tick; it then suspends   *)
(* in its price, account and model calls (evaluating), acts on its ideas   *)
(* one by one without suspending (acting), except where an idea goes to    *)
(* the exchange or raises an alert (waiting).  An approval checks the stop *)
(* once too; in a live environment it suspends in the account snapshot     *)
(* and, for a live market, in the exchange call.                           *)
(*                                                                         *)
(* The paper account itself is PaperTrading's; here an order handed to an  *)
(* engine is an entry in trades.                                           *)
(***************************************************************************)
EXTENDS ApprovalQueue, FiniteSets, Sequences

CONSTANTS
  LiveMarkets,      \* markets routed to the exchange
  TradingModes,     \* values of settings.trading_mode the operator uses
  Environments,     \* values of settings.trading_environment
  AlertWebhook,     \* settings.alert_webhook_url is set
  PersistMayFail,   \* a write of the control state may raise (and is ignored)
  MaxAutoTrades     \* bound: trades of the loop itself

ASSUME LoopAssumption ==
  /\ LiveMarkets \subseteq Markets
  /\ TradingModes \subseteq {"manual", "semi_automated", "fully_automated"}
  /\ Environments \subseteq {"paper", "live"}
  /\ AlertWebhook \in BOOLEAN
  /\ PersistMayFail \in BOOLEAN
  /\ MaxAutoTrades \in Nat

VARIABLES
  settings,    \* trading mode and environment, read when the process starts
  stop,        \* control.emergency_stop
  stopOnFile,  \* the same in the control_state row
  loopPc,      \* the strategy loop: idle, evaluating, acting or waiting
  ideas,       \* markets of the ideas the loop has still to act on
  handler,     \* by request: where its approval is: none, account or waiting
  trades       \* orders handed to an engine: who asked and in which market

loopVars == <<loopPc, ideas>>
controlVars == <<settings, stop, stopOnFile>>
vars == <<queueVars, loopVars, controlVars, handler, trades>>

\* The strategy loop as the source of a trade.
Loop == 0

Settings == [mode : TradingModes, environment : Environments]

IsLive(m) == m \in LiveMarkets

EventLoopFree == loopPc # "acting"

Survives == restarts' = restarts

\* What a restart does to everything but the queue when the control_state row
\* says onFile; the operator may have changed the settings in between.
ControlRestartsFrom(onFile) ==
  /\ restarts' # restarts
  /\ settings' \in Settings
  /\ stop' = onFile
  /\ stopOnFile' = onFile
  /\ loopPc' = "idle"
  /\ ideas' = {}
  /\ handler' = [id \in Ids |-> "none"]

ControlRestarts == ControlRestartsFrom(stopOnFile)

Trade(source, m) == trades' = Append(trades, [source |-> source, market |-> m])

-----------------------------------------------------------------------------
(* The strategy loop.                                                      *)

\* Slip: the stop is not checked.
TickStartsAnyway ==
  /\ loopPc = "idle"
  /\ loopPc' = "evaluating"
  /\ UNCHANGED <<queueVars, controlVars, ideas, handler, trades>>

\* A tick gets past the stop check and suspends.
TickStarts ==
  /\ loopPc = "idle"
  /\ ~stop
  /\ loopPc' = "evaluating"
  /\ UNCHANGED <<queueVars, controlVars, ideas, handler, trades>>

\* The last call before the ideas returned; or one of them failed, no price
\* came or the strategy is warming up, and the loop goes to sleep.
Evaluated(found) ==
  /\ EventLoopFree
  /\ loopPc = "evaluating"
  /\ ideas' = found
  /\ loopPc' = IF found = {} THEN "idle" ELSE "acting"
  /\ UNCHANGED <<queueVars, controlVars, handler, trades>>

\* The loop is done with the idea of market m.
IdeaDone(m) ==
  /\ ideas' = ideas \ {m}
  /\ loopPc' = IF ideas = {m} THEN "idle" ELSE "acting"

\* The loop suspends in a call made for the idea of market m.
IdeaWaits(m) ==
  /\ ideas' = ideas \ {m}
  /\ loopPc' = "waiting"

\* The risk engine, the confidence threshold or an open position is against
\* it, or the mode is manual; an error drops all that are left.  A daily-loss
\* rejection raises an alert.
DropIdea(m) ==
  /\ loopPc = "acting"
  /\ m \in ideas
  /\ \/ IdeaDone(m)
     \/ AlertWebhook /\ IdeaWaits(m)
  /\ UNCHANGED <<queueVars, controlVars, handler, trades>>

SubmitIdea(m) ==
  /\ settings.mode = "semi_automated"
  /\ loopPc = "acting"
  /\ m \in ideas
  /\ (\E id \in Ids : Submit(m, id)) \/ SubmitDuplicate(m)
  /\ \/ Survives /\ IdeaDone(m) /\ UNCHANGED <<controlVars, handler>>
     \/ ControlRestarts
  /\ UNCHANGED trades

ExecuteIdea(m) ==
  /\ settings.mode = "fully_automated"
  /\ loopPc = "acting"
  /\ m \in ideas
  /\ Cardinality({i \in DOMAIN trades : trades[i].source = Loop}) < MaxAutoTrades
  /\ Trade(Loop, m)
  /\ IF IsLive(m) THEN IdeaWaits(m) ELSE IdeaDone(m)
  /\ UNCHANGED <<queueVars, controlVars, handler>>

CallReturns ==
  /\ EventLoopFree
  /\ loopPc = "waiting"
  /\ loopPc' = IF ideas = {} THEN "idle" ELSE "acting"
  /\ UNCHANGED <<queueVars, controlVars, ideas, handler, trades>>

-----------------------------------------------------------------------------
(* POST /api/approvals/{id}/approve and .../reject.                        *)

\* The order of an approved request goes to an engine; an exchange call
\* suspends the handler.
ExecuteApproved(id, m) ==
  /\ Trade(id, m)
  /\ handler' = [handler EXCEPT ![id] = IF IsLive(m) THEN "waiting" ELSE "none"]

\* Slip: the stop is not checked.
ApproveAnyway(id) ==
  /\ EventLoopFree
  /\ Decide(id, "approved")
  /\ handler' = [handler EXCEPT ![id] = "account"]
  /\ UNCHANGED <<loopVars, controlVars, trades>>

\* Without a price for the market the request is used up and nothing else
\* happens.  In a paper environment the account snapshot does not suspend.
Approve(id) ==
  /\ EventLoopFree
  /\ ~stop
  /\ Decide(id, "approved")
  /\ \/ handler' = handler /\ trades' = trades
     \/ /\ settings.environment = "live"
        /\ handler' = [handler EXCEPT ![id] = "account"]
        /\ trades' = trades
     \/ settings.environment = "paper" /\ ExecuteApproved(id, pending[id].market)
  /\ UNCHANGED <<loopVars, controlVars>>

\* A crash after the commit of the approval: before or after the order.
ApproveInterrupted(id) ==
  /\ EventLoopFree
  /\ ~stop
  /\ id \in DOMAIN pending
  /\ ~Expired(id)
  /\ CrashesIn({Mark(rows, {id}, "approved")})
  /\ ControlRestarts
  /\ \/ trades' = trades
     \/ settings.environment = "paper" /\ Trade(id, pending[id].market)

AccountAnswered(id) ==
  /\ EventLoopFree
  /\ handler[id] = "account"
  /\ ExecuteApproved(id, rows[id].market)
  /\ UNCHANGED <<queueVars, loopVars, controlVars>>

OrderAnswered(id) ==
  /\ EventLoopFree
  /\ handler[id] = "waiting"
  /\ handler' = [handler EXCEPT ![id] = "none"]
  /\ UNCHANGED <<queueVars, loopVars, controlVars, trades>>

Reject(id) ==
  /\ EventLoopFree
  /\ Decide(id, "rejected")
  /\ UNCHANGED <<loopVars, controlVars, handler, trades>>

\* Reads and late clicks: the queue sheds what has expired.
Browse ==
  /\ EventLoopFree
  /\ \/ Read
     \/ \E id \in Ids : TouchExpired(id)
     \/ ReadInterrupted
  /\ \/ Survives /\ UNCHANGED <<loopVars, controlVars, handler>>
     \/ ControlRestarts
  /\ UNCHANGED trades

-----------------------------------------------------------------------------
(* POST /api/control/emergency-stop and /resume.                           *)

\* Slip: the flag is changed in memory only.
NotPersisted(value) == UNCHANGED stopOnFile

\* control._persist: a failed write is ignored.
Persisted(value) ==
  stopOnFile' \in {value} \cup IF PersistMayFail THEN {stopOnFile} ELSE {}

ActivateStop ==
  /\ EventLoopFree
  /\ stop' = TRUE
  /\ Persisted(TRUE)
  /\ Clear
  /\ UNCHANGED <<settings, loopVars, handler, trades>>

\* A crash after the control state was written, before the queue was cleared.
StopInterrupted ==
  /\ EventLoopFree
  /\ RestartFrom(rows)
  /\ ControlRestartsFrom(TRUE)
  /\ UNCHANGED trades

Resume ==
  /\ EventLoopFree
  /\ stop
  /\ stop' = FALSE
  /\ Persisted(FALSE)
  /\ UNCHANGED <<queueVars, settings, loopVars, handler, trades>>

-----------------------------------------------------------------------------

ProcessRestart ==
  /\ Restart
  /\ ControlRestarts
  /\ UNCHANGED trades

Clock ==
  /\ TimePasses
  /\ UNCHANGED <<loopVars, controlVars, handler, trades>>

Init ==
  /\ QueueInit
  /\ settings \in Settings
  /\ stop = FALSE
  /\ stopOnFile = FALSE
  /\ loopPc = "idle"
  /\ ideas = {}
  /\ handler = [id \in Ids |-> "none"]
  /\ trades = <<>>

LoopAct == \E m \in ideas : DropIdea(m) \/ SubmitIdea(m) \/ ExecuteIdea(m)

Next ==
  \/ TickStarts
  \/ \E found \in SUBSET Markets : Evaluated(found)
  \/ LoopAct
  \/ CallReturns
  \/ \E id \in Ids :
       \/ Approve(id)
       \/ ApproveInterrupted(id)
       \/ AccountAnswered(id)
       \/ OrderAnswered(id)
       \/ Reject(id)
  \/ Browse
  \/ ActivateStop
  \/ StopInterrupted
  \/ Resume
  \/ ProcessRestart
  \/ Clock

Spec == Init /\ [][Next]_vars

\* Calls return, by a timeout where the client has one.  A runnable coroutine
\* runs: the event loop is fair.
Fairness ==
  /\ WF_vars(\E found \in SUBSET Markets : Evaluated(found))
  /\ WF_vars(LoopAct)
  /\ WF_vars(CallReturns)
  /\ \A id \in Ids : WF_vars(AccountAnswered(id)) /\ WF_vars(OrderAnswered(id))

FairSpec == Spec /\ Fairness

-----------------------------------------------------------------------------

LoopTypeOK ==
  /\ QueueTypeOK
  /\ settings \in Settings
  /\ stop \in BOOLEAN /\ stopOnFile \in BOOLEAN
  /\ loopPc \in {"idle", "evaluating", "acting", "waiting"}
  /\ ideas \subseteq Markets
  /\ handler \in [Ids -> {"none", "account", "waiting"}]
  /\ trades \in Seq([source : Ids \cup {Loop}, market : Markets])

\* service.py:62: an approval is used up before its order goes out, so clicks,
\* crashes and restarts together send at most one order for it.
AtMostOneTradePerApproval ==
  \A i, j \in DOMAIN trades :
    trades[i].source = trades[j].source /\ trades[i].source # Loop => i = j

\* control/state.py:4: the stop survives a restart.
StopSurvivesRestart == [][restarts' # restarts => (stop => stop')]_vars

LoopInFlight == IF loopPc = "idle" THEN {} ELSE {Loop}

InFlight == LoopInFlight \cup {id \in Ids : handler[id] # "none"}

\* main.py:364 and 1239: a stop ends the work under way at most, it never
\* lets a tick or an approval begin.
NothingStartsWhileStopped == [][stop => InFlight' \subseteq InFlight]_vars

\* docs/12-operations.md:265: after a stop that is not lifted trading comes to rest.
StopQuiesces == <>[]stop => <>[](InFlight = {})
==============================================================================
