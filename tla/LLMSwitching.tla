----------------------------- MODULE LLMSwitching -----------------------------
(***************************************************************************)
(* Two LLM backends behind one client (llm/switching_client.py): an        *)
(* OpenAI-compatible endpoint is preferred, a local Transformers model     *)
(* answers while the endpoint does not.  Each backend has the circuit      *)
(* breaker of llm/common.py.                                               *)
(*                                                                         *)
(* Callers (signal analyses, briefings, the reflection) chat concurrently. *)
(* One keeper, the startup and after it the news loop, probes the endpoint *)
(* and loads or unloads the local model.  A call gives up control while    *)
(* it waits for its backend, so the breaker it left is not the breaker it  *)
(* comes back to.                                                          *)
(*                                                                         *)
(* Both backends are configured.  The length of a retry delay (30 s,       *)
(* doubling up to 300 s) is left out: a delay just passes at some time,    *)
(* and the failure count, which has no other use, goes with it.            *)
(***************************************************************************)
EXTENDS Naturals

CONSTANTS
  Callers,      \* tasks that may chat at the same time
  LoadMayFail   \* whether loading the local model may fail

ASSUME LoadAssumption == LoadMayFail \in BOOLEAN

VARIABLES
  up,        \* the endpoint answers
  primary,   \* breaker of the OpenAI client
  fallback,  \* breaker of the Transformers client
  loaded,    \* the Transformers client holds a pipeline
  call,      \* what each caller is doing, or how its last chat ended
  keeper     \* where the prober is, and what it read before its probe

clients == <<primary, fallback, loaded>>
llmVars == <<up, clients, call, keeper>>

-----------------------------------------------------------------------------
(* The circuit breaker.                                                    *)

Breaker == [available : BOOLEAN, circuit : {"closed", "open", "half_open"}, due : BOOLEAN]

Fresh == [available |-> FALSE, circuit |-> "closed", due |-> FALSE]

\* Slip: the analyser once asked for available instead (docs/99-todo.md:123).
CanAttemptIfAvailable(b) == b.available \/ b.circuit = "closed"

CanAttempt(b) == b.circuit = "closed" \/ b.due

\* A caller let through an open circuit leaves it half open: others follow.
Attempted(b) ==
  IF b.circuit # "closed" /\ b.due THEN [b EXCEPT !.circuit = "half_open"] ELSE b

\* Slip: the client stays available.
FailureKeepsAvailable(b) == [b EXCEPT !.circuit = "open", !.due = FALSE]

Success(b) == [available |-> TRUE, circuit |-> "closed", due |-> FALSE]
Failure(b) == [available |-> FALSE, circuit |-> "open", due |-> FALSE]

\* The retry time of an open circuit arrives.
RetryDuePrimary ==
  /\ primary.circuit = "open" /\ ~primary.due
  /\ primary' = [primary EXCEPT !.due = TRUE]
  /\ UNCHANGED <<up, fallback, loaded, call, keeper>>

RetryDueFallback ==
  /\ fallback.circuit = "open" /\ ~fallback.due
  /\ fallback' = [fallback EXCEPT !.due = TRUE]
  /\ UNCHANGED <<up, primary, loaded, call, keeper>>

-----------------------------------------------------------------------------
(* Chats.                                                                  *)

InFlight(c) == call[c] \in {"remote", "local"}

\* The local client opens its own circuit for the attempt before it looks
\* whether it has a model at all.
TryLocal(c) ==
  /\ fallback' = Attempted(fallback)
  /\ call' = [call EXCEPT ![c] = IF CanAttempt(fallback) /\ loaded THEN "local" ELSE "silent"]

ChatStarts(c) ==
  /\ keeper.at \notin {"bootProbe", "bootLoad"}
  /\ ~InFlight(c)
  /\ \/ /\ CanAttempt(primary)
        /\ primary' = Attempted(primary)
        /\ call' = [call EXCEPT ![c] = "remote"]
        /\ UNCHANGED fallback
     \/ /\ ~CanAttempt(primary)
        /\ TryLocal(c)
        /\ UNCHANGED primary
  /\ UNCHANGED <<up, loaded, keeper>>

\* An answer that parses; a model that does not keep to JSON, which is no
\* failure of the endpoint; a body that is no JSON at all, which leaves the
\* breaker alone; everything else, time-outs and missing fields included.
RemoteOutcomes == IF up THEN {"answer", "prose", "noJson", "error"} ELSE {"error"}

AfterRemote(outcome) ==
  CASE outcome \in {"answer", "prose"} -> Success(primary)
    [] outcome = "error" -> Failure(primary)
    [] OTHER -> primary

RemoteEnds(c, outcome) ==
  /\ call[c] = "remote"
  /\ outcome \in RemoteOutcomes
  /\ primary' = AfterRemote(outcome)
  /\ IF outcome = "answer"
     THEN call' = [call EXCEPT ![c] = "answered"] /\ UNCHANGED fallback
     ELSE TryLocal(c)
  /\ UNCHANGED <<up, loaded, keeper>>

\* The thread works on the pipeline it was started with, unloaded or not.
LocalEnds(c, outcome) ==
  /\ call[c] = "local"
  /\ fallback' = IF outcome = "error" THEN Failure(fallback) ELSE Success(fallback)
  /\ call' = [call EXCEPT ![c] = IF outcome = "answer" THEN "answered" ELSE "silent"]
  /\ UNCHANGED <<up, primary, loaded, keeper>>

-----------------------------------------------------------------------------
(* The keeper.                                                             *)

\* Slip: the model goes, the client goes on calling itself available.
UnloadKeepsAvailable ==
  /\ fallback' = IF loaded THEN [fallback EXCEPT !.circuit = "closed"] ELSE fallback
  /\ loaded' = FALSE

\* Without a model there is nothing to unload, and the breaker stays.
Unload ==
  /\ fallback' = IF loaded THEN [fallback EXCEPT !.available = FALSE, !.circuit = "closed"]
                 ELSE fallback
  /\ loaded' = FALSE

\* Probing a loaded model succeeds at once, otherwise it is loaded in a thread.
ProbeLocal(loading) ==
  IF loaded
  THEN fallback' = Success(fallback) /\ keeper' = [keeper EXCEPT !.at = "asleep"]
  ELSE keeper' = [keeper EXCEPT !.at = loading] /\ UNCHANGED fallback

\* The endpoint answers a list of its models, or it does not.
Probed(b) == IF up THEN Success(b) ELSE Failure(b)

BootProbeEnds ==
  /\ keeper.at = "bootProbe"
  /\ primary' = Probed(primary)
  /\ \/ /\ up
        /\ Unload
        /\ keeper' = [keeper EXCEPT !.at = "asleep"]
     \/ /\ ~up
        /\ ProbeLocal("bootLoad")
        /\ UNCHANGED loaded
  /\ UNCHANGED <<up, call>>

LoadEnds(ok) ==
  /\ keeper.at \in {"bootLoad", "loading"}
  /\ ok \/ LoadMayFail
  /\ loaded' = ok
  /\ fallback' = IF ok THEN Success(fallback) ELSE Failure(fallback)
  /\ keeper' = [keeper EXCEPT !.at = "asleep"]
  /\ UNCHANGED <<up, primary, call>>

RecheckStarts ==
  /\ keeper.at = "asleep"
  /\ keeper' = [at |-> "probing", wasAvailable |-> primary.available]
  /\ UNCHANGED <<up, clients, call>>

\* Slip: a probe that succeeds leaves it to the chats to close the circuit.
ProbeEndsUnmarked ==
  /\ keeper.at = "probing"
  /\ primary' = IF up THEN primary ELSE Failure(primary)
  /\ keeper' = [keeper EXCEPT !.at = "asleep"]
  /\ UNCHANGED <<up, fallback, loaded, call>>

\* Only a change against what was read before the probe moves the model.
ProbeEnds ==
  /\ keeper.at = "probing"
  /\ primary' = Probed(primary)
  /\ \/ /\ up /\ ~keeper.wasAvailable
        /\ Unload
        /\ keeper' = [keeper EXCEPT !.at = "asleep"]
     \/ /\ ~up /\ keeper.wasAvailable
        /\ ProbeLocal("loading")
        /\ UNCHANGED loaded
     \/ /\ up = keeper.wasAvailable
        /\ keeper' = [keeper EXCEPT !.at = "asleep"]
        /\ UNCHANGED <<fallback, loaded>>
  /\ UNCHANGED <<up, call>>

-----------------------------------------------------------------------------

EndpointChanges ==
  /\ up' = ~up
  /\ UNCHANGED <<clients, call, keeper>>

\* Nothing of the clients outlives the process.
LLMInit ==
  /\ up \in BOOLEAN
  /\ primary = Fresh /\ fallback = Fresh /\ loaded = FALSE
  /\ call = [c \in Callers |-> "silent"]
  /\ keeper = [at |-> "bootProbe", wasAvailable |-> FALSE]

CallEnds(c) ==
  \/ \E outcome \in RemoteOutcomes : RemoteEnds(c, outcome)
  \/ \E outcome \in {"answer", "prose", "error"} : LocalEnds(c, outcome)

LLMNext ==
  \/ RetryDuePrimary
  \/ RetryDueFallback
  \/ BootProbeEnds
  \/ \E ok \in BOOLEAN : LoadEnds(ok)
  \/ RecheckStarts
  \/ ProbeEnds
  \/ EndpointChanges
  \/ \E c \in Callers : ChatStarts(c) \/ CallEnds(c)

LLMSpec == LLMInit /\ [][LLMNext]_llmVars

\* Requests have time-outs, generations a limit, delays an end.  The news
\* loop probes with every cycle that does not fail before it gets there, and
\* some caller comes back with every tick.
Fairness ==
  /\ WF_llmVars(RetryDuePrimary) /\ WF_llmVars(RetryDueFallback)
  /\ WF_llmVars(BootProbeEnds) /\ WF_llmVars(ProbeEnds)
  /\ WF_llmVars(\E ok \in BOOLEAN : LoadEnds(ok))
  /\ SF_llmVars(RecheckStarts)
  /\ \A c \in Callers : WF_llmVars(ChatStarts(c)) /\ WF_llmVars(CallEnds(c))

LLMFairSpec == LLMSpec /\ Fairness

-----------------------------------------------------------------------------

LLMTypeOK ==
  /\ up \in BOOLEAN /\ loaded \in BOOLEAN
  /\ primary \in Breaker /\ fallback \in Breaker
  /\ call \in [Callers -> {"silent", "answered", "remote", "local"}]
  /\ keeper \in [at : {"bootProbe", "bootLoad", "asleep", "probing", "loading"},
                 wasAvailable : BOOLEAN]

Sound(b) ==
  /\ b.available => b.circuit = "closed"
  /\ b.circuit = "half_open" => b.due

\* common.py:151, switching_client.py:31: whatever order overlapping chats, probes, loads
\* and unloads end in, an available backend has a closed circuit, and a
\* half-open one lets the next caller through, so it cannot stay half open.
BreakersAreSound == LLMTypeOK /\ Sound(primary) /\ Sound(fallback)

\* transformers_client.py:117: a client calls itself available without a model
\* only after a chat that was under way when the model was unloaded.
PhantomOnlyFromLateAnswers ==
  [][(fallback'.available /\ ~loaded')
     => \/ fallback.available /\ ~loaded
        \/ \E c \in Callers : call[c] = "local" /\ call'[c] # "local"]_llmVars

\* switching_client.py:8: an endpoint that answers from some time on is used
\* again, however many chats fail on the way.
EndpointIsUsedAgain == <>[]up => []<>primary.available

\* switching_client.py:112: a dead endpoint does not go on being announced.
OutageIsNoticed == <>[]~up => <>[]~primary.available

\* docs/07-llm-integration.md:74: as long as the endpoint is down and the local model
\* is loaded, the local model is asked again and again, failed generations
\* and lost half-open attempts notwithstanding.
LoadedModelIsAsked ==
  <>[](~up /\ loaded) => []<>(\E c \in Callers : call[c] = "local")

-----------------------------------------------------------------------------
(* A statement of the repository that the code does not keep.              *)

\* switching_client.py:5: when the endpoint later becomes unavailable, the
\* local model is reloaded automatically.
ModelIsReloaded == ~up ~> (up \/ loaded \/ keeper.at \in {"bootLoad", "loading"})
==============================================================================
