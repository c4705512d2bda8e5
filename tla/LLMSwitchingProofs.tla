-------------------------- MODULE LLMSwitchingProofs --------------------------
(***************************************************************************)
(* The breakers of the two LLM backends, for any number of callers.  That  *)
(* they are well formed and sound is inductive as it stands: every handler *)
(* that returns replaces the whole breaker, and the two that change one    *)
(* field of it, an unload and an expired retry delay, keep its parts       *)
(* consistent.                                                             *)
(***************************************************************************)
EXTENDS LLMSwitching, TLAPS

LEMMA FreshIsSound == Fresh \in Breaker /\ Sound(Fresh)
BY DEF Fresh, Breaker, Sound

\* What the handlers make of a breaker, whatever breaker they find.
LEMMA OutcomesAreSound ==
  ASSUME NEW b \in Breaker, Sound(b)
  PROVE  /\ Success(b) \in Breaker /\ Sound(Success(b))
         /\ Failure(b) \in Breaker /\ Sound(Failure(b))
         /\ Attempted(b) \in Breaker /\ Sound(Attempted(b))
         /\ Attempted(b).available = b.available
BY DEF Breaker, Sound, Success, Failure, Attempted

LEMMA DelayOverIsSound ==
  ASSUME NEW b \in Breaker, Sound(b), b.circuit = "open"
  PROVE  /\ [b EXCEPT !.due = TRUE] \in Breaker
         /\ Sound([b EXCEPT !.due = TRUE])
         /\ [b EXCEPT !.due = TRUE].available = b.available
BY DEF Breaker, Sound

LEMMA UnloadIsSound ==
  ASSUME BreakersAreSound, Unload
  PROVE  /\ fallback' \in Breaker /\ Sound(fallback') /\ loaded' = FALSE
         /\ fallback'.available => fallback.available /\ ~loaded
<1>1. fallback \in Breaker /\ Sound(fallback) /\ loaded \in BOOLEAN
  BY DEF BreakersAreSound, LLMTypeOK
<1> QED BY <1>1 DEF Unload, Breaker, Sound

-----------------------------------------------------------------------------

LEMMA InitIsSound == LLMInit => BreakersAreSound
<1>1. ASSUME LLMInit PROVE LLMTypeOK
  <2>1. primary \in Breaker /\ fallback \in Breaker
    BY <1>1, FreshIsSound DEF LLMInit
  <2> QED BY <1>1, <2>1 DEF LLMInit, LLMTypeOK
<1> QED BY <1>1, FreshIsSound DEF LLMInit, BreakersAreSound

\* What is left of the invariant once the breakers are known to be sound.
Rest ==
  /\ up \in BOOLEAN /\ loaded \in BOOLEAN
  /\ call \in [Callers -> {"silent", "answered", "remote", "local"}]
  /\ keeper \in [at : {"bootProbe", "bootLoad", "asleep", "probing", "loading"},
                 wasAvailable : BOOLEAN]

BothSound ==
  /\ primary \in Breaker /\ Sound(primary)
  /\ fallback \in Breaker /\ Sound(fallback)

LEMMA Parts == BreakersAreSound <=> Rest /\ BothSound
BY Zenon DEF BreakersAreSound, LLMTypeOK, Rest, BothSound

\* A backend that calls itself available without a model did so before, or
\* this step ended a local chat.
NoNewPhantom ==
  fallback'.available /\ ~loaded'
    => \/ fallback.available /\ ~loaded
       \/ \E c \in Callers : call[c] = "local" /\ call'[c] # "local"

\* One step for both facts: they hold for the same reasons.
Kept == Rest' /\ BothSound' /\ NoNewPhantom

LEMMA TryLocalKeeps ==
  ASSUME Rest, BothSound, NEW c \in Callers, TryLocal(c)
  PROVE  /\ call' \in [Callers -> {"silent", "answered", "remote", "local"}]
         /\ fallback' \in Breaker /\ Sound(fallback')
         /\ fallback'.available = fallback.available
<1>1. fallback' = Attempted(fallback)
  BY DEF TryLocal
<1>2. fallback' \in Breaker /\ Sound(fallback') /\ fallback'.available = fallback.available
  BY <1>1, OutcomesAreSound, Zenon DEF BothSound
<1>3. call' \in [Callers -> {"silent", "answered", "remote", "local"}]
  BY DEF Rest, TryLocal
<1> QED BY <1>2, <1>3

LEMMA DelaysKeep ==
  ASSUME Rest, BothSound, RetryDuePrimary \/ RetryDueFallback
  PROVE  Kept
<1>1. CASE RetryDuePrimary
  <2>1. primary' \in Breaker /\ Sound(primary')
    BY <1>1, DelayOverIsSound, Zenon DEF RetryDuePrimary, BothSound
  <2> QED BY <1>1, <2>1 DEF RetryDuePrimary, Kept, Rest, BothSound, NoNewPhantom, Sound
<1>2. CASE RetryDueFallback
  <2>1. fallback' \in Breaker /\ Sound(fallback') /\ fallback'.available = fallback.available
    BY <1>2, DelayOverIsSound, Zenon DEF RetryDueFallback, BothSound
  <2> QED BY <1>2, <2>1 DEF RetryDueFallback, Kept, Rest, BothSound, NoNewPhantom, Sound
<1> QED BY <1>1, <1>2

LEMMA ChatStartsKeeps ==
  ASSUME Rest, BothSound, NEW c \in Callers, ChatStarts(c)
  PROVE  Kept
<1>1. UNCHANGED <<up, loaded, keeper>>
  BY DEF ChatStarts
<1>2. CASE /\ primary' = Attempted(primary)
           /\ call' = [call EXCEPT ![c] = "remote"]
           /\ UNCHANGED fallback
  <2>1. primary' \in Breaker /\ Sound(primary')
    BY <1>2, OutcomesAreSound, Zenon DEF BothSound
  <2>2. call' \in [Callers -> {"silent", "answered", "remote", "local"}]
    BY <1>2 DEF Rest
  <2> QED BY <1>1, <1>2, <2>1, <2>2 DEF Kept, Rest, BothSound, NoNewPhantom, Sound
<1>3. CASE TryLocal(c) /\ UNCHANGED primary
  BY <1>1, <1>3, TryLocalKeeps DEF Kept, Rest, BothSound, NoNewPhantom, Sound
<1> QED BY <1>2, <1>3 DEF ChatStarts

LEMMA RemoteEndsKeeps ==
  ASSUME Rest, BothSound, NEW c \in Callers, NEW outcome, RemoteEnds(c, outcome)
  PROVE  Kept
<1>1. UNCHANGED <<up, loaded, keeper>>
  BY DEF RemoteEnds
<1>2. primary' \in Breaker /\ Sound(primary')
  <2>1. primary' \in {Success(primary), Failure(primary), primary}
    BY DEF RemoteEnds, AfterRemote, RemoteOutcomes
  <2> QED BY <2>1, OutcomesAreSound DEF BothSound
<1>3. CASE outcome = "answer"
  <2>1. call' \in [Callers -> {"silent", "answered", "remote", "local"}] /\ UNCHANGED fallback
    BY <1>3 DEF RemoteEnds, Rest
  <2> QED BY <1>1, <1>2, <2>1 DEF Kept, Rest, BothSound, NoNewPhantom, Sound
<1>4. CASE outcome # "answer"
  <2>1. TryLocal(c)
    BY <1>4 DEF RemoteEnds
  <2> QED BY <1>1, <1>2, <2>1, TryLocalKeeps DEF Kept, Rest, BothSound, NoNewPhantom, Sound
<1> QED BY <1>3, <1>4

LEMMA LocalEndsKeeps ==
  ASSUME Rest, BothSound, NEW c \in Callers, NEW outcome, LocalEnds(c, outcome)
  PROVE  Kept
<1>1. UNCHANGED <<up, primary, loaded, keeper>>
  BY DEF LocalEnds
<1>2. fallback' \in Breaker /\ Sound(fallback')
  <2>1. fallback' \in {Success(fallback), Failure(fallback)}
    BY DEF LocalEnds
  <2> QED BY <2>1, OutcomesAreSound DEF BothSound
<1>3. /\ call' \in [Callers -> {"silent", "answered", "remote", "local"}]
      /\ call[c] = "local" /\ call'[c] # "local"
  BY DEF LocalEnds, Rest
<1> QED BY <1>1, <1>2, <1>3 DEF Kept, Rest, BothSound, NoNewPhantom, Sound

\* The keeper moves the model; it leaves the chats alone.
LEMMA ProbeLocalKeeps ==
  ASSUME Rest, BothSound, NEW at \in {"bootLoad", "loading"}, ProbeLocal(at), UNCHANGED loaded
  PROVE  /\ fallback' \in Breaker /\ Sound(fallback')
         /\ fallback'.available /\ ~loaded' => fallback.available /\ ~loaded
         /\ keeper' \in [at : {"bootProbe", "bootLoad", "asleep", "probing", "loading"},
                         wasAvailable : BOOLEAN]
<1>1. CASE loaded
  <2>1. fallback' \in Breaker /\ Sound(fallback')
    BY <1>1, OutcomesAreSound, Zenon DEF ProbeLocal, BothSound
  <2> QED BY <1>1, <2>1 DEF ProbeLocal, Rest
<1>2. CASE ~loaded
  BY <1>2 DEF ProbeLocal, Rest, BothSound, Sound
<1> QED BY <1>1, <1>2

LEMMA ProbesKeep ==
  ASSUME Rest, BothSound, BootProbeEnds \/ ProbeEnds
  PROVE  Kept
<1>1. UNCHANGED <<up, call>>
  BY DEF BootProbeEnds, ProbeEnds
<1>2. primary' \in Breaker /\ Sound(primary')
  <2>1. primary' \in {Success(primary), Failure(primary)}
    BY DEF BootProbeEnds, ProbeEnds, Probed
  <2> QED BY <2>1, OutcomesAreSound DEF BothSound
<1>3. CASE Unload /\ keeper' = [keeper EXCEPT !.at = "asleep"]
  <2>1. /\ fallback' \in Breaker /\ Sound(fallback') /\ loaded' = FALSE
        /\ fallback'.available => fallback.available /\ ~loaded
    BY <1>3, UnloadIsSound, Parts
  <2> QED BY <1>1, <1>2, <1>3, <2>1 DEF Kept, Rest, BothSound, NoNewPhantom
<1>4. ASSUME NEW at \in {"bootLoad", "loading"}, ProbeLocal(at), UNCHANGED loaded
      PROVE  Kept
  BY <1>1, <1>2, <1>4, ProbeLocalKeeps DEF Kept, Rest, BothSound, NoNewPhantom
<1>5. CASE keeper' = [keeper EXCEPT !.at = "asleep"] /\ UNCHANGED <<fallback, loaded>>
  BY <1>1, <1>2, <1>5 DEF Kept, Rest, BothSound, NoNewPhantom, Sound
<1> QED BY <1>3, <1>4, <1>5 DEF BootProbeEnds, ProbeEnds

LEMMA LoadEndsKeeps ==
  ASSUME Rest, BothSound, NEW ok \in BOOLEAN, LoadEnds(ok)
  PROVE  Kept
<1>1. fallback' \in Breaker /\ Sound(fallback')
  <2>1. fallback' \in {Success(fallback), Failure(fallback)}
    BY DEF LoadEnds
  <2> QED BY <2>1, OutcomesAreSound DEF BothSound
<1>2. fallback'.available => loaded'
  BY DEF LoadEnds, Failure
<1> QED BY <1>1, <1>2 DEF LoadEnds, Kept, Rest, BothSound, NoNewPhantom, Sound

LEMMA OthersKeep ==
  ASSUME Rest, BothSound, RecheckStarts \/ EndpointChanges \/ UNCHANGED llmVars
  PROVE  Kept
<1>1. UNCHANGED <<primary, fallback, loaded, call>> /\ up' \in BOOLEAN
  BY DEF RecheckStarts, EndpointChanges, llmVars, clients, Rest
<1>2. keeper' \in [at : {"bootProbe", "bootLoad", "asleep", "probing", "loading"},
                   wasAvailable : BOOLEAN]
  <2>1. primary.available \in BOOLEAN
    BY DEF BothSound, Breaker
  <2> QED BY <2>1 DEF RecheckStarts, EndpointChanges, llmVars, Rest
<1> QED BY <1>1, <1>2 DEF Kept, Rest, BothSound, NoNewPhantom, Sound

LEMMA StepKeeps ==
  ASSUME Rest, BothSound, [LLMNext]_llmVars PROVE Kept
<1>1. ASSUME NEW c \in Callers, ChatStarts(c) \/ CallEnds(c) PROVE Kept
  BY <1>1, ChatStartsKeeps, RemoteEndsKeeps, LocalEndsKeeps, Zenon DEF CallEnds
<1> QED BY <1>1, DelaysKeep, ProbesKeep, LoadEndsKeeps, OthersKeep, Zenon DEF LLMNext

-----------------------------------------------------------------------------

\* The circuit breakers of common.py:126 stay well formed and sound under any
\* number of overlapping chats, probes, loads and unloads.
THEOREM BreakersStaySound == LLMSpec => []BreakersAreSound
<1>1. BreakersAreSound /\ [LLMNext]_llmVars => BreakersAreSound'
  <2>1. ASSUME BreakersAreSound, [LLMNext]_llmVars PROVE Rest' /\ BothSound'
    BY <2>1, Parts, StepKeeps DEF Kept
  <2> QED BY <2>1, Zenon DEF BreakersAreSound, LLMTypeOK, Rest, BothSound
<1> QED BY <1>1, InitIsSound, PTL DEF LLMSpec

\* transformers_client.py:117: only a chat that was under way when the model
\* went leaves a client available without a model.
THEOREM PhantomsComeLate == LLMSpec => PhantomOnlyFromLateAnswers
<1>1. BreakersAreSound /\ [LLMNext]_llmVars => NoNewPhantom
  BY Parts, StepKeeps DEF Kept
<1> QED BY <1>1, BreakersStaySound, PTL DEF PhantomOnlyFromLateAnswers, NoNewPhantom, LLMSpec
==============================================================================
