SPECIFICATION LLMFairSpec
CONSTANTS
  Callers = {c1, c2}
  LoadMayFail = TRUE
INVARIANTS
  BreakersAreSound
PROPERTIES
  PhantomOnlyFromLateAnswers
  EndpointIsUsedAgain
  OutageIsNoticed
  LoadedModelIsAsked
