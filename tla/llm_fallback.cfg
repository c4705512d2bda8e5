SPECIFICATION LLMFairSpec
CONSTANTS
  Callers = {c1}
  LoadMayFail = FALSE
PROPERTIES
  ModelIsReloaded
