CONSTANTS
  Markets <- MCMarkets
  Readings <- MCReadings
  Proposed <- MCProposed
  Scales <- MCScales
  Advised <- MCAdvised
  Pnls <- MCPnls
  MinSamples = 2
  RowLimit = 2
  MaxOutcomes = 3
SPECIFICATION PipelineSpec
INVARIANTS
  LessonsSurviveRestart
PROPERTIES
  LongsAndShortsAreAlike
  SuppressedStaySuppressed
