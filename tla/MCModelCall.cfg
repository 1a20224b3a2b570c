SPECIFICATION ModelCallFairSpec
CONSTANTS
  Models <- MCModels
  Routes <- MCRoutes
  Leaf = "openai"
  MaxAttempts = 2
  MaxEvents = 4
  ToolIndices = {0, 1}
  Width = 5
INVARIANTS AnswerIsWhatStreamed WaitsAsTold
PROPERTY SilentStreamsEnd
CHECK_DEADLOCK FALSE
