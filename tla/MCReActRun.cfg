SPECIFICATION FairSpec
CONSTANTS
  MaxIters = 2
  Terminal = TRUE
  ForceLastN = 1
  MaxEmptyTurns = 1
  Abandons = TRUE
  MaxRuns = 2
INVARIANTS RequestsValid AlwaysResumable
PROPERTIES TranscriptOnlyGrows EveryRunEnds
CHECK_DEADLOCK FALSE
