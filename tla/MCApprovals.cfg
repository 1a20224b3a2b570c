SPECIFICATION FairSpec
CONSTANTS
  Call = {k1, k2}
  UseID = {a, b}
  Human = {h1}
  Canceller = {p1}
  MaxTurns = 2
INVARIANTS SendNeverBlocks WaitersAreFound QuestionsEndWithTheirTurn OnlyAllowedRun
PROPERTIES StoppedTurnsEnd
CHECK_DEADLOCK FALSE
