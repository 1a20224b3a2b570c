SPECIFICATION ContextSpec
CONSTANTS
  Skills <- MCSkills
  Setups <- MCSetups
  Batches <- MCBatches
  MaxStarts = 4
  MaxCalls = 4
INVARIANTS RequestsStayValid WindowHoldsStill KnowsWhatItRuns
CHECK_DEADLOCK FALSE
