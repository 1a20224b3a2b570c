SPECIFICATION FairSpec
CONSTANTS
  CostUSD = 4
  Steps = 5
  ToolCalls = 4
  RepeatedToolCalls = 2
  SubagentDepth = 2
  MaxIters = 2
  Parallel = 2
  MaxBranches = 1
  Tasks = 2
  Batches <- SmallBatches
  Abandons = TRUE
  MaxTree = 3
INVARIANTS OneBudget NoOrphans
PROPERTY TreeUnwinds
CHECK_DEADLOCK FALSE
