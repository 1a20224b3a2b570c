SPECIFICATION FairSpec
CONSTANTS
  Samples = {0, 1}
  Concurrency = 1
  Models = {"known", "gateway"}
  Priced = {"known"}
  Foreign = {"nothing", "canceled"}
  Configs <- MCConfigs
INVARIANTS EvidenceKept FailureTellsTheLimit HonestCost GradesAddUp
PROPERTY RolloutReturns
CHECK_DEADLOCK FALSE
