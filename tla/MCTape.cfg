SPECIFICATION Spec
CONSTANTS
  Requests <- MCRequests
  Callers = {c1, c2}
  MaxSessions = 3
  MaxLive = 4
  MaxFailures = 2
SYMMETRY SymmetricCallers
INVARIANTS ReplayFollowsTheRecording LossIsReported
CHECK_DEADLOCK FALSE
