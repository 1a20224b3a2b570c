SPECIFICATION Spec
CONSTANTS
  SafePrefixes <- MCPrefixes
  Workers = {w1, w2}
  Runs = {r1, r2}
  Calls = {"push", "view", "bad"}
  Tools = {"bash", "view"}
  ToolOf <- MCToolOf
  Requests <- MCRequests
  RequestOf <- MCRequestOf
  Malformed = {"bad"}
  Idempotent = {"view"}
  Retryable <- MCRetryable
  Faults = {"refused"}
  Policies = {"workspace", "readonly"}
  HasApprover = TRUE
  MaxAttempts = 2
  Threshold = 2
  Repeats = 2
  MaxKeys = 2
  MaxCalls = 3
INVARIANTS GateHolds TripNeedsEvidence PoliciesAreConservative
PROPERTIES NoSecondQuestion NoteIsDeserved
SYMMETRY Interchangeable
CHECK_DEADLOCK FALSE
