SPECIFICATION FairSpec
CONSTANTS
  Session = {s1}
  Client = {c1, c2}
  Follower = {f1}
  Parties = {{c1, c2}, {c1, f1}}
  MaxSessions = 1
  BufCap = 2
  Sweeps = TRUE
  MaxTurns = 2
  MaxFrames = 4
INVARIANTS LogTellsTurns StoppedStaysStopped StreamsMissNothing
PROPERTY NobodyWaitsForever
CHECK_DEADLOCK FALSE
