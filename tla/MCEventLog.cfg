SPECIFICATION FairSpec
CONSTANTS
  Event = {e1, e2}
  Follower = {f1, f2}
  Cap = 2
  From <- FromValues
  MaxEvents = 4
INVARIANT NoLostWakeup
PROPERTIES FollowersReleased ImplementsReliableLog
CHECK_DEADLOCK FALSE
