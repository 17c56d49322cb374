SPECIFICATION Spec
CONSTANTS
  Follower <- MCFollower
  Count <- MCCount
  MaxVal = 2
  Uncached = {"volatile"}
  Faulty = {"broken"}
  MasterValue = {0, 1, 2, 3}
  NotCalled = NotCalled
INVARIANTS TypeOK Attenuated HookKnows
PROPERTY UserValueKept
CHECK_DEADLOCK FALSE
