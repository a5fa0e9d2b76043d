SPECIFICATION FairSpec
CONSTANTS
  a1 = a1
  a2 = a2
  a3 = a3
  Attempt = {a1, a3}
  Checkpointed = {a1}
  NoLock = NoLock
  TTL = 1
  MaxAttempts = 2
  MaxClock = 4
  Faults = {"kill", "api"}
INVARIANT LeftHeldOnlyAfterError
PROPERTIES AbandonedLockIsReclaimed
