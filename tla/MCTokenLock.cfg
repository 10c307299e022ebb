\* Three calls on two instances of either backend, with failures and crashes.
SPECIFICATION FairSpec
CONSTANTS
  Calls = {p1, p2, p3}
  Lockers = {l1, l2}
  Configs <- MCAll
  None = None
INVARIANTS LockTypeOK Exclusive ReleaseFindsEntry
PROPERTIES ImplementsLocker NatsLockEnds RedisCallsReturn
CHECK_DEADLOCK FALSE
