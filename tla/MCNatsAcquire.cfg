\* NATS, two calls that both want the lock.
SPECIFICATION FairSpec
CONSTANTS
  Calls = {p1, p2}
  Lockers = {l1, l2}
  Configs <- MCNats
  None = None
PROPERTY CallsReturn
CHECK_DEADLOCK FALSE
