\* Publishers, two subscriptions, replay and close.
SPECIFICATION FairSpec
CONSTANTS
  a = a
  b = b
  Pubs = {p1, p2, p3, p4}
  Subs = {s1, s2}
  Topics = {a, b}
  Priorities <- MCPriorities
  Configs <- MCAll
  None = None
INVARIANTS StreamTypeOK RingHoldsLatest Accounted ClassOrder SerialResumeComplete
PROPERTIES DropsByAge PublishReturns Drained Stopped
CHECK_DEADLOCK FALSE
