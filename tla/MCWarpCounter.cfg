\* Strong mode with a summing merge function, one call at a time.
SPECIFICATION Spec
CONSTANTS
  Calls = {p1, p2, p3}
  Channels = {n1, n2}
  Replicas <- MCReplicas
  Configs <- MCCounter
  Absent = Absent
SYMMETRY Perms
INVARIANT NoLostIncrement
CHECK_DEADLOCK FALSE
