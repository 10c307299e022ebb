\* Local mode, calls that overlap on one node.
SPECIFICATION Spec
CONSTANTS
  Calls = {p1, p2}
  Channels = {n1, n2}
  Replicas <- MCReplicas
  Configs <- MCLocal
  Absent = Absent
SYMMETRY Perms
INVARIANT LocalConsistent
CHECK_DEADLOCK FALSE
