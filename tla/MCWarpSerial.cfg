\* Eventual mode, each call starting when the one before has returned.
SPECIFICATION Spec
CONSTANTS
  Calls = {p1, p2, p3}
  Channels = {n1, n2}
  Replicas <- MCReplicas
  Configs <- MCSerial
  Absent = Absent
SYMMETRY Perms
INVARIANT QuietCoherent
CHECK_DEADLOCK FALSE
