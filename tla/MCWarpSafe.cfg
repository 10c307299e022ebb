\* Safety of the cache path in its three modes.
SPECIFICATION Spec
CONSTANTS
  Calls = {p1, p2, p3}
  Channels = {n1, n2}
  Replicas <- MCReplicas
  Configs <- MCSafe
  Absent = Absent
SYMMETRY Perms
INVARIANTS WarpTypeOK SettledCoherent RejectedInvisible OneFetch LocalSerialMerge
CHECK_DEADLOCK FALSE
