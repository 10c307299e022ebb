\* Two overlapping calls: does nil mean that the quorum was met?
SPECIFICATION BusSpec
CONSTANTS
  Calls = {p1, p2}
  Channels = {c1, c2}
  Replicas <- MCReplicas
INVARIANT NilMeansQuorum
CHECK_DEADLOCK FALSE
