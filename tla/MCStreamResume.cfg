\* Two overlapping publishers and a client that resumes.
SPECIFICATION Spec
CONSTANTS
  a = a
  b = b
  Pubs = {p1, p2, p3, p4}
  Subs = {s1, s2}
  Topics = {a, b}
  Priorities <- MCPriorities
  Configs <- MCResume
  None = None
INVARIANT ResumeComplete
CHECK_DEADLOCK FALSE
