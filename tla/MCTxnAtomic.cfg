\* Commits one after the other, without failures.
SPECIFICATION Spec
CONSTANTS
  k1 = k1
  k2 = k2
  Txns = {t1, t2}
  Keys = {k1, k2}
  Initial = Initial
  Absent = Absent
  Configs <- MCAtomic
INVARIANT AllOrNothing
CHECK_DEADLOCK FALSE
