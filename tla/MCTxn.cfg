\* Two transactions on two keys.
SPECIFICATION Spec
CONSTANTS
  k1 = k1
  k2 = k2
  Txns = {t1, t2}
  Keys = {k1, k2}
  Initial = Initial
  Absent = Absent
  Configs <- MCAll
SYMMETRY Perms
INVARIANTS TxnTypeOK QuorumFirst BatchWhole CasOnce
CHECK_DEADLOCK FALSE
