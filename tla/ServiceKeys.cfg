SPECIFICATION Spec
CONSTANTS
  Accounts = {a1}
  Keys = {k1, k2}
  Threads = {t1}
  Staff = {s1, s2}
  MaxTime = 1
INVARIANTS TypeOK DeadKeysRefused
SYMMETRY MCSymmetry
