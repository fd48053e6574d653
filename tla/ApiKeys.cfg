SPECIFICATION Spec
CONSTANTS
  k1 = k1
  p1 = p1
  p2 = p2
  t1 = t1
  t2 = t2
  Keys = {k1}
  OrgKeys = {k1}
  Processes = {p1, p2}
  Threads = {t1, t2}
  ProcessOf <- MCProcessOf
  Ops = {"use", "revoke", "kill", "crash", "cull"}
  Interval = 2
  MaxTime = 5
INVARIANTS TypeOK DeadKeysRefused LastUseKnown
PROPERTIES RevokedForGood
CHECK_DEADLOCK FALSE
