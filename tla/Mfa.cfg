SPECIFICATION Spec
CONSTANTS
  Browsers = {b1, b2}
  NoBrowser = NoBrowser
  Threads = {t1, t2}
  Ops = {"login", "logout", "enroll", "verify", "reset", "crash"}
  CodeCount = 1
  MaxDevices = 2
  MaxSets = 3
SYMMETRY Symmetry
CHECK_DEADLOCK FALSE
INVARIANTS TypeOK DevicesConsistent CodesReplaced ResetFinal
