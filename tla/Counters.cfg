SPECIFICATION Spec
CONSTANTS
  p1 = p1
  p2 = p2
  t1 = t1
  t2 = t2
  t3 = t3
  Processes = {p1, p2}
  Threads = {t1, t2, t3}
  ProcessOf <- MCProcessOf
  Ops = {"fail", "call", "crash", "cull"}
  Threshold = 2
  Window = 2
  Rate = 1
  Duration = 2
  MaxCalls = 2
  MaxFailures = 3
  MaxTime = 3
SYMMETRY MCSymmetry
CHECK_DEADLOCK FALSE
INVARIANTS TypeOK AlertsRaised RateKept CallsRecorded
