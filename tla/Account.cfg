SPECIFICATION Spec
CONSTANTS
  Spellings = {n1, n2}
  Browsers = {b1, b2}
  NoBrowser = NoBrowser
  Threads = {t1, t2}
  Ops = {"signup", "verify_email", "settings", "admin", "delete", "login", "logout", "crash"}
  MaxUsers = 2
  MaxPasswords = 2
  MaxSwitches = 2
SYMMETRY Symmetry
CHECK_DEADLOCK FALSE
INVARIANTS TypeOK RowsAsWanted SignInsCurrent NoTwins
