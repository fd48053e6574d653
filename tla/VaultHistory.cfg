SPECIFICATION Spec
CONSTANTS
  Keys = {1}
  Vals = {v1, v2}
  NoVal = NoVal
  Tokens = {k1}
  NoToken = NoToken
  Sessions = {s1}
  NoSession = NoSession
  Threads = {t1, t2}
  Ops = {"post", "put", "import", "rotate", "restore_version", "web_restore", "delete", "restore", "force_delete", "cleanup", "age", "crash"}
  MaxRows = 2
  MaxVersions = 2
  MaxSalts = 1
SYMMETRY Symmetry
CHECK_DEADLOCK FALSE
INVARIANTS CurrentValueArchived RetriesNotApplied
PROPERTIES CleanupSparesTheRest StoreImplemented
