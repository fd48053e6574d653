SPECIFICATION Spec
CONSTANTS
  Keys = {1}
  Vals = {v1}
  NoVal = NoVal
  Tokens = {}
  NoToken = NoToken
  Sessions = {s1, s2}
  NoSession = NoSession
  Threads = {t1, t2}
  Ops = {"rekey", "unlock", "lock", "mint", "add", "put", "get", "export", "flag", "crash"}
  MaxRows = 1
  MaxVersions = 1
  MaxSalts = 3
SYMMETRY Symmetry
CHECK_DEADLOCK FALSE
INVARIANTS TypeOK AnswersDecryptable ObsoleteKeysAccounted
