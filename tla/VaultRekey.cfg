SPECIFICATION Spec
CONSTANTS
  Keys = {1, 2}
  Vals = {v1, v2}
  NoVal = NoVal
  Tokens = {}
  NoToken = NoToken
  Sessions = {s1}
  NoSession = NoSession
  Threads = {t1, t2}
  Ops = {"rekey", "put", "rotate", "restore_version", "delete", "restore", "force_delete"}
  MaxRows = 2
  MaxVersions = 2
  MaxSalts = 3
SYMMETRY Symmetry
CHECK_DEADLOCK FALSE
INVARIANTS NoOrphanCiphertext LiveSecretsReadable RekeysNeverDeadlock
PROPERTIES RekeyCoversHistory StoreImplemented
