SPECIFICATION Spec
CONSTANTS
  Keys = {1}
  Vals = {v1}
  NoVal = NoVal
  Tokens = {}
  NoToken = NoToken
  Sessions = {s1}
  NoSession = NoSession
  Threads = {t1}
  Ops = {"put", "delete", "rekey"}
  MaxRows = 2
  MaxVersions = 2
  MaxSalts = 2
SYMMETRY Symmetry
CHECK_DEADLOCK FALSE
PROPERTY RekeyCoversEverySecret
