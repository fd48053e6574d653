SPECIFICATION FairSpec
CONSTANTS
  Keys = {1}
  Vals = {v1}
  NoVal = NoVal
  Tokens = {}
  NoToken = NoToken
  Sessions = {s1}
  NoSession = NoSession
  Threads = {t1, t2}
  Ops = {"rekey", "put", "force_delete"}
  MaxRows = 2
  MaxVersions = 2
  MaxSalts = 3
CHECK_DEADLOCK FALSE
PROPERTY RequestsEnd
