SPECIFICATION Spec
CONSTANTS
  Secrets = {1}
  Endpoints = {1, 2}
  Subscribed <- MCSubscribed
  Threads = {t1, t2}
  Ops = {"put", "rotate", "restore", "delete", "web_delete", "add", "rekey", "purge", "switch", "crash"}
  MaxChanges = 2
  MaxSwitches = 1
SYMMETRY Symmetry
CHECK_DEADLOCK FALSE
INVARIANTS TypeOK DeliveriesTrue ReceiptsTrue ChangesAnnounced PendingAccounted ChangesArchived
