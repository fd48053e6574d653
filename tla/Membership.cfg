SPECIFICATION Spec
CONSTANTS
  Users = {u1, u2, u3}
  NoUser = NoUser
  Threads = {t1, t2}
  Ops = {"visit", "invite", "change", "delete_account", "grant", "crash"}
  MaxOrgs = 2
  MaxMembers = 3
SYMMETRY Symmetry
CHECK_DEADLOCK FALSE
INVARIANTS TypeOK OwnerKept
PROPERTIES ChangesAuthorized
