CONSTANTS
  acc = acc
  c1 = c1
  c2 = c2
  s1 = s1
  s2 = s2
  py = py
  Clis = {c1, c2}
  Ids = {s1, s2}
  Mql5 = {s1, s2}
  Accounts = {acc}
  AccountOf <- OneAccount
  Slot <- NoSlot
  Candidates <- Colliding
  FileExists = FALSE
  Ops = {"register", "disable", "read", "audit_fix"}
SPECIFICATION FairSpec
INVARIANTS AuditRepairs
PROPERTIES CommandsFinish
