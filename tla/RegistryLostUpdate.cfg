CONSTANTS
  acc = acc
  c1 = c1
  c2 = c2
  s1 = s1
  s2 = s2
  py = py
  Clis = {c1, c2}
  Ids = {py}
  Mql5 = {}
  Accounts = {acc}
  AccountOf <- OneAccount
  Slot <- OneSlot
  Candidates <- Colliding
  FileExists = FALSE
  Ops = {"register", "transition", "enable", "disable", "read", "audit_fix"}
SPECIFICATION Spec
INVARIANTS AcknowledgedKept
SYMMETRY ClisAlike
