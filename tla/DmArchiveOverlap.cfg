SPECIFICATION Spec
CONSTANTS
  User = {u1, u2}
  Request = {r1, r2}
  Log = {l1, l2}
  None = None
  QuotaMax = 1
  QuotaMargin = 2
  PurgeKeep = 1
  KeyTTL = 1
  MaxMsg = 2
  MayFail = TRUE
  MayLeave = FALSE
SYMMETRY Symmetry
INVARIANTS TypeOK NoHoles RemovalConfirmedByAll
PROPERTIES KeepsPromise
