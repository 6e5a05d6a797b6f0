SPECIFICATION Spec
CONSTANTS
  User = {u1, u2}
  Request = {r1, r2}
  Log = {l1}
  None = None
  QuotaMax = 1
  QuotaMargin = 1
  PurgeKeep = 1
  KeyTTL = 2
  MaxMsg = 2
  MayFail = FALSE
  MayLeave = FALSE
INVARIANTS OverQuotaIsArchived
