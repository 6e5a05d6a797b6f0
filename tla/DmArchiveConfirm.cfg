SPECIFICATION FairSpec
CONSTANTS
  User = {u1, u2}
  Request = {r1, r2}
  Log = {l1}
  None = None
  QuotaMax = 0
  QuotaMargin = 1
  PurgeKeep = 0
  KeyTTL = 2
  MaxMsg = 1
  MayFail = FALSE
  MayLeave = TRUE
INVARIANTS ConfirmOutlivesBatch
PROPERTIES FullyConfirmedIsRemoved
