SPECIFICATION FairSpec
CONSTANTS
  Call = {c1, c2}
  Loop = {l1, l2, l3}
  None = None
  MaxFaults = 5
INVARIANTS TypeOK NoTickerLeaks NeverSilent RegistrationsNeverMultiply
PROPERTIES EndsConnectedUnlessRefused BlockedFallsSilent
CHECK_DEADLOCK FALSE
