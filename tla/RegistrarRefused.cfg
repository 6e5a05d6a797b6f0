SPECIFICATION FairSpec
CONSTANTS
  Call = {c1, c2}
  Loop = {l1, l2, l3}
  None = None
  MaxFaults = 2
PROPERTIES UnknownIsReregistered
CHECK_DEADLOCK FALSE
