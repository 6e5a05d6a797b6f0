SPECIFICATION Spec
CONSTANTS
  User = {u1, u2, u3, u4}
  Request = {r1, r2}
  None = None
  MaxSize = 3
  MayFail = FALSE
\* Once nobody participates, no request can begin: the system may stop.
CHECK_DEADLOCK FALSE
SYMMETRY Symmetry
INVARIANTS GroupWithinCap
