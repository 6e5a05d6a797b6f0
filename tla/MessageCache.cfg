SPECIFICATION Spec
CONSTANTS
  Msg = {m1, m2}
  Reader = {r1, r2}
  ListTTL = 2
  VerTTL = 4
  Slow = 1
SYMMETRY Symmetry
INVARIANT TypeOK
PROPERTIES BumpedIsSeen SettledIsServed
