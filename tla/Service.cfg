SPECIFICATION ServiceSpec
CONSTANTS
  Focus = {"notifications", "settings", "pins", "external", "schema"}
  UsDirect = {d}
  UsPrefixed = {c1, c2}
  UsTarget = {t}
  UsRequest = {p1, p2}
  UsMaxCount = 3
  UsMaxOrder = 3
  XdHost = {h1}
  XdNone = none
  XdRequest = {p1, p2}
  XdExport = {e1, e2}
  XdEntries = 2
  XdLimit = 2
  XdMaxCount = 4
  XdKey = TRUE
  SchInstance = {p1, p2}
  SchReaction = {x}
  SchFaults = 2
\* Once every batch has been exported, a part may stop.
CHECK_DEADLOCK FALSE
SYMMETRY Symmetry
INVARIANTS ServiceTypeOK PingsStayUntilRead PinsDistinctUnlessRaced
  AtMostLimitPerHour LockedOutOnlyByLostExpiry ExportIsWholeOrFailed
  ServesCompleteSchema NoReactionLost
