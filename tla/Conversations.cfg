SPECIFICATION ConvSpec
CONSTANTS
  Focus = {"creation", "messages", "reading"}
  DmFirst = a
  DmSecond = b
  DmStranger = {s}
  DmNamed = n
  DmGenerated = {g}
  DmMessage = {m1}
  DmRequest = {r1, r2}
  DmMayFail = TRUE
  StUser = {a}
  StAuthor = a
  StText = {m1}
  StClip = {m2}
  StRequest = {r1, r2}
  RdSize = 3
  RdTime = 2
  RdMost = 2
  RdDefault = 1
  RdAsked = {0, 3}
\* Once everything that the bounds allow is written and read, the instance stops.
CHECK_DEADLOCK FALSE
SYMMETRY Symmetry
INVARIANTS ConvTypeOK BothOrNobody AnsweredIsStored GroupHasItsOwner
  OrphansWereLate ReactionsKept ErasedUntilRewritten ClipsMatchFiles PagesMissOnlyTwins
PROPERTIES StrangersChangeNothing KnownDmIsReused DeletedIsNeverListed
