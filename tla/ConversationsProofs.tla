------------------------ MODULE ConversationsProofs ------------------------
(***************************************************************************)
(* What holds of Reading for every number of messages, dates and limits of *)
(* pages, and of the creation of messages, their later life and their      *)
(* reading together (MCConversations).                                     *)
(***************************************************************************)
EXTENDS MCConversations, DirectMessagesProofs, MessageStoreProofs, WellFoundedInduction

\* Nothing has been shown before a reading begins.
RdUnread == rdRoute = "none" =>
  /\ rdDue = {} /\ rdSeen = {} /\ ~rdDone /\ ~rdFailed /\ rdBefore = RdTime + 1

\* What is due can still be selected: a message that is deleted is no longer due.
DueIsThere == rdRoute # "none" => rdDue \subseteq RdRows(rdRoute)

\* The next page is asked from before everything that was shown.
SeenIsBehind == \A m \in rdSeen : rdBefore <= RdDate(m)

\* What is due and not shown is still ahead of the reader, but for twins.
DueIsAhead ==
  \A m \in rdDue : \/ m \in rdSeen
                   \/ \E twin \in RdKeys \ {m} : RdDate(twin) = RdDate(m)
                   \/ RdDate(m) < rdBefore /\ (rdDone => rdFailed)

RdIInv == RdTypeOK /\ rdTwice = {} /\ RdUnread /\ DueIsThere /\ SeenIsBehind /\ DueIsAhead

----------------------------------------------------------------------------
\* A set of naturals has a least element, which Min is.
LEMMA MinIsLeast ==
  ASSUME NEW S, S \subseteq Nat, S # {}
  PROVE  Min(S) \in S /\ \A y \in S : Min(S) <= y
<1> DEFINE R == OpToRel(<, Nat)
<1>1. PICK x \in S : \A y \in S : ~ (<<y, x>> \in R)
  <2> HIDE DEF R
  <2>1. IsWellFoundedOn(R, Nat)
    BY NatLessThanWellFounded DEF R
  <2> QED
    BY <2>1, WFMin
<1>2. ASSUME NEW y \in S PROVE x <= y
  <2>1. y < x => <<y, x>> \in R
    BY DEF OpToRel
  <2>2. ~ (y < x)
    BY <1>1, <2>1
  <2>3. x \in Nat /\ y \in Nat
    OBVIOUS
  <2> HIDE DEF R
  <2> QED
    BY <2>2, <2>3
<1>3. \E z \in S : \A y \in S : z <= y
  BY <1>2
<1> HIDE DEF R
<1> QED
  BY <1>3, Zenon DEF Min

\* The messages can be counted, and so can any of them.
LEMMA KeysAreFinite ==
  ASSUME RdTypeOK, NEW rows, rows \subseteq RdKeys
  PROVE  IsFiniteSet(rows) /\ Cardinality(rows) \in Nat
<1>1. RdKeys = 1..Len(rdMessages) /\ Len(rdMessages) \in Nat
  BY DEF RdTypeOK, RdKeys
<1>2. IsFiniteSet(RdKeys)
  BY <1>1, FS_Interval
<1> QED
  BY <1>2, FS_Subset, FS_CardinalityType

\* A page that is empty though it may hold something found nothing.
LEMMA EmptyPageIsTheEnd ==
  ASSUME RdTypeOK, NEW rows, rows \subseteq RdKeys, NEW n \in Nat, n > 0,
         {} \in NewestFirst(rows, n)
  PROVE  rows = {}
<1>1. Cardinality({}) = Min({n, Cardinality(rows)})
  BY DEF NewestFirst
<1>2. Cardinality(rows) \in Nat /\ IsFiniteSet(rows)
  BY KeysAreFinite
<1>3. Min({n, Cardinality(rows)}) \in {n, Cardinality(rows)}
  BY <1>2, MinIsLeast
<1>4. Cardinality({}) = 0
  BY FS_EmptySet
<1>5. Cardinality(rows) = 0
  BY <1>1, <1>3, <1>4
<1> QED
  BY <1>2, <1>5, FS_EmptySet

\* Every message has a date.
LEMMA DatesAreBounded ==
  ASSUME RdTypeOK
  PROVE  \A m \in RdKeys : RdDate(m) \in 1..RdTime
<1> SUFFICES ASSUME NEW m \in RdKeys PROVE RdDate(m) \in 1..RdTime
  OBVIOUS
<1>1. rdMessages[m] \in [date : 1..RdTime, plain : BOOLEAN]
  BY ElementOfSeq, LenProperties DEF RdTypeOK, RdKeys
<1> QED
  BY <1>1 DEF RdDate

\* The rows of every route are messages.
LEMMA RowsAreKeys ==
  ASSUME RdTypeOK, NEW route \in RdRoutes
  PROVE  RdRows(route) \subseteq RdKeys
BY DEF RdTypeOK, RdRoutes, RdRows, RdListed, RdSearched, RdFetched

\* The limit of a page is a number, and a positive one is a number of messages.
LEMMA LimitIsInt ==
  ASSUME NEW route \in RdRoutes, NEW asked \in RdAsked \cup {-1}
  PROVE  RdLimit(route, asked) \in Int
<1> USE RdAssumption
<1>1. asked \in Int /\ RdMost \in Nat /\ RdDefault \in Nat
  OBVIOUS
<1>2. RdWanted(asked) \in Int
  <2>1. \E x \in {asked, RdMost} : \A y \in {asked, RdMost} : x =< y
    BY <1>1
  <2>2. Min({asked, RdMost}) \in {asked, RdMost}
    BY <2>1, Zenon DEF Min
  <2> QED
    BY <1>1, <2>2 DEF RdWanted
<1>3. Max({RdWanted(asked), 1}) \in Int
  <2> DEFINE w == RdWanted(asked)
  <2>1. w \in Int
    BY <1>2
  <2> HIDE DEF w
  <2>2. \E x \in {w, 1} : \A y \in {w, 1} : x >= y
    BY <2>1
  <2>3. Max({w, 1}) \in {w, 1}
    BY <2>2, Zenon DEF Max
  <2>4. Max({w, 1}) \in Int
    BY <2>1, <2>3
  <2> QED
    BY <2>4 DEF w
<1> QED
  BY <1>2, <1>3 DEF RdLimit, RdListLimit

\* Nothing is written and nothing is read at first.
LEMMA RdInitEstablishes == RdInit => RdIInv
<1> SUFFICES ASSUME RdInit PROVE RdIInv
  OBVIOUS
<1> USE RdAssumption DEF RdInit
<1>1. rdMessages \in Seq([date : 1..RdTime, plain : BOOLEAN]) /\ Len(rdMessages) = 0
  OBVIOUS
<1>2. RdTypeOK
  <2>1. Len(rdMessages) <= RdSize /\ RdTime + 1 \in 1..(RdTime + 1)
    BY <1>1
  <2>2. {} \subseteq RdKeys /\ FALSE \in BOOLEAN /\ "none" \in RdRoutes \cup {"none"}
    OBVIOUS
  <2> QED
    BY <1>1, <2>1, <2>2, Zenon DEF RdTypeOK
<1>3. RdUnread /\ DueIsThere /\ SeenIsBehind /\ DueIsAhead
  BY DEF RdUnread, DueIsThere, SeenIsBehind, DueIsAhead
<1> QED
  BY <1>2, <1>3 DEF RdIInv

\* A new message takes a key of its own, and leaves the others theirs.
LEMMA RdCreationKeeps ==
  ASSUME RdIInv, NEW date \in 1..RdTime, NEW plain \in BOOLEAN, RdCreate(date, plain)
  PROVE  RdIInv'
<1> USE RdAssumption DEF RdIInv
<1> DEFINE row == [date |-> date, plain |-> plain]
           n == Len(rdMessages)
<1>1. /\ rdMessages \in Seq([date : 1..RdTime, plain : BOOLEAN]) /\ n \in Nat /\ n < RdSize
      /\ rdMessages' = Append(rdMessages, row) /\ row \in [date : 1..RdTime, plain : BOOLEAN]
      /\ UNCHANGED <<rdDeleted, rdOutside, rdAccess, rdBefore, rdRoute, rdDone, rdFailed, rdSeen, rdTwice,
                     rdDue>>
  BY DEF RdCreate, rdReader, RdTypeOK
<1> HIDE DEF row
<1>2. /\ rdMessages' \in Seq([date : 1..RdTime, plain : BOOLEAN]) /\ Len(rdMessages') = n + 1
      /\ \A m \in 1..n : rdMessages'[m] = rdMessages[m]
      /\ RdKeys = 1..n /\ RdKeys' = 1..(n + 1)
  BY <1>1 DEF RdKeys
<1>3. RdKeys \subseteq RdKeys' /\ \A m \in RdKeys : RdDate(m)' = RdDate(m)
  BY <1>1, <1>2 DEF RdDate
<1>4. RdTypeOK'
  <2>1. Len(rdMessages') <= RdSize
    BY <1>1, <1>2
  <2> HIDE DEF n
  <2> QED
    BY <1>1, <1>2, <1>3, <2>1 DEF RdTypeOK
<1>5. DueIsThere'
  <2>1. \A m \in RdKeys : rdMessages'[m] = rdMessages[m]
    BY <1>2
  <2> HIDE DEF n
  <2> QED
    BY <1>1, <1>3, <2>1 DEF DueIsThere, RdTypeOK, RdRows, RdListed, RdSearched, RdFetched, RdRoutes
<1> HIDE DEF n
<1>6. RdUnread' /\ SeenIsBehind' /\ rdTwice' = {}
  BY <1>1, <1>3 DEF RdUnread, SeenIsBehind, RdTypeOK
<1>7. DueIsAhead'
  BY <1>1, <1>3 DEF DueIsAhead, RdTypeOK
<1> QED
  BY <1>4, <1>5, <1>6, <1>7

\* Deletions, exports, the departure of the reader.
LEMMA RdConversationKeeps ==
  ASSUME RdIInv,
         RdLeave \/ \E m \in RdKeys : RdDelete(m) \/ RdExport(m)
  PROVE  RdIInv'
<1> USE DEF RdIInv
<1>1. ASSUME NEW m \in RdKeys, RdDelete(m) PROVE RdIInv'
  BY <1>1 DEF RdDelete, rdReader, RdTypeOK, RdUnread, DueIsThere, SeenIsBehind, DueIsAhead, RdKeys,
              RdDate, RdRows, RdListed, RdSearched, RdFetched, RdRoutes
<1>2. ASSUME NEW m \in RdKeys, RdExport(m) PROVE RdIInv'
  BY <1>2 DEF RdExport, rdReader, RdTypeOK, RdUnread, DueIsThere, SeenIsBehind, DueIsAhead, RdKeys,
              RdDate, RdRows, RdListed, RdSearched, RdFetched, RdRoutes
<1>3. CASE RdLeave
  BY <1>3 DEF RdLeave, rdReader, RdTypeOK, RdUnread, DueIsThere, SeenIsBehind, DueIsAhead, RdKeys,
              RdDate, RdRows, RdListed, RdSearched, RdFetched, RdRoutes
<1> QED
  BY <1>1, <1>2, <1>3

\* When a reading begins, everything is before its first page.
LEMMA RdStartKeeps ==
  ASSUME RdIInv, NEW route \in RdRoutes, RdStart(route)
  PROVE  RdIInv'
<1> USE RdAssumption DEF RdIInv
<1>1. /\ rdRoute = "none" /\ rdRoute' = route /\ rdDue' = RdRows(route)
      /\ UNCHANGED <<rdMessages, rdDeleted, rdOutside, rdAccess, rdBefore, rdDone, rdFailed, rdSeen,
                     rdTwice>>
  BY DEF RdStart
<1>2. rdDue' \subseteq RdKeys /\ RdKeys' = RdKeys
  BY <1>1, RowsAreKeys DEF RdKeys
<1>3. \A m \in RdKeys : RdDate(m) < RdTime + 1 /\ RdDate(m)' = RdDate(m)
  <2>1. \A m \in RdKeys : RdDate(m)' = RdDate(m)
    BY <1>1 DEF RdDate
  <2> QED
    BY <2>1, DatesAreBounded
<1>4. RdTypeOK'
  BY <1>1, <1>2 DEF RdTypeOK
<1>5. RdRows(route)' = RdRows(route)
  BY <1>1 DEF RdRows, RdListed, RdSearched, RdFetched, RdKeys
<1>6. RdUnread' /\ DueIsThere' /\ rdTwice' = {}
  BY <1>1, <1>5 DEF RdUnread, DueIsThere, RdRoutes
<1>7. SeenIsBehind' /\ DueIsAhead'
  BY <1>1, <1>2, <1>3 DEF RdUnread, SeenIsBehind, DueIsAhead
<1> QED
  BY <1>4, <1>6, <1>7

\* A page is of what comes before everything shown, and leaves behind it only what
\* has the date of its last message.
LEMMA RdPageKeeps ==
  ASSUME RdIInv, NEW asked \in RdAsked \cup {-1}, RdPage(asked)
  PROVE  RdIInv'
<1> USE RdAssumption DEF RdIInv
<1> DEFINE rows == {m \in RdRows(rdRoute) : Before(m, rdBefore)}
           limit == RdLimit(rdRoute, asked)
<1>1. /\ rdRoute \in RdRoutes /\ rdRoute # "none" /\ ~rdDone
      /\ limit > 0
      /\ UNCHANGED <<rdMessages, rdDeleted, rdOutside, rdAccess, rdRoute, rdFailed, rdDue>>
  BY DEF RdPage, RdTypeOK
<1>2. PICK page \in NewestFirst(rows, limit) :
        /\ rdSeen' = rdSeen \cup page
        /\ rdTwice' = rdTwice \cup (rdSeen \cap page)
        /\ rdDone' = (page = {})
        /\ rdBefore' = IF page = {} THEN rdBefore ELSE Min({RdDate(m) : m \in page})
  BY DEF RdPage
<1>3. rows \subseteq RdKeys /\ \A m \in rows : RdDate(m) < rdBefore
  BY <1>1, RowsAreKeys DEF Before
<1>4. /\ RdKeys' = RdKeys
      /\ \A m \in RdKeys : RdDate(m) \in 1..RdTime /\ RdDate(m)' = RdDate(m)
  <2>1. RdKeys' = RdKeys /\ \A m \in RdKeys : RdDate(m)' = RdDate(m)
    BY <1>1 DEF RdKeys, RdDate
  <2> QED
    BY <2>1, DatesAreBounded
<1>5. /\ page \subseteq rows
      /\ \A m \in page, other \in rows \ page : RdDate(other) <= RdDate(m)
  <2>1. page \subseteq rows /\ \A m \in page, other \in rows \ page : RdDate(m) >= RdDate(other)
    BY <1>2 DEF NewestFirst
  <2>2. \A m \in rows : RdDate(m) \in Int
    BY <1>3, <1>4
  <2> HIDE DEF rows
  <2> QED
    BY <2>1, <2>2
<1>6. limit \in Nat
  BY <1>1, LimitIsInt
<1>7. page = {} => rows = {}
  BY <1>1, <1>2, <1>3, <1>6, EmptyPageIsTheEnd
<1>8. RdRows(rdRoute)' = RdRows(rdRoute)
  BY <1>1 DEF RdRows, RdListed, RdSearched, RdFetched, RdKeys
<1>9. \A m \in rdDue : RdDate(m) < rdBefore => m \in rows
  BY <1>1 DEF DueIsThere, Before
<1> HIDE DEF rows, limit
<1>10. rdTwice' = {}
  <2>1. \A m \in rdSeen : m \notin page
    <3>1. \A m \in rdSeen : rdBefore <= RdDate(m) /\ RdDate(m) \in Int
      BY <1>4 DEF SeenIsBehind, RdTypeOK
    <3>2. \A m \in page : RdDate(m) < rdBefore
      BY <1>3, <1>5
    <3> QED
      BY <3>1, <3>2 DEF RdTypeOK
  <2> QED
    BY <1>2, <2>1
<1>11. rdSeen \subseteq RdKeys /\ rdDue \subseteq RdKeys /\ rdBefore \in 1..(RdTime + 1)
  BY DEF RdTypeOK
<1>12. CASE page = {}
  <2>1. /\ rdSeen' = rdSeen /\ rdBefore' = rdBefore /\ rdDone'
    BY <1>2, <1>12
  <2>2. RdTypeOK'
    BY <1>1, <1>4, <1>10, <2>1 DEF RdTypeOK
  <2>3. RdUnread' /\ DueIsThere'
    BY <1>1, <1>8 DEF RdUnread, DueIsThere
  <2>4. SeenIsBehind'
    BY <1>4, <1>11, <2>1 DEF SeenIsBehind
  <2>5. DueIsAhead'
    <3> SUFFICES ASSUME NEW m \in rdDue, m \notin rdSeen,
                        \A twin \in RdKeys \ {m} : RdDate(twin) # RdDate(m)
                 PROVE  FALSE
      BY <1>1, <1>4, <1>11, <2>1 DEF DueIsAhead
    <3>1. RdDate(m) < rdBefore
      BY DEF DueIsAhead
    <3>2. m \in rows
      BY <1>9, <3>1
    <3> QED
      BY <1>7, <1>12, <2>1, <3>1, <3>2
  <2> QED
    BY <1>10, <2>2, <2>3, <2>4, <2>5
<1>13. CASE page # {}
  <2> DEFINE dates == {RdDate(m) : m \in page}
             last == Min(dates)
  <2>1. dates \subseteq Nat /\ dates # {} /\ dates \subseteq 1..RdTime
    BY <1>3, <1>4, <1>5, <1>13
  <2>2. last \in dates /\ \A d \in dates : last <= d
    <3> HIDE DEF dates
    <3> QED
      BY <2>1, MinIsLeast
  <2>3. rdBefore' = last /\ rdDone' = FALSE
    BY <1>2, <1>13
  <2>4. PICK oldest \in page : RdDate(oldest) = last
    <3> HIDE DEF last
    <3> QED
      BY <2>2
  <2>5. \A m \in page : last <= RdDate(m)
    <3> HIDE DEF last
    <3> QED
      BY <2>2
  <2>6. last \in 1..RdTime /\ last < rdBefore
    <3>1. oldest \in RdKeys /\ RdDate(oldest) < rdBefore
      BY <1>3, <1>5
    <3> HIDE DEF last
    <3> QED
      BY <1>4, <2>4, <3>1
  <2> HIDE DEF dates, last
  <2>7. RdTypeOK'
    <3>1. page \subseteq RdKeys
      BY <1>3, <1>5
    <3>2. rdBefore' \in 1..(RdTime + 1)
      BY <2>3, <2>6
    <3> QED
      BY <1>1, <1>2, <1>4, <1>10, <2>3, <3>1, <3>2 DEF RdTypeOK
  <2>8. RdUnread' /\ DueIsThere'
    BY <1>1, <1>8 DEF RdUnread, DueIsThere
  <2>9. SeenIsBehind'
    <3> SUFFICES ASSUME NEW m \in rdSeen \cup page PROVE last <= RdDate(m)
      BY <1>2, <1>3, <1>4, <1>5, <1>11, <2>3 DEF SeenIsBehind
    <3>1. CASE m \in page
      BY <2>5, <3>1
    <3>2. CASE m \in rdSeen
      <4>1. rdBefore <= RdDate(m) /\ RdDate(m) \in Int
        BY <1>4, <1>11, <3>2 DEF SeenIsBehind
      <4> QED
        BY <1>11, <2>6, <4>1
    <3> QED
      BY <3>1, <3>2
  <2>10. DueIsAhead'
    <3> SUFFICES ASSUME NEW m \in rdDue, m \notin rdSeen, m \notin page,
                        \A twin \in RdKeys \ {m} : RdDate(twin) # RdDate(m)
                 PROVE  RdDate(m) < last
      BY <1>1, <1>2, <1>4, <1>11, <2>3 DEF DueIsAhead
    <3>1. m \in rows
      BY <1>9 DEF DueIsAhead
    <3>2. RdDate(m) <= last
      BY <1>5, <2>4, <3>1
    <3>3. RdDate(m) # last
      BY <1>3, <1>5, <2>4
    <3> QED
      BY <1>4, <1>11, <2>6, <3>2, <3>3
  <2> QED
    BY <1>10, <2>7, <2>8, <2>9, <2>10
<1> QED
  BY <1>12, <1>13

\* A page that fails ends the reading and leaves the rest ahead.
LEMMA RdFailureKeeps ==
  ASSUME RdIInv, RdFetchFails
  PROVE  RdIInv'
<1> USE DEF RdIInv
<1>1. /\ rdRoute # "none" /\ rdDone' = TRUE /\ rdFailed' = TRUE
      /\ UNCHANGED <<rdMessages, rdDeleted, rdOutside, rdAccess, rdRoute, rdBefore, rdSeen, rdTwice,
                     rdDue>>
  BY DEF RdFetchFails
<1>2. RdKeys' = RdKeys /\ \A m \in RdKeys : RdDate(m)' = RdDate(m)
  BY <1>1 DEF RdKeys, RdDate
<1>3. RdTypeOK'
  BY <1>1, <1>2 DEF RdTypeOK
<1>4. RdUnread' /\ SeenIsBehind' /\ DueIsAhead'
  BY <1>1, <1>2 DEF RdTypeOK, RdUnread, SeenIsBehind, DueIsAhead
<1>5. DueIsThere'
  BY <1>1, <1>2 DEF DueIsThere, RdRows, RdListed, RdSearched, RdFetched
<1> QED
  BY <1>1, <1>3, <1>4, <1>5

\* The inductive step of the reading.
LEMMA RdNextKeeps ==
  ASSUME RdIInv, [RdNext]_rdVars
  PROVE  RdIInv'
<1>1. CASE RdNext
  BY <1>1, RdCreationKeeps, RdConversationKeeps, RdStartKeeps, RdPageKeeps, RdFailureKeeps
     DEF RdNext
<1>2. CASE UNCHANGED rdVars
  BY <1>2 DEF rdVars, RdIInv, RdTypeOK, RdUnread, DueIsThere, SeenIsBehind, DueIsAhead, RdKeys,
              RdDate, RdRows, RdListed, RdSearched, RdFetched, RdRoutes
<1> QED
  BY <1>1, <1>2

\* The invariant of the reading.
LEMMA RdInvariance == RdSpec => []RdIInv
<1>1. RdIInv /\ [RdNext]_rdVars => RdIInv'
  BY RdNextKeeps
<1> QED
  BY <1>1, RdInitEstablishes, PTL DEF RdSpec

\* For any number of messages, any dates and any limits of the pages, no message is
\* shown twice, and what is due is shown, shares its date, or is older than every page;
\* at the end nothing older is left unless an external page failed and was answered as
\* an empty one.
THEOREM PagesMissNothingElse == RdSpec => []PagesMissOnlyTwins
<1>1. RdIInv => PagesMissOnlyTwins
  BY DEF RdIInv, DueIsAhead, PagesMissOnlyTwins, Before
<1> QED
  BY <1>1, RdInvariance, PTL

----------------------------------------------------------------------------
(***************************************************************************)
(* The three modules together.                                             *)
(***************************************************************************)
(* The composed specification implements each of the three: a step of one  *)
(* is a stutter of the others, whose variables it leaves.  Every theorem   *)
(* about one of them is therefore one about their composition.             *)
THEOREM EachPartIsKept == ConvSpec => DmSpec /\ StSpec /\ RdSpec
<1>1. ConvInit => DmInit /\ StInit /\ RdInit
  BY DEF ConvInit
<1>2. [ConvNext]_<<focus, dmVars, stVars, rdVars>>
        => [DmNext]_dmVars /\ [StNext]_stVars /\ [RdNext]_rdVars
  BY DEF ConvNext
<1> QED
  BY <1>1, <1>2, PTL DEF ConvSpec, DmSpec, StSpec, RdSpec

(* Every variable of the three modules keeps its type, for all constants:  *)
(* no request stands at a statement its handler does not have or inserts   *)
(* more rows than its list of users allows, and nothing was read that was  *)
(* not written.                                                            *)
THEOREM ConversationTypes == ConvSpec => []ConvTypeOK
<1>1. DmTypeOK /\ StIInv /\ RdIInv => ConvTypeOK
  BY DEF StIInv, RdIInv, ConvTypeOK
<1> QED
  BY <1>1, EachPartIsKept, CreationTypes, StInvariance, RdInvariance, PTL
=============================================================================
