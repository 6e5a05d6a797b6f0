---------------------------- MODULE ServiceProofs ----------------------------
(***************************************************************************)
(* What holds of UserState, ExternalDb and Schema for every value of their *)
(* constants, each in its section, and of the three together (MCService).  *)
(***************************************************************************)
EXTENDS MCService, SequenceTheorems, WellFoundedInduction, TLAPS

(***************************************************************************)
(* Notifications, settings and pins (UserState).                           *)
(***************************************************************************)
\* A pin that nothing crossed will be inserted behind every pin that is there.
UsAloneIsAhead ==
  \A r \in UsRequest : usPinning[r].pc # "idle" /\ usPinning[r].alone
    => \A c \in Pinned : usPin[c] < usPinning[r].order

\* Unread notifications were counted, whatever notifRead left of older ones.
UsPingsCounted == \A c \in UsConv : usPings[c] <= usNote[c].count

UsNotesOK == UsPingsCounted /\ PingsStayUntilRead
UsPinsOK == UsAloneIsAhead /\ PinsDistinctUnlessRaced
UsIInv == UsTypeOK /\ UsNotesOK /\ UsPinsOK

----------------------------------------------------------------------------
\* The order that pin computes comes behind those of all pinned conversations: a
\* maximum exists, as the orders are bounded.
LEMMA UsNextIsBehind ==
  ASSUME UsTypeOK
  PROVE  NextOrder \in Nat /\ \A c \in Pinned : usPin[c] < NextOrder
<1> USE UsAssumption DEF UsTypeOK, Pinned
<1>1. CASE Pinned = {}
  BY <1>1 DEF NextOrder
<1>2. CASE Pinned # {}
  <2> DEFINE Behind == {n \in Nat : \A c \in Pinned : usPin[c] < n}
             R == OpToRel(<, Nat)
             Max(o) == /\ \E c \in Pinned : usPin[c] = o
                       /\ \A c \in Pinned : usPin[c] <= o
  <2>1. UsMaxOrder + 1 \in Behind
    OBVIOUS
  <2>2. PICK x \in Behind : \A y \in Behind : ~ (<<y, x>> \in R)
    <3>1. Behind \subseteq Nat /\ Behind # {}
      BY <2>1
    <3> HIDE DEF Behind, R
    <3>2. IsWellFoundedOn(R, Nat)
      BY NatLessThanWellFounded DEF R
    <3> QED
      BY <3>1, <3>2, WFMin
  <2>3. x # 0 /\ x - 1 \in Nat
    BY <1>2
  <2>4. x - 1 \notin Behind
    <3>1. <<x - 1, x>> \in R
      BY <2>3 DEF OpToRel
    <3> QED
      BY <2>2, <3>1
  <2>5. PICK c \in Pinned : usPin[c] = x - 1
    <3> HIDE DEF R
    <3>1. PICK c \in Pinned : ~ (usPin[c] < x - 1)
      BY <2>3, <2>4
    <3>2. usPin[c] < x /\ usPin[c] \in Int /\ x \in Int
      BY <3>1
    <3> HIDE DEF Behind
    <3>3. \A p, y \in Int : p < y /\ ~ (p < y - 1) => p = y - 1
      OBVIOUS
    <3>4. usPin[c] = x - 1
      BY <3>1, <3>2, <3>3
    <3> QED
      BY <3>4
  <2>6. x - 1 \in 0..UsMaxOrder /\ Max(x - 1)
    BY <2>3, <2>5
  <2>7. PICK o : /\ o = (CHOOSE p \in 0..UsMaxOrder : Max(p))
                 /\ o \in 0..UsMaxOrder /\ Max(o)
    <3> HIDE DEF Max
    <3> QED
      BY <2>6
  <2> QED
    BY <1>2, <2>7 DEF NextOrder
<1> QED
  BY <1>1, <1>2

\* A user without notifications, settings and pins satisfies the invariant.
LEMMA UsInitEstablishes == UsInit => UsIInv
<1> SUFFICES ASSUME UsInit PROVE UsIInv
  OBVIOUS
<1> USE UsAssumption DEF UsInit
<1>1. UsTypeOK
  <2>1. 0 \in 0..UsMaxCount /\ 0 \in 0..UsMaxOrder /\ -1 \in -1..UsMaxOrder
    OBVIOUS
  <2>2. UsNoPin \in [pc : {"idle"} \cup UsConv, order : 0..UsMaxOrder, alone : BOOLEAN]
    BY <2>1 DEF UsNoPin
  <2> QED
    BY <2>1, <2>2 DEF UsTypeOK
<1>2. UsNotesOK
  BY DEF UsNotesOK, UsPingsCounted, PingsStayUntilRead, Listed
<1>3. UsPinsOK
  BY DEF UsPinsOK, UsAloneIsAhead, PinsDistinctUnlessRaced, Pinned, UsNoPin
<1> QED
  BY <1>1, <1>2, <1>3 DEF UsIInv

----------------------------------------------------------------------------
\* Notifications: a creation adds to both the row and what is unread of it, a
\* reading marks the row and forgets both.
LEMMA UsNotesKept ==
  ASSUME UsIInv, UsNoteNext
  PROVE  UsIInv'
<1> USE UsAssumption DEF UsIInv, UsTypeOK
<1> DEFINE Kept == /\ UNCHANGED usPins
                   /\ usNote' \in [UsConv -> [count : 0..UsMaxCount, read : BOOLEAN,
                                              mention : BOOLEAN]]
                   /\ usPings' \in [UsConv -> 0..UsMaxCount] /\ usMentioned' \subseteq UsConv
                   /\ UsNotesOK'
<1>1. ASSUME NEW c \in UsConv, NEW mention \in BOOLEAN, NotifCreate(c, mention)
      PROVE  Kept
  <2>1. usNote' = [usNote EXCEPT ![c] = Upserted(@, mention)]
        /\ usPings' = [usPings EXCEPT ![c] = @ + 1]
    BY <1>1 DEF NotifCreate
  <2>2. Upserted(usNote[c], mention)
          \in [count : 0..UsMaxCount, read : BOOLEAN, mention : BOOLEAN]
    BY <1>1 DEF NotifCreate, Upserted
  <2>3. usPings[c] + 1 \in 0..UsMaxCount
    BY <1>1 DEF NotifCreate, UsNotesOK, UsPingsCounted
  <2> QED
    BY <1>1, <2>1, <2>2, <2>3
       DEF NotifCreate, Upserted, UsNotesOK, UsPingsCounted, PingsStayUntilRead, Listed
<1>2. ASSUME NEW cs \in SUBSET UsConv, NotifRead(cs)
      PROVE  Kept
  <2>1. \A c \in UsConv : /\ usNote'[c].count = usNote[c].count
                          /\ usNote'[c].mention = usNote[c].mention
                          /\ usNote'[c].read = (usNote[c].read \/ c \in cs)
                          /\ usPings'[c] = IF c \in cs THEN 0 ELSE usPings[c]
    BY <1>2 DEF NotifRead
  <2>2. /\ usNote' \in [UsConv -> [count : 0..UsMaxCount, read : BOOLEAN, mention : BOOLEAN]]
        /\ usPings' \in [UsConv -> 0..UsMaxCount]
    <3>1. \A c \in UsConv : [usNote[c] EXCEPT !.read = TRUE]
                              \in [count : 0..UsMaxCount, read : BOOLEAN, mention : BOOLEAN]
      OBVIOUS
    <3> QED
      BY <1>2, <3>1 DEF NotifRead
  <2>3. UsNotesOK'
    BY <1>2, <2>1 DEF NotifRead, UsNotesOK, UsPingsCounted, PingsStayUntilRead, Listed
  <2> QED
    BY <1>2, <2>2, <2>3 DEF NotifRead
<1>3. Kept
  BY <1>1, <1>2 DEF UsNoteNext, NamedRows
<1>4. UNCHANGED usSetting
  BY DEF UsNoteNext, NotifCreate, NotifRead
<1> QED
  BY <1>3, <1>4 DEF usPins, UsPinsOK, UsAloneIsAhead, PinsDistinctUnlessRaced, Pinned

\* The settings touch neither notifications nor pins.
LEMMA UsSettingsKept ==
  ASSUME UsIInv, UsSettingNext
  PROVE  UsIInv'
<1> USE UsAssumption DEF UsIInv
<1>1. UNCHANGED <<usNotes, usPins>>
      /\ usSetting' \in [UsTarget -> [type : UsTypes, level : UsLevels] \cup {UsNoSetting}]
  BY DEF UsSettingNext, NotifSettingPut, NotifSettingDelete, UsTypeOK
<1>2. UsTypeOK'
  BY <1>1 DEF usNotes, usPins, UsTypeOK
<1>3. UsNotesOK'
  BY <1>1 DEF usNotes, UsNotesOK, UsPingsCounted, PingsStayUntilRead, Listed
<1>4. UsPinsOK'
  BY <1>1 DEF usPins, UsPinsOK, UsAloneIsAhead, PinsDistinctUnlessRaced, Pinned
<1> QED
  BY <1>2, <1>3, <1>4

\* Pins: an insertion makes every other pin in flight one that was crossed, so that
\* a pin that was not comes behind all that is there.
LEMMA UsPinsKept ==
  ASSUME UsIInv, UsPinNext
  PROVE  UsIInv'
<1> USE UsAssumption DEF UsIInv
<1> DEFINE Kept == /\ usPin' \in [UsConv -> -1..UsMaxOrder]
                   /\ usPinning' \in [UsRequest -> [pc : {"idle"} \cup UsConv,
                                                    order : 0..UsMaxOrder, alone : BOOLEAN]]
                   /\ usRaced' \in BOOLEAN
                   /\ UsPinsOK'
<1>1. ASSUME NEW r \in UsRequest, NEW c \in UsConv, PinRead(r, c)
      PROVE  Kept
  <2>1. UsNoPin.pc = "idle" /\ NextOrder \in 0..UsMaxOrder
    BY <1>1, UsNextIsBehind DEF PinRead, UsNoPin
  <2> QED
    BY <1>1, <2>1, UsNextIsBehind
       DEF PinRead, UsTypeOK, UsPinsOK, UsAloneIsAhead, PinsDistinctUnlessRaced, Pinned
<1>2. ASSUME NEW r \in UsRequest, PinInsert(r)
      PROVE  Kept
  <2> DEFINE c == usPinning[r].pc
             o == usPinning[r].order
  <2>1. /\ c \in UsConv /\ o \in 0..UsMaxOrder
        /\ usPin' = [usPin EXCEPT ![c] = IF @ >= 0 THEN @ ELSE o]
        /\ usPinning' = [q \in UsRequest |-> IF q = r THEN UsNoPin
                                             ELSE [usPinning[q] EXCEPT !.alone = FALSE]]
        /\ usRaced' = (usRaced \/ ~usPinning[r].alone)
    BY <1>2 DEF PinInsert, UsTypeOK
  <2>2. /\ usPin' \in [UsConv -> -1..UsMaxOrder]
        /\ usPinning' \in [UsRequest -> [pc : {"idle"} \cup UsConv,
                                         order : 0..UsMaxOrder, alone : BOOLEAN]]
        /\ usRaced' \in BOOLEAN
    <3>1. UsNoPin \in [pc : {"idle"} \cup UsConv, order : 0..UsMaxOrder, alone : BOOLEAN]
      BY UsAssumption DEF UsNoPin
    <3>2. \A q \in UsRequest : [usPinning[q] EXCEPT !.alone = FALSE]
            \in [pc : {"idle"} \cup UsConv, order : 0..UsMaxOrder, alone : BOOLEAN]
      BY DEF UsTypeOK
    <3> QED
      BY <2>1, <3>1, <3>2 DEF UsTypeOK
  <2>3. UsAloneIsAhead'
    BY <2>1 DEF UsTypeOK, UsAloneIsAhead, UsNoPin
  <2>4. PinsDistinctUnlessRaced'
    <3> SUFFICES ASSUME ~usRaced, usPinning[r].alone, NEW d \in UsConv, NEW e \in UsConv,
                        usPin'[d] >= 0, usPin'[e] >= 0, usPin'[d] = usPin'[e]
                 PROVE  d = e
      BY <2>1 DEF PinsDistinctUnlessRaced, Pinned
    <3>1. \A x \in UsConv : usPin[x] >= 0 => usPin[x] < o
      BY <1>2 DEF UsPinsOK, UsAloneIsAhead, PinInsert, Pinned
    <3>2. \A x, y \in UsConv : usPin[x] >= 0 /\ usPin[y] >= 0 /\ usPin[x] = usPin[y] => x = y
      BY DEF UsPinsOK, PinsDistinctUnlessRaced, Pinned
    <3> QED
      BY <2>1, <3>1, <3>2 DEF UsTypeOK
  <2> QED
    BY <2>2, <2>3, <2>4 DEF UsPinsOK
<1>3. ASSUME NEW r \in UsRequest, PinFails(r)
      PROVE  Kept
  BY <1>3 DEF PinFails, UsTypeOK, UsNoPin, UsPinsOK, UsAloneIsAhead, PinsDistinctUnlessRaced, Pinned
<1>4. ASSUME NEW c \in UsConv, Unpin(c)
      PROVE  Kept
  BY <1>4 DEF Unpin, UsTypeOK, UsPinsOK, UsAloneIsAhead, PinsDistinctUnlessRaced, Pinned
<1>5. UNCHANGED <<usNotes, usSetting>>
  BY DEF UsPinNext, PinRead, PinInsert, PinFails, Unpin
<1>6. Kept
  BY <1>1, <1>2, <1>3, <1>4 DEF UsPinNext
<1>7. UsNotesOK'
  BY <1>5 DEF usNotes, UsNotesOK, UsPingsCounted, PingsStayUntilRead, Listed
<1> QED
  BY <1>5, <1>6, <1>7 DEF usNotes, UsTypeOK

\* The inductive step of the three parts of UserState.
LEMMA UsNextKeeps ==
  ASSUME UsIInv, [UsNext]_usVars
  PROVE  UsIInv'
<1>1. CASE UsNext
  BY <1>1, UsNotesKept, UsSettingsKept, UsPinsKept DEF UsNext
<1>2. CASE UNCHANGED usVars
  BY <1>2 DEF usVars, usNotes, usPins, UsIInv, UsTypeOK, UsNotesOK, UsPingsCounted,
              PingsStayUntilRead, Listed, UsPinsOK, UsAloneIsAhead, PinsDistinctUnlessRaced, Pinned
<1> QED
  BY <1>1, <1>2

\* The invariant of notifications, settings and pins.
LEMMA UsInvariance == UsSpec => []UsIInv
<1>1. UsIInv /\ [UsNext]_usVars => UsIInv'
  BY UsNextKeeps
<1> QED
  BY <1>1, UsInitEstablishes, PTL DEF UsSpec

\* However creations and readings alternate, notifList shows a conversation exactly
\* while it has a notification that was not read, and as a mention if one was.
THEOREM PingsStay == UsSpec => []PingsStayUntilRead
<1>1. UsIInv => PingsStayUntilRead
  BY DEF UsIInv, UsNotesOK
<1> QED
  BY <1>1, UsInvariance, PTL

\* For any number of pins, removals and failures, two pinned conversations share an
\* order only after two pins of the user have crossed.
THEOREM OrdersDistinct == UsSpec => []PinsDistinctUnlessRaced
<1>1. UsIInv => PinsDistinctUnlessRaced
  BY DEF UsIInv, UsPinsOK
<1> QED
  BY <1>1, UsInvariance, PTL

----------------------------------------------------------------------------
(***************************************************************************)
(* External databases (ExternalDb).                                        *)
(***************************************************************************)
XdRequests == [pc : {"idle", "expire", "check", "connect", "store"},
             host : XdHost \cup {XdNone}, save : BOOLEAN]
XdExports == [pc : {"none", "open", "table", "insert", "done", "failed"},
            host : XdHost \cup {XdNone}, first : 1..XdEntries,
            next : 1..(XdEntries + 1), last : 0..XdEntries]

\* The attempts allowed were counted, and the one that created the counter, which is
\* alone to do so until its expiry is set, is still to be allowed.
XdCounted ==
  /\ xdAllowed <= xdCount /\ xdAllowed <= XdLimit
  /\ xdCount = 0 => ~xdExpires
  /\ \A r \in XdRequest : XdAt(r, "expire") =>
       /\ xdAllowed + 1 <= xdCount /\ xdAllowed + 1 <= XdLimit
       /\ ~xdExpires
       /\ \A q \in XdRequest : XdAt(q, "expire") => q = r

\* What an export has inserted so far.
XdProgress ==
  \A e \in XdExport :
    LET x == xdExport[e] IN
    /\ x.pc \in {"open", "table", "insert"} =>
         x.host \in XdHost /\ x.first <= x.next /\ x.next <= x.last
    /\ x.pc \in {"open", "table"} => x.next = x.first
    /\ x.pc = "insert" => x.first..(x.next - 1) \subseteq xdTable[x.host]

XdLimitOK == XdCounted /\ LockedOutOnlyByLostExpiry
XdExportOK == XdProgress /\ ExportIsWholeOrFailed
XdIInv == XdTypeOK /\ XdLimitOK /\ XdExportOK

----------------------------------------------------------------------------
\* No request, no counter and no export in the initial states.
LEMMA XdInitEstablishes == XdInit => XdIInv
<1> SUFFICES ASSUME XdInit PROVE XdIInv
  OBVIOUS
<1> USE XdAssumption DEF XdInit
<1>1. XdIdle \in XdRequests /\ XdNoExport \in XdExports
  BY DEF XdRequests, XdExports, XdIdle, XdNoExport
<1>2. XdTypeOK
  <2>1. xdReq \in [XdRequest -> XdRequests] /\ xdExport \in [XdExport -> XdExports]
    BY <1>1
  <2>2. 0 \in 0..XdMaxCount /\ xdTable \in [XdHost -> SUBSET (1..XdEntries)]
    OBVIOUS
  <2> QED
    BY <2>1, <2>2 DEF XdTypeOK, XdRequests, XdExports
<1>3. XdLimitOK
  BY DEF XdLimitOK, XdCounted, LockedOutOnlyByLostExpiry, XdAt, XdIdle
<1>4. XdExportOK
  BY DEF XdExportOK, XdProgress, ExportIsWholeOrFailed, XdNoExport
<1> QED
  BY <1>2, <1>3, <1>4 DEF XdIInv

\* Steps that touch neither exports nor tables.
LEMMA XdExportsUntouched ==
  ASSUME XdExportOK, UNCHANGED xdExports
  PROVE  XdExportOK'
BY DEF xdExports, XdExportOK, XdProgress, ExportIsWholeOrFailed

\* Steps that touch neither the counter nor a request.
LEMMA XdLimitUntouched ==
  ASSUME XdLimitOK, UNCHANGED <<xdReq, xdAttempts>>
  PROVE  XdLimitOK'
BY DEF xdAttempts, XdLimitOK, XdCounted, LockedOutOnlyByLostExpiry, XdAt

\* The new local state of one request.
LEMMA XdRequestType ==
  ASSUME XdTypeOK, NEW r \in XdRequest, NEW new \in XdRequests,
         xdReq' = [xdReq EXCEPT ![r] = new]
  PROVE  /\ xdReq' \in [XdRequest -> XdRequests]
         /\ \A q \in XdRequest : q # r => xdReq'[q] = xdReq[q]
         /\ xdReq'[r] = new
BY DEF XdTypeOK, XdRequests

\* The attempts: of those that count at the same time, the first alone has count 1.
LEMMA XdAttemptKeeps ==
  ASSUME XdIInv, NEW r \in XdRequest, NEW h \in XdHost, NEW save \in BOOLEAN,
         XdAttempt(r, h, save)
  PROVE  XdIInv'
<1> USE XdAssumption DEF XdIInv
<1> DEFINE n == xdCount + 1
           new(pc) == [pc |-> pc, host |-> h, save |-> save]
<1>1. /\ xdCount' = n /\ n \in 1..XdMaxCount /\ XdAt(r, "idle")
      /\ UNCHANGED <<xdConfig, xdPublic, xdExpires, xdLost, xdExports>>
  BY DEF XdAttempt, XdTypeOK
<1>2. XdIdle \in XdRequests /\ \A pc \in {"expire", "check"} : new(pc) \in XdRequests
  BY DEF XdIdle, XdRequests
<1>3. \/ n = 1 /\ xdReq' = [xdReq EXCEPT ![r] = new("expire")] /\ xdAllowed' = xdAllowed
      \/ n # 1 /\ n <= XdLimit /\ xdReq' = [xdReq EXCEPT ![r] = new("check")]
         /\ xdAllowed' = xdAllowed + 1
      \/ n # 1 /\ xdReq' = [xdReq EXCEPT ![r] = XdIdle] /\ xdAllowed' = xdAllowed
  BY DEF XdAttempt, XdAllow, XdReturn, Within, SetsExpiry
<1>4. xdCount \in Nat /\ xdAllowed \in Nat /\ xdAllowed <= xdCount
  BY DEF XdTypeOK, XdLimitOK, XdCounted
<1>5. xdReq' \in [XdRequest -> XdRequests] /\ xdAllowed' \in 0..XdMaxCount
  BY <1>1, <1>2, <1>3, <1>4, XdRequestType DEF XdTypeOK
<1>6. XdTypeOK'
  BY <1>1, <1>5 DEF XdTypeOK, xdExports, XdRequests
<1>7. XdLimitOK'
  <2>1. CASE n = 1 /\ xdReq' = [xdReq EXCEPT ![r] = new("expire")] /\ xdAllowed' = xdAllowed
    BY <1>1, <1>4, <2>1 DEF XdTypeOK, XdLimitOK, XdCounted, LockedOutOnlyByLostExpiry, XdAt
  <2>2. CASE n # 1 /\ n <= XdLimit /\ xdReq' = [xdReq EXCEPT ![r] = new("check")]
             /\ xdAllowed' = xdAllowed + 1
    BY <1>1, <1>4, <2>2 DEF XdTypeOK, XdLimitOK, XdCounted, LockedOutOnlyByLostExpiry, XdAt
  <2>3. CASE n # 1 /\ xdReq' = [xdReq EXCEPT ![r] = XdIdle] /\ xdAllowed' = xdAllowed
    BY <1>1, <1>4, <2>3 DEF XdTypeOK, XdLimitOK, XdCounted, LockedOutOnlyByLostExpiry, XdAt, XdIdle
  <2> QED
    BY <1>3, <2>1, <2>2, <2>3
<1> QED
  BY <1>1, <1>6, <1>7, XdExportsUntouched

\* The request that created the counter sets its expiry, or loses the answer of Redis.
LEMMA XdExpireKeeps ==
  ASSUME XdIInv, NEW r \in XdRequest, XdExpire(r) \/ XdExpireLost(r)
  PROVE  XdIInv'
<1> USE XdAssumption DEF XdIInv
<1> DEFINE new == [xdReq[r] EXCEPT !.pc = "check"]
<1>1. /\ XdAt(r, "expire")
      /\ UNCHANGED <<xdConfig, xdPublic, xdCount, xdExports>>
  BY DEF XdExpire, XdExpireLost
<1>2. XdIdle \in XdRequests /\ new \in XdRequests /\ new.pc = "check"
  BY DEF XdIdle, XdTypeOK, XdRequests
<1>3. \/ /\ xdExpires' = TRUE /\ xdLost' = xdLost
         /\ xdReq' = [xdReq EXCEPT ![r] = new] /\ xdAllowed' = xdAllowed + 1
      \/ /\ xdLost' = TRUE /\ UNCHANGED <<xdExpires, xdAllowed>>
         /\ xdReq' = [xdReq EXCEPT ![r] = XdIdle]
  BY DEF XdExpire, XdExpireLost, XdAllow, XdReturn, Within
<1>4. xdCount \in Nat /\ xdCount <= XdMaxCount /\ xdAllowed \in Nat
      /\ xdAllowed + 1 <= xdCount /\ xdAllowed + 1 <= XdLimit
  BY <1>1 DEF XdTypeOK, XdLimitOK, XdCounted
<1>5. xdReq' \in [XdRequest -> XdRequests] /\ xdAllowed' \in 0..XdMaxCount
  <2> HIDE DEF new
  <2> QED
    BY <1>2, <1>3, <1>4, XdRequestType
<1>6. XdTypeOK'
  BY <1>1, <1>3, <1>5 DEF XdTypeOK, xdExports, XdRequests
<1>7. \A q \in XdRequest : ~ (xdReq'[q].pc = "expire")
  <2> HIDE DEF new
  <2>1. \A q \in XdRequest : xdReq[q].pc = "expire" => q = r
    BY <1>1 DEF XdLimitOK, XdCounted, XdAt
  <2>2. xdReq'[r].pc # "expire" /\ \A q \in XdRequest : q # r => xdReq'[q] = xdReq[q]
    <3>1. ASSUME NEW s \in XdRequests, s.pc # "expire", xdReq' = [xdReq EXCEPT ![r] = s]
          PROVE  <2>2
      BY <3>1, XdRequestType
    <3>2. XdIdle.pc # "expire" /\ new.pc # "expire"
      BY <1>2 DEF XdIdle
    <3> QED
      BY <1>2, <1>3, <3>1, <3>2
  <2> QED
    BY <2>1, <2>2
<1>8. XdLimitOK'
  <2>1. xdAllowed' <= xdCount' /\ xdAllowed' <= XdLimit /\ xdCount' # 0
    BY <1>1, <1>3, <1>4
  <2>2. xdLost' \/ xdExpires'
    BY <1>3
  <2> QED
    BY <1>7, <2>1, <2>2 DEF XdLimitOK, XdCounted, LockedOutOnlyByLostExpiry, XdAt
<1> QED
  BY <1>1, <1>6, <1>8, XdExportsUntouched

\* What a request does once it is allowed: it leaves the counter alone.
LEMMA XdRequestKeeps ==
  ASSUME XdIInv, NEW r \in XdRequest, XdCheck(r) \/ XdConnect(r) \/ XdStore(r) \/ XdFails(r)
  PROVE  XdIInv'
<1> USE XdAssumption DEF XdIInv
<1>1. UNCHANGED <<xdPublic, xdAttempts, xdExports>> /\ ~XdAt(r, "expire")
  BY DEF XdCheck, XdConnect, XdStore, XdFails, XdAt
<1>2. \E new \in XdRequests : new.pc # "expire" /\ xdReq' = [xdReq EXCEPT ![r] = new]
  <2>1. XdIdle \in XdRequests /\ XdIdle.pc # "expire"
    BY DEF XdIdle, XdRequests
  <2>2. CASE xdReq' = [xdReq EXCEPT ![r] = XdIdle]
    BY <2>1, <2>2
  <2>3. ASSUME NEW pc \in {"connect", "store"}, xdReq' = [xdReq EXCEPT ![r].pc = pc]
        PROVE  <1>2
    <3>1. /\ [xdReq[r] EXCEPT !.pc = pc] \in XdRequests
          /\ [xdReq[r] EXCEPT !.pc = pc].pc # "expire"
      BY DEF XdTypeOK, XdRequests
    <3>2. xdReq' = [xdReq EXCEPT ![r] = [xdReq[r] EXCEPT !.pc = pc]]
      BY <2>3
    <3> QED
      BY <3>1, <3>2
  <2> QED
    BY <2>2, <2>3 DEF XdCheck, XdConnect, XdStore, XdFails, XdReturn, XdGoto
<1>3. xdConfig' \in XdHost \cup {XdNone}
  BY DEF XdCheck, XdConnect, XdStore, XdFails, XdTypeOK
<1>4. /\ xdReq' \in [XdRequest -> XdRequests]
      /\ \A q \in XdRequest : xdReq'[q].pc = "expire" <=> xdReq[q].pc = "expire"
  BY <1>1, <1>2, XdRequestType DEF XdAt
<1>5. XdTypeOK'
  BY <1>1, <1>3, <1>4 DEF XdTypeOK, xdAttempts, xdExports, XdRequests
<1>6. XdLimitOK'
  BY <1>1, <1>4 DEF xdAttempts, XdLimitOK, XdCounted, LockedOutOnlyByLostExpiry, XdAt
<1> QED
  BY <1>1, <1>5, <1>6, XdExportsUntouched

\* The hour, the deletion of the configuration and what a host resolves to.
LEMMA XdSurroundingsKeep ==
  ASSUME XdIInv, XdHourPasses \/ XdDelete \/ \E h \in XdHost : XdResolves(h)
  PROVE  XdIInv'
<1> USE XdAssumption DEF XdIInv
<1>1. CASE XdHourPasses
  <2>1. XdTypeOK' /\ XdExportOK'
    <3>1. 0 \in 0..XdMaxCount /\ FALSE \in BOOLEAN
      OBVIOUS
    <3> QED
      BY <1>1, <3>1, XdExportsUntouched DEF XdHourPasses, XdTypeOK, xdExports
  <2>2. XdLimitOK'
    BY <1>1 DEF XdHourPasses, XdLimitOK, XdCounted, LockedOutOnlyByLostExpiry, XdAt
  <2> QED
    BY <2>1, <2>2
<1>2. CASE XdDelete
  BY <1>2, XdExportsUntouched, XdLimitUntouched DEF XdDelete, XdTypeOK, xdAttempts, xdExports
<1>3. ASSUME NEW h \in XdHost, XdResolves(h) PROVE XdIInv'
  BY <1>3, XdExportsUntouched, XdLimitUntouched DEF XdResolves, XdTypeOK, xdAttempts, xdExports
<1> QED
  BY <1>1, <1>2, <1>3

----------------------------------------------------------------------------
\* The exports: entry by entry into the host that was opened, whose rows only grow.
LEMMA XdExportType ==
  ASSUME XdTypeOK, NEW e \in XdExport, NEW new \in XdExports,
         xdExport' = [xdExport EXCEPT ![e] = new]
  PROVE  /\ xdExport' \in [XdExport -> XdExports]
         /\ xdExport'[e] = new
         /\ \A f \in XdExport : f # e => xdExport'[f] = xdExport[f]
BY DEF XdTypeOK, XdExports

\* One export goes on: what its new state must satisfy for the others to be undisturbed.
LEMMA XdOneExport ==
  ASSUME XdIInv, NEW e \in XdExport, NEW new \in XdExports, XdNotExports,
         xdExport' = [xdExport EXCEPT ![e] = new],
         xdTable' \in [XdHost -> SUBSET (1..XdEntries)],
         \A h \in XdHost : xdTable[h] \subseteq xdTable'[h],
         xdFault \subseteq xdFault', xdFault' \subseteq XdExport,
         new.pc \in {"open", "table", "insert"} =>
           new.host \in XdHost /\ new.first <= new.next /\ new.next <= new.last,
         new.pc \in {"open", "table"} => new.next = new.first,
         new.pc = "insert" => new.first..(new.next - 1) \subseteq xdTable'[new.host],
         new.pc = "failed" => e \in xdFault',
         new.pc = "done" /\ new.host # XdNone => new.first..new.last \subseteq xdTable'[new.host]
  PROVE  XdIInv'
<1> USE DEF XdIInv
<1>1. /\ xdExport' \in [XdExport -> XdExports]
      /\ xdExport'[e] = new
      /\ \A f \in XdExport : f # e => xdExport'[f] = xdExport[f]
  BY XdExportType
<1>2. XdTypeOK' /\ XdLimitOK'
  <2>1. UNCHANGED <<xdReq, xdAttempts, xdConfig, xdPublic>>
    BY DEF XdNotExports
  <2> QED
    BY <1>1, <2>1, XdLimitUntouched DEF XdTypeOK, xdAttempts, XdExports
<1>3. \A f \in XdExport : xdExport[f].host \in XdHost \cup {XdNone}
  BY DEF XdTypeOK
<1>4. XdProgress'
  BY <1>1, <1>3 DEF XdExportOK, XdProgress
<1>5. ExportIsWholeOrFailed'
  BY <1>1, <1>3 DEF XdExportOK, ExportIsWholeOrFailed
<1> QED
  BY <1>2, <1>4, <1>5 DEF XdExportOK

\* Every step of an export satisfies what XdOneExport asks for.
LEMMA XdExportKeeps ==
  ASSUME XdIInv, NEW e \in XdExport,
         \/ \E first, last \in 1..XdEntries : XdExportStart(e, first, last)
         \/ XdExportOpen(e) \/ XdExportTable(e) \/ XdExportEntry(e) \/ XdExportFails(e)
  PROVE  XdIInv'
<1> USE XdAssumption
<1>1. ASSUME NEW first \in 1..XdEntries, NEW last \in 1..XdEntries, XdExportStart(e, first, last)
      PROVE  XdIInv'
  <2> DEFINE new == [pc |-> IF xdConfig = XdNone THEN "done" ELSE "open", host |-> xdConfig,
                     first |-> first, next |-> first, last |-> last]
  <2>1. new \in XdExports
    BY DEF XdIInv, XdTypeOK, XdExports
  <2>2. XdNotExports /\ UNCHANGED <<xdTable, xdFault>>
        /\ xdExport' = [xdExport EXCEPT ![e] = new] /\ first <= last
    BY <1>1 DEF XdExportStart
  <2>3. /\ new.first = first /\ new.next = first /\ new.last = last /\ new.host = xdConfig
        /\ new.pc \in {"done", "open"} /\ (new.pc = "open" => xdConfig # XdNone)
        /\ (new.pc = "done" => xdConfig = XdNone)
    <3>1. CASE xdConfig = XdNone
      BY <3>1
    <3>2. CASE xdConfig # XdNone
      BY <3>2
    <3> QED
      BY <3>1, <3>2
  <2>4. /\ xdConfig \in XdHost \cup {XdNone}
        /\ xdTable' \in [XdHost -> SUBSET (1..XdEntries)]
        /\ \A h \in XdHost : xdTable[h] \subseteq xdTable'[h]
        /\ xdFault \subseteq xdFault' /\ xdFault' \subseteq XdExport
    BY <2>2 DEF XdIInv, XdTypeOK
  <2> HIDE DEF new
  <2>5. CASE new.pc = "open"
    <3>1. new.host \in XdHost /\ new.first <= new.next /\ new.next <= new.last
      BY <2>2, <2>3, <2>4, <2>5
    <3> QED
      BY <2>1, <2>2, <2>3, <2>4, <2>5, <3>1, XdOneExport
  <2>6. CASE new.pc = "done"
    BY <2>1, <2>2, <2>3, <2>4, <2>6, XdOneExport
  <2> QED
    BY <2>3, <2>5, <2>6
<1>2. CASE XdExportOpen(e)
  <2> DEFINE x == xdExport[e]
             in == x.host \in xdPublic
             new == [x EXCEPT !.pc = IF in THEN "table" ELSE "done",
                              !.host = IF in THEN x.host ELSE XdNone]
  <2>1. x \in XdExports /\ x.pc = "open" /\ x.host \in XdHost /\ x.next = x.first
        /\ x.first <= x.next /\ x.next <= x.last
    BY <1>2 DEF XdExportOpen, XdIInv, XdTypeOK, XdExports, XdExportOK, XdProgress
  <2>2. XdNotExports /\ UNCHANGED <<xdTable, xdFault>> /\ xdExport' = [xdExport EXCEPT ![e] = new]
    BY <1>2 DEF XdExportOpen, XdIInv, XdTypeOK
  <2>3. \/ new = [x EXCEPT !.pc = "table", !.host = x.host]
        \/ new = [x EXCEPT !.pc = "done", !.host = XdNone]
    <3>1. CASE in
      BY <3>1
    <3>2. CASE ~in
      BY <3>2
    <3> QED
      BY <3>1, <3>2
  <2> HIDE DEF new
  <2>4. new \in XdExports /\ new.first = x.first /\ new.next = x.next /\ new.last = x.last
        /\ \/ new.pc = "table" /\ new.host = x.host
           \/ new.pc = "done" /\ new.host = XdNone
    <3>1. CASE new = [x EXCEPT !.pc = "table", !.host = x.host]
      <4>1. new \in XdExports
        BY <2>1, <3>1 DEF XdExports
      <4>2. new.pc = "table" /\ new.host = x.host
        BY <2>1, <3>1 DEF XdExports
      <4>3. new.first = x.first /\ new.next = x.next /\ new.last = x.last
        BY <2>1, <3>1 DEF XdExports
      <4> QED
        BY <4>1, <4>2, <4>3
    <3>2. CASE new = [x EXCEPT !.pc = "done", !.host = XdNone]
      BY <2>1, <3>2 DEF XdExports
    <3> QED
      BY <2>3, <3>1, <3>2
  <2> QED
    BY <2>1, <2>2, <2>4, XdOneExport DEF XdIInv, XdTypeOK
<1>3. CASE XdExportTable(e)
  <2> DEFINE x == xdExport[e]
             new == [x EXCEPT !.pc = "insert"]
  <2>1. x \in XdExports /\ x.host \in XdHost /\ x.next = x.first
        /\ x.first <= x.next /\ x.next <= x.last
    BY <1>3 DEF XdExportTable, XdIInv, XdTypeOK, XdExports, XdExportOK, XdProgress
  <2>2. new \in XdExports /\ new.first = x.first /\ new.next = x.next /\ new.last = x.last
        /\ new.pc = "insert" /\ new.host = x.host
    BY <2>1 DEF XdExports
  <2>3. XdNotExports /\ UNCHANGED <<xdTable, xdFault>> /\ xdExport' = [xdExport EXCEPT ![e] = new]
    BY <1>3 DEF XdExportTable, XdIInv, XdTypeOK
  <2>4. new.first..(new.next - 1) = {}
    BY <2>1, <2>2 DEF XdExports
  <2> HIDE DEF new
  <2> QED
    BY <2>1, <2>2, <2>3, <2>4, XdOneExport DEF XdIInv, XdTypeOK
<1>4. CASE XdExportEntry(e)
  <2> DEFINE x == xdExport[e]
             new == [x EXCEPT !.next = @ + 1, !.pc = AfterEntry(x.next, x.last)]
             rows == xdTable[x.host]
  <2>1. x \in XdExports /\ x.pc = "insert" /\ x.host \in XdHost
        /\ x.first <= x.next /\ x.next <= x.last /\ x.first..(x.next - 1) \subseteq rows
    BY <1>4 DEF XdExportEntry, XdIInv, XdTypeOK, XdExports, XdExportOK, XdProgress
  <2>2. x.next + 1 \in 1..(XdEntries + 1) /\ x.next \in 1..XdEntries
        /\ x.first \in Int /\ x.last \in Int
    BY <2>1 DEF XdExports
  <2>3. XdNotExports /\ UNCHANGED xdFault /\ xdExport' = [xdExport EXCEPT ![e] = new]
    BY <1>4 DEF XdExportEntry, XdIInv, XdTypeOK
  <2>4. \/ x.next = x.last /\ new = [x EXCEPT !.next = @ + 1, !.pc = "done"]
        \/ x.next # x.last /\ new = [x EXCEPT !.next = @ + 1, !.pc = "insert"]
    <3>1. CASE x.next = x.last
      BY <3>1 DEF AfterEntry
    <3>2. CASE x.next # x.last
      BY <3>2 DEF AfterEntry
    <3> QED
      BY <3>1, <3>2
  <2>5. /\ xdTable' \in [XdHost -> SUBSET (1..XdEntries)]
        /\ \A h \in XdHost : xdTable[h] \subseteq xdTable'[h]
        /\ xdTable'[x.host] = rows \cup {x.next}
    BY <1>4, <2>1, <2>2 DEF XdExportEntry, XdIInv, XdTypeOK
  <2>6. x.first..x.next \subseteq xdTable'[x.host]
    BY <2>1, <2>2, <2>5
  <2>7. xdFault' \subseteq XdExport
    BY <2>3 DEF XdIInv, XdTypeOK
  <2> HIDE DEF new
  <2>8. new \in XdExports /\ new.first = x.first /\ new.next = x.next + 1 /\ new.last = x.last
        /\ new.host = x.host
        /\ \/ x.next = x.last /\ new.pc = "done"
           \/ x.next # x.last /\ new.pc = "insert"
    <3>1. CASE x.next = x.last /\ new = [x EXCEPT !.next = @ + 1, !.pc = "done"]
      <4>1. new \in XdExports
        BY <2>1, <2>2, <3>1 DEF XdExports
      <4>2. new.pc = "done" /\ new.host = x.host
        BY <2>1, <3>1 DEF XdExports
      <4>3. new.first = x.first /\ new.next = x.next + 1 /\ new.last = x.last
        BY <2>1, <3>1 DEF XdExports
      <4> QED
        BY <3>1, <4>1, <4>2, <4>3
    <3>2. CASE x.next # x.last /\ new = [x EXCEPT !.next = @ + 1, !.pc = "insert"]
      BY <2>1, <2>2, <3>2 DEF XdExports
    <3> QED
      BY <2>4, <3>1, <3>2
  <2>9. new.first <= new.next /\ (new.pc = "insert" => new.next <= new.last)
        /\ new.next - 1 = x.next
    BY <2>1, <2>2, <2>8
  <2> HIDE DEF x, rows
  <2> QED
    BY <2>1, <2>3, <2>5, <2>6, <2>7, <2>8, <2>9, XdOneExport
<1>5. CASE XdExportFails(e)
  <2> DEFINE x == xdExport[e]
             new == [x EXCEPT !.pc = "failed"]
  <2>1. new \in XdExports /\ new.pc = "failed"
    BY DEF XdIInv, XdTypeOK, XdExports
  <2>2. XdNotExports /\ UNCHANGED xdTable /\ xdFault' = xdFault \cup {e}
        /\ xdExport' = [xdExport EXCEPT ![e] = new]
    BY <1>5 DEF XdExportFails, GivenUp
  <2> HIDE DEF new
  <2> QED
    BY <2>1, <2>2, XdOneExport DEF XdIInv, XdTypeOK
<1> QED
  BY <1>1, <1>2, <1>3, <1>4, <1>5

\* The inductive step of the external databases.
LEMMA XdNextKeeps ==
  ASSUME XdIInv, [XdNext]_xdVars
  PROVE  XdIInv'
<1>1. CASE XdNext
  BY <1>1, XdAttemptKeeps, XdExpireKeeps, XdRequestKeeps, XdSurroundingsKeep, XdExportKeeps
     DEF XdNext
<1>2. CASE UNCHANGED xdVars
  <2>1. UNCHANGED <<xdConfig, xdPublic, xdReq, xdAttempts, xdExports>>
    BY <1>2 DEF xdVars
  <2> QED
    BY <2>1, XdExportsUntouched, XdLimitUntouched DEF XdIInv, XdTypeOK, xdAttempts, xdExports
<1> QED
  BY <1>1, <1>2

\* The invariant of the external databases.
LEMMA XdInvariance == XdSpec => []XdIInv
<1>1. XdIInv /\ [XdNext]_xdVars => XdIInv'
  BY XdNextKeeps
<1> QED
  BY <1>1, XdInitEstablishes, PTL DEF XdSpec

\* For any limit and any number of requests that count together or stop half-way,
\* allowExternalDbAttempt allows no more than the limit before the counter expires.
THEOREM LimitHolds == XdSpec => []AtMostLimitPerHour
<1>1. XdIInv => AtMostLimitPerHour
  BY DEF XdIInv, XdLimitOK, XdCounted, AtMostLimitPerHour
<1> QED
  BY <1>1, XdInvariance, PTL

\* A counter has an expiry, unless the one request that creates it is about to set it
\* or could not.
THEOREM OnlyLostExpiryLocksOut == XdSpec => []LockedOutOnlyByLostExpiry
<1>1. XdIInv => LockedOutOnlyByLostExpiry
  BY DEF XdIInv, XdLimitOK
<1> QED
  BY <1>1, XdInvariance, PTL

\* For any number of exports and entries, an export that reached its end put its whole
\* batch into the database that it opened, and only a failed exchange makes it fail.
THEOREM ExportsAreWhole == XdSpec => []ExportIsWholeOrFailed
<1>1. XdIInv => ExportIsWholeOrFailed
  BY DEF XdIInv, XdExportOK
<1> QED
  BY <1>1, XdInvariance, PTL

----------------------------------------------------------------------------
(***************************************************************************)
(* The migration (Schema).                                                 *)
(***************************************************************************)
(***************************************************************************)
(* The shape of the list of statements: nine tables are created first; in  *)
(* one place the old reactions are counted, copied and dropped; everything *)
(* else creates a table that is never dropped, adds a column that is never *)
(* dropped to one of the nine tables, or drops what nothing else names.  A *)
(* MODIFY comes behind the statement that adds its column (SchBacked).     *)
(***************************************************************************)
SchKinds == {"create", "add", "dropColumn", "count", "copy", "drop"}
SchNames == {"conversations", "conversation_participants", "messages", "message_read_status",
  "attachments", "message_reactions", "dm_conversation_stats", "dm_archive_log",
  "notifications", "reactions", "encryption_keys", "pinned_conversations",
  "channel_notification_settings", "user_archive_db_config"}
SchForms == {"idx_messages_conv_created", "idx_messages_conv_deleted_created", "idx_cp_user",
  "idx_reactions_message", "id(100)", "avatar_url", "owner_id", "type(direct)",
  "conversation_id(100)", "role", "last_read_at", "sender_content", "e2ee_type", "nonce",
  "content(medium)", "sender_content(medium)", "message_type", "voice_url", "voice_duration", "is_open",
  "notification_type", "sender_id",
  "channel_name", "none"}
SchGone == {"encryption_level", "iv", "auth_tag"}
SchStatements == [kind : SchKinds, table : SchNames, column : SchForms \cup SchGone]
SchDropped == {"reactions", "encryption_keys"}
SchFirst == {createTables[n].table : n \in 1..9}

SchPlain(s) ==
  \/ s.kind = "create" /\ s.table \notin SchDropped
  \/ s.kind = "add" /\ s.table \in SchFirst /\ s.column \in SchForms
  \/ s.kind = "dropColumn" /\ s.column \in SchGone
  \/ s.kind = "drop" /\ s.table = "encryption_keys"

SchBacked(q) ==
  \A n \in 1..Len(q) : \A x \in SchNeeds(q[n]) :
    \E k \in 1..Len(q) : k < n /\ q[k].kind = "add" /\ SchObject(q[k]) = x

SchAllPlain(q) ==
  q \in Seq(SchStatements) /\ SchBacked(q) /\ \A n \in 1..Len(q) : SchPlain(q[n])

\* The statements that move the old reactions follow the a-th.
SchShaped(q, a) ==
  /\ q \in Seq(SchStatements) /\ SchBacked(q) /\ a + 3 <= Len(q)
  /\ \A n \in 1..9 : q[n] = createTables[n]
  /\ \A n \in 1..Len(q) : n \notin (a + 1)..(a + 3) => SchPlain(q[n])
  /\ q[a + 1].kind = "count" /\ q[a + 2].kind = "copy"
  /\ q[a + 3].kind = "drop" /\ q[a + 3].table = "reactions"

\* The statements of one kind for the columns of a table.
LEMMA SchAllIs ==
  ASSUME NEW kind \in SchKinds, NEW table \in SchNames, NEW columns \in Seq(SchForms \cup SchGone)
  PROVE  /\ SchAll(kind, table, columns) \in Seq(SchStatements)
         /\ Len(SchAll(kind, table, columns)) = Len(columns)
         /\ \A n \in 1..Len(columns) : SchAll(kind, table, columns)[n] =
                 [kind |-> kind, table |-> table, column |-> columns[n]]
<1>1. DOMAIN columns = 1..Len(columns) /\ Len(columns) \in Nat
  OBVIOUS
<1>2. SchAll(kind, table, columns) =
        [n \in 1..Len(columns) |-> [kind |-> kind, table |-> table, column |-> columns[n]]]
  BY <1>1 DEF SchAll
<1>3. \A n \in 1..Len(columns) :
        [kind |-> kind, table |-> table, column |-> columns[n]] \in SchStatements
  BY DEF SchStatements
<1> QED
  BY <1>1, <1>2, <1>3

\* The statements that create tables.
LEMMA SchCreateIs ==
  ASSUME NEW tables \in Seq(SchNames)
  PROVE  /\ SchCreate(tables) \in Seq(SchStatements)
         /\ Len(SchCreate(tables)) = Len(tables)
         /\ \A n \in 1..Len(tables) : SchCreate(tables)[n] =
                 [kind |-> "create", table |-> tables[n], column |-> "none"]
<1> DEFINE Row(n) == [kind |-> "create", table |-> tables[n], column |-> "none"]
<1>1. DOMAIN tables = 1..Len(tables) /\ Len(tables) \in Nat
  OBVIOUS
<1>2. \A n \in 1..Len(tables) : Row(n) \in SchStatements
  BY DEF SchStatements, SchKinds, SchForms
<1>3. SchCreate(tables) = [n \in 1..Len(tables) |-> Row(n)]
  BY <1>1 DEF SchCreate
<1> HIDE DEF Row
<1>4. [n \in 1..Len(tables) |-> Row(n)] \in Seq(SchStatements)
  BY <1>1, <1>2
<1>5. \A n \in 1..Len(tables) : SchCreate(tables)[n] = Row(n)
  BY <1>3
<1>6. Len(SchCreate(tables)) = Len(tables)
  BY <1>1, <1>3
<1> QED
  BY <1>3, <1>4, <1>5, <1>6 DEF Row

\* Lists of columns and tables, as they are used below.
LEMMA SchCreatesPlain ==
  ASSUME NEW tables \in Seq(SchNames),
         \A n \in 1..Len(tables) : tables[n] \notin SchDropped
  PROVE  SchAllPlain(SchCreate(tables))
<1> DEFINE q == SchCreate(tables)
<1>1. q \in Seq(SchStatements) /\ Len(q) = Len(tables)
  BY SchCreateIs
<1>2. ASSUME NEW n \in 1..Len(q) PROVE SchPlain(q[n])
  <2>1. q[n] = [kind |-> "create", table |-> tables[n], column |-> "none"]
    BY <1>1, SchCreateIs
  <2>2. q[n].kind = "create" /\ q[n].table = tables[n]
    BY <2>1
  <2>3. tables[n] \notin SchDropped
    BY <1>1
  <2> HIDE DEF q
  <2> QED
    BY <2>2, <2>3 DEF SchPlain
<1>3. SchBacked(q)
  <2>1. ASSUME NEW n \in 1..Len(q) PROVE SchNeeds(q[n]) = {}
    <3>1. q[n] = [kind |-> "create", table |-> tables[n], column |-> "none"]
      BY <1>1, SchCreateIs
    <3> QED
      BY <3>1 DEF SchNeeds
  <2> HIDE DEF q
  <2> QED
    BY <2>1 DEF SchBacked
<1> QED
  BY <1>1, <1>2, <1>3 DEF SchAllPlain

\* A MODIFY that has its column before it in a part has it before it in the whole.
LEMMA SchBackedConcat ==
  ASSUME NEW p \in Seq(SchStatements), NEW q \in Seq(SchStatements), SchBacked(p), SchBacked(q)
  PROVE  SchBacked(p \o q)
<1> DEFINE r == p \o q
<1>1. /\ Len(r) = Len(p) + Len(q) /\ Len(p) \in Nat /\ Len(q) \in Nat
      /\ \A n \in 1..(Len(p) + Len(q)) :
           r[n] = IF n <= Len(p) THEN p[n] ELSE q[n - Len(p)]
  BY ConcatProperties
<1> HIDE DEF r
<1>2. ASSUME NEW n \in 1..Len(r), NEW x \in SchNeeds(r[n])
      PROVE  \E k \in 1..Len(r) : k < n /\ r[k].kind = "add" /\ SchObject(r[k]) = x
  <2>1. CASE n <= Len(p)
    <3>1. r[n] = p[n] /\ n \in 1..Len(p)
      BY <1>1, <2>1
    <3>2. PICK k \in 1..Len(p) : k < n /\ p[k].kind = "add" /\ SchObject(p[k]) = x
      BY <1>2, <3>1 DEF SchBacked
    <3>3. k \in 1..Len(r) /\ r[k] = p[k]
      BY <1>1
    <3> QED
      BY <3>2, <3>3
  <2>2. CASE n > Len(p)
    <3>1. r[n] = q[n - Len(p)] /\ n - Len(p) \in 1..Len(q)
      BY <1>1, <2>2
    <3>2. PICK k \in 1..Len(q) : k < n - Len(p) /\ q[k].kind = "add" /\ SchObject(q[k]) = x
      BY <1>2, <3>1 DEF SchBacked
    <3>3. /\ Len(p) + k \in 1..Len(r) /\ Len(p) + k < n
          /\ ~(Len(p) + k <= Len(p)) /\ Len(p) + k - Len(p) = k
      BY <1>1, <3>2
    <3>4. r[Len(p) + k] = q[k]
      BY <1>1, <3>3
    <3> QED
      BY <3>2, <3>3, <3>4
  <2> QED
    BY <1>1, <2>1, <2>2
<1> QED
  BY <1>2 DEF SchBacked, r

\* Plain lists one after the other are a plain list.
LEMMA SchPlainConcat ==
  ASSUME NEW p, NEW q, SchAllPlain(p), SchAllPlain(q)
  PROVE  SchAllPlain(p \o q)
<1>1. /\ p \o q \in Seq(SchStatements) /\ Len(p \o q) = Len(p) + Len(q)
      /\ \A n \in 1..(Len(p) + Len(q)) :
           (p \o q)[n] = IF n <= Len(p) THEN p[n] ELSE q[n - Len(p)]
  BY ConcatProperties DEF SchAllPlain
<1>2. ASSUME NEW n \in 1..Len(p \o q) PROVE SchPlain((p \o q)[n])
  <2>1. Len(p) \in Nat /\ Len(q) \in Nat
    BY DEF SchAllPlain
  <2>2. CASE n <= Len(p)
    BY <1>1, <2>1, <2>2 DEF SchAllPlain
  <2>3. CASE n > Len(p)
    <3>1. n - Len(p) \in 1..Len(q) /\ (p \o q)[n] = q[n - Len(p)]
      BY <1>1, <2>1, <2>3
    <3> QED
      BY <3>1 DEF SchAllPlain
  <2> QED
    BY <2>1, <2>2, <2>3
<1>3. SchBacked(p \o q)
  BY SchBackedConcat DEF SchAllPlain
<1> QED
  BY <1>1, <1>2, <1>3 DEF SchAllPlain

\* A plain list behind a shaped one leaves it its shape.
LEMMA SchShapedConcat ==
  ASSUME NEW q, NEW t, NEW a \in Nat, SchShaped(q, a), SchAllPlain(t), Len(q) >= 9
  PROVE  SchShaped(q \o t, a) /\ Len(q \o t) >= 9
<1>1. /\ q \o t \in Seq(SchStatements) /\ Len(q \o t) = Len(q) + Len(t)
      /\ \A n \in 1..(Len(q) + Len(t)) :
           (q \o t)[n] = IF n <= Len(q) THEN q[n] ELSE t[n - Len(q)]
  BY ConcatProperties DEF SchAllPlain, SchShaped
<1>2. Len(q) \in Nat /\ Len(t) \in Nat
  <2>1. q \in Seq(SchStatements) /\ t \in Seq(SchStatements)
    BY DEF SchAllPlain, SchShaped
  <2> QED
    BY <2>1, LenProperties
<1>3. \A n \in 1..Len(q) : (q \o t)[n] = q[n]
  BY <1>1, <1>2
<1>4. \A n \in 1..9 : (q \o t)[n] = createTables[n]
  <2>1. \A n \in 1..9 : q[n] = createTables[n]
    BY DEF SchShaped
  <2>2. 1..9 \subseteq 1..Len(q)
    BY <1>2
  <2> QED
    BY <1>3, <2>1, <2>2
<1>5. ASSUME NEW n \in 1..Len(q \o t), n \notin (a + 1)..(a + 3)
      PROVE  SchPlain((q \o t)[n])
  <2>1. CASE n <= Len(q)
    BY <1>2, <1>3, <1>5, <2>1 DEF SchShaped
  <2>2. CASE n > Len(q)
    <3>1. n - Len(q) \in 1..Len(t) /\ (q \o t)[n] = t[n - Len(q)]
      BY <1>1, <1>2, <2>2
    <3> QED
      BY <3>1 DEF SchAllPlain
  <2> QED
    BY <1>2, <2>1, <2>2
<1>6. a + 3 <= Len(q) /\ a + 3 <= Len(q \o t)
  BY <1>1, <1>2 DEF SchShaped
<1>7. /\ (q \o t)[a + 1].kind = "count" /\ (q \o t)[a + 2].kind = "copy"
      /\ (q \o t)[a + 3].kind = "drop" /\ (q \o t)[a + 3].table = "reactions"
  <2>1. a + 1 \in 1..Len(q) /\ a + 2 \in 1..Len(q) /\ a + 3 \in 1..Len(q)
    BY <1>2, <1>6
  <2> QED
    BY <1>3, <2>1 DEF SchShaped
<1>8. Len(q \o t) >= 9
  BY <1>1, <1>2
<1>9. SchShaped(q \o t, a)
  <2> DEFINE r == q \o t
  <2>3. SchBacked(r)
    BY SchBackedConcat DEF SchAllPlain, SchShaped
  <2> HIDE DEF r
  <2>1. /\ r \in Seq(SchStatements) /\ a + 3 <= Len(r)
        /\ \A n \in 1..9 : r[n] = createTables[n]
        /\ \A n \in 1..Len(r) : n \notin (a + 1)..(a + 3) => SchPlain(r[n])
        /\ r[a + 1].kind = "count" /\ r[a + 2].kind = "copy"
        /\ r[a + 3].kind = "drop" /\ r[a + 3].table = "reactions"
    BY <1>1, <1>4, <1>5, <1>6, <1>7 DEF r
  <2>2. SchShaped(r, a)
    BY <2>1, <2>3 DEF SchShaped
  <2> QED
    BY <2>2 DEF r
<1> QED
  BY <1>8, <1>9

\* The nine tables that are created first.
LEMMA SchFirstIs ==
  /\ {"conversations", "conversation_participants", "messages", "message_reactions",
      "dm_conversation_stats", "dm_archive_log", "notifications"} \subseteq SchFirst
  /\ SchFirst \subseteq SchNames
  /\ SchAllPlain(createTables) /\ Len(createTables) = 9
  /\ \A n \in 1..9 : createTables[n].kind = "create"
<1> DEFINE names == <<"conversations", "conversation_participants", "messages",
             "message_read_status", "attachments", "message_reactions", "dm_conversation_stats",
             "dm_archive_log", "notifications">>
<1>1. names \in Seq(SchNames) /\ Len(names) = 9
  BY DEF SchNames
<1>2. \A n \in 1..9 : names[n] \notin SchDropped
  BY DEF SchDropped
<1>3. createTables = SchCreate(names)
  BY DEF createTables
<1>4. \A n \in 1..9 : createTables[n].table = names[n] /\ createTables[n].kind = "create"
  <2> HIDE DEF names
  <2>1. \A n \in 1..9 : createTables[n] = [kind |-> "create", table |-> names[n], column |-> "none"]
    BY <1>1, <1>3, SchCreateIs
  <2>2. ASSUME NEW n \in 1..9
        PROVE  createTables[n].table = names[n] /\ createTables[n].kind = "create"
    <3>1. createTables[n] = [kind |-> "create", table |-> names[n], column |-> "none"]
      BY <2>1
    <3> QED
      BY <3>1
  <2> QED
    BY <2>2
<1>5. SchAllPlain(createTables) /\ Len(createTables) = 9
  <2> HIDE DEF names
  <2> QED
    BY <1>1, <1>2, <1>3, SchCreateIs, SchCreatesPlain
<1>6. SchFirst = {names[n] : n \in 1..9}
  BY <1>4 DEF SchFirst
<1>7. /\ names[1] \in SchFirst /\ names[2] \in SchFirst /\ names[3] \in SchFirst
      /\ names[6] \in SchFirst /\ names[7] \in SchFirst /\ names[8] \in SchFirst
      /\ names[9] \in SchFirst
  <2> HIDE DEF names
  <2> QED
    BY <1>6
<1>8. SchFirst \subseteq SchNames
  <2> HIDE DEF names
  <2>1. \A n \in 1..9 : names[n] \in SchNames
    BY <1>1, ElementOfSeq
  <2> QED
    BY <1>6, <2>1
<1> QED
  BY <1>4, <1>5, <1>7, <1>8

\* The statements that add to one of the nine tables are plain.
LEMMA SchAddsPlain ==
  ASSUME NEW table \in SchFirst, NEW columns \in Seq(SchForms),
         \A n \in 1..Len(columns) : columns[n] = "sender_content(medium)" =>
           \E k \in 1..Len(columns) : k < n /\ columns[k] = "sender_content"
  PROVE  SchAllPlain(SchAll("add", table, columns))
<1> DEFINE q == SchAll("add", table, columns)
<1>1. "add" \in SchKinds /\ table \in SchNames /\ columns \in Seq(SchForms \cup SchGone)
  <2>1. "add" \in SchKinds
    BY DEF SchKinds
  <2>2. table \in SchNames
    BY SchFirstIs
  <2>3. columns \in Seq(SchForms \cup SchGone)
    OBVIOUS
  <2> QED
    BY <2>1, <2>2, <2>3
<1>2. q \in Seq(SchStatements) /\ Len(q) = Len(columns)
  BY <1>1, SchAllIs
<1>3. ASSUME NEW n \in 1..Len(q) PROVE SchPlain(q[n])
  <2>1. q[n] = [kind |-> "add", table |-> table, column |-> columns[n]]
    BY <1>1, <1>2, SchAllIs
  <2>2. columns[n] \in SchForms
    BY <1>2
  <2> QED
    BY <2>1, <2>2 DEF SchPlain
<1>4. SchBacked(q)
  <2>1. \A n \in 1..Len(q) : q[n] = [kind |-> "add", table |-> table, column |-> columns[n]]
    BY <1>1, <1>2, SchAllIs
  <2>2. Len(q) = Len(columns)
    BY <1>2
  <2> HIDE DEF q
  <2>3. ASSUME NEW n \in 1..Len(q), NEW x \in SchNeeds(q[n])
        PROVE  \E k \in 1..Len(q) : k < n /\ q[k].kind = "add" /\ SchObject(q[k]) = x
    <3> DEFINE st == [kind |-> "add", table |-> table, column |-> columns[n]]
    <3>0. q[n] = st
      BY <2>1, <2>3
    <3>1. q[n].column = columns[n] /\ q[n].table = table
      <4>1. st.column = columns[n] /\ st.table = table
        OBVIOUS
      <4> QED
        BY <3>0, <4>1
    <3>2. columns[n] = "sender_content(medium)" /\ x = <<table, "sender_content">>
      BY <2>3, <3>1 DEF SchNeeds
    <3>3. PICK k \in 1..Len(q) : k < n /\ columns[k] = "sender_content"
      BY <2>2, <3>2
    <3>4. q[k] = [kind |-> "add", table |-> table, column |-> "sender_content"]
      BY <2>1, <3>3
    <3> QED
      BY <3>2, <3>3, <3>4 DEF SchObject
  <2> QED
    BY <2>3 DEF SchBacked
<1> QED
  BY <1>2, <1>3, <1>4 DEF SchAllPlain

\* The lists of the other statements.
LEMMA SchListsPlain ==
  /\ SchAllPlain(SchIndexes) /\ SchAllPlain(alterColumns) /\ SchAllPlain(SchDrops)
  /\ SchAllPlain(SchAdded) /\ SchAllPlain(SchNotified)
<1>1. SchAllPlain(SchIndexes)
  <2>1. SchAllPlain(SchAll("add", "messages", <<"idx_messages_conv_created", "idx_messages_conv_deleted_created">>))
    <3>1. /\ <<"idx_messages_conv_created", "idx_messages_conv_deleted_created">> \in Seq(SchForms)
          /\ \A n \in 1..Len(<<"idx_messages_conv_created", "idx_messages_conv_deleted_created">>) : <<"idx_messages_conv_created", "idx_messages_conv_deleted_created">>[n] # "sender_content(medium)"
      BY DEF SchForms
    <3>2. "messages" \in SchFirst
      BY SchFirstIs
    <3> QED
      BY <3>1, <3>2, SchAddsPlain
  <2>2. SchAllPlain(SchAll("add", "conversation_participants", <<"idx_cp_user">>))
    <3>1. /\ <<"idx_cp_user">> \in Seq(SchForms)
          /\ \A n \in 1..Len(<<"idx_cp_user">>) : <<"idx_cp_user">>[n] # "sender_content(medium)"
      BY DEF SchForms
    <3>2. "conversation_participants" \in SchFirst
      BY SchFirstIs
    <3> QED
      BY <3>1, <3>2, SchAddsPlain
  <2>3. SchAllPlain(SchAll("add", "message_reactions", <<"idx_reactions_message">>))
    <3>1. /\ <<"idx_reactions_message">> \in Seq(SchForms)
          /\ \A n \in 1..Len(<<"idx_reactions_message">>) : <<"idx_reactions_message">>[n] # "sender_content(medium)"
      BY DEF SchForms
    <3>2. "message_reactions" \in SchFirst
      BY SchFirstIs
    <3> QED
      BY <3>1, <3>2, SchAddsPlain
  <2> QED
    BY <2>1, <2>2, <2>3, SchPlainConcat DEF SchIndexes
<1>2. SchAllPlain(alterColumns)
  <2>1. SchAllPlain(SchAll("add", "conversations", <<"id(100)", "avatar_url", "owner_id", "type(direct)">>))
    <3>1. /\ <<"id(100)", "avatar_url", "owner_id", "type(direct)">> \in Seq(SchForms)
          /\ \A n \in 1..Len(<<"id(100)", "avatar_url", "owner_id", "type(direct)">>) : <<"id(100)", "avatar_url", "owner_id", "type(direct)">>[n] # "sender_content(medium)"
      BY DEF SchForms
    <3>2. "conversations" \in SchFirst
      BY SchFirstIs
    <3> QED
      BY <3>1, <3>2, SchAddsPlain
  <2>2. SchAllPlain(SchAll("add", "conversation_participants", <<"conversation_id(100)", "role", "last_read_at">>))
    <3>1. /\ <<"conversation_id(100)", "role", "last_read_at">> \in Seq(SchForms)
          /\ \A n \in 1..Len(<<"conversation_id(100)", "role", "last_read_at">>) : <<"conversation_id(100)", "role", "last_read_at">>[n] # "sender_content(medium)"
      BY DEF SchForms
    <3>2. "conversation_participants" \in SchFirst
      BY SchFirstIs
    <3> QED
      BY <3>1, <3>2, SchAddsPlain
  <2>3. SchAllPlain(SchAll("add", "messages", <<"conversation_id(100)">>))
    <3>1. /\ <<"conversation_id(100)">> \in Seq(SchForms)
          /\ \A n \in 1..Len(<<"conversation_id(100)">>) : <<"conversation_id(100)">>[n] # "sender_content(medium)"
      BY DEF SchForms
    <3>2. "messages" \in SchFirst
      BY SchFirstIs
    <3> QED
      BY <3>1, <3>2, SchAddsPlain
  <2>4. SchAllPlain(SchAll("add", "dm_conversation_stats", <<"conversation_id(100)">>))
    <3>1. /\ <<"conversation_id(100)">> \in Seq(SchForms)
          /\ \A n \in 1..Len(<<"conversation_id(100)">>) : <<"conversation_id(100)">>[n] # "sender_content(medium)"
      BY DEF SchForms
    <3>2. "dm_conversation_stats" \in SchFirst
      BY SchFirstIs
    <3> QED
      BY <3>1, <3>2, SchAddsPlain
  <2>5. SchAllPlain(SchAll("add", "dm_archive_log", <<"conversation_id(100)">>))
    <3>1. /\ <<"conversation_id(100)">> \in Seq(SchForms)
          /\ \A n \in 1..Len(<<"conversation_id(100)">>) : <<"conversation_id(100)">>[n] # "sender_content(medium)"
      BY DEF SchForms
    <3>2. "dm_archive_log" \in SchFirst
      BY SchFirstIs
    <3> QED
      BY <3>1, <3>2, SchAddsPlain
  <2>6. SchAllPlain(SchAll("add", "messages", <<"sender_content", "e2ee_type", "nonce", "content(medium)", "sender_content(medium)">>))
    <3> DEFINE columns == <<"sender_content", "e2ee_type", "nonce", "content(medium)",
                            "sender_content(medium)">>
    <3>1. /\ columns \in Seq(SchForms) /\ Len(columns) = 5
          /\ columns[1] = "sender_content"
          /\ \A n \in 1..4 : columns[n] # "sender_content(medium)"
      BY DEF SchForms
    <3>2. "messages" \in SchFirst
      BY SchFirstIs
    <3> HIDE DEF columns
    <3>3. \A n \in 1..Len(columns) : columns[n] = "sender_content(medium)" =>
            \E k \in 1..Len(columns) : k < n /\ columns[k] = "sender_content"
      BY <3>1
    <3>4. SchAllPlain(SchAll("add", "messages", columns))
      BY <3>1, <3>2, <3>3, SchAddsPlain
    <3> QED
      BY <3>4 DEF columns
  <2> QED
    BY <2>1, <2>2, <2>3, <2>4, <2>5, <2>6, SchPlainConcat DEF alterColumns
<1>3. SchAllPlain(SchDrops)
  <2> DEFINE columns == <<"encryption_level", "iv", "auth_tag">>
             drops == SchAll("dropColumn", "messages", columns)
             keys == SchOne("drop", "encryption_keys")
  <2>1. columns \in Seq(SchForms \cup SchGone) /\ Len(columns) = 3 /\ \A n \in 1..3 : columns[n] \in SchGone
    BY DEF SchGone
  <2>2. "dropColumn" \in SchKinds /\ "messages" \in SchNames
    BY DEF SchKinds, SchNames
  <2>3. SchAllPlain(drops)
    <3>b. \A n \in 1..3 : columns[n] # "sender_content(medium)"
      OBVIOUS
    <3> HIDE DEF columns
    <3>1. drops \in Seq(SchStatements) /\ Len(drops) = 3
      BY <2>1, <2>2, SchAllIs
    <3>2. ASSUME NEW n \in 1..3 PROVE SchPlain(drops[n])
      <4>1. drops[n] = [kind |-> "dropColumn", table |-> "messages", column |-> columns[n]]
        BY <2>1, <2>2, SchAllIs
      <4> QED
        BY <2>1, <4>1 DEF SchPlain
    <3>3. ASSUME NEW n \in 1..3 PROVE SchNeeds(drops[n]) = {}
      <4>1. drops[n] = [kind |-> "dropColumn", table |-> "messages", column |-> columns[n]]
        BY <2>1, <2>2, SchAllIs
      <4> QED
        BY <3>b, <4>1 DEF SchNeeds
    <3>4. SchBacked(drops)
      BY <3>1, <3>3 DEF SchBacked
    <3> QED
      BY <3>1, <3>2, <3>4 DEF SchAllPlain
  <2>4. SchAllPlain(keys)
    <3>1. keys \in Seq(SchStatements) /\ Len(keys) = 1
      BY DEF SchOne, SchStatements, SchKinds, SchNames, SchForms
    <3>2. keys[1].kind = "drop" /\ keys[1].table = "encryption_keys" /\ SchNeeds(keys[1]) = {}
      BY DEF SchOne, SchNeeds
    <3> QED
      BY <3>1, <3>2 DEF SchAllPlain, SchPlain, SchBacked
  <2> QED
    BY <2>3, <2>4, SchPlainConcat DEF SchDrops
<1>4. SchAllPlain(SchAdded)
  <2>1. SchAllPlain(SchAll("add", "messages", <<"message_type", "voice_url", "voice_duration">>))
    <3>1. /\ <<"message_type", "voice_url", "voice_duration">> \in Seq(SchForms)
          /\ \A n \in 1..Len(<<"message_type", "voice_url", "voice_duration">>) : <<"message_type", "voice_url", "voice_duration">>[n] # "sender_content(medium)"
      BY DEF SchForms
    <3>2. "messages" \in SchFirst
      BY SchFirstIs
    <3> QED
      BY <3>1, <3>2, SchAddsPlain
  <2>2. SchAllPlain(SchAll("add", "conversations", <<"is_open">>))
    <3>1. /\ <<"is_open">> \in Seq(SchForms)
          /\ \A n \in 1..Len(<<"is_open">>) : <<"is_open">>[n] # "sender_content(medium)"
      BY DEF SchForms
    <3>2. "conversations" \in SchFirst
      BY SchFirstIs
    <3> QED
      BY <3>1, <3>2, SchAddsPlain
  <2> QED
    BY <2>1, <2>2, SchPlainConcat DEF SchAdded
<1>5. SchAllPlain(SchNotified)
  <2>1. /\ <<"notification_type", "sender_id", "channel_name">> \in Seq(SchForms)
        /\ \A n \in 1..Len(<<"notification_type", "sender_id", "channel_name">>) : <<"notification_type", "sender_id", "channel_name">>[n] # "sender_content(medium)"
    BY DEF SchForms
  <2>2. "notifications" \in SchFirst
    BY SchFirstIs
  <2> QED
    BY <2>1, <2>2, SchAddsPlain DEF SchNotified
<1> QED
  BY <1>1, <1>2, <1>3, <1>4, <1>5

\* Where the statements that move the old reactions begin.
SchMoveAt == Len(createTables \o SchIndexes \o alterColumns)

\* The list of Migrate has the shape, its move of reactions behind alterColumns.
LEMMA SchMigrateShaped ==
  /\ SchMoveAt \in Nat
  /\ SchShaped(Migrate, SchMoveAt) /\ Len(Migrate) >= 9
<1> DEFINE head == createTables \o SchIndexes \o alterColumns
           a == Len(head)
<1>1. SchAllPlain(head)
  BY SchFirstIs, SchListsPlain, SchPlainConcat
<1>2. a \in Nat /\ a >= 9 /\ \A n \in 1..9 : head[n] = createTables[n]
  <2>1. /\ createTables \in Seq(SchStatements) /\ SchIndexes \in Seq(SchStatements)
        /\ alterColumns \in Seq(SchStatements)
    BY SchFirstIs, SchListsPlain DEF SchAllPlain
  <2>2. /\ createTables \o SchIndexes \in Seq(SchStatements)
        /\ Len(createTables \o SchIndexes) = 9 + Len(SchIndexes)
        /\ \A n \in 1..9 : (createTables \o SchIndexes)[n] = createTables[n]
    <3>1. Len(createTables) = 9 /\ Len(SchIndexes) \in Nat
      BY <2>1, SchFirstIs
    <3>2. /\ createTables \o SchIndexes \in Seq(SchStatements)
          /\ Len(createTables \o SchIndexes) = Len(createTables) + Len(SchIndexes)
          /\ \A n \in 1..(Len(createTables) + Len(SchIndexes)) :
               (createTables \o SchIndexes)[n] =
                 IF n <= Len(createTables) THEN createTables[n]
                                           ELSE SchIndexes[n - Len(createTables)]
      BY <2>1, ConcatProperties
    <3> QED
      BY <3>1, <3>2
  <2>3. /\ Len(head) = Len(createTables \o SchIndexes) + Len(alterColumns)
        /\ \A n \in 1..Len(createTables \o SchIndexes) : head[n] = (createTables \o SchIndexes)[n]
    <3> DEFINE two == createTables \o SchIndexes
    <3>1. two \in Seq(SchStatements) /\ head = two \o alterColumns
      BY <2>2
    <3> HIDE DEF two, head
    <3>2. Len(two) \in Nat /\ Len(alterColumns) \in Nat
      BY <2>1, <3>1
    <3>3. Len(head) = Len(two) + Len(alterColumns) /\ \A n \in 1..Len(two) : head[n] = two[n]
      BY <2>1, <3>1, <3>2, ConcatProperties
    <3> QED
      BY <3>3 DEF two, head
  <2>4. Len(SchIndexes) \in Nat /\ Len(alterColumns) \in Nat
    BY <2>1
  <2>5. a \in Nat /\ a >= 9 /\ Len(createTables \o SchIndexes) \in Nat
        /\ Len(createTables \o SchIndexes) >= 9
    BY <2>2, <2>3, <2>4
  <2>6. \A n \in 1..9 : head[n] = (createTables \o SchIndexes)[n]
    BY <2>3, <2>5
  <2> QED
    BY <2>2, <2>5, <2>6
<1>3. SchShaped(head \o SchOldReactions, a) /\ Len(head \o SchOldReactions) >= 9
  <2> DEFINE old == SchOldReactions
             q == head \o old
  <2>1. /\ old \in Seq(SchStatements) /\ Len(old) = 3
        /\ old[1].kind = "count" /\ old[2].kind = "copy"
        /\ old[3].kind = "drop" /\ old[3].table = "reactions"
    BY DEF SchOldReactions, SchOne, SchStatements, SchKinds, SchNames, SchForms
  <2>7. \A n \in 1..3 : SchNeeds(old[n]) = {}
    BY DEF SchOldReactions, SchOne, SchNeeds
  <2>2. head \in Seq(SchStatements) /\ \A n \in 1..a : SchPlain(head[n])
    BY <1>1 DEF SchAllPlain
  <2> HIDE DEF head, old
  <2>3. /\ q \in Seq(SchStatements) /\ Len(q) = a + 3
        /\ \A n \in 1..a : q[n] = head[n]
        /\ q[a + 1] = old[1] /\ q[a + 2] = old[2] /\ q[a + 3] = old[3]
    <3>1. /\ q \in Seq(SchStatements) /\ Len(q) = a + 3
          /\ \A n \in 1..(a + 3) : q[n] = IF n <= a THEN head[n] ELSE old[n - a]
      <4>1. /\ q \in Seq(SchStatements) /\ Len(q) = Len(head) + Len(old)
            /\ \A n \in 1..(Len(head) + Len(old)) :
                 q[n] = IF n <= Len(head) THEN head[n] ELSE old[n - Len(head)]
        BY <2>1, <2>2, ConcatProperties
      <4> QED
        BY <2>1, <4>1
    <3>2. \A n \in 1..a : q[n] = head[n]
      BY <1>2, <3>1
    <3>3. /\ q[a + 1] = old[a + 1 - a] /\ q[a + 2] = old[a + 2 - a]
          /\ q[a + 3] = old[a + 3 - a]
      BY <1>2, <3>1
    <3>4. a + 1 - a = 1 /\ a + 2 - a = 2 /\ a + 3 - a = 3
      BY <1>2
    <3> QED
      BY <3>1, <3>2, <3>3, <3>4
  <2>4. \A n \in 1..9 : q[n] = createTables[n]
    BY <1>2, <2>3
  <2>5. \A n \in 1..Len(q) : n \notin (a + 1)..(a + 3) => SchPlain(q[n])
    BY <1>2, <2>2, <2>3
  <2>8. SchBacked(q)
    <3>1. SchBacked(old)
      BY <2>1, <2>7 DEF SchBacked
    <3> QED
      BY <1>1, <2>1, <3>1, SchBackedConcat DEF SchAllPlain
  <2> HIDE DEF q
  <2>6. SchShaped(q, a) /\ Len(q) >= 9
    BY <1>2, <2>1, <2>3, <2>4, <2>5, <2>8 DEF SchShaped
  <2> QED
    BY <2>6 DEF q, old
<1>4. /\ SchAllPlain(SchCreate(<<"pinned_conversations", "channel_notification_settings">>))
      /\ SchAllPlain(SchCreate(<<"user_archive_db_config">>))
  <2> DEFINE pair == <<"pinned_conversations", "channel_notification_settings">>
             one == <<"user_archive_db_config">>
  <2>1. pair \in Seq(SchNames) /\ one \in Seq(SchNames) /\ Len(pair) = 2 /\ Len(one) = 1
    BY DEF SchNames
  <2>2. (\A n \in 1..2 : pair[n] \notin SchDropped) /\ \A n \in 1..1 : one[n] \notin SchDropped
    BY DEF SchDropped
  <2> HIDE DEF pair, one
  <2>3. SchAllPlain(SchCreate(pair)) /\ SchAllPlain(SchCreate(one))
    BY <2>1, <2>2, SchCreatesPlain
  <2> QED
    BY <2>3 DEF pair, one
<1> HIDE DEF head, a
<1>5. SchShaped(head \o SchOldReactions \o SchDrops, a)
      /\ Len(head \o SchOldReactions \o SchDrops) >= 9
  BY <1>2, <1>3, SchListsPlain, SchShapedConcat
<1>6. SchShaped(head \o SchOldReactions \o SchDrops \o SchAdded, a)
      /\ Len(head \o SchOldReactions \o SchDrops \o SchAdded) >= 9
  BY <1>2, <1>5, SchListsPlain, SchShapedConcat
<1> DEFINE six == head \o SchOldReactions \o SchDrops \o SchAdded
           seven == six \o SchCreate(<<"pinned_conversations", "channel_notification_settings">>)
           eight == seven \o SchNotified
<1>7. Migrate = eight \o SchCreate(<<"user_archive_db_config">>)
  BY DEF Migrate, head
<1> HIDE DEF six
<1>8. SchShaped(six, a) /\ Len(six) >= 9
  BY <1>6 DEF six
<1>9. SchShaped(seven, a) /\ Len(seven) >= 9
  BY <1>2, <1>4, <1>8, SchShapedConcat
<1> HIDE DEF seven
<1>10. SchShaped(eight, a) /\ Len(eight) >= 9
  BY <1>2, <1>9, SchListsPlain, SchShapedConcat
<1> HIDE DEF eight
<1>11. SchShaped(Migrate, a) /\ Len(Migrate) >= 9
  BY <1>2, <1>4, <1>7, <1>10, SchShapedConcat
<1> QED
  BY <1>2, <1>11 DEF SchMoveAt, a, head

\* What the statement under each number is.
LEMMA SchStatementIs ==
  /\ SchLength \in Nat /\ SchLength >= 9 /\ SchMoveAt \in Nat /\ SchMoveAt + 3 <= SchLength
  /\ \A n \in 1..SchLength : n \notin (SchMoveAt + 1)..(SchMoveAt + 3) => SchPlain(Migrate[n])
  /\ Migrate[SchMoveAt + 1].kind = "count" /\ Migrate[SchMoveAt + 2].kind = "copy"
  /\ Migrate[SchMoveAt + 3].kind = "drop" /\ Migrate[SchMoveAt + 3].table = "reactions"
  /\ \A n \in 1..9 : Migrate[n].kind = "create"
  /\ SchFirst = {Migrate[n].table : n \in 1..9}
  /\ \A n \in 1..SchLength : \A x \in SchNeeds(Migrate[n]) :
       \E k \in 1..SchLength : k < n /\ Migrate[k].kind = "add" /\ SchObject(Migrate[k]) = x
<1>1. SchLength \in Nat
  BY SchMigrateShaped DEF SchShaped, SchLength
<1>2. \A n \in 1..9 : Migrate[n] = createTables[n]
  BY SchMigrateShaped DEF SchShaped
<1>3. SchFirst = {Migrate[n].table : n \in 1..9}
  BY <1>2 DEF SchFirst
<1>4. \A n \in 1..9 : Migrate[n].kind = "create"
  BY <1>2, SchFirstIs
<1>5. SchBacked(Migrate)
  BY SchMigrateShaped DEF SchShaped
<1> QED
  BY <1>1, <1>3, <1>4, <1>5, SchMigrateShaped DEF SchShaped, SchLength, SchBacked

----------------------------------------------------------------------------
(***************************************************************************)
(* ServesCompleteSchema and NoReactionLost.  An instance has done, or has  *)
(* seen fail, all that is before its statement; what is done stays done,   *)
(* whoever migrates at the same time.  The old reactions can be dropped    *)
(* only by an instance whose copy succeeded, after which all of them are   *)
(* in the new table, or were taken back from there.                        *)
(***************************************************************************)
SchDid(i, n) ==
  /\ Migrate[n].kind = "create" => Migrate[n].table \in schTables
  /\ Migrate[n].kind = "add" => SchObject(Migrate[n]) \in schColumns \/ SchExcused(i, n)

SchDone == \A i \in SchInstance : \A n \in 1..SchLength : n < schAt[i] => SchDid(i, n)

SchMoved == schOld \subseteq schNew \cup schTaken
SchMovedFirst == \A i \in SchInstance : schAt[i] = SchMoveAt + 3 => SchMoved

SchNoOldColumn == \A x \in schColumns : x[1] \notin SchDropped

SchIInv == SchTypeOK /\ SchNoOldColumn /\ SchDone /\ SchMovedFirst /\ NoReactionLost

\* The two kinds of database that an instance may find.
LEMMA SchInitEstablishes == SchInit => SchIInv
<1> SUFFICES ASSUME SchInit PROVE SchIInv
  OBVIOUS
<1>1. {"conversations", "conversation_participants", "messages"} \subseteq SchTables
  <2>1. SchFirst \subseteq SchTables
    BY SchStatementIs DEF SchTables
  <2> QED
    BY <2>1, SchFirstIs
<1>2. \A x \in schColumns : x[1] \in schTables /\ x[1] \notin SchDropped
  BY DEF SchInit, SchDropped
<1>3. SchTypeOK
  <2>1. schTables \subseteq SchTables \cup {"reactions", "encryption_keys"}
    BY <1>1 DEF SchInit
  <2>2. schAt \in [SchInstance -> 0..(SchLength + 1)] /\ schStops \in 0..SchFaults
    BY SchStatementIs, SchAssumption DEF SchInit
  <2> QED
    BY <1>2, <2>1, <2>2 DEF SchInit, SchTypeOK
<1>4. SchDone /\ SchMovedFirst /\ NoReactionLost
  BY SchStatementIs DEF SchInit, SchDone, SchMovedFirst, NoReactionLost
<1> QED
  BY <1>2, <1>3, <1>4 DEF SchIInv, SchNoOldColumn

\* Nothing that a statement of this version made is undone.
LEMMA SchMadeStays ==
  ASSUME SchTypeOK, [SchNext]_schVars
  PROVE  /\ schTables \ SchDropped \subseteq schTables'
         /\ \A i \in SchInstance : schAt[i] # 0 => schFailed[i] \subseteq schFailed'[i]
         /\ \A x \in schColumns : x[2] \notin SchGone => x \in schColumns'
<1>1. ASSUME NEW i \in SchInstance, SchDoCreate(i) \/ SchDoAdd(i)
      PROVE  /\ schTables \subseteq schTables' /\ schColumns \subseteq schColumns'
             /\ schFailed' = schFailed
  BY <1>1 DEF SchDoCreate, SchDoAdd, SchHistory
<1>2. ASSUME NEW i \in SchInstance, SchDoDropColumn(i)
      PROVE  /\ schTables' = schTables /\ schFailed' = schFailed
             /\ \A x \in schColumns : x[2] \notin SchGone => x \in schColumns'
  <2>1. schAt[i] \in 1..SchLength /\ Migrate[schAt[i]].kind = "dropColumn"
    BY <1>2 DEF SchDoDropColumn, SchStatement, SchRuns
  <2>2. Migrate[schAt[i]].column \in SchGone
    BY <2>1, SchStatementIs DEF SchPlain
  <2>3. schColumns' = schColumns \ {SchObject(Migrate[schAt[i]])}
    BY <1>2 DEF SchDoDropColumn
  <2>4. SchObject(Migrate[schAt[i]])[2] = Migrate[schAt[i]].column
    BY DEF SchObject
  <2> QED
    BY <1>2, <2>2, <2>3, <2>4 DEF SchDoDropColumn, SchHistory
<1>3. ASSUME NEW i \in SchInstance, SchDoDrop(i)
      PROVE  /\ schTables \ SchDropped \subseteq schTables'
             /\ UNCHANGED <<schColumns, schFailed>>
  <2>1. schAt[i] \in 1..SchLength /\ Migrate[schAt[i]].kind = "drop"
    BY <1>3 DEF SchDoDrop, SchStatement, SchRuns
  <2>2. Migrate[schAt[i]].table \in SchDropped
    BY <2>1, SchStatementIs DEF SchPlain, SchDropped
  <2> QED
    BY <1>3, <2>2 DEF SchDoDrop, SchHistory
<1>4. ASSUME NEW i \in SchInstance,
             SchStart(i) \/ SchDoCount(i) \/ SchDoCopy(i) \/ SchFails(i) \/ SchStops(i)
      PROVE  /\ UNCHANGED <<schTables, schColumns>>
             /\ \A j \in SchInstance : schAt[j] # 0 => schFailed[j] \subseteq schFailed'[j]
  <2>1. UNCHANGED <<schTables, schColumns>>
    BY <1>4 DEF SchStart, SchDoCount, SchDoCopy, SchFails, SchStops, schData
  <2>2. \/ schAt[i] = 0 /\ schFailed' = [schFailed EXCEPT ![i] = {}]
        \/ schFailed' = schFailed
        \/ schFailed' = [schFailed EXCEPT ![i] = @ \cup {schAt[i]}]
    BY <1>4 DEF SchStart, SchDoCount, SchDoCopy, SchFails, SchStops, SchHistory
  <2>3. \A j \in SchInstance : schAt[j] # 0 => schFailed[j] \subseteq schFailed'[j]
    BY <2>2 DEF SchTypeOK
  <2> QED
    BY <2>1, <2>3
<1>5. ASSUME (\E x \in SchReaction : SchTakeBack(x)) \/ UNCHANGED schVars
      PROVE  UNCHANGED <<schTables, schColumns, schFailed>>
  BY <1>5 DEF SchTakeBack, schVars
<1> QED
  BY <1>1, <1>2, <1>3, <1>4, <1>5 DEF SchNext

\* What a statement did stays done, whatever any instance does next.
LEMMA SchDidStays ==
  ASSUME SchTypeOK, [SchNext]_schVars, NEW i \in SchInstance, schAt[i] # 0,
         NEW n \in 1..SchLength, SchDid(i, n)
  PROVE  SchDid(i, n)'
<1>1. CASE Migrate[n].kind = "create"
  <2>1. SchPlain(Migrate[n])
    BY <1>1, SchStatementIs
  <2>2. Migrate[n].table \notin SchDropped
    BY <1>1, <2>1 DEF SchPlain
  <2> QED
    BY <1>1, <2>2, SchMadeStays DEF SchDid
<1>2. CASE Migrate[n].kind = "add"
  <2>1. SchPlain(Migrate[n])
    BY <1>2, SchStatementIs
  <2>2. Migrate[n].column \notin SchGone
    BY <1>2, <2>1 DEF SchPlain, SchForms, SchGone
  <2>3. SchObject(Migrate[n])[2] = Migrate[n].column
    BY DEF SchObject
  <2>4. SchExcused(i, n) => SchExcused(i, n)'
    BY SchMadeStays DEF SchExcused
  <2> QED
    BY <1>2, <2>2, <2>3, <2>4, SchMadeStays DEF SchDid
<1>3. CASE Migrate[n].kind \notin {"create", "add"}
  BY <1>3 DEF SchDid
<1> QED
  BY <1>1, <1>2, <1>3

\* The columns of a statement go to a table that an earlier statement created.
LEMMA SchTableIsThere ==
  ASSUME SchTypeOK, SchDone, NEW i \in SchInstance, SchStatement(i, {"add"})
  PROVE  Migrate[schAt[i]].table \in schTables \ SchDropped
<1>1. schAt[i] \in 1..SchLength /\ Migrate[schAt[i]].kind = "add"
  BY DEF SchStatement, SchRuns
<1>2. schAt[i] \notin 1..9 /\ Migrate[schAt[i]].table \in SchFirst
  <2>1. schAt[i] \notin 1..9
    BY <1>1, SchStatementIs
  <2>2. schAt[i] \notin (SchMoveAt + 1)..(SchMoveAt + 3)
    <3>1. schAt[i] \notin {SchMoveAt + 1, SchMoveAt + 2, SchMoveAt + 3}
      BY <1>1, SchStatementIs, Zenon
    <3> QED
      BY <1>1, <3>1, SchStatementIs
  <2>3. SchPlain(Migrate[schAt[i]])
    BY <1>1, <2>2, SchStatementIs
  <2> QED
    BY <1>1, <2>1, <2>3 DEF SchPlain
<1>3. PICK n \in 1..9 : Migrate[n].table = Migrate[schAt[i]].table
  BY <1>2, SchStatementIs
<1>4. n \in 1..SchLength /\ n < schAt[i] /\ Migrate[n].kind = "create"
  BY <1>1, <1>2, SchStatementIs
<1>5. Migrate[n].table \in schTables
  BY <1>4 DEF SchDone, SchDid
<1>6. SchPlain(Migrate[n]) /\ Migrate[n].table \notin SchDropped
  BY <1>4, SchStatementIs DEF SchPlain
<1> QED
  BY <1>3, <1>5, <1>6

\* Where a step of an instance leads: everything it passes is done, and the statement
\* that drops the old reactions is only reached when they are in the new table.
SchAdvances(i) ==
  /\ \A j \in SchInstance \ {i} : schAt'[j] = schAt[j]
  /\ schAt'[i] \in 0..(SchLength + 1)
  /\ \A n \in 1..SchLength : schAt[i] <= n /\ n < schAt'[i] => SchDid(i, n)'
  /\ schAt'[i] = SchMoveAt + 3 => SchMoved'

\* A jump past statements that are done is an advance.
LEMMA SchGotoAdvances ==
  ASSUME SchTypeOK, NEW i \in SchInstance, NEW m \in 0..(SchLength + 1), SchGoto(i, m),
         \A n \in 1..SchLength : schAt[i] <= n /\ n < m => SchDid(i, n)',
         m = SchMoveAt + 3 => SchMoved'
  PROVE  SchAdvances(i) /\ schAt' \in [SchInstance -> 0..(SchLength + 1)] /\ schAt'[i] = m
BY DEF SchGoto, SchTypeOK, SchAdvances

\* Every step of an instance is an advance.
LEMMA SchStepAdvances ==
  ASSUME SchTypeOK, SchDone, SchMovedFirst, NEW i \in SchInstance, NEW at, at = schAt[i],
         \/ SchStart(i) \/ SchDoCreate(i) \/ SchDoAdd(i) \/ SchDoDropColumn(i)
         \/ SchDoCount(i) \/ SchDoCopy(i) \/ SchDoDrop(i) \/ SchFails(i) \/ SchStops(i)
  PROVE  SchAdvances(i) /\ schAt' \in [SchInstance -> 0..(SchLength + 1)]
<1> DEFINE a == SchMoveAt
           Goal == SchAdvances(i) /\ schAt' \in [SchInstance -> 0..(SchLength + 1)]
<1>a. /\ at \in 0..(SchLength + 1) /\ SchLength \in Nat /\ a \in Nat /\ a + 3 <= SchLength
  BY SchStatementIs DEF SchTypeOK
<1>b. ASSUME SchRuns(i), Migrate[at].kind \notin {"count", "copy"}
      PROVE  at \in 1..SchLength /\ at # a + 1 /\ at # a + 2 /\ at + 1 # a + 3
  <2>1. at \in 1..SchLength /\ at # a + 1 /\ at # a + 2
    BY <1>b, SchStatementIs DEF SchRuns
  <2> QED
    BY <1>a, <2>1
<1>c. ASSUME SchGoto(i, at + 1), SchRuns(i), SchDid(i, at)', Migrate[at].kind \notin {"count", "copy"}
      PROVE  Goal
  <2>1. at + 1 \in 0..(SchLength + 1) /\ at + 1 # a + 3
    BY <1>a, <1>b, <1>c
  <2>2. \A n \in 1..SchLength : at <= n /\ n < at + 1 => n = at
    BY <1>a
  <2>3. \A n \in 1..SchLength : schAt[i] <= n /\ n < at + 1 => SchDid(i, n)'
    BY <1>c, <2>2
  <2> HIDE DEF a
  <2> QED
    BY <1>c, <2>1, <2>3, SchGotoAdvances DEF a
<1>d. ASSUME SchGoto(i, 0) \/ (SchGoto(i, 1) /\ at = 0)
      PROVE  Goal
  <2>1. \A n \in 1..SchLength : ~(n < 0) /\ ~(n < 1)
    OBVIOUS
  <2>2. 0 \in 0..(SchLength + 1) /\ 1 \in 0..(SchLength + 1) /\ 0 # a + 3 /\ 1 # a + 3
    BY <1>a
  <2> QED
    BY <1>d, <2>1, <2>2, SchGotoAdvances
\* What is skipped moves the old reactions, and is no part of what is wanted.
<1>e. ASSUME NEW m \in {a + 2, a + 4}, SchGoto(i, m), at \in {a + 1, a + 2}
      PROVE  Goal
  <2>1. ASSUME NEW n \in 1..SchLength, at <= n, n < m PROVE SchDid(i, n)'
    <3>1. n \in {a + 1, a + 2, a + 3}
      BY <1>a, <1>e, <2>1
    <3>2. Migrate[n].kind \notin {"create", "add"}
      BY <3>1, SchStatementIs
    <3> QED
      BY <3>2 DEF SchDid
  <2>2. m \in 0..(SchLength + 1) /\ m # a + 3
    BY <1>a, <1>e
  <2> QED
    BY <1>e, <2>1, <2>2, SchGotoAdvances
<1>1. CASE SchStart(i) \/ SchStops(i)
  BY <1>1, <1>d DEF SchStart, SchStops
<1>2. CASE SchDoCreate(i)
  <2>1. SchRuns(i) /\ Migrate[at].kind = "create" /\ SchGoto(i, at + 1)
    BY <1>2 DEF SchDoCreate, SchStatement, SchGoesOn
  <2>2. Migrate[at].table \in schTables'
    BY <1>2 DEF SchDoCreate
  <2> QED
    BY <1>c, <2>1, <2>2 DEF SchDid
<1>3. CASE SchDoAdd(i)
  <2>1. SchRuns(i) /\ Migrate[at].kind = "add" /\ SchGoto(i, at + 1)
    BY <1>3 DEF SchDoAdd, SchStatement, SchGoesOn
  <2>2. Migrate[at].table \in schTables
    BY <1>3, SchTableIsThere DEF SchDoAdd
  <2>3. CASE SchNeeds(Migrate[at]) \subseteq schColumns
    <3>1. SchObject(Migrate[at]) \in schColumns'
      BY <1>3, <2>2, <2>3 DEF SchDoAdd, SchApplies
    <3> QED
      BY <1>c, <2>1, <3>1 DEF SchDid
  <2>4. CASE ~(SchNeeds(Migrate[at]) \subseteq schColumns)
    <3>1. at \in 1..SchLength
      BY <2>1 DEF SchRuns
    <3>2. PICK x \in SchNeeds(Migrate[at]) : x \notin schColumns
      BY <2>4
    <3>3. PICK k \in 1..SchLength : k < at /\ Migrate[k].kind = "add" /\ SchObject(Migrate[k]) = x
      BY <3>1, SchStatementIs
    <3>4. SchExcused(i, k)
      BY <3>2, <3>3 DEF SchDone, SchDid
    <3>5. SchNeeds(Migrate[k]) = {}
      BY <3>3 DEF SchNeeds, SchObject
    <3>6. k \in schFailed[i] /\ schFailed' = schFailed
      BY <1>3, <3>4, <3>5 DEF SchExcused, SchDoAdd, SchHistory
    <3>7. SchExcused(i, at)'
      BY <3>3, <3>6 DEF SchExcused
    <3>8. SchDid(i, at)'
      BY <2>1, <3>7 DEF SchDid
    <3> QED
      BY <1>c, <2>1, <3>8
  <2> QED
    BY <2>3, <2>4
<1>4. CASE SchDoDropColumn(i)
  <2>1. SchRuns(i) /\ Migrate[at].kind = "dropColumn" /\ SchGoto(i, at + 1)
    BY <1>4 DEF SchDoDropColumn, SchStatement, SchGoesOn
  <2> QED
    BY <1>c, <2>1 DEF SchDid
<1>5. CASE SchDoDrop(i)
  <2>1. SchRuns(i) /\ Migrate[at].kind = "drop" /\ SchGoto(i, at + 1)
    BY <1>5 DEF SchDoDrop, SchStatement, SchGoesOn
  <2> QED
    BY <1>c, <2>1 DEF SchDid
<1>k. /\ SchStatement(i, {"count"}) => at = a + 1
      /\ SchStatement(i, {"copy"}) => at = a + 2
  <2>1. \A n \in 1..SchLength : /\ Migrate[n].kind = "count" => n = a + 1
                                /\ Migrate[n].kind = "copy" => n = a + 2
    <3>1. ASSUME NEW n \in 1..SchLength, Migrate[n].kind \in {"count", "copy"}
          PROVE  n \in {a + 1, a + 2, a + 3}
      <4>1. ~SchPlain(Migrate[n])
        BY <3>1 DEF SchPlain
      <4>2. n \in (a + 1)..(a + 3)
        BY <4>1, SchStatementIs
      <4> QED
        BY <1>a, <4>2
    <3> QED
      BY <3>1, SchStatementIs
  <2> QED
    BY <2>1 DEF SchStatement, SchRuns
<1>6. CASE SchDoCount(i)
  <2>1. at = a + 1 /\ (SchGoto(i, at + 1) \/ SchGoto(i, at + 3))
    BY <1>6, <1>k DEF SchDoCount
  <2>2. at + 1 = a + 2 /\ at + 3 = a + 4
    BY <1>a, <2>1
  <2> QED
    BY <1>e, <2>1, <2>2
<1>7. CASE SchDoCopy(i)
  <2>1. at = a + 2 /\ (SchGoto(i, at + 1) \/ SchGoto(i, at + 2)) /\ SchMoved'
    BY <1>7, <1>k DEF SchDoCopy, SchAfterCopy, SchMoved, SchHistory
  <2>2. at + 1 = a + 3 /\ at + 2 = a + 4
    BY <1>a, <2>1
  <2>3. CASE SchGoto(i, at + 1)
    <3>1. ASSUME NEW n \in 1..SchLength, schAt[i] <= n, n < a + 3 PROVE SchDid(i, n)'
      <4>1. n = a + 2
        BY <1>a, <2>1, <3>1
      <4> QED
        BY <4>1, SchStatementIs DEF SchDid
    <3>2. a + 3 \in 0..(SchLength + 1)
      BY <1>a
    <3> QED
      BY <2>1, <2>2, <2>3, <3>1, <3>2, SchGotoAdvances
  <2> QED
    BY <1>e, <2>1, <2>2, <2>3
<1>8. CASE SchFails(i)
  <2>1. SchRuns(i) /\ at \in schFailed'[i]
    BY <1>8 DEF SchFails, SchTypeOK
  <2>2. CASE SchStatement(i, {"create"})
    <3>1. SchGoto(i, 0)
      BY <1>8, <2>2 DEF SchFails, SchStatement
    <3> QED
      BY <1>d, <3>1
  <2>3. CASE SchStatement(i, {"count"})
    <3>1. at = a + 1 /\ at + 3 = a + 4
      BY <1>a, <1>k, <2>3
    <3>2. SchGoto(i, at + 3)
      BY <1>8, <2>3 DEF SchFails, SchStatement
    <3> QED
      BY <1>e, <3>1, <3>2
  <2>4. CASE SchStatement(i, {"copy"})
    <3>1. at = a + 2 /\ at + 2 = a + 4
      BY <1>a, <1>k, <2>4
    <3>2. SchGoto(i, at + 2)
      BY <1>8, <2>4 DEF SchFails, SchStatement, SchAfterCopy
    <3> QED
      BY <1>e, <3>1, <3>2
  <2>5. CASE Migrate[at].kind \notin {"create", "count", "copy"}
    <3>1. SchGoto(i, at + 1)
      BY <1>8, <2>5 DEF SchFails, SchStatement
    <3>2. SchDid(i, at)'
      BY <2>1, <2>5 DEF SchDid, SchExcused
    <3> QED
      BY <1>c, <2>1, <2>5, <3>1, <3>2
  <2> QED
    BY <2>1, <2>2, <2>3, <2>4, <2>5 DEF SchStatement
<1> QED
  BY <1>1, <1>2, <1>3, <1>4, <1>5, <1>6, <1>7, <1>8

\* The instances migrate beside each other: what one has passed stays done.
LEMMA SchProgressKept ==
  ASSUME SchTypeOK, SchDone, SchMovedFirst, [SchNext]_schVars
  PROVE  SchDone' /\ SchMovedFirst' /\ schAt' \in [SchInstance -> 0..(SchLength + 1)]
<1>1. SchMoved => SchMoved'
  <2>1. ASSUME NEW i \in SchInstance, SchDoCopy(i) \/ SchDoDrop(i) PROVE SchMoved => SchMoved'
    BY <2>1 DEF SchDoCopy, SchDoDrop, SchMoved, SchHistory
  <2>2. ASSUME NEW x \in SchReaction, SchTakeBack(x) PROVE SchMoved => SchMoved'
    BY <2>2 DEF SchTakeBack, SchMoved
  <2>3. ASSUME NEW i \in SchInstance,
               \/ SchStart(i) \/ SchDoCreate(i) \/ SchDoAdd(i) \/ SchDoDropColumn(i)
               \/ SchDoCount(i) \/ SchFails(i) \/ SchStops(i)
        PROVE  UNCHANGED <<schOld, schNew, schTaken>>
    BY <2>3 DEF SchStart, SchDoCreate, SchDoAdd, SchDoDropColumn, SchDoCount, SchFails, SchStops,
                schData, SchHistory
  <2>4. CASE UNCHANGED schVars
    BY <2>4 DEF schVars, SchMoved
  <2> QED
    BY <2>1, <2>2, <2>3, <2>4 DEF SchNext, SchMoved
<1>2. CASE UNCHANGED schAt
  <2>1. ASSUME NEW i \in SchInstance, NEW n \in 1..SchLength, n < schAt'[i] PROVE SchDid(i, n)'
    <3>1. n < schAt[i] /\ schAt[i] # 0
      BY <1>2, <2>1
    <3> QED
      BY <3>1, SchDidStays DEF SchDone
  <2>2. SchDone'
    BY <2>1 DEF SchDone
  <2> QED
    BY <1>1, <1>2, <2>2 DEF SchMovedFirst, SchTypeOK
<1>3. CASE \E i \in SchInstance :
             \/ SchStart(i) \/ SchDoCreate(i) \/ SchDoAdd(i) \/ SchDoDropColumn(i)
             \/ SchDoCount(i) \/ SchDoCopy(i) \/ SchDoDrop(i) \/ SchFails(i) \/ SchStops(i)
  <2>1. PICK i \in SchInstance :
             \/ SchStart(i) \/ SchDoCreate(i) \/ SchDoAdd(i) \/ SchDoDropColumn(i)
             \/ SchDoCount(i) \/ SchDoCopy(i) \/ SchDoDrop(i) \/ SchFails(i) \/ SchStops(i)
    BY <1>3
  <2>2. SchAdvances(i) /\ schAt' \in [SchInstance -> 0..(SchLength + 1)]
    BY <2>1, SchStepAdvances
  <2>3. ASSUME NEW j \in SchInstance, NEW n \in 1..SchLength, n < schAt'[j] PROVE SchDid(j, n)'
    <3>1. CASE n < schAt[j]
      <4>1. schAt[j] # 0
        BY <3>1
      <4> QED
        BY <3>1, <4>1, SchDidStays DEF SchDone
    <3>2. CASE ~(n < schAt[j])
      <4>1. schAt[j] \in Int /\ n \in Int
        BY SchStatementIs DEF SchTypeOK
      <4>2. schAt[j] <= n
        BY <3>2, <4>1
      <4>3. j = i
        BY <2>2, <2>3, <3>2 DEF SchAdvances
      <4> QED
        BY <2>2, <2>3, <4>2, <4>3 DEF SchAdvances
    <3> QED
      BY <3>1, <3>2
  <2>4. ASSUME NEW j \in SchInstance, schAt'[j] = SchMoveAt + 3 PROVE SchMoved'
    BY <1>1, <2>2, <2>4 DEF SchAdvances, SchMovedFirst
  <2>5. SchDone'
    BY <2>3 DEF SchDone
  <2>6. SchMovedFirst'
    BY <2>4 DEF SchMovedFirst, SchMoveAt
  <2> QED
    BY <2>2, <2>5, <2>6
<1> QED
  BY <1>2, <1>3 DEF SchNext, SchTakeBack, schVars

\* The tables and columns keep their types: no column is left without its table.
LEMMA SchTypesKept ==
  ASSUME SchTypeOK, SchNoOldColumn, SchDone, schAt' \in [SchInstance -> 0..(SchLength + 1)],
         [SchNext]_schVars
  PROVE  SchTypeOK' /\ SchNoOldColumn'
<1> USE SchAssumption
<1> DEFINE Owned(columns, tables) ==
             \A x \in columns : x[1] \in tables /\ x[1] \notin SchDropped
<1>a. Owned(schColumns, schTables)
  BY DEF SchTypeOK, SchNoOldColumn
<1>1. ASSUME NEW i \in SchInstance, SchDoCreate(i) PROVE SchTypeOK' /\ SchNoOldColumn'
  <2> DEFINE t == Migrate[schAt[i]].table
  <2>1. schAt[i] \in 1..SchLength /\ Migrate[schAt[i]].kind = "create"
    BY <1>1 DEF SchDoCreate, SchStatement, SchRuns
  <2>2. t \in SchTables /\ t \notin SchDropped
    BY <2>1, SchStatementIs DEF SchTables, SchPlain
  <2>3. /\ schTables' = schTables \cup {t}
        /\ schColumns' \subseteq schColumns \cup ({t} \X SchBorn(t))
    BY <1>1 DEF SchDoCreate
  <2> HIDE DEF t
  <2>4. Owned(schColumns', schTables')
    BY <1>a, <2>2, <2>3
  <2> QED
    BY <1>1, <2>2, <2>3, <2>4 DEF SchDoCreate, SchHistory, SchTypeOK, SchNoOldColumn
<1>2. ASSUME NEW i \in SchInstance, SchDoAdd(i) PROVE SchTypeOK' /\ SchNoOldColumn'
  <2>1. Migrate[schAt[i]].table \in schTables \ SchDropped
    BY <1>2, SchTableIsThere DEF SchDoAdd
  <2>2. schColumns' \subseteq schColumns \cup {SchObject(Migrate[schAt[i]])} /\ schTables' = schTables
    BY <1>2 DEF SchDoAdd
  <2>3. SchObject(Migrate[schAt[i]])[1] = Migrate[schAt[i]].table
    BY DEF SchObject
  <2>4. Owned(schColumns', schTables')
    BY <1>a, <2>1, <2>2, <2>3
  <2> QED
    BY <1>2, <2>2, <2>4 DEF SchDoAdd, SchHistory, SchTypeOK, SchNoOldColumn
<1>3. ASSUME NEW i \in SchInstance, SchDoDropColumn(i) PROVE SchTypeOK' /\ SchNoOldColumn'
  <2>1. schColumns' \subseteq schColumns /\ schTables' = schTables
    BY <1>3 DEF SchDoDropColumn
  <2> QED
    BY <1>3, <2>1 DEF SchDoDropColumn, SchHistory, SchTypeOK, SchNoOldColumn
<1>4. ASSUME NEW i \in SchInstance, SchDoDrop(i) PROVE SchTypeOK' /\ SchNoOldColumn'
  <2>1. schTables' \subseteq schTables /\ schColumns' = schColumns /\ schOld' \subseteq schOld
    BY <1>4 DEF SchDoDrop
  <2>2. Owned(schColumns', schTables')
    BY <1>a, <1>4, <2>1, SchMadeStays DEF SchNext
  <2> QED
    BY <1>4, <2>1, <2>2 DEF SchDoDrop, SchHistory, SchTypeOK, SchNoOldColumn
<1>5. ASSUME NEW i \in SchInstance, SchStart(i) \/ SchDoCount(i) \/ SchDoCopy(i)
      PROVE  SchTypeOK' /\ SchNoOldColumn'
  BY <1>5 DEF SchStart, SchDoCount, SchDoCopy, schData, SchHistory, SchTypeOK, SchNoOldColumn
<1>6. ASSUME NEW i \in SchInstance, SchFails(i) \/ SchStops(i)
      PROVE  SchTypeOK' /\ SchNoOldColumn'
  <2>1. /\ UNCHANGED <<schData, schGiven, schTaken>>
        /\ schStops < SchFaults /\ schStops' = schStops + 1
        /\ \/ SchRuns(i) /\ schFailed' = [schFailed EXCEPT ![i] = @ \cup {schAt[i]}]
           \/ schFailed' = schFailed
    BY <1>6, Zenon DEF SchFails, SchStops
  <2>2. schStops' \in 0..SchFaults
    BY <2>1, SchAssumption DEF SchTypeOK
  <2>3. schFailed' \in [SchInstance -> SUBSET (1..SchLength)]
    BY <2>1 DEF SchRuns, SchTypeOK
  <2> QED
    BY <2>1, <2>2, <2>3 DEF schData, SchTypeOK, SchNoOldColumn
<1>7. ASSUME NEW x \in SchReaction, SchTakeBack(x) PROVE SchTypeOK' /\ SchNoOldColumn'
  BY <1>7 DEF SchTakeBack, SchTypeOK, SchNoOldColumn
<1>8. CASE UNCHANGED schVars
  BY <1>8 DEF schVars, SchTypeOK, SchNoOldColumn
<1> QED
  BY <1>1, <1>2, <1>3, <1>4, <1>5, <1>6, <1>7, <1>8 DEF SchNext

\* Only the drop takes rows of the old reactions away, and only after the copy.
LEMMA SchReactionsKept ==
  ASSUME SchTypeOK, SchMovedFirst, NoReactionLost, [SchNext]_schVars
  PROVE  NoReactionLost'
<1>1. ASSUME NEW i \in SchInstance, SchDoDrop(i) PROVE NoReactionLost'
  <2>1. CASE Migrate[schAt[i]].table = "reactions"
    <3>1. schAt[i] \in 1..SchLength /\ ~SchPlain(Migrate[schAt[i]])
      BY <1>1, <2>1 DEF SchDoDrop, SchStatement, SchRuns, SchPlain
    <3>2. schAt[i] \in (SchMoveAt + 1)..(SchMoveAt + 3)
      BY <3>1, SchStatementIs
    <3>3. Migrate[schAt[i]].kind = "drop"
      BY <1>1 DEF SchDoDrop, SchStatement
    <3>4. schAt[i] = SchMoveAt + 3
      BY <3>2, <3>3, SchStatementIs
    <3>5. SchMoved
      BY <3>4 DEF SchMovedFirst
    <3> QED
      BY <1>1, <3>5 DEF SchDoDrop, SchMoved, SchHistory, NoReactionLost
  <2>2. CASE Migrate[schAt[i]].table # "reactions"
    BY <1>1, <2>2 DEF SchDoDrop, SchHistory, NoReactionLost
  <2> QED
    BY <2>1, <2>2
<1>2. ASSUME NEW i \in SchInstance, SchDoCopy(i) PROVE NoReactionLost'
  BY <1>2 DEF SchDoCopy, SchHistory, NoReactionLost
<1>3. ASSUME NEW x \in SchReaction, SchTakeBack(x) PROVE NoReactionLost'
  BY <1>3 DEF SchTakeBack, NoReactionLost
<1>4. ASSUME NEW i \in SchInstance,
             \/ SchStart(i) \/ SchDoCreate(i) \/ SchDoAdd(i) \/ SchDoDropColumn(i)
             \/ SchDoCount(i) \/ SchFails(i) \/ SchStops(i)
      PROVE  UNCHANGED <<schOld, schNew, schTaken, schGiven>>
  BY <1>4 DEF SchStart, SchDoCreate, SchDoAdd, SchDoDropColumn, SchDoCount, SchFails, SchStops,
              schData, SchHistory
<1>5. CASE UNCHANGED schVars
  BY <1>5 DEF schVars, NoReactionLost
<1> QED
  BY <1>1, <1>2, <1>3, <1>4, <1>5 DEF SchNext, NoReactionLost

\* The inductive step of the migration.
LEMMA SchNextKeeps ==
  ASSUME SchIInv, [SchNext]_schVars
  PROVE  SchIInv'
BY SchProgressKept, SchTypesKept, SchReactionsKept DEF SchIInv

\* The invariant of the migration.
LEMMA SchInvariance == SchSpec => []SchIInv
<1>1. SchIInv /\ [SchNext]_schVars => SchIInv'
  BY SchNextKeeps
<1> QED
  BY <1>1, SchInitEstablishes, PTL DEF SchSpec

\* Whatever statements fail and whatever instances migrate at the same time, stop and
\* start over: the old reactions are dropped after all of them were copied.
THEOREM ReactionsAreMoved == SchSpec => []NoReactionLost
<1>1. SchIInv => NoReactionLost
  BY DEF SchIInv
<1> QED
  BY <1>1, SchInvariance, PTL

\* An instance that serves finds all it needs but for what its own start failed to add:
\* no other instance, and no earlier start, leaves it on half a schema.
THEOREM SchemaIsComplete == SchSpec => []ServesCompleteSchema
<1>1. SchIInv => ServesCompleteSchema
  <2> SUFFICES ASSUME SchIInv, NEW i \in SchInstance, SchServes(i)
               PROVE  /\ SchTables \subseteq schTables
                      /\ \A n \in SchMissing : SchExcused(i, n)
    BY DEF ServesCompleteSchema
  <2>1. \A n \in 1..SchLength : SchDid(i, n)
    <3>1. \A n \in 1..SchLength : n < SchLength + 1
      BY SchStatementIs
    <3> QED
      BY <3>1 DEF SchIInv, SchDone, SchServes
  <2>2. SchTables \subseteq schTables
    BY <2>1 DEF SchTables, SchDid
  <2>3. \A n \in SchMissing : SchExcused(i, n)
    BY <2>1 DEF SchMissing, SchDid
  <2> QED
    BY <2>2, <2>3
<1> QED
  BY <1>1, SchInvariance, PTL

----------------------------------------------------------------------------
(***************************************************************************)
(* The three parts together.                                               *)
(***************************************************************************)
(* The composed specification implements each of the three: a step of one  *)
(* is a stutter of the others, whose variables it leaves.  Every theorem   *)
(* about one of them is therefore one about their composition.             *)
THEOREM EachPartIsServed == ServiceSpec => UsSpec /\ XdSpec /\ SchSpec
<1>1. ServiceInit => UsInit /\ XdInit /\ SchInit
  BY DEF ServiceInit
<1>2. [ServiceNext]_<<focus, usVars, xdVars, schVars>>
        => [UsNext]_usVars /\ [XdNext]_xdVars /\ [SchNext]_schVars
  BY DEF ServiceNext, UsNext
<1> QED
  BY <1>1, <1>2, PTL DEF ServiceSpec, UsSpec, XdSpec, SchSpec

(* Every variable of the three parts keeps its type, for all constants: no *)
(* counter leaves its range, no export goes past the end of its batch and  *)
(* no instance stands past the end of the list of statements.              *)
THEOREM ServiceTypes == ServiceSpec => []ServiceTypeOK
<1>1. UsIInv /\ XdIInv /\ SchIInv => ServiceTypeOK
  BY DEF UsIInv, XdIInv, SchIInv, ServiceTypeOK
<1> QED
  BY <1>1, EachPartIsServed, UsInvariance, XdInvariance, SchInvariance, PTL
=============================================================================
