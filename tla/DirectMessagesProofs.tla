----------------------- MODULE DirectMessagesProofs -----------------------
(***************************************************************************)
(* What holds of DirectMessages for every number of users, conversations,  *)
(* messages and requests in flight.                                        *)
(***************************************************************************)
EXTENDS DirectMessages, FiniteSetTheorems, SequenceTheorems, TLAPS

AtMostOne == {{}} \cup {{m} : m \in DmMessage}
DmRequests == [pc : DmPcs, who : DmUser, conv : DmConv, msg : AtMostOne,
             type : {"dm", "group"}, left : Seq(DmUser), alone : BOOLEAN]

Shapes ==
  /\ dmType \in [DmConv -> {"none", "direct", "dm", "group"}]
  /\ dmRole \in [DmConv -> [DmUser -> {"none", "member", "owner"}]]
  /\ dmStored \in [DmMessage -> (DmUser \X DmConv) \cup {<<>>}]
  /\ dmReq \in [DmRequest -> DmRequests]
  /\ dmAnswered \in [DmMessage -> SUBSET (DmUser \X DmConv)]
  /\ dmDisturbed \in BOOLEAN

\* A request about to answer 201 has its message in the table.
TouchedIsStored ==
  \A r \in DmRequest : DmAt(r, "touch") =>
    \A m \in dmReq[r].msg : dmStored[m] = <<dmReq[r].who, dmReq[r].conv>>

\* Only the two users take part in the conversation that names them, and only they
\* have requests that go beyond the reading of its participants.
OnlyThePair ==
  /\ dmType[DmNamed] # "group"
  /\ DmMembers(DmNamed) \subseteq DmPair
  /\ \A r \in DmRequest : dmReq[r].conv = DmNamed => dmReq[r].who \in DmPair

\* The two insertions of its participants.
PairInOrder ==
  \A r \in DmRequest :
    /\ dmReq[r].pc \in {"convRow", "pairRow"} => dmReq[r].conv = DmNamed
    /\ DmAt(r, "pairRow") => dmReq[r].left \in {<<DmFirst, DmSecond>>, <<DmSecond>>}
    /\ DmHalfway(r) => dmDisturbed \/ DmFirst \in DmMembers(DmNamed)

\* A creation that has not inserted its conversation is alone with its id.
NewIsAlone ==
  \A r \in DmRequest :
    /\ dmReq[r].pc \in {"newConv", "newRow"} =>
         dmReq[r].conv \in DmGenerated /\ dmReq[r].left # <<>>
    /\ DmAt(r, "newConv") =>
         /\ dmType[dmReq[r].conv] = "none" /\ DmMembers(dmReq[r].conv) = {}
         /\ Head(dmReq[r].left) = dmReq[r].who
         /\ \A q \in DmRequest \ {r} : dmReq[q].conv # dmReq[r].conv

\* Rows of a group are inserted by the request that created it, the owner's first,
\* and no departure of this module concerns a group.
OwnerComesFirst ==
  \A r \in DmRequest : dmType[dmReq[r].conv] = "group" =>
    /\ DmAt(r, "newRow") =>
         /\ dmReq[r].type = "group"
         /\ DmMembers(dmReq[r].conv) = {} => Head(dmReq[r].left) = dmReq[r].who
    /\ dmReq[r].pc \notin {"count", "deleteConv", "deleteRow"}

\* What findOrCreateDM did not find is still not there, unless it was crossed.
StillNotFound ==
  \A r \in DmRequest : DmAt(r, "newConv") /\ dmReq[r].alone =>
    \A c \in DmConv : dmType[c] \in {"dm", "direct"}
      => ~ {dmReq[r].left[1], dmReq[r].left[2]} \subseteq DmMembers(c)

NamedOK == OnlyThePair /\ PairInOrder /\ BothOrNobody
GroupsOK == OwnerComesFirst /\ GroupHasItsOwner
DmIInv == Shapes /\ TouchedIsStored /\ AnsweredIsStored /\ NamedOK /\ NewIsAlone /\ GroupsOK
        /\ StillNotFound

----------------------------------------------------------------------------
LEMMA DmIdleRequest == DmIdle \in DmRequests /\ DmIdle.pc = "idle" /\ DmIdle.conv = DmNamed
                     /\ DmIdle.who \in DmPair /\ DmIdle.left = <<>>
BY DEF DmIdle, DmRequests, AtMostOne, DmPcs, DmUser, DmPair, DmConv

\* The lists that a request may name are sequences of users.
LEMMA ListsAreSequences == \A who \in DmUser : DmOthers[who] \subseteq Seq(DmUser)
<1>1. IsFiniteSet(DmUser)
  <2>1. IsFiniteSet({DmFirst, DmSecond})
    <3>1. IsFiniteSet({DmFirst}) /\ {DmFirst, DmSecond} = {DmFirst} \cup {DmSecond}
      BY FS_Singleton
    <3> QED
      BY <3>1, FS_AddElement
  <2> QED
    BY <2>1, FS_Union, DmAssumption DEF DmUser, DmPair
<1>2. Cardinality(DmUser) \in Nat
  BY <1>1, FS_CardinalityType
<1>3. DmLists \subseteq Seq(DmUser)
  BY <1>2 DEF DmLists
<1> QED
  BY <1>3 DEF DmOthers

LEMMA DmInitEstablishes == DmInit => DmIInv
<1> SUFFICES ASSUME DmInit PROVE DmIInv
  OBVIOUS
<1> USE DmAssumption DEF DmInit
<1>1. Shapes
  BY DmIdleRequest DEF Shapes
<1>2. \A c \in DmConv : DmMembers(c) = {}
  BY DEF DmMembers
<1>3. \A r \in DmRequest : dmReq[r].pc = "idle" /\ dmReq[r].conv = DmNamed /\ dmReq[r].who \in DmPair
  BY DmIdleRequest
<1>4. TouchedIsStored /\ AnsweredIsStored
  BY <1>3 DEF TouchedIsStored, AnsweredIsStored, DmAt
<1>5. NamedOK
  BY <1>2, <1>3 DEF NamedOK, OnlyThePair, PairInOrder, BothOrNobody, DmHalfway, DmAt, DmConv
<1>6. NewIsAlone /\ StillNotFound
  BY <1>3 DEF NewIsAlone, StillNotFound, DmAt
<1>7. GroupsOK
  BY <1>2, <1>3 DEF GroupsOK, OwnerComesFirst, GroupHasItsOwner, DmAt, DmConv
<1> QED
  BY <1>1, <1>4, <1>5, <1>6, <1>7 DEF DmIInv
----------------------------------------------------------------------------
\* What a step of request r does to the others.
Elsewhere(r) ==
  \A q \in DmRequest \ {r} :
    /\ dmReq'[q].pc = dmReq[q].pc /\ dmReq'[q].who = dmReq[q].who
    /\ dmReq'[q].conv = dmReq[q].conv /\ dmReq'[q].msg = dmReq[q].msg
    /\ dmReq'[q].type = dmReq[q].type /\ dmReq'[q].left = dmReq[q].left
    /\ dmReq'[q].alone => dmReq[q].alone

LEMMA UpdateLocal ==
  ASSUME Shapes, NEW r \in DmRequest, NEW new \in DmRequests,
         dmReq' = [dmReq EXCEPT ![r] = new]
  PROVE  dmReq' \in [DmRequest -> DmRequests] /\ dmReq'[r] = new /\ Elsewhere(r)
BY DEF Shapes, Elsewhere

LEMMA CrossLocal ==
  ASSUME Shapes, NEW r \in DmRequest, NEW new \in DmRequests, DmCross(r, new)
  PROVE  /\ dmReq' \in [DmRequest -> DmRequests] /\ dmReq'[r] = new /\ Elsewhere(r)
         /\ \A q \in DmRequest \ {r} : ~dmReq'[q].alone
<1>1. ASSUME NEW s \in DmRequests
      PROVE  LET t == [s EXCEPT !.alone = FALSE] IN
             /\ t \in DmRequests /\ ~t.alone
             /\ t.pc = s.pc /\ t.who = s.who /\ t.conv = s.conv /\ t.msg = s.msg
             /\ t.type = s.type /\ t.left = s.left
  BY DEF DmRequests
<1>2. \A q \in DmRequest : dmReq[q] \in DmRequests
  BY DEF Shapes
<1>3. /\ dmReq'[r] = new
      /\ \A q \in DmRequest \ {r} : dmReq'[q] = [dmReq[q] EXCEPT !.alone = FALSE]
      /\ dmReq' = [q \in DmRequest |-> dmReq'[q]]
  BY DEF DmCross
<1>4. \A q \in DmRequest \ {r} :
        /\ dmReq'[q] \in DmRequests /\ ~dmReq'[q].alone
        /\ dmReq'[q].pc = dmReq[q].pc /\ dmReq'[q].who = dmReq[q].who
        /\ dmReq'[q].conv = dmReq[q].conv /\ dmReq'[q].msg = dmReq[q].msg
        /\ dmReq'[q].type = dmReq[q].type /\ dmReq'[q].left = dmReq[q].left
  <2> TAKE q \in DmRequest \ {r}
  <2>1. dmReq[q] \in DmRequests
    BY <1>2
  <2>2. dmReq'[q] = [dmReq[q] EXCEPT !.alone = FALSE]
    BY <1>3
  <2> QED
    BY <1>1, <2>1, <2>2, ZenonT(60)
<1>5. \A q \in DmRequest : dmReq'[q] \in DmRequests
  BY <1>3, <1>4
<1>6. dmReq' \in [DmRequest -> DmRequests]
  BY <1>3, <1>5
<1> QED
  BY <1>3, <1>4, <1>6 DEF Elsewhere

\* A step of request r that changes no table: the conditions on its new state.
LEMMA LocalKeeps ==
  ASSUME DmIInv, NEW r \in DmRequest, NEW new \in DmRequests,
         dmReq' = [dmReq EXCEPT ![r] = new],
         UNCHANGED <<dmTables, dmAnswered>>,
         dmDisturbed' \in BOOLEAN, dmDisturbed \/ DmHalfway(r) => dmDisturbed',
         new.pc \notin {"touch", "pairRow", "newRow"},
         new.conv = DmNamed => new.who \in DmPair,
         new.pc = "convRow" => new.conv = DmNamed,
         \A q \in DmRequest \ {r} : DmAt(q, "newConv") => dmReq[q].conv # new.conv,
         new.pc \in {"count", "deleteConv", "deleteRow"} => dmType[new.conv] # "group",
         new.pc = "newConv" =>
           /\ new.conv \in DmGenerated /\ new.left # <<>> /\ Head(new.left) = new.who
           /\ dmType[new.conv] = "none" /\ DmMembers(new.conv) = {}
           /\ \A q \in DmRequest \ {r} : dmReq[q].conv # new.conv
           /\ new.alone => \A c \in DmConv : dmType[c] \in {"dm", "direct"}
                             => ~ {new.left[1], new.left[2]} \subseteq DmMembers(c)
  PROVE  DmIInv'
<1> USE DEF DmIInv, dmTables
<1>1. dmReq' \in [DmRequest -> DmRequests] /\ dmReq'[r] = new /\ Elsewhere(r)
  BY UpdateLocal
<1>2. Shapes'
  BY <1>1 DEF Shapes
<1>3. \A c \in DmConv : DmMembers(c)' = DmMembers(c)
  BY DEF DmMembers
<1>4. TouchedIsStored' /\ AnsweredIsStored'
  BY <1>1 DEF Elsewhere, TouchedIsStored, AnsweredIsStored, DmAt
<1>5. OnlyThePair'
  BY <1>1, <1>3, DmAssumption DEF Elsewhere, NamedOK, OnlyThePair, DmConv
<1>6. PairInOrder'
  BY <1>1, <1>3, DmAssumption DEF Elsewhere, NamedOK, PairInOrder, DmHalfway, DmAt, DmConv
<1>7. BothOrNobody'
  BY <1>1, <1>3 DEF Elsewhere, NamedOK, BothOrNobody, DmHalfway, DmConv
<1>8. NewIsAlone'
  <2>1. \A q \in DmRequest : dmReq'[q].conv \in DmConv
    BY <1>1 DEF DmRequests
  <2> SUFFICES ASSUME NEW q \in DmRequest
               PROVE  /\ dmReq'[q].pc \in {"newConv", "newRow"} =>
                           dmReq'[q].conv \in DmGenerated /\ dmReq'[q].left # <<>>
                      /\ dmReq'[q].pc = "newConv" =>
                           /\ dmType[dmReq'[q].conv] = "none" /\ DmMembers(dmReq'[q].conv) = {}
                           /\ Head(dmReq'[q].left) = dmReq'[q].who
                           /\ \A p \in DmRequest \ {q} : dmReq'[p].conv # dmReq'[q].conv
    BY <1>3, <2>1 DEF NewIsAlone, DmAt
  <2>2. CASE q = r
    BY <1>1, <2>2 DEF Elsewhere
  <2>3. CASE q # r
    <3>1. \A p \in DmRequest : dmReq'[p].conv = IF p = r THEN new.conv ELSE dmReq[p].conv
      BY <1>1 DEF Elsewhere
    <3>2. /\ dmReq'[q].pc = dmReq[q].pc /\ dmReq'[q].conv = dmReq[q].conv
          /\ dmReq'[q].left = dmReq[q].left /\ dmReq'[q].who = dmReq[q].who
      BY <1>1, <2>3 DEF Elsewhere
    <3> QED
      BY <2>3, <3>1, <3>2 DEF NewIsAlone, DmAt
  <2> QED
    BY <2>2, <2>3
<1>9. OwnerComesFirst'
  <2>1. \A q \in DmRequest : dmReq'[q].conv \in DmConv
    BY <1>1 DEF DmRequests
  <2> QED
    BY <1>1, <1>3, <2>1 DEF Elsewhere, GroupsOK, OwnerComesFirst, DmAt
<1>10. GroupHasItsOwner'
  BY <1>3 DEF GroupsOK, GroupHasItsOwner
<1>11. StillNotFound'
  BY <1>1, <1>3 DEF Elsewhere, StillNotFound, DmAt
<1> QED
  BY <1>2, <1>4, <1>5, <1>6, <1>7, <1>8, <1>9, <1>10, <1>11 DEF NamedOK, GroupsOK

LEMMA ReturnKeeps ==
  ASSUME DmIInv, NEW r \in DmRequest, DmReturn(r), UNCHANGED <<dmTables, dmAnswered>>,
         dmDisturbed' \in BOOLEAN, dmDisturbed \/ DmHalfway(r) => dmDisturbed'
  PROVE  DmIInv'
<1>1. \A q \in DmRequest : DmAt(q, "newConv") => dmReq[q].conv # DmNamed
  BY DmAssumption DEF DmIInv, NewIsAlone, DmAt
<1> QED
  BY <1>1, DmIdleRequest, LocalKeeps DEF DmReturn
\* A step of request r that changes rows of its conversation or of its message: the
\* conditions on what it writes.
LEMMA TableKeeps ==
  ASSUME DmIInv, Shapes', NEW r \in DmRequest, NEW new \in DmRequests, NEW k \in DmConv,
         k = dmReq[r].conv, dmReq'[r] = new, Elsewhere(r),
         \/ new.conv = k /\ new.who = dmReq[r].who
         \/ new = DmIdle,
         new.pc \notin {"newConv", "convRow"},
         \A m \in DmMessage : dmStored[m] # <<>> => dmStored'[m] = dmStored[m],
         \A c \in DmConv : c # k => dmType'[c] = dmType[c] /\ dmRole'[c] = dmRole[c],
         dmDisturbed => dmDisturbed',
         new.pc = "touch" => \A m \in new.msg : dmStored'[m] = <<new.who, new.conv>>,
         AnsweredIsStored',
         k = DmNamed => dmType'[k] # "group" /\ DmMembers(k)' \subseteq DmPair,
         k = DmNamed /\ DmFirst \in DmMembers(k) => dmDisturbed' \/ DmFirst \in DmMembers(k)',
         new.pc = "pairRow" =>
           /\ k = DmNamed /\ new.conv = k
           /\ \/ new.left = <<DmFirst, DmSecond>>
              \/ new.left = <<DmSecond>> /\ DmFirst \in DmMembers(k)',
         BothOrNobody',
         new.pc = "newRow" => new.conv \in DmGenerated /\ new.left # <<>>,
         dmType'[k] = "group" =>
           \/ \A q \in DmRequest \ {r} : dmReq[q].conv # k
           \/ dmType[k] = "group" /\ DmMembers(k) \subseteq DmMembers(k)',
         dmType'[k] = "group" /\ new.conv = k =>
           /\ new.pc \notin {"count", "deleteConv", "deleteRow"}
           /\ new.pc = "newRow" => /\ new.type = "group"
                                   /\ DmMembers(k)' = {} => Head(new.left) = new.who,
         dmType'[k] = "group" /\ DmMembers(k)' # {} => \E u \in DmMembers(k)' : dmRole'[k][u] = "owner",
         \/ \A q \in DmRequest \ {r} : ~dmReq'[q].alone
         \/ \A c \in DmConv : /\ dmType'[c] \in {"dm", "direct"} => dmType[c] \in {"dm", "direct"}
                              /\ DmMembers(c)' \subseteq DmMembers(c)
  PROVE  DmIInv'
<1> USE DEF DmIInv
<1> DEFINE now(c) == {u \in DmUser : dmRole'[c][u] # "none"}
<1>0. /\ \A c \in DmConv : DmMembers(c)' = now(c)
      /\ \A q \in DmRequest : DmMembers(dmReq[q].conv)' = now(dmReq'[q].conv)
  BY DEF DmMembers
<1> HIDE DEF now
<1>1. \A c \in DmConv : c # k => DmMembers(c)' = DmMembers(c)
  BY DEF DmMembers
<1>2. DmNamed \in DmConv /\ DmNamed \notin DmGenerated /\ dmType'[DmNamed] # "group"
  BY DmAssumption DEF DmConv, NamedOK, OnlyThePair
<1>3. \A q \in DmRequest \ {r} :
        /\ dmReq'[q].pc = dmReq[q].pc /\ dmReq'[q].who = dmReq[q].who
        /\ dmReq'[q].conv = dmReq[q].conv /\ dmReq'[q].msg = dmReq[q].msg
        /\ dmReq'[q].type = dmReq[q].type /\ dmReq'[q].left = dmReq[q].left
        /\ dmReq'[q].alone => dmReq[q].alone
        /\ dmReq[q].conv \in DmConv /\ dmReq[q].msg \subseteq DmMessage
  <2>1. \A q \in DmRequest : dmReq[q].conv \in DmConv /\ dmReq[q].msg \in AtMostOne
    BY DEF Shapes, DmRequests
  <2>2. \A q \in DmRequest : dmReq[q].msg \subseteq DmMessage
    BY <2>1 DEF AtMostOne
  <2> QED
    BY <2>1, <2>2 DEF Elsewhere
<1>4. \/ new.conv = k /\ new.who = dmReq[r].who
      \/ new.conv = DmNamed /\ new.pc = "idle" /\ new.who \in DmPair
  BY DmIdleRequest
<1>5. TouchedIsStored'
  <2> SUFFICES ASSUME NEW q \in DmRequest, dmReq'[q].pc = "touch", NEW m \in dmReq'[q].msg
               PROVE  dmStored'[m] = <<dmReq'[q].who, dmReq'[q].conv>>
    BY DEF TouchedIsStored, DmAt
  <2>1. CASE q = r
    BY <2>1
  <2>2. CASE q # r
    <3>1. dmStored[m] = <<dmReq[q].who, dmReq[q].conv>> /\ m \in DmMessage
      BY <1>3, <2>2 DEF TouchedIsStored, DmAt
    <3>2. <<dmReq[q].who, dmReq[q].conv>> # <<>>
      OBVIOUS
    <3>3. dmStored'[m] = dmStored[m]
      BY <3>1, <3>2
    <3>4. dmReq'[q].who = dmReq[q].who /\ dmReq'[q].conv = dmReq[q].conv
      BY <1>3, <2>2
    <3> QED
      BY <3>1, <3>3, <3>4
  <2> QED
    BY <2>1, <2>2
<1>6. OnlyThePair'
  <2>1. DmMembers(DmNamed)' \subseteq DmPair
    BY <1>1, <1>2 DEF NamedOK, OnlyThePair
  <2>2. ASSUME NEW q \in DmRequest, dmReq'[q].conv = DmNamed
        PROVE  dmReq'[q].who \in DmPair
    <3>1. CASE q = r
      BY <1>4, <2>2, <3>1 DEF NamedOK, OnlyThePair
    <3>2. CASE q # r
      BY <1>3, <2>2, <3>2 DEF NamedOK, OnlyThePair
    <3> QED
      BY <3>1, <3>2
  <2> QED
    BY <1>2, <2>1, <2>2 DEF OnlyThePair
<1>7. PairInOrder'
  <2>1. DmFirst \in DmMembers(DmNamed) => dmDisturbed' \/ DmFirst \in DmMembers(DmNamed)'
    BY <1>1, <1>2
  <2> SUFFICES ASSUME NEW q \in DmRequest
               PROVE  /\ dmReq'[q].pc \in {"convRow", "pairRow"} => dmReq'[q].conv = DmNamed
                      /\ dmReq'[q].pc = "pairRow" =>
                           /\ dmReq'[q].left \in {<<DmFirst, DmSecond>>, <<DmSecond>>}
                           /\ Len(dmReq'[q].left) = 1
                                => dmDisturbed' \/ DmFirst \in DmMembers(DmNamed)'
    BY DEF PairInOrder, DmHalfway, DmAt
  <2>2. CASE q = r
    <3>1. Len(<<DmFirst, DmSecond>>) = 2
      OBVIOUS
    <3>2. new.pc = "pairRow" /\ Len(new.left) = 1 => k = DmNamed /\ DmFirst \in DmMembers(k)'
      BY <3>1
    <3>3. DmMembers(DmNamed)' = now(DmNamed) /\ DmMembers(k)' = now(k)
      BY <1>0, <1>2
    <3>4. new.pc = "pairRow" /\ Len(new.left) = 1 => DmFirst \in DmMembers(DmNamed)'
      BY <3>2, <3>3
    <3>5. new.pc = "pairRow" => new.left \in {<<DmFirst, DmSecond>>, <<DmSecond>>} /\ new.conv = DmNamed
      OBVIOUS
    <3> QED
      BY <2>2, <3>4, <3>5
  <2>3. CASE q # r
    BY <1>3, <2>1, <2>3 DEF NamedOK, PairInOrder, DmHalfway, DmAt
  <2> QED
    BY <2>2, <2>3
<1>8. NewIsAlone'
  <2> SUFFICES ASSUME NEW q \in DmRequest
               PROVE  /\ dmReq'[q].pc \in {"newConv", "newRow"} =>
                           dmReq'[q].conv \in DmGenerated /\ dmReq'[q].left # <<>>
                      /\ dmReq'[q].pc = "newConv" =>
                           /\ dmType'[dmReq'[q].conv] = "none" /\ now(dmReq'[q].conv) = {}
                           /\ Head(dmReq'[q].left) = dmReq'[q].who
                           /\ \A p \in DmRequest \ {q} : dmReq'[p].conv # dmReq'[q].conv
    BY <1>0 DEF NewIsAlone, DmAt
  <2>1. CASE q = r
    BY <2>1
  <2>2. CASE q # r
    <3>1. dmReq'[q].pc \in {"newConv", "newRow"} =>
            dmReq'[q].conv \in DmGenerated /\ dmReq'[q].left # <<>>
      BY <1>3, <2>2 DEF NewIsAlone
    <3>2. ASSUME dmReq'[q].pc = "newConv"
          PROVE  /\ dmReq[q].conv # k /\ dmReq[q].conv # DmNamed
                 /\ dmType[dmReq[q].conv] = "none" /\ DmMembers(dmReq[q].conv) = {}
                 /\ Head(dmReq[q].left) = dmReq[q].who
                 /\ \A p \in DmRequest \ {q} : dmReq[p].conv # dmReq[q].conv
      BY <1>2, <1>3, <2>2, <3>2 DEF NewIsAlone, DmAt
    <3>3. ASSUME dmReq'[q].pc = "newConv", NEW p \in DmRequest \ {q}
          PROVE  dmReq'[p].conv # dmReq'[q].conv
      <4>1. CASE p = r
        BY <1>3, <1>4, <2>2, <3>2, <3>3, <4>1
      <4>2. CASE p # r
        BY <1>3, <2>2, <3>2, <3>3, <4>2
      <4> QED
        BY <4>1, <4>2
    <3>4. ASSUME dmReq'[q].pc = "newConv"
          PROVE  /\ dmType'[dmReq'[q].conv] = "none" /\ now(dmReq'[q].conv) = {}
                 /\ Head(dmReq'[q].left) = dmReq'[q].who
      <4>1. dmType'[dmReq[q].conv] = "none" /\ dmReq[q].conv \in DmConv /\ dmReq[q].conv # k
        BY <1>3, <2>2, <3>2, <3>4
      <4>2. now(dmReq[q].conv) = DmMembers(dmReq[q].conv)
        BY <4>1 DEF now, DmMembers
      <4>3. dmReq'[q].conv = dmReq[q].conv /\ dmReq'[q].left = dmReq[q].left /\ dmReq'[q].who = dmReq[q].who
        BY <1>3, <2>2
      <4> QED
        BY <3>2, <3>4, <4>1, <4>2, <4>3
    <3> QED
      BY <3>1, <3>3, <3>4
  <2> QED
    BY <2>1, <2>2
<1>9. OwnerComesFirst'
  <2> SUFFICES ASSUME NEW q \in DmRequest, NEW c \in DmConv, dmReq'[q].conv = c,
                      dmType'[c] = "group"
               PROVE  /\ dmReq'[q].pc = "newRow" =>
                           /\ dmReq'[q].type = "group"
                           /\ DmMembers(c)' = {} => Head(dmReq'[q].left) = dmReq'[q].who
                      /\ dmReq'[q].pc \notin {"count", "deleteConv", "deleteRow"}
    <3>1. \A q \in DmRequest : dmReq'[q].conv \in DmConv
      BY <1>3 DEF DmRequests
    <3> QED
      BY <1>0, <3>1 DEF OwnerComesFirst, DmAt
  <2>2. CASE q = r
    BY <1>2, <1>4, <2>2
  <2>3. CASE q # r /\ c = k
    BY <1>3, <2>3 DEF GroupsOK, OwnerComesFirst, DmAt
  <2>4. CASE q # r /\ c # k
    BY <1>1, <1>3, <2>4 DEF GroupsOK, OwnerComesFirst, DmAt
  <2> QED
    BY <2>2, <2>3, <2>4
<1>10. GroupHasItsOwner'
  <2> SUFFICES ASSUME NEW c \in DmConv, dmType'[c] = "group", DmMembers(c)' # {}
               PROVE  \E u \in DmMembers(c)' : dmRole'[c][u] = "owner"
    BY DEF GroupHasItsOwner
  <2>1. CASE c = k
    BY <2>1
  <2>2. CASE c # k
    BY <1>1, <2>2 DEF GroupsOK, GroupHasItsOwner
  <2> QED
    BY <2>1, <2>2
<1>11. StillNotFound'
  <2> SUFFICES ASSUME NEW q \in DmRequest, dmReq'[q].pc = "newConv", dmReq'[q].alone,
                      NEW c \in DmConv, dmType'[c] \in {"dm", "direct"}
               PROVE  ~ {dmReq'[q].left[1], dmReq'[q].left[2]} \subseteq DmMembers(c)'
    BY DEF StillNotFound, DmAt
  <2>1. q # r
    OBVIOUS
  <2>2. dmType[c] \in {"dm", "direct"} /\ DmMembers(c)' \subseteq DmMembers(c)
    BY <2>1
  <2>3. dmReq[q].pc = "newConv" /\ dmReq[q].alone /\ dmReq'[q].left = dmReq[q].left
    BY <1>3, <2>1
  <2>4. ~ {dmReq[q].left[1], dmReq[q].left[2]} \subseteq DmMembers(c)
    BY <2>2, <2>3 DEF StillNotFound, DmAt
  <2> QED
    BY <2>2, <2>3, <2>4
<1> QED
  BY <1>5, <1>6, <1>7, <1>8, <1>9, <1>10, <1>11 DEF NamedOK, GroupsOK
----------------------------------------------------------------------------
\* create

LEMMA CreateKeeps ==
  ASSUME DmIInv, NEW r \in DmRequest, NEW who \in DmUser, NEW c \in DmConv, NEW m \in DmMessage,
         DmCreate(r, who, c, m)
  PROVE  DmIInv'
<1>1. UNCHANGED <<dmTables, dmHistory>> /\ DmAt(r, "idle")
  BY DEF DmCreate
<1>2. UNCHANGED <<dmTables, dmAnswered>> /\ dmDisturbed' \in BOOLEAN
      /\ (dmDisturbed \/ DmHalfway(r) => dmDisturbed')
  BY <1>1 DEF dmHistory, dmTables, DmIInv, Shapes, DmHalfway, DmAt
<1>3. ASSUME NEW pc \in {"convRow", "message"}
      PROVE  \E new \in DmRequests :
               /\ new = [DmIdle EXCEPT !.who = who, !.conv = c, !.msg = {m}, !.pc = pc]
               /\ new.pc = pc /\ new.who = who /\ new.conv = c
  <2> DEFINE new == [DmIdle EXCEPT !.who = who, !.conv = c, !.msg = {m}, !.pc = pc]
  <2>1. pc \in DmPcs /\ {m} \in AtMostOne /\ DmIdle \in DmRequests
    BY DmIdleRequest DEF DmPcs, AtMostOne
  <2>2. new \in DmRequests /\ new.pc = pc /\ new.who = who /\ new.conv = c
    BY <2>1 DEF DmRequests
  <2> QED
    BY <2>2
<1>4. CASE MayFound(who, c)
  <2>1. PICK new \in DmRequests :
          /\ new = [DmIdle EXCEPT !.who = who, !.conv = c, !.msg = {m}, !.pc = "convRow"]
          /\ new.pc = "convRow" /\ new.who = who /\ new.conv = c
    BY <1>3
  <2>2. dmReq' = [dmReq EXCEPT ![r] = new]
    BY <1>4, <2>1 DEF DmCreate, DmStart
  <2>3. c = DmNamed /\ who \in DmPair
    BY <1>4 DEF MayFound
  <2>4. \A q \in DmRequest : DmAt(q, "newConv") => dmReq[q].conv # c
    BY <2>3, DmAssumption DEF DmIInv, NewIsAlone, DmAt
  <2>5. new.pc \notin {"touch", "pairRow", "newRow", "newConv", "count", "deleteConv", "deleteRow"}
    BY <2>1
  <2>6. new.conv = DmNamed => new.who \in DmPair
    BY <2>1, <2>3
  <2>7. new.pc = "convRow" => new.conv = DmNamed
    BY <2>1, <2>3
  <2>8. \A q \in DmRequest \ {r} : DmAt(q, "newConv") => dmReq[q].conv # new.conv
    BY <2>1, <2>4
  <2> QED
    BY new \in DmRequests, <1>2, <2>2, <2>5, <2>6, <2>7, <2>8, LocalKeeps
<1>5. CASE ~MayFound(who, c) /\ who \in DmMembers(c)
  <2>1. PICK new \in DmRequests :
          /\ new = [DmIdle EXCEPT !.who = who, !.conv = c, !.msg = {m}, !.pc = "message"]
          /\ new.pc = "message" /\ new.who = who /\ new.conv = c
    BY <1>3
  <2>2. dmReq' = [dmReq EXCEPT ![r] = new]
    BY <1>5, <2>1 DEF DmCreate, DmAdmit
  <2>3. c = DmNamed => who \in DmPair
    BY <1>5 DEF DmIInv, NamedOK, OnlyThePair
  <2>4. \A q \in DmRequest : DmAt(q, "newConv") => dmReq[q].conv # c
    BY <1>5 DEF DmIInv, NewIsAlone, DmAt
  <2>5. new.pc \notin {"touch", "pairRow", "newRow", "newConv", "count", "deleteConv", "deleteRow"}
    BY <2>1
  <2>6. new.conv = DmNamed => new.who \in DmPair
    BY <2>1, <2>3
  <2>7. new.pc = "convRow" => new.conv = DmNamed
    BY <2>1, <2>3
  <2>8. \A q \in DmRequest \ {r} : DmAt(q, "newConv") => dmReq[q].conv # new.conv
    BY <2>1, <2>4
  <2> QED
    BY new \in DmRequests, <1>2, <2>2, <2>5, <2>6, <2>7, <2>8, LocalKeeps
<1>6. CASE ~MayFound(who, c) /\ who \notin DmMembers(c)
  BY <1>2, <1>6, ReturnKeeps DEF DmCreate, DmAdmit
<1> QED
  BY <1>4, <1>5, <1>6

LEMMA ConvRowKeeps ==
  ASSUME DmIInv, NEW r \in DmRequest, DmConvRow(r)
  PROVE  DmIInv'
<1>1. PICK new \in DmRequests :
        /\ DmCross(r, new) /\ new.pc = "pairRow" /\ new.left = <<DmFirst, DmSecond>>
        /\ new.conv = dmReq[r].conv /\ new.who = dmReq[r].who
  <2>1. dmReq[r] \in DmRequests /\ "pairRow" \in DmPcs /\ <<DmFirst, DmSecond>> \in Seq(DmUser)
    BY DEF DmIInv, Shapes, DmPcs, DmUser, DmPair
  <2>2. DmCross(r, [dmReq[r] EXCEPT !.pc = "pairRow", !.left = <<DmFirst, DmSecond>>])
    BY DEF DmConvRow, NamedUsers
  <2> DEFINE new == [dmReq[r] EXCEPT !.pc = "pairRow", !.left = <<DmFirst, DmSecond>>]
  <2>3. /\ new \in DmRequests /\ new.pc = "pairRow" /\ new.left = <<DmFirst, DmSecond>>
        /\ new.conv = dmReq[r].conv /\ new.who = dmReq[r].who
    BY <2>1 DEF DmRequests
  <2> QED
    BY <2>2, <2>3
<1>2. /\ DmAt(r, "convRow")
      /\ dmType' = [dmType EXCEPT ![DmNamed] = IF @ = "none" THEN "direct" ELSE @]
      /\ UNCHANGED <<dmRole, dmStored, dmHistory>>
  BY DEF DmConvRow
<1>3. /\ dmReq' \in [DmRequest -> DmRequests] /\ dmReq'[r] = new /\ Elsewhere(r)
      /\ \A q \in DmRequest \ {r} : ~dmReq'[q].alone
  BY <1>1, CrossLocal DEF DmIInv
<1>4. dmReq[r].conv = DmNamed /\ DmNamed \in DmConv
  BY <1>2 DEF DmIInv, NamedOK, PairInOrder, DmAt, DmConv
<1>5. /\ dmType' \in [DmConv -> {"none", "direct", "dm", "group"}]
      /\ \A c \in DmConv : c # DmNamed => dmType'[c] = dmType[c]
      /\ dmType'[DmNamed] # "group"
  BY <1>2, <1>4 DEF DmIInv, Shapes, NamedOK, OnlyThePair
<1>6. Shapes'
  BY <1>2, <1>3, <1>5 DEF DmIInv, Shapes, dmHistory
<1>7. \A c \in DmConv : DmMembers(c)' = DmMembers(c)
  BY <1>2 DEF DmMembers
<1>8. AnsweredIsStored'
  BY <1>2 DEF DmIInv, AnsweredIsStored, dmHistory
<1>9. BothOrNobody'
  <2>1. \A q \in DmRequest : DmHalfway(q) => DmHalfway(q)'
    BY <1>2, <1>3 DEF Elsewhere, DmHalfway, DmAt
  <2> QED
    BY <1>2, <1>4, <1>7, <2>1 DEF DmIInv, NamedOK, BothOrNobody, dmHistory
<1>10. DmMembers(DmNamed) \subseteq DmPair
  BY DEF DmIInv, NamedOK, OnlyThePair
<1>11. /\ dmDisturbed' = dmDisturbed /\ dmStored' = dmStored /\ dmRole' = dmRole
  BY <1>2 DEF dmHistory
<1> QED
  BY <1>1, <1>3, <1>4, <1>5, <1>6, <1>7, <1>8, <1>9, <1>10, <1>11, TableKeeps

LEMMA RereadKeeps ==
  ASSUME DmIInv, NEW r \in DmRequest, DmReread(r)
  PROVE  DmIInv'
<1>1. DmAt(r, "reread") /\ UNCHANGED <<dmTables, dmHistory>>
  BY DEF DmReread
<1>2. UNCHANGED <<dmTables, dmAnswered>> /\ dmDisturbed' \in BOOLEAN
      /\ (dmDisturbed \/ DmHalfway(r) => dmDisturbed')
  BY <1>1 DEF dmHistory, dmTables, DmIInv, Shapes, DmHalfway, DmAt
<1>3. CASE dmReq[r].who \in DmMembers(dmReq[r].conv)
  <2>1. PICK new \in DmRequests :
          /\ new = [dmReq[r] EXCEPT !.pc = "message"]
          /\ new.pc = "message" /\ new.who = dmReq[r].who /\ new.conv = dmReq[r].conv
    <3> DEFINE new == [dmReq[r] EXCEPT !.pc = "message"]
    <3>1. new \in DmRequests /\ new.pc = "message" /\ new.who = dmReq[r].who /\ new.conv = dmReq[r].conv
      BY DEF DmIInv, Shapes, DmRequests, DmPcs
    <3> QED
      BY <3>1
  <2>2. dmReq' = [dmReq EXCEPT ![r] = new]
    BY <1>3, <2>1 DEF DmReread, DmAdmit
  <2>3. new.pc \notin {"touch", "pairRow", "newRow", "newConv", "convRow",
                       "count", "deleteConv", "deleteRow"}
    BY <2>1
  <2>4. new.conv = DmNamed => new.who \in DmPair
    BY <2>1 DEF DmIInv, NamedOK, OnlyThePair
  <2>5. \A q \in DmRequest \ {r} : DmAt(q, "newConv") => dmReq[q].conv # new.conv
    BY <1>3, <2>1 DEF DmIInv, NewIsAlone, DmAt
  <2> QED
    BY new \in DmRequests, <1>2, <2>2, <2>3, <2>4, <2>5, LocalKeeps
<1>4. CASE dmReq[r].who \notin DmMembers(dmReq[r].conv)
  BY <1>2, <1>4, ReturnKeeps DEF DmReread, DmAdmit
<1> QED
  BY <1>3, <1>4

LEMMA PairRowKeeps ==
  ASSUME DmIInv, NEW r \in DmRequest, DmPairRow(r)
  PROVE  DmIInv'
<1>1. /\ DmAt(r, "pairRow") /\ dmReq[r].conv = DmNamed /\ DmNamed \in DmConv
      /\ dmReq[r].left \in {<<DmFirst, DmSecond>>, <<DmSecond>>}
      /\ DmHalfway(r) => dmDisturbed \/ DmFirst \in DmMembers(DmNamed)
  BY DEF DmPairRow, DmIInv, NamedOK, PairInOrder, DmAt, DmConv
<1>2. UNCHANGED <<dmType, dmStored, dmHistory>>
  BY DEF DmPairRow
<1>3. dmReq[r] \in DmRequests
  BY DEF DmIInv, Shapes
<1>4. PICK new \in DmRequests, u \in DmPair :
        /\ DmInsertRow(r, DmNamed, u, "member", new)
        /\ new.who = dmReq[r].who /\ new.conv = DmNamed
        /\ \/ dmReq[r].left = <<DmFirst, DmSecond>> /\ u = DmFirst
              /\ new.left = <<DmSecond>> /\ new.pc = "pairRow"
           \/ dmReq[r].left = <<DmSecond>> /\ u = DmSecond /\ new.pc = "reread"
  <2>1. CASE dmReq[r].left = <<DmFirst, DmSecond>>
    <3> DEFINE new == [dmReq[r] EXCEPT !.left = <<DmSecond>>, !.pc = "pairRow"]
    <3>1. Head(dmReq[r].left) = DmFirst /\ Tail(dmReq[r].left) = <<DmSecond>>
      BY <2>1
    <3>2. <<DmSecond>> \in Seq(DmUser) /\ <<DmSecond>> # <<>> /\ "pairRow" \in DmPcs
      BY DEF DmUser, DmPair, DmPcs
    <3>3. /\ new \in DmRequests /\ new.who = dmReq[r].who /\ new.conv = dmReq[r].conv
          /\ new.left = <<DmSecond>> /\ new.pc = "pairRow"
      BY <1>3, <3>2 DEF DmRequests
    <3>4. [dmReq[r] EXCEPT !.left = <<DmSecond>>, !.pc = IF <<DmSecond>> = <<>> THEN "reread" ELSE @]
            = new
      BY <1>1, <1>3, <3>2 DEF DmAt, DmRequests
    <3>5. DmInsertRow(r, DmNamed, DmFirst, "member", new)
      BY <3>1, <3>4 DEF DmPairRow
    <3> QED
      BY <1>1, <2>1, <3>3, <3>5 DEF DmPair
  <2>2. CASE dmReq[r].left = <<DmSecond>>
    <3> DEFINE new == [dmReq[r] EXCEPT !.left = <<>>, !.pc = "reread"]
    <3>1. Head(dmReq[r].left) = DmSecond /\ Tail(dmReq[r].left) = <<>>
      BY <2>2
    <3>2. <<>> \in Seq(DmUser) /\ "reread" \in DmPcs
      BY DEF DmPcs
    <3>3. new \in DmRequests /\ new.who = dmReq[r].who /\ new.conv = dmReq[r].conv /\ new.pc = "reread"
      BY <1>3, <3>2 DEF DmRequests
    <3>4. [dmReq[r] EXCEPT !.left = <<>>, !.pc = IF <<>> = <<>> THEN "reread" ELSE @] = new
      OBVIOUS
    <3>5. DmInsertRow(r, DmNamed, DmSecond, "member", new)
      BY <3>1, <3>4 DEF DmPairRow
    <3> QED
      BY <1>1, <2>2, <3>3, <3>5 DEF DmPair
  <2> QED
    BY <1>1, <2>1, <2>2
<1>5. /\ dmReq' \in [DmRequest -> DmRequests] /\ dmReq'[r] = new /\ Elsewhere(r)
      /\ \A q \in DmRequest \ {r} : ~dmReq'[q].alone
  BY new \in DmRequests, <1>4, CrossLocal DEF DmIInv, DmInsertRow
<1>6. dmRole' = [dmRole EXCEPT ![DmNamed][u] = IF @ = "none" THEN "member" ELSE @]
  BY <1>4 DEF DmInsertRow
<1>7. u \in DmUser
  BY u \in DmPair DEF DmUser
<1>8. /\ dmRole' \in [DmConv -> [DmUser -> {"none", "member", "owner"}]]
      /\ \A c \in DmConv : c # DmNamed => dmRole'[c] = dmRole[c]
  BY <1>1, <1>6, <1>7 DEF DmIInv, Shapes
<1>9. DmMembers(DmNamed)' = DmMembers(DmNamed) \cup {u}
  BY <1>1, <1>6, <1>7 DEF DmIInv, Shapes, DmMembers
<1>10. Shapes'
  BY <1>2, <1>5, <1>8 DEF DmIInv, Shapes, dmHistory
<1>11. AnsweredIsStored'
  BY <1>2 DEF DmIInv, AnsweredIsStored, dmHistory
<1>12. /\ dmDisturbed' = dmDisturbed /\ dmStored' = dmStored /\ dmType' = dmType
  BY <1>2 DEF dmHistory
<1>13. DmMembers(DmNamed) \subseteq DmPair /\ dmType[DmNamed] # "group"
  BY DEF DmIInv, NamedOK, OnlyThePair
<1>14. BothOrNobody'
  <2>1. CASE u = DmFirst /\ new.left = <<DmSecond>> /\ new.pc = "pairRow"
    BY <1>5, <2>1 DEF BothOrNobody, DmHalfway
  <2>2. CASE dmReq[r].left = <<DmSecond>> /\ u = DmSecond
    <3>1. dmDisturbed \/ DmFirst \in DmMembers(DmNamed)
      BY <1>1, <2>2 DEF DmHalfway, DmAt
    <3>2. dmDisturbed' \/ DmMembers(DmNamed)' = DmPair
      BY <1>9, <1>12, <1>13, <2>2, <3>1 DEF DmPair
    <3> QED
      BY <3>2 DEF BothOrNobody
  <2> QED
    BY <1>4, <2>1, <2>2
<1>15. new.pc \in {"pairRow", "reread"}
  BY <1>4
<1>16. new.pc = "pairRow" => \/ new.left = <<DmFirst, DmSecond>>
                             \/ new.left = <<DmSecond>> /\ DmFirst \in DmMembers(DmNamed)'
  BY <1>4, <1>9
<1>17. DmMembers(DmNamed)' \subseteq DmPair
  BY u \in DmPair, <1>9, <1>13
<1> QED
  BY new \in DmRequests, <1>1, <1>4, <1>5, <1>8, <1>9, <1>10, <1>11, <1>12, <1>13, <1>14, <1>15,
     <1>16, <1>17, TableKeeps

\* The INSERT of a message and what follows leave the other tables alone.
LEMMA MessageKeeps ==
  ASSUME DmIInv, Shapes', NEW r \in DmRequest, NEW new \in DmRequests,
         dmReq' = [dmReq EXCEPT ![r] = new], new.pc \in {"idle", "touch"}, ~DmHalfway(r),
         \/ new.conv = dmReq[r].conv /\ new.who = dmReq[r].who
         \/ new = DmIdle,
         UNCHANGED <<dmType, dmRole, dmDisturbed>>,
         \A m \in DmMessage : dmStored[m] # <<>> => dmStored'[m] = dmStored[m],
         new.pc = "touch" => \A m \in new.msg : dmStored'[m] = <<new.who, new.conv>>,
         AnsweredIsStored'
  PROVE  DmIInv'
<1>1. dmReq'[r] = new /\ Elsewhere(r)
  BY new \in DmRequests, UpdateLocal DEF DmIInv
<1>2. dmReq[r].conv \in DmConv
  BY DEF DmIInv, Shapes, DmRequests
<1>3. /\ dmReq[r].conv = DmNamed => dmType'[DmNamed] # "group" /\ DmMembers(DmNamed) \subseteq DmPair
      /\ \A c \in DmConv : DmMembers(c)' = DmMembers(c)
  BY DEF DmIInv, NamedOK, OnlyThePair, DmMembers
<1>4. BothOrNobody'
  <2>1. \A q \in DmRequest : DmHalfway(q) => DmHalfway(q)'
    BY <1>1 DEF Elsewhere, DmHalfway
  <2>2. DmMembers(DmNamed)' = DmMembers(DmNamed)
    BY DEF DmMembers
  <2> QED
    BY <2>1, <2>2 DEF DmIInv, NamedOK, BothOrNobody
<1>5. ASSUME NEW c \in DmConv, dmType'[c] = "group", DmMembers(c)' # {}
      PROVE  \E u \in DmMembers(c)' : dmRole'[c][u] = "owner"
  BY <1>3, <1>5 DEF DmIInv, GroupsOK, GroupHasItsOwner
<1>6. /\ \A c \in DmConv : dmType'[c] = dmType[c] /\ dmRole'[c] = dmRole[c]
      /\ dmDisturbed => dmDisturbed'
  OBVIOUS
<1>7. new.pc \notin {"newConv", "convRow", "pairRow", "newRow", "count", "deleteConv", "deleteRow"}
  OBVIOUS
<1> QED
  BY new \in DmRequests, <1>1, <1>2, <1>3, <1>4, <1>5, <1>6, <1>7, TableKeeps

LEMMA MessageRowKeeps ==
  ASSUME DmIInv, NEW r \in DmRequest, DmMessageRow(r)
  PROVE  DmIInv'
<1>1. PICK m \in dmReq[r].msg :
        LET res == MessageInserted(dmStored[m], <<dmReq[r].who, dmReq[r].conv>>) IN
        /\ dmStored' = [dmStored EXCEPT ![m] = res.row]
        /\ IF res.ok THEN DmGoto(r, "touch") ELSE DmReturn(r)
  BY DEF DmMessageRow
<1>2. /\ DmAt(r, "message") /\ UNCHANGED <<dmType, dmRole, dmAnswered, dmDisturbed>>
  BY DEF DmMessageRow, dmHistory
<1>3. /\ dmReq[r] \in DmRequests /\ dmReq[r].msg = {m} /\ m \in DmMessage
      /\ dmReq[r].who \in DmUser /\ dmReq[r].conv \in DmConv
  BY m \in dmReq[r].msg DEF DmIInv, Shapes, DmRequests, AtMostOne
<1>4. CASE dmStored[m] # <<>>
  <2>1. dmStored' = [dmStored EXCEPT ![m] = dmStored[m]] /\ DmReturn(r)
    BY <1>1, <1>4 DEF MessageInserted
  <2>2. UNCHANGED <<dmTables, dmAnswered>>
    BY <1>2, <2>1 DEF dmTables, DmIInv, Shapes
  <2> QED
    BY <1>2, <2>1, <2>2, ReturnKeeps DEF DmIInv, Shapes, DmHalfway, DmAt
<1>5. CASE dmStored[m] = <<>>
  <2>1. /\ dmStored' = [dmStored EXCEPT ![m] = <<dmReq[r].who, dmReq[r].conv>>]
        /\ DmGoto(r, "touch")
    BY <1>1, <1>5 DEF MessageInserted
  <2>2. PICK new \in DmRequests :
          /\ dmReq' = [dmReq EXCEPT ![r] = new] /\ new.pc = "touch" /\ new.msg = {m}
          /\ new.who = dmReq[r].who /\ new.conv = dmReq[r].conv
    <3> DEFINE new == [dmReq[r] EXCEPT !.pc = "touch"]
    <3>1. /\ new \in DmRequests /\ new.pc = "touch" /\ new.msg = {m}
          /\ new.who = dmReq[r].who /\ new.conv = dmReq[r].conv
      BY <1>3 DEF DmRequests, DmPcs
    <3>2. dmReq' = [dmReq EXCEPT ![r] = new]
      BY <2>1 DEF DmGoto
    <3> QED
      BY <3>1, <3>2
  <2>3. dmStored' \in [DmMessage -> (DmUser \X DmConv) \cup {<<>>}]
    BY <1>3, <2>1 DEF DmIInv, Shapes
  <2>4. /\ dmStored'[m] = <<new.who, new.conv>>
        /\ \A n \in DmMessage : n # m => dmStored'[n] = dmStored[n]
    BY <1>3, <2>1, <2>2 DEF DmIInv, Shapes
  <2>5. Shapes'
    BY new \in DmRequests, <1>2, <2>2, <2>3 DEF DmIInv, Shapes
  <2>6. AnsweredIsStored'
    <3> SUFFICES ASSUME NEW n \in DmMessage, NEW a \in dmAnswered[n]
                 PROVE  dmStored'[n] = a
      BY <1>2 DEF AnsweredIsStored
    <3>1. dmStored[n] = a /\ a \in DmUser \X DmConv
      BY DEF DmIInv, Shapes, AnsweredIsStored
    <3>2. PICK x \in DmUser, y \in DmConv : a = <<x, y>>
      BY <3>1
    <3>3. <<x, y>> # <<>>
      OBVIOUS
    <3> QED
      BY <1>5, <2>4, <3>1, <3>2, <3>3
  <2>7. ~DmHalfway(r)
    BY <1>2 DEF DmHalfway, DmAt
  <2>8. \A n \in DmMessage : dmStored[n] # <<>> => dmStored'[n] = dmStored[n]
    BY <1>5, <2>4
  <2> QED
    BY new \in DmRequests, <1>2, <2>2, <2>4, <2>5, <2>6, <2>7, <2>8, MessageKeeps
<1> QED
  BY <1>4, <1>5

LEMMA TouchKeeps ==
  ASSUME DmIInv, NEW r \in DmRequest, DmTouch(r)
  PROVE  DmIInv'
<1>1. PICK m \in dmReq[r].msg :
        dmAnswered' = [dmAnswered EXCEPT ![m] = @ \cup {<<dmReq[r].who, dmReq[r].conv>>}]
  BY DEF DmTouch
<1>2. /\ DmAt(r, "touch") /\ DmReturn(r) /\ UNCHANGED <<dmType, dmRole, dmStored, dmDisturbed>>
  BY DEF DmTouch, dmTables
<1>3. /\ dmReq[r] \in DmRequests /\ m \in DmMessage
      /\ dmReq[r].who \in DmUser /\ dmReq[r].conv \in DmConv
  <2>1. dmReq[r] \in DmRequests
    BY DEF DmIInv, Shapes
  <2>2. dmReq[r].msg \in AtMostOne /\ dmReq[r].who \in DmUser /\ dmReq[r].conv \in DmConv
    BY <2>1 DEF DmRequests
  <2> QED
    BY m \in dmReq[r].msg, <2>1, <2>2 DEF AtMostOne
<1>4. dmReq' = [dmReq EXCEPT ![r] = DmIdle]
  BY <1>2 DEF DmReturn
<1>5. dmReq' \in [DmRequest -> DmRequests]
  BY <1>4, DmIdleRequest DEF DmIInv, Shapes
<1>6. /\ dmAnswered' \in [DmMessage -> SUBSET (DmUser \X DmConv)]
      /\ dmAnswered'[m] = dmAnswered[m] \cup {<<dmReq[r].who, dmReq[r].conv>>}
      /\ \A n \in DmMessage : n # m => dmAnswered'[n] = dmAnswered[n]
  BY <1>1, <1>3 DEF DmIInv, Shapes
<1>7. Shapes'
  BY <1>2, <1>5, <1>6 DEF DmIInv, Shapes
<1>8. dmStored[m] = <<dmReq[r].who, dmReq[r].conv>>
  BY m \in dmReq[r].msg, <1>2 DEF DmIInv, TouchedIsStored
<1>9. AnsweredIsStored'
  BY <1>2, <1>6, <1>8 DEF DmIInv, AnsweredIsStored
<1>10. ~DmHalfway(r)
  BY <1>2 DEF DmHalfway, DmAt
<1> QED
  BY <1>2, <1>4, <1>7, <1>9, <1>10, DmIdleRequest, MessageKeeps

----------------------------------------------------------------------------
\* createConversation

LEMMA NewKeeps ==
  ASSUME DmIInv, NEW r \in DmRequest, NEW who \in DmUser, NEW type \in {"dm", "group"},
         NEW others \in Seq(DmUser), others # <<>>, NEW c, NEW looked \in BOOLEAN,
         looked => \A d \in DmConv : dmType[d] \in {"dm", "direct"}
                     => ~ {who, others[1]} \subseteq DmMembers(d),
         DmNew(r, who, type, others, c, looked)
  PROVE  DmIInv'
<1> DEFINE list == <<who>> \o others
<1>1. /\ list \in Seq(DmUser) /\ list # <<>> /\ Head(list) = who
      /\ list[1] = who /\ list[2] = others[1]
  OBVIOUS
<1> HIDE DEF list
<1>2. /\ c \in DmGenerated /\ dmType[c] = "none" /\ DmMembers(c) = {}
      /\ \A q \in DmRequest : dmReq[q].conv # c
      /\ DmAt(r, "idle") /\ UNCHANGED <<dmTables, dmHistory>>
  BY DEF DmNew, DmFresh, DmStart
<1>3. PICK new \in DmRequests :
        /\ dmReq' = [dmReq EXCEPT ![r] = new] /\ new.pc = "newConv" /\ new.who = who
        /\ new.conv = c /\ new.left = list /\ new.alone = looked
  <2> DEFINE new == [DmIdle EXCEPT !.pc = "newConv", !.who = who, !.conv = c, !.type = type,
                                   !.left = list, !.alone = looked]
  <2>1. DmIdle \in DmRequests /\ c \in DmConv /\ "newConv" \in DmPcs
    BY <1>2, DmIdleRequest DEF DmConv, DmPcs
  <2>2. /\ new \in DmRequests /\ new.pc = "newConv" /\ new.who = who
        /\ new.conv = c /\ new.left = list /\ new.alone = looked
    BY <1>1, <2>1 DEF DmRequests
  <2>3. dmReq' = [dmReq EXCEPT ![r] = new]
    BY DEF DmNew, DmStart, CreatorFirst, list
  <2> QED
    BY <2>2, <2>3
<1>4. UNCHANGED <<dmTables, dmAnswered>> /\ dmDisturbed' \in BOOLEAN
      /\ (dmDisturbed \/ DmHalfway(r) => dmDisturbed')
  BY <1>2 DEF dmHistory, dmTables, DmIInv, Shapes, DmHalfway, DmAt
<1>5. c # DmNamed
  BY <1>2, DmAssumption
<1>6. new.alone => \A d \in DmConv : dmType[d] \in {"dm", "direct"}
                     => ~ {new.left[1], new.left[2]} \subseteq DmMembers(d)
  BY <1>1, <1>3
<1>7. new.pc \notin {"touch", "pairRow", "newRow", "convRow", "count", "deleteConv", "deleteRow"}
  BY <1>3
<1>8. /\ new.conv \in DmGenerated /\ new.left # <<>> /\ Head(new.left) = new.who
      /\ dmType[new.conv] = "none" /\ DmMembers(new.conv) = {} /\ new.conv # DmNamed
      /\ \A q \in DmRequest : dmReq[q].conv # new.conv
  BY <1>1, <1>2, <1>3, <1>5
<1> QED
  BY new \in DmRequests, <1>3, <1>4, <1>6, <1>7, <1>8, LocalKeeps

LEMMA NewConvKeeps ==
  ASSUME DmIInv, NEW r \in DmRequest, DmNewConv(r)
  PROVE  DmIInv'
<1>1. /\ DmAt(r, "newConv") /\ UNCHANGED <<dmRole, dmStored, dmAnswered, dmDisturbed>>
      /\ dmType' = [dmType EXCEPT ![dmReq[r].conv] = dmReq[r].type]
  BY DEF DmNewConv, dmHistory
<1>2. dmReq[r] \in DmRequests /\ dmReq[r].conv \in DmConv /\ dmReq[r].type \in {"dm", "group"}
  BY DEF DmIInv, Shapes, DmRequests
<1>3. /\ dmReq[r].conv \in DmGenerated /\ dmReq[r].left # <<>>
      /\ DmMembers(dmReq[r].conv) = {} /\ Head(dmReq[r].left) = dmReq[r].who
      /\ \A q \in DmRequest \ {r} : dmReq[q].conv # dmReq[r].conv
  BY <1>1 DEF DmIInv, NewIsAlone, DmAt
<1>4. PICK new \in DmRequests :
        /\ DmCross(r, new) /\ new.pc = "newRow" /\ new.who = dmReq[r].who
        /\ new.conv = dmReq[r].conv /\ new.left = dmReq[r].left /\ new.type = dmReq[r].type
  <2> DEFINE new == [dmReq[r] EXCEPT !.pc = "newRow"]
  <2>1. /\ new \in DmRequests /\ new.pc = "newRow" /\ new.who = dmReq[r].who
        /\ new.conv = dmReq[r].conv /\ new.left = dmReq[r].left /\ new.type = dmReq[r].type
    BY <1>2 DEF DmRequests, DmPcs
  <2>2. DmCross(r, new)
    BY DEF DmNewConv
  <2> QED
    BY <2>1, <2>2
<1>5. /\ dmReq' \in [DmRequest -> DmRequests] /\ dmReq'[r] = new /\ Elsewhere(r)
      /\ \A q \in DmRequest \ {r} : ~dmReq'[q].alone
  BY new \in DmRequests, <1>4, CrossLocal DEF DmIInv
<1>6. /\ dmType' \in [DmConv -> {"none", "direct", "dm", "group"}]
      /\ dmType'[dmReq[r].conv] = dmReq[r].type
      /\ \A c \in DmConv : c # dmReq[r].conv => dmType'[c] = dmType[c]
  BY <1>1, <1>2 DEF DmIInv, Shapes
<1>7. Shapes'
  BY <1>1, <1>5, <1>6 DEF DmIInv, Shapes
<1>8. \A c \in DmConv : DmMembers(c)' = DmMembers(c)
  BY <1>1 DEF DmMembers
<1>9. AnsweredIsStored'
  BY <1>1 DEF DmIInv, AnsweredIsStored
<1>10. BothOrNobody'
  <2>1. \A q \in DmRequest : DmHalfway(q) => DmHalfway(q)'
    BY <1>1, <1>5 DEF Elsewhere, DmHalfway, DmAt
  <2>2. DmMembers(DmNamed)' = DmMembers(DmNamed)
    BY <1>1 DEF DmMembers
  <2> QED
    BY <1>1, <2>1, <2>2 DEF DmIInv, NamedOK, BothOrNobody
<1>11. dmReq[r].conv # DmNamed
  BY <1>3, DmAssumption
<1>12. \A c \in DmConv : dmRole'[c] = dmRole[c]
  BY <1>1
<1>13. new.pc \notin {"newConv", "convRow", "touch", "pairRow", "count", "deleteConv", "deleteRow"}
  BY <1>4
<1> QED
  BY new \in DmRequests, <1>1, <1>2, <1>3, <1>4, <1>5, <1>6, <1>7, <1>9, <1>10, <1>11, <1>12,
     <1>13, <1>8, TableKeeps

LEMMA NewRowKeeps ==
  ASSUME DmIInv, NEW r \in DmRequest, DmNewRow(r)
  PROVE  DmIInv'
<1>1. DmAt(r, "newRow") /\ UNCHANGED <<dmType, dmStored, dmAnswered, dmDisturbed>>
  BY DEF DmNewRow, dmHistory
<1>2. /\ dmReq[r] \in DmRequests /\ dmReq[r].conv \in DmConv /\ dmReq[r].left \in Seq(DmUser)
      /\ dmReq[r].conv \in DmGenerated /\ dmReq[r].left # <<>>
  BY <1>1 DEF DmIInv, Shapes, DmRequests, NewIsAlone, DmAt
<1>3. Head(dmReq[r].left) \in DmUser /\ Tail(dmReq[r].left) \in Seq(DmUser)
  BY <1>2
<1>0. PICK k \in DmConv, u \in DmUser : k = dmReq[r].conv /\ u = Head(dmReq[r].left)
  BY <1>2, <1>3
<1>4. k \in DmGenerated /\ k # DmNamed
  BY <1>2, <1>0, DmAssumption
<1>5. PICK new \in DmRequests :
        /\ DmInsertRow(r, k, u, RowRole(dmReq[r].type, u = dmReq[r].who), new)
        /\ \/ new = DmIdle
           \/ /\ new.pc = "newRow" /\ new.who = dmReq[r].who /\ new.conv = k
              /\ new.type = dmReq[r].type /\ new.left # <<>>
  <2>1. CASE Tail(dmReq[r].left) = <<>> \/ u \in DmMembers(k)
    BY <1>1, <1>0, <2>1, DmIdleRequest DEF DmNewRow
  <2>2. CASE ~(Tail(dmReq[r].left) = <<>> \/ u \in DmMembers(k))
    <3> DEFINE new == [dmReq[r] EXCEPT !.left = Tail(dmReq[r].left)]
    <3>1. /\ new \in DmRequests /\ new.pc = dmReq[r].pc /\ new.who = dmReq[r].who /\ new.conv = k
          /\ new.type = dmReq[r].type /\ new.left = Tail(dmReq[r].left)
      BY <1>2, <1>3, <1>0 DEF DmRequests
    <3>2. DmInsertRow(r, k, u, RowRole(dmReq[r].type, u = dmReq[r].who), new)
      BY <1>0, <2>2 DEF DmNewRow
    <3> QED
      BY <1>1, <2>2, <3>1, <3>2 DEF DmAt
  <2> QED
    BY <2>1, <2>2
<1> DEFINE role == RowRole(dmReq[r].type, u = dmReq[r].who)
<1>6. /\ role \in {"member", "owner"}
      /\ dmReq[r].type = "group" /\ u = dmReq[r].who => role = "owner"
  BY DEF RowRole
<1>7. /\ dmReq' \in [DmRequest -> DmRequests] /\ dmReq'[r] = new /\ Elsewhere(r)
      /\ \A q \in DmRequest \ {r} : ~dmReq'[q].alone
  BY new \in DmRequests, <1>5, CrossLocal DEF DmIInv, DmInsertRow
<1>8. dmRole' = [dmRole EXCEPT ![k][u] = IF @ = "none" THEN role ELSE @]
  BY <1>5 DEF DmInsertRow
<1> HIDE DEF role
<1>9. /\ dmRole' \in [DmConv -> [DmUser -> {"none", "member", "owner"}]]
      /\ \A c \in DmConv : c # k => dmRole'[c] = dmRole[c]
      /\ dmRole'[k][u] = IF dmRole[k][u] = "none" THEN role ELSE dmRole[k][u]
      /\ \A v \in DmUser : v # u => dmRole'[k][v] = dmRole[k][v]
  BY k \in DmConv, u \in DmUser, <1>6, <1>8 DEF DmIInv, Shapes
<1>10. DmMembers(k)' = DmMembers(k) \cup {u}
  BY u \in DmUser, <1>6, <1>9 DEF DmMembers
<1>11. Shapes'
  BY <1>1, <1>7, <1>9 DEF DmIInv, Shapes
<1>12. AnsweredIsStored'
  BY <1>1 DEF DmIInv, AnsweredIsStored
<1>13. DmMembers(DmNamed)' = DmMembers(DmNamed)
  BY <1>4, <1>9 DEF DmMembers, DmConv
<1>14. BothOrNobody'
  <2>1. \A q \in DmRequest : DmHalfway(q) => DmHalfway(q)'
    BY <1>1, <1>7 DEF Elsewhere, DmHalfway, DmAt
  <2> QED
    BY <1>1, <1>13, <2>1 DEF DmIInv, NamedOK, BothOrNobody
<1>15. ASSUME dmType[k] = "group"
       PROVE  /\ dmReq[r].type = "group"
              /\ DmMembers(k) = {} => u = dmReq[r].who
  BY <1>1, <1>15, <1>0 DEF DmIInv, GroupsOK, OwnerComesFirst
<1>16. ASSUME dmType[k] = "group"
       PROVE  \E v \in DmMembers(k)' : dmRole'[k][v] = "owner"
  <2>1. CASE DmMembers(k) = {}
    <3>1. dmRole[k][u] = "none"
      BY u \in DmUser, <2>1 DEF DmMembers
    <3>2. u \in DmMembers(k)'
      BY <1>10
    <3> QED
      BY <1>6, <1>9, <1>15, <1>16, <2>1, <3>1, <3>2
  <2>2. CASE DmMembers(k) # {}
    <3>1. PICK v \in DmMembers(k) : dmRole[k][v] = "owner"
      BY k \in DmConv, <1>16, <2>2 DEF DmIInv, GroupsOK, GroupHasItsOwner
    <3>2. v \in DmUser /\ v \in DmMembers(k)'
      BY v \in DmMembers(k), <1>10 DEF DmMembers
    <3> QED
      BY <1>9, <3>1, <3>2
  <2> QED
    BY <2>1, <2>2
<1>17. DmMembers(k) \subseteq DmMembers(k)' /\ DmMembers(k)' # {}
  BY <1>10
<1>18. /\ new.pc \notin {"newConv", "convRow", "touch", "pairRow", "count", "deleteConv", "deleteRow"}
       /\ new.pc = "newRow" => /\ new.conv \in DmGenerated /\ new.left # <<>>
                               /\ new.type = dmReq[r].type
       /\ \/ new.conv = k /\ new.who = dmReq[r].who
          \/ new = DmIdle
  BY <1>2, <1>4, <1>5, <1>0, DmIdleRequest
<1>19. /\ dmType'[k] = dmType[k] /\ \A c \in DmConv : dmType'[c] = dmType[c]
       /\ dmStored' = dmStored /\ dmDisturbed' = dmDisturbed
  BY <1>1
<1>20. dmType'[k] = "group" =>
         /\ dmType[k] = "group" /\ new.pc = "newRow" => new.type = "group"
         /\ \E v \in DmMembers(k)' : dmRole'[k][v] = "owner"
  BY <1>15, <1>16, <1>18, <1>19
<1>21. dmType'[k] = "group" => dmType[k] = "group"
  BY <1>19
<1>22. new.pc = "newRow" => new.conv \in DmGenerated /\ new.left # <<>>
  BY <1>18
<1>23. /\ \A c \in DmConv : c # k => dmType'[c] = dmType[c] /\ dmRole'[c] = dmRole[c]
       /\ \A m \in DmMessage : dmStored[m] # <<>> => dmStored'[m] = dmStored[m]
       /\ dmDisturbed => dmDisturbed'
  BY <1>9, <1>19
<1>24. dmType'[k] = "group" => dmType[k] = "group" /\ DmMembers(k) \subseteq DmMembers(k)'
  BY <1>17, <1>21
<1>25. dmType'[k] = "group" /\ new.conv = k =>
         /\ new.pc \notin {"count", "deleteConv", "deleteRow"}
         /\ new.pc = "newRow" => new.type = "group" /\ DmMembers(k)' # {}
  BY <1>17, <1>18, <1>20, <1>21, Zenon
<1>26. dmType'[k] = "group" => \E v \in DmMembers(k)' : dmRole'[k][v] = "owner"
  BY <1>20
<1>27. /\ k = DmNamed => dmType'[k] # "group" /\ DmMembers(k)' \subseteq DmPair
       /\ k = DmNamed /\ DmFirst \in DmMembers(k) => dmDisturbed' \/ DmFirst \in DmMembers(k)'
  BY <1>4
<1>28. /\ new.pc = "touch" => \A m \in new.msg : dmStored'[m] = <<new.who, new.conv>>
       /\ new.pc = "pairRow" =>
            /\ k = DmNamed /\ new.conv = k
            /\ \/ new.left = <<DmFirst, DmSecond>>
               \/ new.left = <<DmSecond>> /\ DmFirst \in DmMembers(k)'
       /\ new.pc \notin {"newConv", "convRow"}
  BY <1>18
<1> QED
  BY new \in DmRequests, k \in DmConv, <1>0, <1>7, <1>11, <1>12, <1>14, <1>18, <1>22,
     <1>23, <1>24, <1>25, <1>26, <1>27, <1>28, TableKeeps, Zenon

----------------------------------------------------------------------------
\* Departures

LEMMA LeaveKeeps ==
  ASSUME DmIInv, NEW r \in DmRequest, NEW who \in DmUser, NEW c \in DmConv,
         NEW step \in {"count", "deleteRow"}, DmLeave(r, who, c, step)
  PROVE  DmIInv'
<1>1. /\ dmRole[c][who] = "member" /\ dmType[c] # "group" /\ DmAt(r, "idle")
      /\ UNCHANGED <<dmTables, dmHistory>>
  BY DEF DmLeave, DmStart
<1>2. who \in DmMembers(c)
  BY <1>1 DEF DmMembers
<1>3. PICK new \in DmRequests :
        /\ dmReq' = [dmReq EXCEPT ![r] = new]
        /\ new.pc = step /\ new.who = who /\ new.conv = c
  <2> DEFINE new == [DmIdle EXCEPT !.pc = step, !.who = who, !.conv = c]
  <2>1. DmIdle \in DmRequests /\ step \in DmPcs
    BY DmIdleRequest DEF DmPcs
  <2>2. new \in DmRequests /\ new.pc = step /\ new.who = who /\ new.conv = c
    BY <2>1 DEF DmRequests
  <2>3. dmReq' = [dmReq EXCEPT ![r] = new]
    BY DEF DmLeave, DmStart
  <2> QED
    BY <2>2, <2>3
<1>4. UNCHANGED <<dmTables, dmAnswered>> /\ dmDisturbed' \in BOOLEAN
      /\ (dmDisturbed \/ DmHalfway(r) => dmDisturbed')
  BY <1>1 DEF dmHistory, dmTables, DmIInv, Shapes, DmHalfway, DmAt
<1>5. new.conv = DmNamed => new.who \in DmPair
  BY <1>2, <1>3 DEF DmIInv, NamedOK, OnlyThePair
<1>6. \A q \in DmRequest \ {r} : DmAt(q, "newConv") => dmReq[q].conv # new.conv
  BY <1>2, <1>3 DEF DmIInv, NewIsAlone, DmAt
<1>7. /\ new.pc \notin {"touch", "pairRow", "newRow", "convRow", "newConv"}
      /\ dmType[new.conv] # "group"
  BY <1>1, <1>3
<1> QED
  BY new \in DmRequests, <1>3, <1>4, <1>5, <1>6, <1>7, LocalKeeps

LEMMA CountKeeps ==
  ASSUME DmIInv, NEW r \in DmRequest, DmCount(r)
  PROVE  DmIInv'
<1>1. DmAt(r, "count") /\ UNCHANGED <<dmTables, dmHistory>>
  BY DEF DmCount
<1>2. PICK step \in {"deleteConv", "deleteRow"} : DmGoto(r, step)
  BY DEF DmCount
<1>3. PICK new \in DmRequests :
        /\ dmReq' = [dmReq EXCEPT ![r] = new]
        /\ new.pc = step /\ new.who = dmReq[r].who /\ new.conv = dmReq[r].conv
  <2> DEFINE new == [dmReq[r] EXCEPT !.pc = step]
  <2>1. dmReq[r] \in DmRequests /\ step \in DmPcs
    BY DEF DmIInv, Shapes, DmPcs
  <2>2. new \in DmRequests /\ new.pc = step /\ new.who = dmReq[r].who /\ new.conv = dmReq[r].conv
    BY <2>1 DEF DmRequests
  <2>3. dmReq' = [dmReq EXCEPT ![r] = new]
    BY <1>2 DEF DmGoto
  <2> QED
    BY <2>2, <2>3
<1>4. UNCHANGED <<dmTables, dmAnswered>> /\ dmDisturbed' \in BOOLEAN
      /\ (dmDisturbed \/ DmHalfway(r) => dmDisturbed')
  BY <1>1 DEF dmHistory, dmTables, DmIInv, Shapes, DmHalfway, DmAt
<1>5. new.conv = DmNamed => new.who \in DmPair
  BY <1>3 DEF DmIInv, NamedOK, OnlyThePair
<1>6. \A q \in DmRequest \ {r} : DmAt(q, "newConv") => dmReq[q].conv # new.conv
  BY <1>3 DEF DmIInv, NewIsAlone, DmAt
<1>7. /\ new.pc \notin {"touch", "pairRow", "newRow", "convRow", "newConv"}
      /\ dmType[new.conv] # "group"
  BY <1>1, <1>2, <1>3 DEF DmIInv, GroupsOK, OwnerComesFirst, DmAt
<1> QED
  BY new \in DmRequests, <1>3, <1>4, <1>5, <1>6, <1>7, LocalKeeps

\* Only the row of a conversation that is not a group, or of one of its participants,
\* goes away.
LEMMA DepartureKeeps ==
  ASSUME DmIInv, NEW r \in DmRequest, NEW k \in DmConv, k = dmReq[r].conv, DmReturn(r),
         ~DmHalfway(r), UNCHANGED <<dmStored, dmAnswered>>,
         dmType' \in [DmConv -> {"none", "direct", "dm", "group"}],
         dmRole' \in [DmConv -> [DmUser -> {"none", "member", "owner"}]],
         \A c \in DmConv : c # k => dmType'[c] = dmType[c] /\ dmRole'[c] = dmRole[c],
         dmType'[k] # "group", dmType'[k] \in {"dm", "direct"} => dmType[k] \in {"dm", "direct"},
         \A u \in DmUser : dmRole'[k][u] # "none" => dmRole[k][u] # "none",
         dmDisturbed' \in BOOLEAN, dmDisturbed => dmDisturbed',
         k = DmNamed /\ dmRole'[k] # dmRole[k] => dmDisturbed'
  PROVE  DmIInv'
<1>1. dmReq' = [dmReq EXCEPT ![r] = DmIdle]
  BY DEF DmReturn
<1>2. dmReq' \in [DmRequest -> DmRequests] /\ dmReq'[r] = DmIdle /\ Elsewhere(r)
  BY <1>1, DmIdleRequest, UpdateLocal DEF DmIInv
<1>3. Shapes'
  BY <1>2 DEF DmIInv, Shapes
<1>4. \A c \in DmConv : DmMembers(c)' \subseteq DmMembers(c)
  BY DEF DmMembers
<1>5. \A c \in DmConv : dmType'[c] \in {"dm", "direct"} => dmType[c] \in {"dm", "direct"}
  OBVIOUS
<1>6. AnsweredIsStored'
  BY DEF DmIInv, AnsweredIsStored
<1>7. dmDisturbed' \/ dmRole'[DmNamed] = dmRole[DmNamed]
  BY DEF DmConv
<1>8. dmDisturbed' \/ DmMembers(DmNamed)' = DmMembers(DmNamed)
  BY <1>7 DEF DmMembers
<1>9. BothOrNobody'
  <2>1. \A q \in DmRequest : DmHalfway(q) => DmHalfway(q)'
    BY <1>2 DEF Elsewhere, DmHalfway
  <2> QED
    BY <1>8, <2>1 DEF DmIInv, NamedOK, BothOrNobody
<1>10. DmMembers(DmNamed)' \subseteq DmPair
  BY <1>4 DEF DmIInv, NamedOK, OnlyThePair, DmConv
<1>11. DmIdle.pc \notin {"newConv", "convRow", "touch", "pairRow", "newRow",
                         "count", "deleteConv", "deleteRow"}
  BY DmIdleRequest
<1>12. \A m \in DmMessage : dmStored[m] # <<>> => dmStored'[m] = dmStored[m]
  OBVIOUS
<1> QED
  BY DmIdleRequest, <1>2, <1>3, <1>4, <1>5, <1>6, <1>8, <1>9, <1>10, <1>11, <1>12, TableKeeps

LEMMA DeleteConvKeeps ==
  ASSUME DmIInv, NEW r \in DmRequest, DmDeleteConv(r)
  PROVE  DmIInv'
<1>1. /\ DmAt(r, "deleteConv") /\ DmReturn(r)
      /\ UNCHANGED <<dmRole, dmStored, dmAnswered, dmDisturbed>>
  BY DEF DmDeleteConv, dmHistory
<1>2. PICK k \in DmConv : k = dmReq[r].conv
  BY DEF DmIInv, Shapes, DmRequests
<1>3. dmType' = [dmType EXCEPT ![k] = "none"]
  BY <1>2 DEF DmDeleteConv
<1>4. /\ dmType' \in [DmConv -> {"none", "direct", "dm", "group"}] /\ dmType'[k] = "none"
      /\ \A c \in DmConv : c # k => dmType'[c] = dmType[c]
  BY k \in DmConv, <1>3 DEF DmIInv, Shapes
<1>5. ~DmHalfway(r)
  BY <1>1 DEF DmHalfway, DmAt
<1>6. dmDisturbed' \in BOOLEAN /\ (dmDisturbed => dmDisturbed')
      /\ dmRole' \in [DmConv -> [DmUser -> {"none", "member", "owner"}]] /\ dmRole' = dmRole
  BY <1>1 DEF DmIInv, Shapes
<1> QED
  BY k \in DmConv, <1>1, <1>2, <1>4, <1>5, <1>6, DepartureKeeps

LEMMA DeleteRowKeeps ==
  ASSUME DmIInv, NEW r \in DmRequest, DmDeleteRow(r)
  PROVE  DmIInv'
<1>1. /\ DmAt(r, "deleteRow") /\ DmReturn(r) /\ UNCHANGED <<dmType, dmStored, dmAnswered>>
  BY DEF DmDeleteRow
<1>2. PICK k \in DmConv, who \in DmUser : k = dmReq[r].conv /\ who = dmReq[r].who
  BY DEF DmIInv, Shapes, DmRequests
<1>3. /\ dmRole' = [dmRole EXCEPT ![k][who] = "none"]
      /\ dmDisturbed' = (dmDisturbed \/ k = DmNamed)
  BY <1>2 DEF DmDeleteRow
<1>4. /\ dmRole' \in [DmConv -> [DmUser -> {"none", "member", "owner"}]]
      /\ \A c \in DmConv : c # k => dmRole'[c] = dmRole[c]
      /\ \A u \in DmUser : dmRole'[k][u] # "none" => dmRole[k][u] # "none"
  BY k \in DmConv, who \in DmUser, <1>3 DEF DmIInv, Shapes
<1>5. ~DmHalfway(r)
  BY <1>1 DEF DmHalfway, DmAt
<1>6. dmType[k] # "group"
  BY <1>1, <1>2 DEF DmIInv, GroupsOK, OwnerComesFirst, DmAt
<1>7. /\ dmDisturbed' \in BOOLEAN /\ (dmDisturbed => dmDisturbed')
      /\ k = DmNamed => dmDisturbed'
  BY <1>3
<1>8. dmType' \in [DmConv -> {"none", "direct", "dm", "group"}] /\ dmType' = dmType
  BY <1>1 DEF DmIInv, Shapes
<1> QED
  BY k \in DmConv, <1>1, <1>2, <1>4, <1>5, <1>6, <1>7, <1>8, DepartureKeeps

LEMMA FailsKeeps ==
  ASSUME DmIInv, NEW r \in DmRequest, DmFails(r)
  PROVE  DmIInv'
<1>1. /\ DmReturn(r) /\ UNCHANGED <<dmTables, dmAnswered>>
      /\ dmDisturbed' = (dmDisturbed \/ DmHalfway(r))
  BY DEF DmFails
<1> QED
  BY <1>1, ReturnKeeps
----------------------------------------------------------------------------
LEMMA StepKeeps ==
  ASSUME DmIInv, NEW r \in DmRequest, DmStep(r)
  PROVE  DmIInv'
BY ConvRowKeeps, PairRowKeeps, RereadKeeps, MessageRowKeeps, TouchKeeps, NewConvKeeps,
   NewRowKeeps, CountKeeps, DeleteConvKeeps, DeleteRowKeeps, FailsKeeps DEF DmStep

LEMMA FindKeeps ==
  ASSUME DmIInv, NEW r \in DmRequest, NEW who \in DmUser, NEW other \in DmUser, NEW c \in DmConv,
         DmFind(r, who, other, c)
  PROVE  DmIInv'
<1>1. <<other>> \in Seq(DmUser) /\ <<other>> # <<>> /\ <<other>>[1] = other
  OBVIOUS
<1>2. \A d \in DmConv : dmType[d] \in {"dm", "direct"}
        => ~ {who, <<other>>[1]} \subseteq DmMembers(d)
  BY <1>1 DEF DmFind, DmFound
<1>3. DmNew(r, who, "dm", <<other>>, c, TRUE)
  BY DEF DmFind
<1>4. "dm" \in {"dm", "group"} /\ TRUE \in BOOLEAN
  OBVIOUS
<1> HIDE DEF DmNew
<1> QED
  BY <1>1, <1>2, <1>3, <1>4, NewKeeps

LEMMA CreateConvKeeps ==
  ASSUME DmIInv, NEW r \in DmRequest, NEW who \in DmUser, NEW type \in {"dm", "group"},
         NEW others \in DmOthers[who], NEW c \in DmConv, DmCreateConv(r, who, type, others, c)
  PROVE  DmIInv'
<1>1. others \in Seq(DmUser) /\ others # <<>>
  BY others \in DmOthers[who], ListsAreSequences DEF DmCreateConv
<1>2. DmNew(r, who, type, others, c, FALSE)
  BY DEF DmCreateConv
<1> QED
  BY <1>1, <1>2, NewKeeps

LEMMA DmNextKeeps == DmIInv /\ [DmNext]_dmVars => DmIInv'
<1> SUFFICES ASSUME DmIInv, [DmNext]_dmVars PROVE DmIInv'
  OBVIOUS
<1>1. CASE DmNext
  <2>1. PICK r \in DmRequest :
          \/ DmStep(r)
          \/ \E who \in DmUser, c \in DmConv :
               \/ \E m \in DmMessage : DmCreate(r, who, c, m)
               \/ \E other \in DmUser : DmFind(r, who, other, c)
               \/ \E type \in {"dm", "group"}, others \in DmOthers[who] :
                    DmCreateConv(r, who, type, others, c)
               \/ \E step \in {"count", "deleteRow"} : DmLeave(r, who, c, step)
    BY <1>1 DEF DmNext
  <2>2. CASE DmStep(r)
    BY r \in DmRequest, <2>2, StepKeeps
  <2>3. ASSUME NEW who \in DmUser, NEW c \in DmConv, NEW m \in DmMessage, DmCreate(r, who, c, m)
        PROVE  DmIInv'
    BY r \in DmRequest, <2>3, CreateKeeps
  <2>4. ASSUME NEW who \in DmUser, NEW c \in DmConv, NEW other \in DmUser, DmFind(r, who, other, c)
        PROVE  DmIInv'
    BY r \in DmRequest, <2>4, FindKeeps
  <2>5. ASSUME NEW who \in DmUser, NEW c \in DmConv, NEW type \in {"dm", "group"},
               NEW others \in DmOthers[who], DmCreateConv(r, who, type, others, c)
        PROVE  DmIInv'
    BY r \in DmRequest, <2>5, CreateConvKeeps
  <2>6. ASSUME NEW who \in DmUser, NEW c \in DmConv, NEW step \in {"count", "deleteRow"},
               DmLeave(r, who, c, step)
        PROVE  DmIInv'
    BY r \in DmRequest, <2>6, LeaveKeeps
  <2> QED
    BY <2>1, <2>2, <2>3, <2>4, <2>5, <2>6
<1>2. CASE UNCHANGED dmVars
  <2>1. /\ dmType' = dmType /\ dmRole' = dmRole /\ dmStored' = dmStored /\ dmReq' = dmReq
        /\ dmAnswered' = dmAnswered /\ dmDisturbed' = dmDisturbed
    BY <1>2 DEF dmVars
  <2>2. Shapes' /\ TouchedIsStored' /\ AnsweredIsStored' /\ NewIsAlone' /\ StillNotFound'
    BY <2>1 DEF DmIInv, Shapes, TouchedIsStored, AnsweredIsStored, NewIsAlone, StillNotFound,
                DmAt, DmMembers
  <2>3. NamedOK' /\ GroupsOK'
    BY <2>1 DEF DmIInv, NamedOK, GroupsOK, OnlyThePair, PairInOrder, BothOrNobody,
                OwnerComesFirst, GroupHasItsOwner, DmHalfway, DmAt, DmMembers
  <2> QED
    BY <2>2, <2>3 DEF DmIInv
<1> QED
  BY <1>1, <1>2

LEMMA DmInvariance == DmSpec => []DmIInv
BY DmInitEstablishes, DmNextKeeps, PTL DEF DmSpec

----------------------------------------------------------------------------
\* No creation has more users to insert than its list and the creator.
Short(s) == Len(s) <= 1 + Cardinality(DmUser)
ListsAreShort == \A r \in DmRequest : Short(dmReq[r].left)

\* There are two users at least, and finitely many.
LEMMA UsersAreCounted ==
  /\ Cardinality(DmUser) \in Nat /\ Cardinality(DmUser) >= 2
  /\ \A who \in DmUser : \A s \in DmOthers[who] : s \in Seq(DmUser) /\ Len(s) < Cardinality(DmUser)
<1>1. IsFiniteSet(DmPair) /\ Cardinality(DmPair) = 2
  <2>1. IsFiniteSet({DmFirst}) /\ Cardinality({DmFirst}) = 1
    BY FS_Singleton
  <2>2. DmPair = {DmFirst} \cup {DmSecond} /\ DmSecond \notin {DmFirst}
    BY DmAssumption DEF DmPair
  <2> QED
    BY <2>1, <2>2, FS_AddElement
<1>2. IsFiniteSet(DmUser)
  BY <1>1, FS_Union, DmAssumption DEF DmUser
<1>3. Cardinality(DmUser) \in Nat
  BY <1>2, FS_CardinalityType
<1>4. Cardinality(DmPair) <= Cardinality(DmUser)
  BY <1>2, FS_Subset DEF DmUser
<1>5. \A who \in DmUser : \A s \in DmOthers[who] : Len(s) < Cardinality(DmUser)
  BY DEF DmOthers
<1> QED
  BY <1>1, <1>3, <1>4, <1>5, ListsAreSequences

\* A step that gives one request a short list.
LEMMA OneListIsShort ==
  ASSUME Shapes, ListsAreShort, NEW r \in DmRequest, NEW new, Short(new.left),
         dmReq' = [dmReq EXCEPT ![r] = new] \/ DmCross(r, new)
  PROVE  ListsAreShort'
<1>1. dmReq \in [DmRequest -> DmRequests]
  BY DEF Shapes
<1>2. dmReq'[r] = new
  BY <1>1 DEF DmCross
<1>3. \A q \in DmRequest \ {r} : dmReq'[q].left = dmReq[q].left
  <2>1. CASE dmReq' = [dmReq EXCEPT ![r] = new]
    BY <1>1, <2>1
  <2>2. CASE DmCross(r, new)
    <3>1. \A s \in DmRequests : [s EXCEPT !.alone = FALSE].left = s.left
      BY DEF DmRequests
    <3>2. \A q \in DmRequest \ {r} : dmReq'[q] = [dmReq[q] EXCEPT !.alone = FALSE]
      BY <2>2 DEF DmCross
    <3> QED
      BY <1>1, <3>1, <3>2
  <2> QED
    BY <2>1, <2>2
<1> QED
  BY <1>2, <1>3 DEF ListsAreShort, Short

\* An answered request has nothing left to insert, and one that only moves on has
\* what it had.
LEMMA NoListGrows ==
  ASSUME Shapes, ListsAreShort, NEW r \in DmRequest,
         \/ DmReturn(r)
         \/ \E pc \in DmPcs : DmGoto(r, pc)
  PROVE  ListsAreShort'
<1>1. Short(DmIdle.left)
  BY UsersAreCounted DEF DmIdle, Short
<1>2. CASE DmReturn(r)
  BY <1>1, <1>2, OneListIsShort DEF DmReturn
<1>3. ASSUME NEW pc \in DmPcs, DmGoto(r, pc) PROVE ListsAreShort'
  <2>1. dmReq[r] \in DmRequests
    BY DEF Shapes
  <2>2. [dmReq[r] EXCEPT !.pc = pc].left = dmReq[r].left
    BY <2>1 DEF DmRequests
  <2>3. dmReq' = [dmReq EXCEPT ![r] = [dmReq[r] EXCEPT !.pc = pc]]
    BY <1>3 DEF DmGoto
  <2> QED
    BY <2>2, <2>3, OneListIsShort DEF ListsAreShort
<1> QED
  BY <1>2, <1>3

\* createConversation inserts the creator and the others of its list.
LEMMA NewListIsShort ==
  ASSUME Shapes, ListsAreShort, NEW r \in DmRequest, NEW who \in DmUser, NEW type,
         NEW others \in Seq(DmUser), Len(others) <= Cardinality(DmUser), NEW c, NEW looked,
         DmNew(r, who, type, others, c, looked)
  PROVE  ListsAreShort'
<1> DEFINE new == [DmIdle EXCEPT !.pc = "newConv", !.who = who, !.conv = c, !.type = type,
                                 !.left = CreatorFirst(who, others), !.alone = looked]
<1>1. dmReq' = [dmReq EXCEPT ![r] = new]
  BY DEF DmNew, DmStart
<1>2. new.left = <<who>> \o others
  BY DEF DmIdle, CreatorFirst
<1>3. Len(<<who>> \o others) = 1 + Len(others)
  OBVIOUS
<1>4. Len(others) \in Nat /\ Cardinality(DmUser) \in Nat
  BY UsersAreCounted
<1> HIDE DEF new
<1>5. Short(new.left)
  BY <1>2, <1>3, <1>4 DEF Short
<1> QED
  BY <1>1, <1>5, OneListIsShort

\* Every step keeps the lists short.
LEMMA ListsStayShort ==
  ASSUME DmIInv, ListsAreShort, [DmNext]_dmVars
  PROVE  ListsAreShort'
<1>a. Shapes
  BY DEF DmIInv
<1>1. ASSUME NEW r \in DmRequest, DmStep(r) PROVE ListsAreShort'
  <2>a. /\ dmReq[r] \in DmRequests /\ dmReq[r].left \in Seq(DmUser) /\ Short(dmReq[r].left)
        /\ Cardinality(DmUser) \in Nat /\ Cardinality(DmUser) >= 2
    BY <1>a, UsersAreCounted DEF Shapes, DmRequests, ListsAreShort
  <2>b. Short(DmIdle.left)
    BY <2>a DEF DmIdle, Short
  <2>1. CASE DmConvRow(r)
    <3> DEFINE new == [dmReq[r] EXCEPT !.pc = "pairRow", !.left = NamedUsers(dmReq[r].who)]
    <3>1. new.left = <<DmFirst, DmSecond>>
      BY <2>a DEF DmRequests, NamedUsers
    <3>2. DmCross(r, new)
      BY <2>1 DEF DmConvRow
    <3>3. Len(<<DmFirst, DmSecond>>) = 2
      OBVIOUS
    <3> HIDE DEF new
    <3>4. Short(new.left)
      BY <2>a, <3>1, <3>3 DEF Short
    <3> QED
      BY <1>a, <3>2, <3>4, OneListIsShort
  <2>2. CASE DmPairRow(r)
    <3> DEFINE rest == Tail(dmReq[r].left)
               new == [dmReq[r] EXCEPT !.left = rest, !.pc = IF rest = <<>> THEN "reread" ELSE @]
    <3>1. DmCross(r, new)
      BY <2>2 DEF DmPairRow, DmInsertRow
    <3>2. new.left = rest
      BY <2>a DEF DmRequests
    <3>3. dmReq[r].left # <<>>
      BY <2>2 DEF DmPairRow, DmIInv, NamedOK, PairInOrder
    <3>4. Len(rest) = Len(dmReq[r].left) - 1
      BY <2>a, <3>3
    <3> HIDE DEF new, rest
    <3>5. Short(new.left)
      BY <2>a, <3>2, <3>4 DEF Short
    <3> QED
      BY <1>a, <3>1, <3>5, OneListIsShort
  <2>3. CASE DmReread(r)
    <3> DEFINE new == [dmReq[r] EXCEPT !.pc = "message"]
    <3>1. dmReq' = [dmReq EXCEPT ![r] = new] \/ DmReturn(r)
      BY <2>3 DEF DmReread, DmAdmit
    <3>2. new.left = dmReq[r].left
      BY <2>a DEF DmRequests
    <3> HIDE DEF new
    <3> QED
      BY <1>a, <2>a, <3>1, <3>2, OneListIsShort, NoListGrows
  <2>4. CASE DmMessageRow(r) \/ DmTouch(r) \/ DmCount(r) \/ DmDeleteConv(r) \/ DmDeleteRow(r)
             \/ DmFails(r)
    <3>1. DmReturn(r) \/ \E pc \in DmPcs : DmGoto(r, pc)
      BY <2>4 DEF DmMessageRow, DmTouch, DmCount, DmDeleteConv, DmDeleteRow, DmFails, DmPcs
    <3> QED
      BY <1>a, <3>1, NoListGrows
  <2>5. CASE DmNewConv(r)
    <3> DEFINE new == [dmReq[r] EXCEPT !.pc = "newRow"]
    <3>1. DmCross(r, new)
      BY <2>5 DEF DmNewConv
    <3>2. new.left = dmReq[r].left
      BY <2>a DEF DmRequests
    <3> HIDE DEF new
    <3> QED
      BY <1>a, <2>a, <3>1, <3>2, OneListIsShort
  <2>6. CASE DmNewRow(r)
    <3> DEFINE rest == Tail(dmReq[r].left)
               new == [dmReq[r] EXCEPT !.left = rest]
    <3>1. DmCross(r, DmIdle) \/ DmCross(r, new)
      BY <2>6 DEF DmNewRow, DmInsertRow
    <3>2. new.left = rest
      BY <2>a DEF DmRequests
    <3>3. dmReq[r].left # <<>>
      BY <2>6 DEF DmNewRow, DmIInv, NewIsAlone, DmAt
    <3>4. Len(rest) = Len(dmReq[r].left) - 1
      BY <2>a, <3>3
    <3> HIDE DEF new, rest
    <3>5. Short(new.left)
      BY <2>a, <3>2, <3>4 DEF Short
    <3> QED
      BY <1>a, <2>b, <3>1, <3>5, OneListIsShort
  <2> QED
    BY <1>1, <2>1, <2>2, <2>3, <2>4, <2>5, <2>6 DEF DmStep
<1>2. ASSUME NEW r \in DmRequest, NEW who \in DmUser, NEW c \in DmConv, NEW m \in DmMessage,
             DmCreate(r, who, c, m)
      PROVE  ListsAreShort'
  <2> DEFINE new(pc) == [[DmIdle EXCEPT !.who = who, !.conv = c, !.msg = {m}] EXCEPT !.pc = pc]
  <2>1. \/ dmReq' = [dmReq EXCEPT ![r] = new("convRow")]
        \/ dmReq' = [dmReq EXCEPT ![r] = new("message")]
        \/ DmReturn(r)
    BY <1>2 DEF DmCreate, DmStart, DmAdmit
  <2>2. \A pc \in DmPcs : new(pc).left = <<>>
    BY DEF DmIdle
  <2>3. Short(<<>>) /\ "convRow" \in DmPcs /\ "message" \in DmPcs
    BY UsersAreCounted DEF Short, DmPcs
  <2> HIDE DEF new
  <2> QED
    BY <1>a, <2>1, <2>2, <2>3, OneListIsShort, NoListGrows
<1>3. ASSUME NEW r \in DmRequest, NEW who \in DmUser, NEW c \in DmConv, NEW other \in DmUser,
             DmFind(r, who, other, c)
      PROVE  ListsAreShort'
  <2>1. <<other>> \in Seq(DmUser) /\ Len(<<other>>) <= Cardinality(DmUser)
    BY UsersAreCounted
  <2>2. DmNew(r, who, "dm", <<other>>, c, TRUE)
    BY <1>3 DEF DmFind
  <2> QED
    BY <1>a, <2>1, <2>2, NewListIsShort
<1>4. ASSUME NEW r \in DmRequest, NEW who \in DmUser, NEW c \in DmConv,
             NEW type \in {"dm", "group"}, NEW others \in DmOthers[who],
             DmCreateConv(r, who, type, others, c)
      PROVE  ListsAreShort'
  <2>1. others \in Seq(DmUser) /\ Len(others) < Cardinality(DmUser)
    BY UsersAreCounted
  <2>2. Len(others) <= Cardinality(DmUser)
    BY <2>1, UsersAreCounted
  <2>3. DmNew(r, who, type, others, c, FALSE)
    BY <1>4 DEF DmCreateConv
  <2> QED
    BY <1>a, <2>1, <2>2, <2>3, NewListIsShort
<1>5. ASSUME NEW r \in DmRequest, NEW who \in DmUser, NEW c \in DmConv,
             NEW step \in {"count", "deleteRow"}, DmLeave(r, who, c, step)
      PROVE  ListsAreShort'
  <2> DEFINE new == [DmIdle EXCEPT !.pc = step, !.who = who, !.conv = c]
  <2>1. dmReq' = [dmReq EXCEPT ![r] = new]
    BY <1>5 DEF DmLeave, DmStart
  <2>2. new.left = DmIdle.left
    BY DEF DmIdle
  <2>3. Short(DmIdle.left)
    BY UsersAreCounted DEF Short, DmIdle
  <2> HIDE DEF new
  <2> QED
    BY <1>a, <2>1, <2>2, <2>3, OneListIsShort
<1>6. CASE UNCHANGED dmVars
  BY <1>6 DEF dmVars, ListsAreShort
<1> QED
  BY <1>1, <1>2, <1>3, <1>4, <1>5, <1>6 DEF DmNext

\* The initial states have no list.
LEMMA ListsStartEmpty == DmInit => ListsAreShort
BY UsersAreCounted DEF DmInit, DmIdle, ListsAreShort, Short

\* With short lists, the invariant gives the type of every variable.
LEMMA TypesFollow == DmIInv /\ ListsAreShort => DmTypeOK
<1> SUFFICES ASSUME DmIInv, ListsAreShort PROVE DmTypeOK
  OBVIOUS
<1>1. Shapes
  BY DEF DmIInv
<1> SUFFICES ASSUME NEW r \in DmRequest
             PROVE  /\ DOMAIN dmReq[r] = DOMAIN DmIdle
                    /\ dmReq[r].pc \in DmPcs /\ dmReq[r].who \in DmUser /\ dmReq[r].conv \in DmConv
                    /\ dmReq[r].msg \in {{}} \cup {{m} : m \in DmMessage}
                    /\ dmReq[r].type \in {"dm", "group"} /\ dmReq[r].alone \in BOOLEAN
                    /\ dmReq[r].left \in DmLists
  BY <1>1 DEF Shapes, DmTypeOK
<1>2. dmReq[r] \in DmRequests
  BY <1>1 DEF Shapes
<1>3. DOMAIN dmReq[r] = DOMAIN DmIdle
  BY <1>2 DEF DmRequests, DmIdle
<1>4. dmReq[r].left \in DmLists
  <2> DEFINE s == dmReq[r].left
             n == Len(s)
  <2>1. s \in Seq(DmUser) /\ Short(s)
    BY <1>2 DEF DmRequests, ListsAreShort
  <2> HIDE DEF s
  <2>2. n \in Nat /\ s \in [1..n -> DmUser]
    BY <2>1, LenProperties
  <2>3. n \in 0..(1 + Cardinality(DmUser))
    BY <2>1, <2>2, UsersAreCounted DEF Short
  <2> HIDE DEF n
  <2>4. s \in DmLists
    BY <2>2, <2>3 DEF DmLists
  <2> QED
    BY <2>4 DEF s
<1> QED
  BY <1>2, <1>3, <1>4 DEF DmRequests, AtMostOne

----------------------------------------------------------------------------
(* Every variable keeps its type; in particular createConversation never   *)
(* has more rows left to insert than its list of users and the creator.    *)
THEOREM CreationTypes == DmSpec => []DmTypeOK
<1>1. DmIInv /\ ListsAreShort /\ [DmNext]_dmVars => ListsAreShort'
  BY ListsStayShort
<1> QED
  BY <1>1, ListsStartEmpty, TypesFollow, DmInvariance, PTL DEF DmSpec

(* A message answered 201 is stored as it was answered (create): the id is *)
(* the client's, and the INSERT of a second use of it fails.               *)
THEOREM AnswersHold == DmSpec => []AnsweredIsStored
<1>1. DmIInv => AnsweredIsStored
  BY DEF DmIInv
<1> QED
  BY <1>1, DmInvariance, PTL

(* But for a creation between its two participants, or one that stopped    *)
(* there, or a departure, both users of a named conversation take part in  *)
(* it or nobody does: the first message of either creates it.              *)
THEOREM PairIsWhole == DmSpec => []BothOrNobody
<1>1. DmIInv => BothOrNobody
  BY DEF DmIInv, NamedOK
<1> QED
  BY <1>1, DmInvariance, PTL

(* A group with participants has its owner among them, whichever INSERT of *)
(* createConversation failed: the owner's row comes first.                 *)
THEOREM OwnersAreThere == DmSpec => []GroupHasItsOwner
<1>1. DmIInv => GroupHasItsOwner
  BY DEF DmIInv, GroupsOK
<1> QED
  BY <1>1, DmInvariance, PTL

(* findOrCreateDM adds a second conversation between two users only when   *)
(* another request inserted a row between its search and its INSERT.       *)
THEOREM DmsAreReused == DmSpec => KnownDmIsReused
<1> DEFINE A == \A r \in DmRequest :
                  DmAt(r, "newConv") /\ dmReq[r].alone /\ dmReq'[r].pc = "newRow"
                    => \A c \in DmConv : dmType[c] \in {"dm", "direct"}
                         => ~ {dmReq[r].left[1], dmReq[r].left[2]} \subseteq DmMembers(c)
<1>1. DmIInv => [A]_dmVars
  BY DEF DmIInv, StillNotFound
<1> QED
  BY <1>1, DmInvariance, PTL DEF KnownDmIsReused

(* A user whom the id of a conversation does not name gets nowhere with    *)
(* it: no row of the conversation, of its participants or of its messages  *)
(* comes, goes or changes in a request of such a user.                     *)
THEOREM StrangersGetNowhere == DmSpec => StrangersChangeNothing
<1> DEFINE A == \A r \in DmRequest :
                  dmReq[r] # dmReq'[r] /\ dmReq[r].who \in DmStranger /\ dmReq[r].conv = DmNamed
                    => OfNamed' = OfNamed
<1>1. DmIInv => [A]_dmVars
  BY DmAssumption DEF DmIInv, NamedOK, OnlyThePair
<1> QED
  BY <1>1, DmInvariance, PTL DEF StrangersChangeNothing
=============================================================================
