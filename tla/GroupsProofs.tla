---------------------------- MODULE GroupsProofs ----------------------------
(***************************************************************************)
(* Theorems about Groups, for every number of users and of requests.       *)
(***************************************************************************)
EXTENDS Groups, FiniteSetTheorems, TLAPS

(* The values of req[r]. *)
RequestState == [pc : Pcs, who : User \cup {None}, other : User \cup {None},
                 wasOwner : BOOLEAN, flag : BOOLEAN]

(* Whom a handler works on at each of its statements. *)
LocalOK ==
  \A r \in Request :
    /\ req[r].pc = "insert" => req[r].other \in User
    /\ req[r].pc \in {"readGroup", "count"} => req[r].other \in User
    /\ req[r].pc \in {"setOwner", "setRole", "demote"} => req[r].other \in User
    /\ req[r].pc \in {"countLeft", "successor", "setOwner", "setRole", "demote"} =>
         req[r].who \in User

TypeInv == TypeOK /\ LocalOK

(* The group starts well typed. *)
LEMMA TypeInvInit == Init => TypeInv
<1> SUFFICES ASSUME Init PROVE TypeInv
  OBVIOUS
<1>1. PICK creator \in User, others \in SUBSET User :
        /\ ownerId = creator
        /\ role = [u \in User |-> IF u = creator THEN "owner"
                                  ELSE IF u \in others THEN "member" ELSE "none"]
  BY DEF Init
<1>2. Idle \in [pc : Pcs, who : User \cup {None}, other : User \cup {None},
               wasOwner : BOOLEAN, flag : BOOLEAN]
  BY DEF Idle, Pcs
<1>3. TypeOK
  BY <1>1, <1>2 DEF Init, TypeOK
<1>4. LocalOK
  BY DEF Init, LocalOK, Idle
<1> QED
  BY <1>3, <1>4 DEF TypeInv

(* Every action keeps the types and the shape of the local variables. *)
LEMMA TypeInvNext == TypeInv /\ [Next]_vars => TypeInv'
<1> SUFFICES ASSUME TypeOK, LocalOK, [Next]_vars PROVE TypeInv'
  BY DEF TypeInv
<1>a. req \in [Request -> RequestState] /\ Idle \in RequestState
  BY DEF TypeOK, RequestState, Idle, Pcs
<1>b. ASSUME NEW r \in Request, Return(r) PROVE req' \in [Request -> RequestState] /\ LocalOK'
  BY <1>a, <1>b DEF Return, LocalOK, Idle
<1>1. ASSUME NEW r \in Request, NEW who \in User, NEW other \in User, AddStart(r, who, other) PROVE TypeInv'
  <2>1. req' \in [Request -> RequestState] /\ LocalOK'
    BY <1>a, <1>1 DEF AddStart, Begin, Idle, At, RequestState, Pcs, LocalOK
  <2>2. TypeOK'
    BY <1>a, <1>1, <2>1 DEF AddStart, At, TypeOK, LocalOK, RequestState, group
  <2> QED
    BY <2>1, <2>2 DEF TypeInv
<1>2. ASSUME NEW r \in Request, NEW who \in User, NEW other \in User, RemoveStart(r, who, other) PROVE TypeInv'
  <2>1. req' \in [Request -> RequestState] /\ LocalOK'
    BY <1>a, <1>2 DEF RemoveStart, Begin, Idle, At, RequestState, Pcs, LocalOK
  <2>2. TypeOK'
    BY <1>a, <1>2, <2>1 DEF RemoveStart, At, TypeOK, LocalOK, RequestState, group
  <2> QED
    BY <2>1, <2>2 DEF TypeInv
<1>3. ASSUME NEW r \in Request, NEW who \in User, LeaveStart(r, who) PROVE TypeInv'
  <2>1. req' \in [Request -> RequestState] /\ LocalOK'
    BY <1>a, <1>3 DEF LeaveStart, Idle, At, RequestState, Pcs, LocalOK
  <2>2. TypeOK'
    BY <1>a, <1>3, <2>1 DEF LeaveStart, At, TypeOK, LocalOK, RequestState, group
  <2> QED
    BY <2>1, <2>2 DEF TypeInv
<1>4. ASSUME NEW r \in Request, NEW who \in User, DeleteStart(r, who) PROVE TypeInv'
  <2>1. req' \in [Request -> RequestState] /\ LocalOK'
    BY <1>a, <1>4 DEF DeleteStart, Begin, Idle, At, RequestState, Pcs, LocalOK
  <2>2. TypeOK'
    BY <1>a, <1>4, <2>1 DEF DeleteStart, At, TypeOK, LocalOK, RequestState, group
  <2> QED
    BY <2>1, <2>2 DEF TypeInv
<1>5. ASSUME NEW r \in Request, NEW who \in User, NEW flag \in BOOLEAN, OpenStart(r, who, flag) PROVE TypeInv'
  <2>1. req' \in [Request -> RequestState] /\ LocalOK'
    BY <1>a, <1>5 DEF OpenStart, Idle, At, RequestState, Pcs, LocalOK
  <2>2. TypeOK'
    BY <1>a, <1>5, <2>1 DEF OpenStart, At, TypeOK, LocalOK, RequestState, group
  <2> QED
    BY <2>1, <2>2 DEF TypeInv
<1>6. ASSUME NEW r \in Request, ReadGroup(r) PROVE TypeInv'
  <2>1. req' \in [Request -> RequestState] /\ LocalOK'
    <3>1. CASE Return(r)
      BY <1>b, <3>1
    <3>2. ASSUME NEW pc \in Pcs, req[r].pc \in {"readGroup", "count", "checkOwner"},
                 pc \in {"count", "insert"} => req[r].pc \in {"readGroup", "count"},
                 pc \in {"count", "insert", "setOpen"}, Goto(r, pc)
          PROVE  req' \in [Request -> RequestState] /\ LocalOK'
      BY <1>a, <3>2 DEF Goto, RequestState, Pcs, LocalOK
    <3> QED
      BY <1>6, <3>1, <3>2 DEF ReadGroup, At, Pcs
  <2>2. TypeOK'
    BY <1>a, <1>6, <2>1 DEF ReadGroup, Goto, At, TypeOK, LocalOK, RequestState,
       group
  <2> QED
    BY <2>1, <2>2 DEF TypeInv
<1>7. ASSUME NEW r \in Request, Count(r) PROVE TypeInv'
  <2>1. req' \in [Request -> RequestState] /\ LocalOK'
    <3>1. CASE Return(r)
      BY <1>b, <3>1
    <3>2. ASSUME NEW pc \in Pcs, req[r].pc \in {"readGroup", "count", "checkOwner"},
                 pc \in {"count", "insert"} => req[r].pc \in {"readGroup", "count"},
                 pc \in {"count", "insert", "setOpen"}, Goto(r, pc)
          PROVE  req' \in [Request -> RequestState] /\ LocalOK'
      BY <1>a, <3>2 DEF Goto, RequestState, Pcs, LocalOK
    <3> QED
      BY <1>7, <3>1, <3>2 DEF Count, At, Pcs
  <2>2. TypeOK'
    BY <1>a, <1>7, <2>1 DEF Count, Goto, At, TypeOK, LocalOK, RequestState, group
  <2> QED
    BY <2>1, <2>2 DEF TypeInv
<1>8. ASSUME NEW r \in Request, Insert(r) PROVE TypeInv'
  <2>1. req' \in [Request -> RequestState] /\ LocalOK'
    BY <1>b, <1>8 DEF Insert
  <2>2. TypeOK'
    BY <1>a, <1>8, <2>1 DEF Insert, At, TypeOK, LocalOK, RequestState
  <2> QED
    BY <2>1, <2>2 DEF TypeInv
<1>9. ASSUME NEW r \in Request, DeleteRow(r) PROVE TypeInv'
  <2>1. req' \in [Request -> RequestState] /\ LocalOK'
    BY <1>b, <1>9 DEF DeleteRow
  <2>2. TypeOK'
    BY <1>a, <1>9, <2>1 DEF DeleteRow, At, TypeOK, LocalOK, RequestState
  <2> QED
    BY <2>1, <2>2 DEF TypeInv
<1>10. ASSUME NEW r \in Request, CountLeft(r) PROVE TypeInv'
  <2>1. req' \in [Request -> RequestState] /\ LocalOK'
    BY <1>a, <1>10 DEF CountLeft, Goto, At, RequestState, Pcs, LocalOK
  <2>2. TypeOK'
    BY <1>a, <1>10, <2>1 DEF CountLeft, Goto, At, TypeOK, LocalOK, RequestState,
       group
  <2> QED
    BY <2>1, <2>2 DEF TypeInv
<1>11. ASSUME NEW r \in Request, PickSuccessor(r) PROVE TypeInv'
  <2>1. req' \in [Request -> RequestState] /\ LocalOK'
    BY <1>a, <1>11 DEF PickSuccessor, Successors, Goto, Participants, At,
       RequestState, Pcs, LocalOK
  <2>2. TypeOK'
    BY <1>a, <1>11, <2>1 DEF PickSuccessor, Successors, Goto, Participants, At,
       TypeOK, LocalOK, RequestState, group
  <2> QED
    BY <2>1, <2>2 DEF TypeInv
<1>12. ASSUME NEW r \in Request, SetOwner(r) PROVE TypeInv'
  <2>1. req' \in [Request -> RequestState] /\ LocalOK'
    BY <1>a, <1>12 DEF SetOwner, Goto, At, RequestState, Pcs, LocalOK
  <2>2. TypeOK'
    BY <1>a, <1>12, <2>1 DEF SetOwner, Goto, At, TypeOK, LocalOK, RequestState,
       group
  <2> QED
    BY <2>1, <2>2 DEF TypeInv
<1>13. ASSUME NEW r \in Request, SetRole(r) PROVE TypeInv'
  <2>1. req' \in [Request -> RequestState] /\ LocalOK'
    BY <1>a, <1>13 DEF SetRole, Goto, Promoted, At, RequestState, Pcs, LocalOK
  <2>2. TypeOK'
    BY <1>a, <1>13, <2>1 DEF SetRole, Goto, Promoted, At, TypeOK, LocalOK,
       RequestState, group
  <2> QED
    BY <2>1, <2>2 DEF TypeInv
<1>14. ASSUME NEW r \in Request, Demote(r) PROVE TypeInv'
  <2>1. req' \in [Request -> RequestState] /\ LocalOK'
    BY <1>a, <1>14 DEF Demote, OthersDemoted, At, RequestState, Pcs, LocalOK
  <2>2. TypeOK'
    BY <1>a, <1>14, <2>1 DEF Demote, OthersDemoted, At, TypeOK, LocalOK,
       RequestState, group
  <2> QED
    BY <2>1, <2>2 DEF TypeInv
<1>15. ASSUME NEW r \in Request, CheckOwner(r) PROVE TypeInv'
  <2>1. req' \in [Request -> RequestState] /\ LocalOK'
    <3>1. CASE Return(r)
      BY <1>b, <3>1
    <3>2. ASSUME NEW pc \in Pcs, req[r].pc \in {"readGroup", "count", "checkOwner"},
                 pc \in {"count", "insert"} => req[r].pc \in {"readGroup", "count"},
                 pc \in {"count", "insert", "setOpen"}, Goto(r, pc)
          PROVE  req' \in [Request -> RequestState] /\ LocalOK'
      BY <1>a, <3>2 DEF Goto, RequestState, Pcs, LocalOK
    <3> QED
      BY <1>15, <3>1, <3>2 DEF CheckOwner, At, Pcs
  <2>2. TypeOK'
    BY <1>a, <1>15, <2>1 DEF CheckOwner, Goto, At, TypeOK, LocalOK, RequestState,
       group
  <2> QED
    BY <2>1, <2>2 DEF TypeInv
<1>16. ASSUME NEW r \in Request, SetOpen(r) PROVE TypeInv'
  <2>1. req' \in [Request -> RequestState] /\ LocalOK'
    BY <1>b, <1>16 DEF SetOpen
  <2>2. TypeOK'
    BY <1>a, <1>16, <2>1 DEF SetOpen, At, TypeOK, LocalOK, RequestState
  <2> QED
    BY <2>1, <2>2 DEF TypeInv
<1>17. ASSUME NEW r \in Request, DeleteGroup(r) PROVE TypeInv'
  <2>1. req' \in [Request -> RequestState] /\ LocalOK'
    BY <1>b, <1>17 DEF DeleteGroup
  <2>2. TypeOK'
    BY <1>a, <1>17, <2>1 DEF DeleteGroup, At, TypeOK, LocalOK, RequestState
  <2> QED
    BY <2>1, <2>2 DEF TypeInv
<1>18. ASSUME NEW r \in Request, Fail(r) PROVE TypeInv'
  <2>1. req' \in [Request -> RequestState] /\ LocalOK'
    BY <1>b, <1>18 DEF Fail
  <2>2. TypeOK'
    BY <1>a, <1>18, <2>1 DEF Fail, At, TypeOK, LocalOK, RequestState
  <2> QED
    BY <2>1, <2>2 DEF TypeInv
<1>19. CASE UNCHANGED vars
  BY <1>19 DEF vars, TypeInv, TypeOK, LocalOK
<1> QED
  BY <1>1, <1>2, <1>3, <1>4, <1>5, <1>6, <1>7, <1>8, <1>9, <1>10, <1>11, <1>12,
     <1>13, <1>14, <1>15, <1>16, <1>17, <1>18, <1>19 DEF Next, Step

(* The rows of a group and the local variables of its handlers are well typed. *)
THEOREM TypeCorrect == Spec => []TypeOK
<1>1. Spec => []TypeInv
  BY TypeInvInit, TypeInvNext, PTL DEF Spec
<1> QED
  BY <1>1, PTL DEF TypeInv
----------------------------------------------------------------------------
(* The cap.  The handlers between their check and their insertion count as   *)
(* participants already: each passed the check below the cap, so when the    *)
(* last of them passed there was room for one, plus one for each other       *)
(* request.                                                                  *)
Pending == {r \in Request : req[r].pc = "insert"}
CapInv == Cardinality(Participants) + Cardinality(Pending) <= MaxSize + Cardinality(Request) - 1

(* Participants and pending insertions are finite sets. *)
LEMMA FiniteSizes ==
  /\ IsFiniteSet(Participants) /\ Cardinality(Participants) \in Nat
  /\ IsFiniteSet(Pending) /\ Cardinality(Pending) \in Nat
  /\ Cardinality(Pending) <= Cardinality(Request)
  /\ Cardinality(Request) \in Nat \ {0}
<1>1. Participants \in SUBSET User /\ Pending \in SUBSET Request
  BY DEF Participants, Pending
<1>2. IsFiniteSet(Participants) /\ IsFiniteSet(Pending) /\ Cardinality(Pending) <= Cardinality(Request)
  BY <1>1, FS_Subset, GroupsAssumption
<1>3. Cardinality(Request) \in Nat /\ Cardinality(Request) # 0
  BY FS_CardinalityType, FS_EmptySet, GroupsAssumption
<1> QED
  BY <1>2, <1>3, FS_CardinalityType

(* createConversation respects the cap. *)
LEMMA CapInvInit == Init => CapInv
<1> SUFFICES ASSUME Init PROVE CapInv
  OBVIOUS
<1>1. PICK creator \in User, others \in SUBSET User :
        /\ creator \notin others /\ Cardinality(others) \in 1..(MaxSize - 1)
        /\ role = [u \in User |-> IF u = creator THEN "owner"
                                  ELSE IF u \in others THEN "member" ELSE "none"]
  BY DEF Init
<1>2. Participants = others \cup {creator}
  BY <1>1 DEF Participants
<1>3. IsFiniteSet(others)
  BY FS_Subset, GroupsAssumption
<1>4. Cardinality(Participants) = Cardinality(others) + 1
  BY <1>1, <1>2, <1>3, FS_AddElement
<1>5. Pending = {}
  BY DEF Init, Pending, Idle
<1>6. Cardinality(Pending) = 0
  BY <1>5, FS_EmptySet
<1> QED
  BY <1>1, <1>4, <1>6, FiniteSizes, GroupsAssumption DEF CapInv

(* Only a passed check adds a pending insertion, only an insertion a participant. *)
LEMMA SizesFrame ==
  ASSUME TypeInv, [Next]_vars
  PROVE  \/ \E r \in Request : Count(r) /\ Room(Cardinality(Participants)) /\ Goto(r, "insert")
         \/ \E r \in Request : Insert(r)
         \/ Participants' \subseteq Participants /\ Pending' \subseteq Pending
<1>a. req \in [Request -> RequestState] /\ role \in [User -> {"none", "member", "owner"}]
  BY DEF TypeInv, TypeOK, RequestState
<1>1. ASSUME NEW r \in Request, NEW who \in User, NEW other \in User,
             AddStart(r, who, other) \/ RemoveStart(r, who, other) \/ DeleteStart(r, who)
      PROVE  Participants' \subseteq Participants /\ Pending' \subseteq Pending
  BY <1>a, <1>1 DEF AddStart, RemoveStart, DeleteStart, Begin, Idle, Participants,
     Pending, group
<1>2. ASSUME NEW r \in Request, NEW who \in User, NEW flag \in BOOLEAN,
             LeaveStart(r, who) \/ OpenStart(r, who, flag)
      PROVE  Participants' \subseteq Participants /\ Pending' \subseteq Pending
  BY <1>a, <1>2 DEF LeaveStart, OpenStart, Idle, Participants, Pending, group
<1>3. ASSUME NEW r \in Request,
             ReadGroup(r) \/ CountLeft(r) \/ CheckOwner(r) \/ SetOpen(r) \/ DeleteGroup(r)
               \/ Fail(r) \/ SetOwner(r) \/ PickSuccessor(r)
      PROVE  Participants' \subseteq Participants /\ Pending' \subseteq Pending
  <2>1. UNCHANGED role
    BY <1>3 DEF ReadGroup, CountLeft, CheckOwner, SetOpen, DeleteGroup, Fail,
       SetOwner,
                PickSuccessor, group
  <2>2. /\ \A s \in Request : s # r => req'[s] = req[s]
        /\ req'[r].pc # "insert"
    <3>1. ASSUME Return(r) PROVE <2>2!1 /\ <2>2!2
      BY <1>a, <3>1 DEF Return, Idle
    <3>2. ASSUME NEW pc, pc # "insert", Goto(r, pc) PROVE <2>2!1 /\ <2>2!2
      BY <1>a, <3>2 DEF Goto
    <3>3. CASE CountLeft(r)
      <4>1. \E pc \in {"deleteGroup", "successor", "deleteRow"} : Goto(r, pc)
        BY <3>3 DEF CountLeft
      <4> QED
        BY <3>2, <4>1
    <3>4. CASE PickSuccessor(r)
      <4>1. CASE Goto(r, "deleteRow")
        BY <3>2, <4>1
      <4>2. ASSUME NEW u, req' = [req EXCEPT ![r].pc = "setOwner", ![r].other = u]
            PROVE  <2>2!1 /\ <2>2!2
        BY <1>a, <4>2 DEF RequestState
      <4> QED
        BY <3>4, <4>1, <4>2 DEF PickSuccessor
    <3> QED
      BY <1>3, <3>1, <3>2, <3>3, <3>4
         DEF ReadGroup, CheckOwner, SetOpen, DeleteGroup, Fail, SetOwner
  <2> QED
    BY <2>1, <2>2 DEF Participants, Pending
<1>4. ASSUME NEW r \in Request, DeleteRow(r) \/ SetRole(r) \/ Demote(r)
      PROVE  Participants' \subseteq Participants /\ Pending' \subseteq Pending
  <2>1. CASE DeleteRow(r)
    BY <1>a, <2>1 DEF DeleteRow, Return, Idle, Participants, Pending
  <2>2. CASE SetRole(r)
    BY <1>a, <2>2 DEF SetRole, Promoted, Goto, Participants, Pending
  <2>3. CASE Demote(r)
    BY <1>a, <2>3 DEF Demote, OthersDemoted, Participants, Pending
  <2> QED
    BY <1>4, <2>1, <2>2, <2>3
<1>5. ASSUME NEW r \in Request, Count(r), Return(r)
      PROVE  Participants' \subseteq Participants /\ Pending' \subseteq Pending
  BY <1>a, <1>5 DEF Count, Return, Idle, Participants, Pending, group
<1>6. ASSUME NEW r \in Request, Count(r)
      PROVE  Return(r) \/ (Room(Cardinality(Participants)) /\ Goto(r, "insert"))
  BY <1>6 DEF Count
<1>7. CASE UNCHANGED vars
  BY <1>7 DEF vars, Participants, Pending
<1> QED
  BY <1>1, <1>2, <1>3, <1>4, <1>5, <1>6, <1>7 DEF Next, Step

(* Every step keeps the sum of participants and pending insertions bounded. *)
LEMMA CapInvNext == TypeInv /\ CapInv /\ [Next]_vars => CapInv'
<1> SUFFICES ASSUME TypeInv, CapInv, [Next]_vars PROVE CapInv'
  OBVIOUS
<1> DEFINE N == Cardinality(Request)
           P == Cardinality(Participants)
           Q == Cardinality(Pending)
<1>a. req \in [Request -> RequestState] /\ role \in [User -> {"none", "member", "owner"}]
  BY DEF TypeInv, TypeOK, RequestState
<1>b. /\ P \in Nat /\ Q \in Nat /\ N \in Nat /\ MaxSize \in Nat
      /\ IsFiniteSet(Participants) /\ IsFiniteSet(Pending)
  BY FiniteSizes, GroupsAssumption
<1>c. /\ Participants' \in SUBSET User /\ Pending' \in SUBSET Request
      /\ IsFiniteSet(User) /\ IsFiniteSet(Request)
  BY GroupsAssumption DEF Participants, Pending
<1>d. /\ IsFiniteSet(Participants') /\ IsFiniteSet(Pending')
      /\ Cardinality(Participants') \in Nat /\ Cardinality(Pending') \in Nat
      /\ Cardinality(Pending') <= N
  BY <1>c, FS_Subset, FS_CardinalityType
<1>1. ASSUME NEW r \in Request, Count(r), Room(P), Goto(r, "insert") PROVE CapInv'
  <2>1. Participants' = Participants
    BY <1>1 DEF Count, Participants, group
  <2> QED
    BY <1>1, <1>b, <1>d, <2>1 DEF CapInv, Room
<1>2. ASSUME NEW r \in Request, Insert(r) PROVE CapInv'
  <2>1. Pending' = Pending \ {r} /\ r \in Pending
    BY <1>a, <1>2 DEF Insert, At, Return, Idle, Pending
  <2>2. Cardinality(Pending') = Q - 1
    BY <1>b, <2>1, FS_RemoveElement
  <2> DEFINE o == req[r].other
  <2>3. Participants' \subseteq Participants \cup {o}
    BY <1>a, <1>2 DEF Insert, Participants
  <2>4. /\ IsFiniteSet(Participants \cup {o})
        /\ Cardinality(Participants \cup {o}) \in {P, P + 1}
    BY <1>b, FS_AddElement
  <2>5. Cardinality(Participants') <= P + 1
    BY <1>b, <1>d, <2>3, <2>4, FS_Subset
  <2> QED
    BY <1>b, <1>d, <2>2, <2>5 DEF CapInv
<1>3. ASSUME Participants' \subseteq Participants, Pending' \subseteq Pending PROVE CapInv'
  <2>1. Cardinality(Participants') <= P /\ Cardinality(Pending') <= Q
    BY <1>3, <1>b, FS_Subset
  <2> QED
    BY <1>b, <1>d, <2>1 DEF CapInv
<1> QED
  BY <1>1, <1>2, <1>3, SizesFrame

(* With N requests in flight a group never has more than MaxSize + N - 1       *)
(* participants: the race of addParticipant is real, and bounded.              *)
THEOREM CapOvershoot == Spec => []OvershootBounded
<1>1. CapInv => OvershootBounded
  BY FiniteSizes, GroupsAssumption DEF CapInv, OvershootBounded
<1>2. Spec => []TypeInv
  BY TypeInvInit, TypeInvNext, PTL DEF Spec
<1>3. Spec => []CapInv
  BY <1>2, CapInvInit, CapInvNext, PTL DEF Spec
<1> QED
  BY <1>1, <1>3, PTL

(* Only the insertion of an addition brings a user into the group.             *)
THEOREM AdditionsOnly == Spec => OnlyAdditionsAdd
<1>1. ASSUME TypeInv, [Next]_vars
      PROVE  \/ \E r \in Request : req[r].pc = "insert" /\ req'[r].pc # "insert"
             \/ Participants' \subseteq Participants
  <2>a. req \in [Request -> RequestState]
    BY <1>1 DEF TypeInv, TypeOK, RequestState
  <2>1. ASSUME NEW r \in Request, Count(r) PROVE Participants' \subseteq Participants
    BY <2>1 DEF Count, Participants, group
  <2>2. ASSUME NEW r \in Request, Insert(r)
        PROVE  req[r].pc = "insert" /\ req'[r].pc # "insert"
    BY <2>a, <2>2 DEF Insert, At, Return, Idle
  <2> QED
    BY <1>1, <2>1, <2>2, SizesFrame
<1>2. Spec => []TypeInv
  BY TypeInvInit, TypeInvNext, PTL DEF Spec
<1> QED
  BY <1>1, <1>2, PTL DEF Spec, OnlyAdditionsAdd

----------------------------------------------------------------------------
(* The owner.  Two owners exist only between the promotion of a hand-over    *)
(* and its demotion, or after a handler stopped there.                       *)
TwoOwners == \E u, v \in User : u # v /\ role[u] = "owner" /\ role[v] = "owner"
OwnerInv == TwoOwners => halfway \/ \E r \in Request : req[r].pc = "demote"

(* A group is created with one owner. *)
LEMMA OwnerInvInit == Init => OwnerInv
  BY DEF Init, OwnerInv, TwoOwners

(* Every hand-over in progress either remains so, demotes the others or stops. *)
LEMMA OwnerInvNext == TypeInv /\ OwnerInv /\ [Next]_vars => OwnerInv'
<1> SUFFICES ASSUME TypeInv, OwnerInv, [Next]_vars PROVE OwnerInv'
  OBVIOUS
<1>a. req \in [Request -> RequestState] /\ role \in [User -> {"none", "member", "owner"}]
  BY DEF TypeInv, TypeOK, RequestState
<1>1. ASSUME NEW r \in Request, SetRole(r) PROVE OwnerInv'
  BY <1>a, <1>1 DEF SetRole, Goto, OwnerInv
<1>2. ASSUME NEW r \in Request, Demote(r) PROVE OwnerInv'
  BY <1>a, <1>2 DEF Demote, OthersDemoted, OwnerInv, TwoOwners
<1>3. ASSUME NEW r \in Request, Fail(r) PROVE OwnerInv'
  <2>1. \A s \in Request : s # r => req'[s] = req[s]
    BY <1>a, <1>3 DEF Fail, Return
  <2> QED
    BY <1>3, <2>1 DEF Fail, At, OwnerInv, TwoOwners
<1>4. ASSUME NEW r \in Request, Insert(r) \/ DeleteRow(r) PROVE OwnerInv'
  <2>1. TwoOwners' => TwoOwners
    BY <1>a, <1>4 DEF Insert, DeleteRow, TwoOwners
  <2>2. \A s \in Request : req[s].pc = "demote" => req'[s] = req[s]
    BY <1>a, <1>4 DEF Insert, DeleteRow, Return, At
  <2> QED
    BY <1>4, <2>1, <2>2 DEF Insert, DeleteRow, OwnerInv
<1>5. ASSUME NEW r \in Request,
             ReadGroup(r) \/ Count(r) \/ CountLeft(r) \/ PickSuccessor(r) \/ SetOwner(r)
               \/ CheckOwner(r) \/ SetOpen(r) \/ DeleteGroup(r)
      PROVE  OwnerInv'
  <2>1. \A s \in Request : req[s].pc = "demote" => req'[s] = req[s]
    BY <1>a, <1>5 DEF ReadGroup, Count, CountLeft, PickSuccessor, SetOwner,
       CheckOwner,
                SetOpen, DeleteGroup, Return, Goto, At
  <2>2. UNCHANGED <<role, halfway>>
    BY <1>5 DEF ReadGroup, Count, CountLeft, PickSuccessor, SetOwner, CheckOwner,
       SetOpen,
                DeleteGroup, group
  <2> QED
    BY <2>1, <2>2 DEF OwnerInv, TwoOwners
<1>6. ASSUME NEW r \in Request,
             \/ \E who, other \in User : AddStart(r, who, other) \/ RemoveStart(r, who, other)
             \/ \E who \in User : LeaveStart(r, who) \/ DeleteStart(r, who)
             \/ \E who \in User, flag \in BOOLEAN : OpenStart(r, who, flag)
      PROVE  OwnerInv'
  <2>1. \A s \in Request : req[s].pc = "demote" => req'[s] = req[s]
    BY <1>a, <1>6 DEF AddStart, RemoveStart, LeaveStart, DeleteStart, OpenStart,
       Begin, Free
  <2>2. UNCHANGED <<role, halfway>>
    BY <1>6 DEF AddStart, RemoveStart, LeaveStart, DeleteStart, OpenStart, group
  <2> QED
    BY <2>1, <2>2 DEF OwnerInv, TwoOwners
<1>7. CASE UNCHANGED vars
  BY <1>7 DEF vars, OwnerInv, TwoOwners
<1> QED
  BY <1>1, <1>2, <1>3, <1>4, <1>5, <1>6, <1>7 DEF Next, Step

(* However many members hand the group over at the same time, once they are    *)
(* done there are not two owners, unless a handler stopped halfway.            *)
THEOREM SingleOwner == Spec => []AtMostOneOwner
<1>1. OwnerInv => AtMostOneOwner
  BY DEF OwnerInv, TwoOwners, AtMostOneOwner, Quiet, Free, Participants
<1>2. Spec => []TypeInv
  BY TypeInvInit, TypeInvNext, PTL DEF Spec
<1>3. Spec => []OwnerInv
  BY <1>2, OwnerInvInit, OwnerInvNext, PTL DEF Spec
<1> QED
  BY <1>1, <1>3, PTL
=============================================================================
