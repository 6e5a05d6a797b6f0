------------------------------- MODULE Groups -------------------------------
(***************************************************************************)
(* The participants of one group: internal/messages/conversations.go.      *)
(*                                                                         *)
(* Adding, removing, leaving, opening or closing and deleting are HTTP     *)
(* handlers that run concurrently over MySQL without a transaction.  A     *)
(* request of Request is one of them in flight, and each action is ONE SQL *)
(* statement with the local computation that follows it.  What a handler   *)
(* read in one statement may be stale in the next.                         *)
(*                                                                         *)
(* Not told apart: names and avatars, blocked users (an addition may be    *)
(* refused for it at any time), and updated_at.  Role 'admin' is never     *)
(* given by any statement of the program.                                  *)
(***************************************************************************)
EXTENDS Integers, FiniteSets

CONSTANTS
  User,     \* users of the service
  Request,  \* handlers in flight at the same time
  None,     \* "no user" in the local variables of a handler
  MaxSize,  \* maxGroupSize
  MayFail   \* may a statement return an error, or the process stop?

ASSUME GroupsAssumption ==
  /\ IsFiniteSet(User) /\ IsFiniteSet(Request) /\ Request # {}
  /\ None \notin User
  /\ MaxSize \in Nat
  /\ MayFail \in BOOLEAN

VARIABLES
  role,     \* table conversation_participants: role of each row, "none" without
  ownerId,  \* column owner_id of the group
  isOpen,   \* column is_open
  exists,   \* the group is in table conversations
  req,      \* local state of each request
  halfway   \* HISTORY: a hand-over stopped between promoting the successor and
            \* demoting the others, and no other has demoted them since

vars == <<role, ownerId, isOpen, exists, req, halfway>>
group == <<role, ownerId, isOpen, exists, halfway>>

Participants == {u \in User : role[u] # "none"}

Pcs == {"idle", "readGroup", "count", "insert", "deleteRow", "countLeft",
        "successor", "setOwner", "setRole", "demote", "checkOwner", "setOpen",
        "deleteGroup"}

\* who: the requester.  other: the user to add or to remove, or the successor.
Idle == [pc |-> "idle", who |-> None, other |-> None, wasOwner |-> FALSE, flag |-> FALSE]

TypeOK ==
  /\ role \in [User -> {"none", "member", "owner"}]
  /\ ownerId \in User
  /\ isOpen \in BOOLEAN /\ exists \in BOOLEAN /\ halfway \in BOOLEAN
  /\ req \in [Request -> [pc : Pcs, who : User \cup {None}, other : User \cup {None},
                          wasOwner : BOOLEAN, flag : BOOLEAN]]

\* createConv and createConversation: 2 to maxGroupSize participants, its creator
\* the owner.
Init ==
  /\ \E creator \in User, others \in SUBSET User :
       /\ creator \notin others
       /\ Cardinality(others) \in 1..(MaxSize - 1)
       /\ ownerId = creator
       /\ role = [u \in User |-> IF u = creator THEN "owner"
                                 ELSE IF u \in others THEN "member" ELSE "none"]
  /\ isOpen \in BOOLEAN
  /\ exists = TRUE /\ halfway = FALSE
  /\ req = [r \in Request |-> Idle]

----------------------------------------------------------------------------
Free(r) == req[r].pc = "idle"
At(r, pc) == req[r].pc = pc
Goto(r, pc) == req' = [req EXCEPT ![r].pc = pc]
Return(r) == req' = [req EXCEPT ![r] = Idle]
Begin(r, pc, who, other) ==
  req' = [req EXCEPT ![r] = [Idle EXCEPT !.pc = pc, !.who = who, !.other = other]]

(* addParticipant.  A request that is refused changes nothing: it returns.  *)

AddStart(r, who, other) ==
  /\ Free(r)
  /\ role[who] # "none"
  /\ Begin(r, "readGroup", who, other)
  /\ UNCHANGED group

ReadGroup(r) ==
  /\ At(r, "readGroup")
  /\ IF exists /\ (isOpen \/ ownerId = req[r].who) THEN Goto(r, "count") ELSE Return(r)
  /\ UNCHANGED group

\* count < maxGroupSize (a plausible bug: <=).
RoomOrFull(n) == n <= MaxSize
Room(n) == n < MaxSize

Count(r) ==
  /\ At(r, "count")
  /\ \/ Room(Cardinality(Participants)) /\ Goto(r, "insert")
     \/ Return(r)                      \* full, or one has blocked the other
  /\ UNCHANGED group

\* INSERT IGNORE: a participant keeps its row.
Insert(r) ==
  /\ At(r, "insert")
  /\ role' = [role EXCEPT ![req[r].other] = IF @ = "none" THEN "member" ELSE @]
  /\ Return(r)
  /\ UNCHANGED <<ownerId, isOpen, exists, halfway>>

(* removeParticipant, and the last statement of leaveGroup. *)

RemoveStart(r, who, other) ==
  /\ Free(r)
  /\ role[who] # "none"
  /\ who = other \/ role[who] = "owner"
  /\ Begin(r, "deleteRow", who, other)
  /\ UNCHANGED group

DeleteRow(r) ==
  /\ At(r, "deleteRow")
  /\ role' = [role EXCEPT ![req[r].other] = "none"]
  /\ Return(r)
  /\ UNCHANGED <<ownerId, isOpen, exists, halfway>>

(* leaveGroup: the last participant deletes the group, the owner first hands *)
(* it over in three statements.  Which participant joined first is left      *)
(* open: joined_at counts seconds.                                           *)

LeaveStart(r, who) ==
  /\ Free(r)
  /\ role[who] # "none"
  /\ req' = [req EXCEPT ![r] = [Idle EXCEPT !.pc = "countLeft", !.who = who, !.other = who,
                                            !.wasOwner = role[who] = "owner"]]
  /\ UNCHANGED group

CountLeft(r) ==
  /\ At(r, "countLeft")
  /\ Goto(r, CASE Cardinality(Participants) <= 1 -> "deleteGroup"
               [] Cardinality(Participants) > 1 /\ req[r].wasOwner -> "successor"
               [] OTHER -> "deleteRow")
  /\ UNCHANGED group

\* The rows the query may return (a plausible bug: its empty result is used).
OrNil(who) == IF Participants \ {who} = {} THEN {None} ELSE Participants \ {who}
Successors(who) == Participants \ {who}

PickSuccessor(r) ==
  /\ At(r, "successor")
  /\ \/ /\ Successors(req[r].who) = {}
        /\ Goto(r, "deleteRow")
     \/ \E u \in Successors(req[r].who) :
          req' = [req EXCEPT ![r].pc = "setOwner", ![r].other = u]
  /\ UNCHANGED group

SetOwner(r) ==
  /\ At(r, "setOwner")
  /\ ownerId' = IF exists THEN req[r].other ELSE ownerId
  /\ Goto(r, "setRole")
  /\ UNCHANGED <<role, isOpen, exists, halfway>>

\* UPDATE ... WHERE user_id = successor: no row if the successor has just left
\* (a plausible bug: INSERT ... ON DUPLICATE KEY UPDATE).
Reinstated(u) == [role EXCEPT ![u] = "owner"]
Promoted(u) == [role EXCEPT ![u] = IF @ = "none" THEN "none" ELSE "owner"]

SetRole(r) ==
  /\ At(r, "setRole")
  /\ role' = Promoted(req[r].other)
  /\ Goto(r, "demote")
  /\ UNCHANGED <<ownerId, isOpen, exists, halfway>>

\* UPDATE ... SET role = 'member' WHERE user_id != successor AND role = 'owner'
\* (a plausible bug: only the one who leaves is demoted).
LeaverDemoted(kept, leaver) == [role EXCEPT ![leaver] = IF @ = "owner" THEN "member" ELSE @]
OthersDemoted(kept, leaver) ==
  [u \in User |-> IF u # kept /\ role[u] = "owner" THEN "member" ELSE role[u]]

Demote(r) ==
  /\ At(r, "demote")
  /\ role' = OthersDemoted(req[r].other, req[r].who)
  /\ req' = [req EXCEPT ![r].pc = "deleteRow", ![r].other = req[r].who]
  /\ halfway' = FALSE
  /\ UNCHANGED <<ownerId, isOpen, exists>>

(* updateConv with isOpen, and deleteConv: the requester must have role owner. *)

OpenStart(r, who, flag) ==
  /\ Free(r)
  /\ role[who] # "none"
  /\ req' = [req EXCEPT ![r] = [Idle EXCEPT !.pc = "checkOwner", !.who = who, !.flag = flag]]
  /\ UNCHANGED group

CheckOwner(r) ==
  /\ At(r, "checkOwner")
  /\ IF role[req[r].who] = "owner" THEN Goto(r, "setOpen") ELSE Return(r)
  /\ UNCHANGED group

SetOpen(r) ==
  /\ At(r, "setOpen")
  /\ isOpen' = IF exists THEN req[r].flag ELSE isOpen
  /\ Return(r)
  /\ UNCHANGED <<role, ownerId, exists, halfway>>

DeleteStart(r, who) ==
  /\ Free(r)
  /\ role[who] = "owner"
  /\ Begin(r, "deleteGroup", who, None)
  /\ UNCHANGED group

\* DELETE FROM conversations: no foreign key, the participants keep their rows.
DeleteGroup(r) ==
  /\ At(r, "deleteGroup")
  /\ exists' = FALSE
  /\ Return(r)
  /\ UNCHANGED <<role, ownerId, isOpen, halfway>>

\* The next statement of r returns an error, or the process stops.
Fail(r) ==
  /\ MayFail
  /\ ~Free(r)
  /\ Return(r)
  /\ halfway' = (halfway \/ At(r, "demote"))
  /\ UNCHANGED <<role, ownerId, isOpen, exists>>

----------------------------------------------------------------------------
Step(r) ==
  \/ ReadGroup(r) \/ Count(r) \/ Insert(r) \/ DeleteRow(r) \/ CountLeft(r)
  \/ PickSuccessor(r) \/ SetOwner(r) \/ SetRole(r) \/ Demote(r)
  \/ CheckOwner(r) \/ SetOpen(r) \/ DeleteGroup(r)

Next ==
  \E r \in Request :
    \/ \E who, other \in User : AddStart(r, who, other) \/ RemoveStart(r, who, other)
    \/ \E who \in User : LeaveStart(r, who) \/ DeleteStart(r, who)
    \/ \E who \in User, flag \in BOOLEAN : OpenStart(r, who, flag)
    \/ Step(r)
    \/ Fail(r)

Spec == Init /\ [][Next]_vars

----------------------------------------------------------------------------
(* Properties *)

Quiet == \A r \in Request : Free(r)

\* "Un groupe compte au plus 100 participants" (message of addParticipant).
GroupWithinCap == Cardinality(Participants) <= MaxSize

\* What the check before the insertion does guarantee: concurrent additions go
\* past the cap by at most one participant for each other request in flight, and
\* the excess never accumulates from one burst to the next (addParticipant).
OvershootBounded ==
  Cardinality(Participants) <= MaxSize + Cardinality(Request) - 1

\* When no handler runs, at most one participant has role owner, however the
\* hand-overs of several leavers interleaved: only a handler that stops between
\* promoting and demoting leaves two, and the next hand-over repairs that
\* (leaveGroup: the order of its three UPDATEs).
AtMostOneOwner ==
  (Quiet /\ ~halfway) =>
    \A u, v \in Participants : role[u] = "owner" /\ role[v] = "owner" => u = v

\* Handing the group over never brings back a user who has left: role owner is
\* given to rows that exist, so in a step that is not the insertion of an addition
\* the participants do not grow (leaveGroup against removeParticipant and leave).
OnlyAdditionsAdd ==
  [][(\E r \in Request : req[r].pc = "insert" /\ req'[r].pc # "insert")
       \/ Participants' \subseteq Participants]_vars
=============================================================================
