--------------------------- MODULE DirectMessages ---------------------------
(***************************************************************************)
(* How conversations and their messages come into being: POST /messages    *)
(* (messages.go, create), POST /conversations and POST /conversations/dm   *)
(* (conversations.go), and departures from a direct conversation.          *)
(*                                                                         *)
(* A direct conversation exists in two forms.  The id dm_<first>_<second>  *)
(* (Named) is made by the first message sent to it; an id generated by     *)
(* createConversation (Generated) is made by the other two routes.  No     *)
(* handler uses a transaction: an action is one SQL statement of a request *)
(* with the local computation that follows it.                             *)
(*                                                                         *)
(* Not told apart: contents, names, dates (updated_at, joined_at), blocked *)
(* users (createConv keeps any subset of the users it is given).  What     *)
(* happens to the members of a group afterwards is module Groups; to a     *)
(* message after its creation, MessageStore and DmArchive.                 *)
(***************************************************************************)
EXTENDS Integers, FiniteSets, Sequences

CONSTANTS
  DmFirst, DmSecond, \* the two users of the named conversation, in the order of its id
  DmStranger,        \* the other users
  DmNamed,           \* the conversation dm_<first>_<second>
  DmGenerated,       \* BOUND: the ids that createConversation may generate
  DmMessage,         \* ids of messages
  DmRequest,         \* requests in flight at the same time
  DmMayFail          \* may a statement return an error, or the process stop?

DmPair == {DmFirst, DmSecond}
DmUser == DmPair \cup DmStranger
DmConv == {DmNamed} \cup DmGenerated

ASSUME DmAssumption ==
  /\ DmFirst # DmSecond /\ DmPair \cap DmStranger = {} /\ IsFiniteSet(DmStranger)
  /\ DmNamed \notin DmGenerated
  /\ DmMayFail \in BOOLEAN

VARIABLES
  dmType,      \* table conversations: the type of each, "none" without a row
  dmRole,      \* table conversation_participants: role of each row, "none" without
  dmStored,    \* table messages: <<sender, conversation>>, or <<>> without a row
  dmReq,       \* local state of each request
  dmAnswered,  \* HISTORY: <<sender, conversation>> of the answers 201 for each id
  dmDisturbed  \* HISTORY: a creation of the named conversation stopped between its
               \* two participants, or one of them left it

dmVars == <<dmType, dmRole, dmStored, dmReq, dmAnswered, dmDisturbed>>

DmMembers(c) == {u \in DmUser : dmRole[c][u] # "none"}

DmPcs == {"idle", "convRow", "pairRow", "reread", "message", "touch",
          "newConv", "newRow", "count", "deleteConv", "deleteRow"}

\* type: what createConversation was asked for.  left: the users whose row is still
\* to be inserted.  alone: it looked for a conversation and no other request has
\* inserted a conversation or a participant since (HISTORY).
DmIdle == [pc |-> "idle", who |-> DmFirst, conv |-> DmNamed, msg |-> {}, type |-> "dm",
           left |-> <<>>, alone |-> FALSE]

\* A creator and up to Cardinality(DmUser) others, or twice the same user.
DmLists == UNION {[1..n -> DmUser] : n \in 0..(1 + Cardinality(DmUser))}

DmTypeOK ==
  /\ dmType \in [DmConv -> {"none", "direct", "dm", "group"}]
  /\ dmRole \in [DmConv -> [DmUser -> {"none", "member", "owner"}]]
  /\ dmStored \in [DmMessage -> (DmUser \X DmConv) \cup {<<>>}]
  /\ \A r \in DmRequest :
       /\ DOMAIN dmReq[r] = DOMAIN DmIdle
       /\ dmReq[r].pc \in DmPcs /\ dmReq[r].who \in DmUser /\ dmReq[r].conv \in DmConv
       /\ dmReq[r].msg \in {{}} \cup {{m} : m \in DmMessage}
       /\ dmReq[r].type \in {"dm", "group"} /\ dmReq[r].alone \in BOOLEAN
       /\ dmReq[r].left \in DmLists
  /\ dmAnswered \in [DmMessage -> SUBSET (DmUser \X DmConv)]
  /\ dmDisturbed \in BOOLEAN

DmInit ==
  /\ dmType = [c \in DmConv |-> "none"]
  /\ dmRole = [c \in DmConv |-> [u \in DmUser |-> "none"]]
  /\ dmStored = [m \in DmMessage |-> <<>>]
  /\ dmReq = [r \in DmRequest |-> DmIdle]
  /\ dmAnswered = [m \in DmMessage |-> {}]
  /\ dmDisturbed = FALSE

----------------------------------------------------------------------------
DmAt(r, pc) == dmReq[r].pc = pc
DmStart(r, state) == DmAt(r, "idle") /\ dmReq' = [dmReq EXCEPT ![r] = state]
DmGoto(r, pc) == dmReq' = [dmReq EXCEPT ![r].pc = pc]
DmReturn(r) == dmReq' = [dmReq EXCEPT ![r] = DmIdle]
dmTables == <<dmType, dmRole, dmStored>>
dmHistory == <<dmAnswered, dmDisturbed>>

DmCross(r, next) ==
  dmReq' = [q \in DmRequest |-> IF q = r THEN next ELSE [dmReq[q] EXCEPT !.alone = FALSE]]

\* INSERT of the row of u, and the next statement of request r.
DmInsertRow(r, c, u, role, next) ==
  /\ dmRole' = [dmRole EXCEPT ![c][u] = IF @ = "none" THEN role ELSE @]
  /\ DmCross(r, next)

(* create: POST /messages *)

\* May the sender bring the conversation into being?  (A plausible bug: without the
\* condition that the id names the sender.)
AnyoneMayFound(who, c) == c = DmNamed /\ DmMembers(c) = {}
MayFound(who, c) == c = DmNamed /\ DmMembers(c) = {} /\ who \in DmPair

\* The sender is among the participants that were read, or is refused: 500, or 404
\* when there are none.
DmAdmit(r, who, c, next) ==
  IF who \in DmMembers(c) THEN dmReq' = [dmReq EXCEPT ![r] = next] ELSE DmReturn(r)

DmCreate(r, who, c, m) ==
  LET state == [DmIdle EXCEPT !.who = who, !.conv = c, !.msg = {m}] IN
  /\ DmAt(r, "idle")
  /\ IF MayFound(who, c)
     THEN DmStart(r, [state EXCEPT !.pc = "convRow"])
     ELSE DmAdmit(r, who, c, [state EXCEPT !.pc = "message"])
  /\ UNCHANGED <<dmTables, dmHistory>>

\* The participants of the new conversation (a plausible bug: the sender alone).
SenderAlone(who) == <<who>>
NamedUsers(who) == <<DmFirst, DmSecond>>

DmConvRow(r) ==
  /\ DmAt(r, "convRow")
  /\ dmType' = [dmType EXCEPT ![DmNamed] = IF @ = "none" THEN "direct" ELSE @]
  /\ DmCross(r, [dmReq[r] EXCEPT !.pc = "pairRow", !.left = NamedUsers(dmReq[r].who)])
  /\ UNCHANGED <<dmRole, dmStored, dmHistory>>

\* ON DUPLICATE KEY UPDATE joined_at = joined_at: a row that is there stays.
DmPairRow(r) ==
  /\ DmAt(r, "pairRow")
  /\ LET rest == Tail(dmReq[r].left) IN
     DmInsertRow(r, DmNamed, Head(dmReq[r].left), "member",
                 [dmReq[r] EXCEPT !.left = rest, !.pc = IF rest = <<>> THEN "reread" ELSE @])
  /\ UNCHANGED <<dmType, dmStored, dmHistory>>

DmReread(r) ==
  /\ DmAt(r, "reread")
  /\ DmAdmit(r, dmReq[r].who, dmReq[r].conv, [dmReq[r] EXCEPT !.pc = "message"])
  /\ UNCHANGED <<dmTables, dmHistory>>

\* The INSERT of a message: an id that is taken is an error.  (A plausible bug: the
\* row is replaced.)
MessageReplaced(row, new) == [row |-> new, ok |-> TRUE]
MessageInserted(row, new) ==
  IF row = <<>> THEN [row |-> new, ok |-> TRUE] ELSE [row |-> row, ok |-> FALSE]

DmMessageRow(r) ==
  /\ DmAt(r, "message")
  /\ \E m \in dmReq[r].msg :
       LET res == MessageInserted(dmStored[m], <<dmReq[r].who, dmReq[r].conv>>) IN
       /\ dmStored' = [dmStored EXCEPT ![m] = res.row]
       /\ IF res.ok THEN DmGoto(r, "touch") ELSE DmReturn(r)
  /\ UNCHANGED <<dmType, dmRole, dmHistory>>

\* UPDATE conversations, then 201.  The cache and the archiving that follow are
\* modules MessageCache and DmArchive.
DmTouch(r) ==
  /\ DmAt(r, "touch")
  /\ \E m \in dmReq[r].msg :
       dmAnswered' = [dmAnswered EXCEPT ![m] = @ \cup {<<dmReq[r].who, dmReq[r].conv>>}]
  /\ DmReturn(r)
  /\ UNCHANGED <<dmTables, dmDisturbed>>

----------------------------------------------------------------------------
(* createConversation, called by findOrCreateDM and createConv.             *)

\* The rows that findOrCreateDM looks for (a plausible bug: type dm only).
DmOnlyFound(a, b) == {c \in DmConv : dmType[c] = "dm" /\ {a, b} \subseteq DmMembers(c)}
DmFound(a, b) ==
  {c \in DmConv : dmType[c] \in {"dm", "direct"} /\ {a, b} \subseteq DmMembers(c)}

\* The messages of a conversation.
DmMessagesOf(c) == {m \in DmMessage : dmStored[m] # <<>> /\ dmStored[m][2] = c}

\* An id that nothing refers to stands for one that was never generated.
DmFresh(c) ==
  /\ c \in DmGenerated /\ dmType[c] = "none" /\ DmMembers(c) = {} /\ DmMessagesOf(c) = {}
  /\ \A q \in DmRequest : dmReq[q].conv # c

\* The order of the rows (a plausible bug: the creator last).
CreatorLast(who, others) == Append(others, who)
CreatorFirst(who, others) == <<who>> \o others

DmNew(r, who, type, others, c, looked) ==
  /\ DmFresh(c)
  /\ DmStart(r, [DmIdle EXCEPT !.pc = "newConv", !.who = who, !.conv = c, !.type = type,
                               !.left = CreatorFirst(who, others), !.alone = looked])
  /\ UNCHANGED <<dmTables, dmHistory>>

\* POST /conversations/dm.  A conversation that is found is the answer, and nothing
\* changes.  The recipient may be the caller.
DmFind(r, who, other, c) ==
  DmFound(who, other) = {} /\ DmNew(r, who, "dm", <<other>>, c, TRUE)

\* POST /conversations: the others are those of the list that are not the creator
\* and that no blocking separates from it, in the order of the list.
DmCreateConv(r, who, type, others, c) ==
  /\ others # <<>> /\ (type = "dm" => Len(others) = 1)
  /\ DmNew(r, who, type, others, c, FALSE)

DmNewConv(r) ==
  /\ DmAt(r, "newConv")
  /\ dmType' = [dmType EXCEPT ![dmReq[r].conv] = dmReq[r].type]
  /\ DmCross(r, [dmReq[r] EXCEPT !.pc = "newRow"])
  /\ UNCHANGED <<dmRole, dmStored, dmHistory>>

\* The role of a row (a plausible bug: the INSERT is given the type in its place).
RoleSwapped(type, creator) == type
RowRole(type, creator) == IF type = "group" /\ creator THEN "owner" ELSE "member"

\* A plain INSERT: the second row of a user who wrote to itself is an error.
DmNewRow(r) ==
  /\ DmAt(r, "newRow")
  /\ LET q == dmReq[r]
         u == Head(q.left)
         rest == Tail(q.left)
     IN DmInsertRow(r, q.conv, u, RowRole(q.type, u = q.who),
                    IF rest = <<>> \/ u \in DmMembers(q.conv) THEN DmIdle
                    ELSE [q EXCEPT !.left = rest])
  /\ UNCHANGED <<dmType, dmStored, dmHistory>>

----------------------------------------------------------------------------
(* Departures: leave (leaveGroup) and the removal of oneself                *)
(* (removeParticipant).  Neither looks at the type of the conversation.     *)

DmLeave(r, who, c, step) ==
  /\ dmRole[c][who] = "member" /\ dmType[c] # "group"
  /\ DmStart(r, [DmIdle EXCEPT !.pc = step, !.who = who, !.conv = c])
  /\ UNCHANGED <<dmTables, dmHistory>>

DmCount(r) ==
  /\ DmAt(r, "count")
  /\ DmGoto(r, IF Cardinality(DmMembers(dmReq[r].conv)) <= 1 THEN "deleteConv" ELSE "deleteRow")
  /\ UNCHANGED <<dmTables, dmHistory>>

\* The row of the last participant stays.
DmDeleteConv(r) ==
  /\ DmAt(r, "deleteConv")
  /\ dmType' = [dmType EXCEPT ![dmReq[r].conv] = "none"]
  /\ DmReturn(r)
  /\ UNCHANGED <<dmRole, dmStored, dmHistory>>

DmDeleteRow(r) ==
  /\ DmAt(r, "deleteRow")
  /\ dmRole' = [dmRole EXCEPT ![dmReq[r].conv][dmReq[r].who] = "none"]
  /\ dmDisturbed' = (dmDisturbed \/ dmReq[r].conv = DmNamed)
  /\ DmReturn(r)
  /\ UNCHANGED <<dmType, dmStored, dmAnswered>>

----------------------------------------------------------------------------
DmHalfway(r) == dmReq[r].pc = "pairRow" /\ Len(dmReq[r].left) = 1

\* A statement fails, or the process stops: what was written stays.
DmFails(r) ==
  /\ DmMayFail
  /\ ~DmAt(r, "idle")
  /\ DmReturn(r)
  /\ dmDisturbed' = (dmDisturbed \/ DmHalfway(r))
  /\ UNCHANGED <<dmTables, dmAnswered>>

\* The lists without repetition of users other than who.
DmOthers ==
  [who \in DmUser |->
     {s \in DmLists : /\ Len(s) < Cardinality(DmUser)
                      /\ \A i \in DOMAIN s : s[i] # who
                      /\ \A i, j \in DOMAIN s : s[i] = s[j] => i = j}]

DmStep(r) ==
  \/ DmConvRow(r) \/ DmPairRow(r) \/ DmReread(r) \/ DmMessageRow(r) \/ DmTouch(r)
  \/ DmNewConv(r) \/ DmNewRow(r) \/ DmCount(r) \/ DmDeleteConv(r) \/ DmDeleteRow(r)
  \/ DmFails(r)

DmNext ==
  \E r \in DmRequest :
    \/ DmStep(r)
    \/ /\ DmAt(r, "idle")
       /\ \E who \in DmUser, c \in DmConv :
            \/ \E m \in DmMessage : DmCreate(r, who, c, m)
            \/ \E other \in DmUser : DmFind(r, who, other, c)
            \/ \E type \in {"dm", "group"}, others \in DmOthers[who] :
                 DmCreateConv(r, who, type, others, c)
            \/ \E step \in {"count", "deleteRow"} : DmLeave(r, who, c, step)

DmSpec == DmInit /\ [][DmNext]_dmVars

----------------------------------------------------------------------------
(* A request of a user whom the id does not name changes nothing of the    *)
(* conversation it names: neither the conversation itself, which the first *)
(* message creates, nor its participants, nor its messages.                *)
OfNamed == <<dmType[DmNamed], dmRole[DmNamed], DmMessagesOf(DmNamed)>>
StrangersChangeNothing ==
  [][\A r \in DmRequest :
       dmReq[r] # dmReq'[r] /\ dmReq[r].who \in DmStranger /\ dmReq[r].conv = DmNamed
         => OfNamed' = OfNamed]_dmVars

(* A user whom the id names is refused only while another request is       *)
(* between the two participants it inserts, after one stopped there, or    *)
(* after one of the two left: but for that, both are participants or       *)
(* nobody is, and the first message of either creates the conversation.    *)
BothOrNobody ==
  dmDisturbed \/ (\E r \in DmRequest : DmHalfway(r)) \/ DmMembers(DmNamed) \in {{}, DmPair}

(* A message answered 201 is stored as it was answered, and a second use   *)
(* of its id, by another sender or in another conversation, neither takes  *)
(* its place nor is answered 201.                                          *)
AnsweredIsStored ==
  \A m \in DmMessage : \A a \in dmAnswered[m] : dmStored[m] = a

(* POST /conversations/dm adds a second conversation between two users     *)
(* that have one only if another request inserted a conversation or a      *)
(* participant after it had looked.                                        *)
KnownDmIsReused ==
  [][\A r \in DmRequest :
       DmAt(r, "newConv") /\ dmReq[r].alone /\ dmReq'[r].pc = "newRow"
         => \A c \in DmConv : dmType[c] \in {"dm", "direct"}
              => ~ {dmReq[r].left[1], dmReq[r].left[2]} \subseteq DmMembers(c)]_dmVars

(* Whichever statement of a creation failed, a group with participants has *)
(* its owner among them.                                                   *)
GroupHasItsOwner ==
  \A c \in DmConv : dmType[c] = "group" /\ DmMembers(c) # {}
    => \E u \in DmMembers(c) : dmRole[c][u] = "owner"
=============================================================================
