----------------------------- MODULE UserState -----------------------------
(***************************************************************************)
(* What the service keeps for one user beside messages: notifications and  *)
(* their settings (notifications.go), pinned conversations                 *)
(* (conversations.go).                                                     *)
(*                                                                         *)
(* Each handler of notifications is one SQL statement, so an action is a   *)
(* whole request.  A pin is two statements, with a request in flight       *)
(* between them.  A statement that fails changes nothing: it is the        *)
(* request that never came, or the pin that was abandoned.                 *)
(***************************************************************************)
EXTENDS Integers, FiniteSets

CONSTANTS
  UsDirect,    \* conversations whose key has the form dm_<a>_<b>
  UsPrefixed,  \* conversations whose key begins with group: or channel:
  UsTarget,    \* targets of notification settings
  UsRequest,   \* pins in flight at the same time
  UsMaxCount,  \* BOUND: the greatest message_count
  UsMaxOrder   \* BOUND: the greatest pin_order

UsConv == UsDirect \cup UsPrefixed

ASSUME UsAssumption ==
  /\ UsDirect \cap UsPrefixed = {}
  /\ UsMaxCount \in Nat \ {0} /\ UsMaxOrder \in Nat

VARIABLES
  usNote,      \* table notifications: the row of each conversation; count 0: none
  usSetting,   \* table channel_notification_settings: the row of each target
  usPin,       \* table pinned_conversations: pin_order of each, -1 without a row
  usPinning,   \* pins in flight
  usPings,     \* HISTORY: notifications of each conversation since it was read
  usMentioned, \* HISTORY: conversations with a mention since they were read
  usRaced      \* HISTORY: two pins of the user crossed

usNotes == <<usNote, usPings, usMentioned>>
usPins == <<usPin, usPinning, usRaced>>
usVars == <<usNotes, usSetting, usPins>>

UsLevels == {"all", "mentions", "nothing"}
UsTypes == {"channel", "dm", "group", "server"}
UsNoPin == [pc |-> "idle", order |-> 0, alone |-> TRUE]
UsNoSetting == [type |-> "none", level |-> "all"]   \* the default of the clients

UsTypeOK ==
  /\ usNote \in [UsConv -> [count : 0..UsMaxCount, read : BOOLEAN, mention : BOOLEAN]]
  /\ usSetting \in [UsTarget -> [type : UsTypes, level : UsLevels] \cup {UsNoSetting}]
  /\ usPin \in [UsConv -> -1..UsMaxOrder]
  /\ usPinning \in [UsRequest -> [pc : {"idle"} \cup UsConv, order : 0..UsMaxOrder,
                                  alone : BOOLEAN]]
  /\ usPings \in [UsConv -> 0..UsMaxCount]
  /\ usMentioned \subseteq UsConv
  /\ usRaced \in BOOLEAN

UsInit ==
  /\ usNote = [c \in UsConv |-> [count |-> 0, read |-> TRUE, mention |-> FALSE]]
  /\ usSetting = [t \in UsTarget |-> UsNoSetting]
  /\ usPin = [c \in UsConv |-> -1]
  /\ usPinning = [r \in UsRequest |-> UsNoPin]
  /\ usPings = [c \in UsConv |-> 0]
  /\ usMentioned = {}
  /\ usRaced = FALSE

----------------------------------------------------------------------------
(* Notifications *)

\* The upsert of notifCreate: a new row, or the row counted up, unread again, and
\* a mention for ever once it has been one.
\* (A plausible bug: the upsert leaves is_read alone.)
UpsertedStillRead(row, mention) ==
  [count |-> row.count + 1, read |-> row.read /\ row.count > 0,
   mention |-> mention \/ row.mention]
Upserted(row, mention) ==
  [count |-> row.count + 1, read |-> FALSE, mention |-> mention \/ row.mention]

NotifCreate(c, mention) ==
  /\ usNote[c].count < UsMaxCount
  /\ usNote' = [usNote EXCEPT ![c] = Upserted(@, mention)]
  /\ usPings' = [usPings EXCEPT ![c] = @ + 1]
  /\ usMentioned' = IF mention THEN usMentioned \cup {c} ELSE usMentioned
  /\ UNCHANGED <<usSetting, usPins>>

\* The rows that notifRead marks when the client names conversation c by its whole
\* key or without its prefix: a name without prefix is taken for that of a user
\* and becomes a key dm_<a>_<b>, which is none of those of groups and channels.
NamedRows(c, whole) == IF whole \/ c \in UsDirect THEN {c} ELSE {}

NotifRead(cs) ==
  /\ usNote' = [c \in UsConv |-> IF c \in cs THEN [usNote[c] EXCEPT !.read = TRUE]
                                 ELSE usNote[c]]
  /\ usPings' = [c \in UsConv |-> IF c \in cs THEN 0 ELSE usPings[c]]
  /\ usMentioned' = usMentioned \ cs
  /\ UNCHANGED <<usSetting, usPins>>

\* What notifList answers.
Listed == {c \in UsConv : usNote[c].count > 0 /\ ~usNote[c].read}

----------------------------------------------------------------------------
(* Settings.  The update of a row that exists keeps its target_type.        *)

NotifSettingPut(t, type, level) ==
  /\ usSetting' = [usSetting EXCEPT ![t] =
       [type |-> IF @ = UsNoSetting THEN type ELSE @.type, level |-> level]]
  /\ UNCHANGED <<usNotes, usPins>>

NotifSettingDelete(t) ==
  /\ usSetting' = [usSetting EXCEPT ![t] = UsNoSetting]
  /\ UNCHANGED <<usNotes, usPins>>

----------------------------------------------------------------------------
(* Pinned conversations *)

Pinned == {c \in UsConv : usPin[c] >= 0}

\* COALESCE(MAX(pin_order), -1) + 1  (a plausible bug: COUNT of the rows).
CountedOrder == Cardinality(Pinned)
NextOrder ==
  IF Pinned = {} THEN 0
  ELSE 1 + (CHOOSE o \in 0..UsMaxOrder : /\ \E c \in Pinned : usPin[c] = o
                                         /\ \A c \in Pinned : usPin[c] <= o)

PinRead(r, c) ==
  /\ usPinning[r].pc = "idle"
  /\ NextOrder <= UsMaxOrder
  /\ usPinning' = [usPinning EXCEPT ![r] = [pc |-> c, order |-> NextOrder, alone |-> TRUE]]
  /\ UNCHANGED <<usNotes, usSetting, usPin, usRaced>>

\* INSERT IGNORE: a conversation that is pinned already keeps its order.
PinInsert(r) ==
  /\ usPinning[r].pc # "idle"
  /\ usPin' = [usPin EXCEPT ![usPinning[r].pc] = IF @ >= 0 THEN @ ELSE usPinning[r].order]
  /\ usPinning' = [q \in UsRequest |-> IF q = r THEN UsNoPin
                                       ELSE [usPinning[q] EXCEPT !.alone = FALSE]]
  /\ usRaced' = (usRaced \/ ~usPinning[r].alone)
  /\ UNCHANGED <<usNotes, usSetting>>

PinFails(r) ==
  /\ usPinning[r].pc # "idle"
  /\ usPinning' = [usPinning EXCEPT ![r] = UsNoPin]
  /\ UNCHANGED <<usNotes, usSetting, usPin, usRaced>>

Unpin(c) ==
  /\ usPin[c] >= 0
  /\ usPin' = [usPin EXCEPT ![c] = -1]
  /\ UNCHANGED <<usNotes, usSetting, usPinning, usRaced>>

UsNoteNext ==
  \/ \E c \in UsConv, b \in BOOLEAN : NotifCreate(c, b) \/ NotifRead(NamedRows(c, b))
  \/ NotifRead(UsConv)

UsSettingNext ==
  \E t \in UsTarget :
    \/ \E type \in UsTypes, level \in UsLevels : NotifSettingPut(t, type, level)
    \/ NotifSettingDelete(t)

UsPinNext ==
  \/ \E r \in UsRequest : (\E c \in UsConv : PinRead(r, c)) \/ PinInsert(r) \/ PinFails(r)
  \/ \E c \in UsConv : Unpin(c)

UsNext == UsNoteNext \/ UsSettingNext \/ UsPinNext

UsSpec == UsInit /\ [][UsNext]_usVars

----------------------------------------------------------------------------
(* A notification is listed from its creation until its conversation is    *)
(* read, and a mention as a mention however many plain notifications       *)
(* follow it: no order of creations and readings loses one or shows a      *)
(* conversation with none.  "pings persistants jusqu'à lecture".           *)
PingsStayUntilRead ==
  \A c \in UsConv : /\ c \in Listed <=> usPings[c] > 0
                    /\ c \in usMentioned => c \in Listed /\ usNote[c].mention

(* Two pinned conversations of a user have the same pin_order only if two  *)
(* of its pins crossed, whatever was unpinned in between.                  *)
PinsDistinctUnlessRaced ==
  ~usRaced => \A c, d \in Pinned : usPin[c] = usPin[d] => c = d
=============================================================================
