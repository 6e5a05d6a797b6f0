------------------------------- MODULE Schema -------------------------------
(***************************************************************************)
(* The migration that every instance runs before it serves (schema.go,     *)
(* Migrate): a list of statements over the database that all the services  *)
(* share, each skipped, ignored, logged or fatal when it fails.            *)
(*                                                                         *)
(* Instances migrate at the same time, over a database that is new, or     *)
(* that an earlier version left; a statement may fail and an instance may  *)
(* stop between two statements, and start over.                            *)
(*                                                                         *)
(* Not told apart: types and defaults of columns (a MODIFY that succeeds   *)
(* adds the form it asks for to what is there), and the two statements of  *)
(* ensureIndex, which has no effect when the index is there.               *)
(***************************************************************************)
EXTENDS Integers, Sequences, FiniteSets

CONSTANTS
  SchInstance, \* instances of the service
  SchReaction, \* reactions in the old table
  SchFaults    \* BOUND: failures and stops

ASSUME SchAssumption == SchFaults \in Nat

\* A statement: what it does, to which table, and the column, form or index.
SchAll(kind, table, columns) ==
  [i \in DOMAIN columns |-> [kind |-> kind, table |-> table, column |-> columns[i]]]
SchCreate(tables) ==
  [i \in DOMAIN tables |-> [kind |-> "create", table |-> tables[i], column |-> "none"]]
SchOne(kind, table) == <<[kind |-> kind, table |-> table, column |-> "none"]>>

createTables == SchCreate(<<"conversations", "conversation_participants", "messages",
  "message_read_status", "attachments", "message_reactions", "dm_conversation_stats",
  "dm_archive_log", "notifications">>)

SchIndexes ==
  SchAll("add", "messages", <<"idx_messages_conv_created", "idx_messages_conv_deleted_created">>)
  \o SchAll("add", "conversation_participants", <<"idx_cp_user">>)
  \o SchAll("add", "message_reactions", <<"idx_reactions_message">>)

alterColumns ==
  SchAll("add", "conversations", <<"id(100)", "avatar_url", "owner_id", "type(direct)">>)
  \o SchAll("add", "conversation_participants", <<"conversation_id(100)", "role", "last_read_at">>)
  \o SchAll("add", "messages", <<"conversation_id(100)">>)
  \o SchAll("add", "dm_conversation_stats", <<"conversation_id(100)">>)
  \o SchAll("add", "dm_archive_log", <<"conversation_id(100)">>)
  \o SchAll("add", "messages", <<"sender_content", "e2ee_type", "nonce", "content(medium)",
                                 "sender_content(medium)">>)

SchOldReactions ==
  SchOne("count", "reactions") \o SchOne("copy", "reactions") \o SchOne("drop", "reactions")

SchDrops ==
  SchAll("dropColumn", "messages", <<"encryption_level", "iv", "auth_tag">>)
  \o SchOne("drop", "encryption_keys")

SchAdded ==
  SchAll("add", "messages", <<"message_type", "voice_url", "voice_duration">>)
  \o SchAll("add", "conversations", <<"is_open">>)

SchNotified ==
  SchAll("add", "notifications", <<"notification_type", "sender_id", "channel_name">>)

\* Migrate.  (A plausible bug: the columns of notifications are added with those
\* of alterColumns, before the tables.)
SchColumnsFirst ==
  alterColumns \o SchNotified \o createTables \o SchIndexes \o SchOldReactions \o SchDrops
  \o SchAdded \o SchCreate(<<"pinned_conversations", "channel_notification_settings",
                             "user_archive_db_config">>)
Migrate ==
  createTables \o SchIndexes \o alterColumns \o SchOldReactions \o SchDrops \o SchAdded
  \o SchCreate(<<"pinned_conversations", "channel_notification_settings">>)
  \o SchNotified \o SchCreate(<<"user_archive_db_config">>)

SchLength == Len(Migrate)
SchTables == {Migrate[i].table : i \in {j \in 1..SchLength : Migrate[j].kind = "create"}}
\* Columns and forms that a table has from its creation.
SchBorn(table) ==
  CASE table = "conversations" -> {"id(100)", "avatar_url", "owner_id", "type(direct)"}
    [] table = "conversation_participants" -> {"conversation_id(100)", "role", "last_read_at"}
    [] table = "messages" -> {"conversation_id(100)", "sender_content", "e2ee_type", "nonce"}
    [] table \in {"dm_conversation_stats", "dm_archive_log"} -> {"conversation_id(100)"}
    [] OTHER -> {}
SchObject(s) == <<s.table, s.column>>

\* The column that a MODIFY is about, where an earlier statement adds that column.
SchNeeds(s) == IF s.column = "sender_content(medium)" THEN {<<s.table, "sender_content">>} ELSE {}

VARIABLES
  schTables,  \* the tables that exist
  schColumns, \* the columns, forms and indexes that exist: <<table, column>>
  schOld,     \* the rows of table reactions
  schNew,     \* the rows of table message_reactions
  schAt,      \* the next statement of each instance; 0 stopped, SchLength + 1 serving
  schFailed,  \* HISTORY: the statements that failed by themselves in the start, or the
              \* last one, of each instance
  schStops,   \* HISTORY: failures and stops
  schGiven,   \* HISTORY: the rows that table reactions had at first
  schTaken    \* HISTORY: reactions that users took back

schVars == <<schTables, schColumns, schOld, schNew, schAt, schFailed, schStops, schGiven, schTaken>>
schData == <<schTables, schColumns, schOld, schNew>>

SchTypeOK ==
  /\ schTables \subseteq SchTables \cup {"reactions", "encryption_keys"}
  /\ \A x \in schColumns : x[1] \in schTables
  /\ schOld \subseteq SchReaction /\ schNew \subseteq SchReaction /\ schTaken \subseteq SchReaction
  /\ schGiven \subseteq SchReaction
  /\ schAt \in [SchInstance -> 0..(SchLength + 1)]
  /\ schFailed \in [SchInstance -> SUBSET (1..SchLength)] /\ schStops \in 0..SchFaults

\* A new database, and one of the first versions: tables with short ids, the old
\* reactions and what was encrypted on the server.
SchInit ==
  /\ \/ schTables = {} /\ schColumns = {} /\ schOld = {}
     \/ /\ schTables = {"conversations", "conversation_participants", "messages",
                        "reactions", "encryption_keys"}
        /\ schColumns = {"messages"} \X {"encryption_level", "iv", "auth_tag"}
        /\ schOld = SchReaction
  /\ schGiven = schOld /\ schNew = {} /\ schTaken = {}
  /\ schAt = [i \in SchInstance |-> 0]
  /\ schFailed = [i \in SchInstance |-> {}] /\ schStops = 0

----------------------------------------------------------------------------
SchServes(i) == schAt[i] = SchLength + 1
SchRuns(i) == schAt[i] \in 1..SchLength

\* The statement of instance i, of one of these kinds.
SchStatement(i, kinds) == SchRuns(i) /\ Migrate[schAt[i]].kind \in kinds
SchGoto(i, n) == schAt' = [schAt EXCEPT ![i] = n]
SchGoesOn(i) == SchGoto(i, schAt[i] + 1)
SchHistory == UNCHANGED <<schFailed, schStops, schGiven, schTaken>>

SchStart(i) ==
  /\ schAt[i] = 0
  /\ SchGoto(i, 1)
  /\ schFailed' = [schFailed EXCEPT ![i] = {}]
  /\ UNCHANGED <<schData, schStops, schGiven, schTaken>>

\* CREATE TABLE IF NOT EXISTS
SchDoCreate(i) ==
  /\ SchStatement(i, {"create"})
  /\ LET t == Migrate[schAt[i]].table IN
     /\ schTables' = schTables \cup {t}
     /\ schColumns' = IF t \in schTables THEN schColumns ELSE schColumns \cup ({t} \X SchBorn(t))
  /\ SchGoesOn(i)
  /\ UNCHANGED <<schOld, schNew>> /\ SchHistory

\* ADD COLUMN, MODIFY COLUMN, ensureIndex.  What is there already is an error that is
\* ignored; without the table, or the column of a MODIFY, the error is logged.  None
\* ends the start.
SchApplies(s) == s.table \in schTables /\ SchNeeds(s) \subseteq schColumns

SchDoAdd(i) ==
  /\ SchStatement(i, {"add"})
  /\ LET s == Migrate[schAt[i]] IN
     schColumns' = IF SchApplies(s) THEN schColumns \cup {SchObject(s)} ELSE schColumns
  /\ SchGoesOn(i)
  /\ UNCHANGED <<schTables, schOld, schNew>> /\ SchHistory

SchDoDropColumn(i) ==
  /\ SchStatement(i, {"dropColumn"})
  /\ schColumns' = schColumns \ {SchObject(Migrate[schAt[i]])}
  /\ SchGoesOn(i)
  /\ UNCHANGED <<schTables, schOld, schNew>> /\ SchHistory

\* The old table is looked for; without it, neither copied nor dropped.
SchDoCount(i) ==
  /\ SchStatement(i, {"count"})
  /\ SchGoto(i, schAt[i] + (IF "reactions" \in schTables THEN 1 ELSE 3))
  /\ UNCHANGED schData /\ SchHistory

\* The statement after the copy: the drop, only if the copy succeeded.  (A plausible
\* bug: in any case.)
SchDropsAnyway(i, copied) == schAt[i] + 1
SchAfterCopy(i, copied) == schAt[i] + (IF copied THEN 1 ELSE 2)

\* INSERT IGNORE ... SELECT; another instance may have dropped the table.
SchDoCopy(i) ==
  /\ SchStatement(i, {"copy"})
  /\ schNew' = schNew \cup schOld
  /\ SchGoto(i, SchAfterCopy(i, "reactions" \in schTables))
  /\ UNCHANGED <<schTables, schColumns, schOld>> /\ SchHistory

SchDoDrop(i) ==
  /\ SchStatement(i, {"drop"})
  /\ LET t == Migrate[schAt[i]].table IN
     /\ schTables' = schTables \ {t}
     /\ schOld' = IF t = "reactions" THEN {} ELSE schOld
  /\ SchGoesOn(i)
  /\ UNCHANGED <<schColumns, schNew>> /\ SchHistory

\* A statement fails by itself: it ends the start when it creates a table, and is
\* logged otherwise.
SchFails(i) ==
  /\ SchRuns(i) /\ schStops < SchFaults
  /\ SchGoto(i, CASE SchStatement(i, {"create"}) -> 0
                  [] SchStatement(i, {"count"}) -> schAt[i] + 3
                  [] SchStatement(i, {"copy"}) -> SchAfterCopy(i, FALSE)
                  [] OTHER -> schAt[i] + 1)
  /\ schFailed' = [schFailed EXCEPT ![i] = @ \cup {schAt[i]}]
  /\ schStops' = schStops + 1
  /\ UNCHANGED <<schData, schGiven, schTaken>>

SchStops(i) ==
  /\ schAt[i] > 0 /\ schStops < SchFaults
  /\ SchGoto(i, 0)
  /\ schStops' = schStops + 1
  /\ UNCHANGED <<schData, schFailed, schGiven, schTaken>>

\* A user takes a reaction back through an instance that serves.
SchTakeBack(x) ==
  /\ x \in schNew /\ \E i \in SchInstance : SchServes(i)
  /\ schNew' = schNew \ {x}
  /\ schTaken' = schTaken \cup {x}
  /\ UNCHANGED <<schTables, schColumns, schOld, schAt, schFailed, schStops, schGiven>>

SchNext ==
  \/ \E i \in SchInstance :
       \/ SchStart(i) \/ SchDoCreate(i) \/ SchDoAdd(i) \/ SchDoDropColumn(i)
       \/ SchDoCount(i) \/ SchDoCopy(i) \/ SchDoDrop(i) \/ SchFails(i) \/ SchStops(i)
  \/ \E x \in SchReaction : SchTakeBack(x)

SchSpec == SchInit /\ [][SchNext]_schVars

----------------------------------------------------------------------------
(* An instance that serves finds every table, and every column, form and   *)
(* index, but for what a statement of its own start failed to add and for  *)
(* the MODIFY of such a column: over a new database or an old one, with    *)
(* other instances migrating and stopping, after any earlier start.        *)
SchMissing == {n \in 1..SchLength : Migrate[n].kind = "add" /\ SchObject(Migrate[n]) \notin schColumns}
SchExcused(i, n) ==
  \/ n \in schFailed[i]
  \/ \E k \in schFailed[i] : SchObject(Migrate[k]) \in SchNeeds(Migrate[n])
ServesCompleteSchema ==
  \A i \in SchInstance : SchServes(i) =>
    /\ SchTables \subseteq schTables
    /\ \A n \in SchMissing : SchExcused(i, n)

(* No reaction of the old table is lost: it is in the old table, in the    *)
(* new one, or was taken back by its user.                                 *)
NoReactionLost == schGiven \subseteq schOld \cup schNew \cup schTaken
=============================================================================
