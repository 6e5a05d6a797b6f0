----------------------------- MODULE DmArchive -----------------------------
(***************************************************************************)
(* The hybrid storage of one direct conversation ("dm_<uuid>_<uuid>"):     *)
(* internal/messages/archive.go, with the tail of the message creation     *)
(* and the logical deletion of internal/messages/messages.go.              *)
(*                                                                         *)
(* The HTTP handlers and the maintenance goroutine run concurrently over   *)
(* MySQL and Redis and take no lock.  A request of Request is one of them  *)
(* in flight: its record keeps the local variables of the handler, and     *)
(* every action is ONE statement sent to MySQL or Redis with the local     *)
(* computation around it, so that requests interleave between statements.  *)
(*                                                                         *)
(* A message is its rank in created_at order.  Contents, reactions and the *)
(* export to external databases are not told apart here.                   *)
(***************************************************************************)
EXTENDS Integers, FiniteSets

CONSTANTS
  User,         \* the two users encoded in the conversation's identifier
  Request,      \* handlers in flight at the same time
  Log,          \* identifiers uuid.NewString() draws for archive logs
  None,         \* "no user", "no log" in the local variables of a handler
  QuotaMax,     \* dmQuotaMaxMessages
  QuotaMargin,  \* the margin of 1000 messages of checkQuota
  PurgeKeep,    \* dmPurgeInactiveKeep
  KeyTTL,       \* life of the archive keys (3600 s), in ticks of the clock
  MaxMsg,       \* BOUND: messages ever created
  MayFail,      \* may a statement return an error, or the process stop?
  MayLeave      \* may a participant leave the conversation?

ASSUME ConstantsAssumption ==
  /\ IsFiniteSet(User)
  /\ None \notin User \cup Log
  /\ QuotaMax \in Nat /\ QuotaMargin \in Nat /\ PurgeKeep \in Nat
  /\ KeyTTL \in Nat \ {0}
  /\ MaxMsg \in Nat
  /\ MayFail \in BOOLEAN /\ MayLeave \in BOOLEAN

Msg == 1..MaxMsg
NoStats == -1

VARIABLES
  rows,         \* ids of the rows of table messages
  softDeleted,  \* the rows whose is_deleted is TRUE
  lastId,       \* last id inserted
  members,      \* table conversation_participants
  statsCache,   \* messageCount under Redis key dm:stats:<conv>, or NoStats
  batch,        \* ids written under dm:archiving:<conv>:<log> (kept for reference)
  batchTTL,     \* remaining life of that key, 0 when it does not exist
  confirms,     \* users under Redis key dm:archive:confirm:<log>
  confirmTTL,   \* remaining life of that key, 0 when it does not exist
  logged,       \* table dm_archive_log
  req,          \* local state of each request
  registered    \* HISTORY: users whose confirmation of a log was answered or is
                \* about to be: their handler is past the write of confirmKey

vars == <<rows, softDeleted, lastId, members, statsCache, batch, batchTTL,
          confirms, confirmTTL, logged, req, registered>>
redisBatches == <<batch, batchTTL, confirms, confirmTTL, registered>>
tables == <<rows, softDeleted, lastId, members>>

Modes == {"none", "create", "age", "purge", "view", "confirm"}
Pcs == {"idle", "dropStats", "stats", "count", "setStats", "quota", "select", "log",
        "key", "readConfirms", "register", "tally", "dropRows", "dropKeys"}

Idle == [pc |-> "idle", mode |-> "none", num |-> 0, ids |-> {}, log |-> None,
         peer |-> None, seen |-> {}]

TypeOK ==
  /\ rows \subseteq 1..lastId /\ softDeleted \subseteq rows
  /\ lastId \in 0..MaxMsg
  /\ members \subseteq User
  /\ statsCache \in {NoStats} \cup 0..MaxMsg
  /\ batch \in [Log -> SUBSET Msg] /\ batchTTL \in [Log -> 0..KeyTTL]
  /\ confirms \in [Log -> SUBSET User] /\ confirmTTL \in [Log -> 0..KeyTTL]
  /\ logged \subseteq Log
  /\ registered \in [Log -> SUBSET User]
  /\ req \in [Request -> [pc : Pcs, mode : Modes, num : Nat, ids : SUBSET Msg,
                          log : Log \cup {None}, peer : User \cup {None},
                          seen : SUBSET User]]

Init ==
  /\ rows = {} /\ softDeleted = {} /\ lastId = 0
  /\ members = User
  /\ statsCache = NoStats
  /\ batch = [l \in Log |-> {}] /\ batchTTL = [l \in Log |-> 0]
  /\ confirms = [l \in Log |-> {}] /\ confirmTTL = [l \in Log |-> 0]
  /\ logged = {}
  /\ registered = [l \in Log |-> {}]
  /\ req = [r \in Request |-> Idle]

----------------------------------------------------------------------------
(* What the queries return. *)

Live == rows \ softDeleted                  \* WHERE is_deleted = FALSE
Removed == (1..lastId) \ rows

\* ORDER BY created_at ASC LIMIT n (a plausible bug: DESC).
NewestOf(n) == {m \in Live : Cardinality({k \in Live : k > m}) < n}
OldestOf(n) == {m \in Live : Cardinality({k \in Live : k < m}) < n}

\* The test of confirmArchive that lets it delete (plausible bugs: any
\* confirmation is enough; one more than there are participants is asked for).
AnyConfirm(who) == who # {}
MoreThanAll(who) == Cardinality(who) > Cardinality(members)
EnoughConfirms(who) == Cardinality(who) >= Cardinality(members)

\* BOUND: an operation that may archive starts only if Log keeps a fresh
\* identifier for each such operation in flight.
Archiving == {r \in Request : req[r].mode \in {"create", "age", "purge"}}
LogsLeft == Cardinality(Log \ logged) > Cardinality(Archiving)

Free(r) == req[r].pc = "idle"
At(r, pc) == req[r].pc = pc
Goto(r, pc) == req' = [req EXCEPT ![r].pc = pc]
Return(r) == req' = [req EXCEPT ![r] = Idle]
Begin(r, pc, mode, num) ==
  req' = [req EXCEPT ![r] = [Idle EXCEPT !.pc = pc, !.mode = mode, !.num = num]]

----------------------------------------------------------------------------
(* POST /messages, from the INSERT on.  Without participants, the automatic *)
(* creation of the conversation first inserts the two users of its id.      *)

Create(r) ==
  /\ Free(r) /\ LogsLeft
  /\ lastId < MaxMsg
  /\ lastId' = lastId + 1
  /\ rows' = rows \cup {lastId + 1}
  /\ members' = IF members = {} THEN User ELSE members
  /\ Begin(r, "dropStats", "create", 0)
  /\ UNCHANGED <<softDeleted, statsCache, redisBatches, logged>>

DropStats(r) ==
  /\ At(r, "dropStats")
  /\ statsCache' = NoStats
  /\ Goto(r, "stats")
  /\ UNCHANGED <<tables, redisBatches, logged>>

\* GET /archive/status, /stats and /quota: conversationStats, then at most reads.
ViewStart(r) ==
  /\ Free(r)
  /\ Begin(r, "stats", "view", 0)
  /\ UNCHANGED <<tables, statsCache, redisBatches, logged>>

\* The second loop of dailyMaintenance reaches this conversation.
AgeStart(r) ==
  /\ Free(r) /\ LogsLeft
  /\ Live # {}
  /\ Begin(r, "stats", "age", 0)
  /\ UNCHANGED <<tables, statsCache, redisBatches, logged>>

\* The query of purgeInactive returns this conversation.  Whether it has fewer
\* than 90 recent messages is left open.
PurgeStart(r) ==
  /\ Free(r) /\ LogsLeft
  /\ Cardinality(Live) > PurgeKeep
  /\ Begin(r, "select", "purge", Cardinality(Live) - PurgeKeep)
  /\ UNCHANGED <<tables, statsCache, redisBatches, logged>>

(* conversationStats: the cached count, or COUNT then SET. *)
StatsHit(r) ==
  /\ At(r, "stats")
  /\ statsCache # NoStats
  /\ IF req[r].mode = "view"
       THEN Return(r)
       ELSE req' = [req EXCEPT ![r].pc = "quota", ![r].num = statsCache]
  /\ UNCHANGED <<tables, statsCache, redisBatches, logged>>

StatsMiss(r) ==
  /\ At(r, "stats")
  /\ statsCache = NoStats
  /\ Goto(r, "count")
  /\ UNCHANGED <<tables, statsCache, redisBatches, logged>>

StatsCount(r) ==
  /\ At(r, "count")
  /\ req' = [req EXCEPT ![r].pc = "setStats", ![r].num = Cardinality(Live)]
  /\ UNCHANGED <<tables, statsCache, redisBatches, logged>>

SetStats(r) ==
  /\ At(r, "setStats")
  /\ statsCache' = req[r].num
  /\ IF req[r].mode = "view" THEN Return(r) ELSE Goto(r, "quota")
  /\ UNCHANGED <<tables, redisBatches, logged>>

(* checkQuota, then whether its caller archives: the maintenance does so only *)
(* for reason "age_exceeded", the creation for either.                        *)
OverQuota(r) == req[r].num > QuotaMax

\* What to archive of n messages (a plausible bug: the margin is subtracted).
ExcessWithin(n) == n - QuotaMax - QuotaMargin
Excess(n) == n - QuotaMax + QuotaMargin

Quota(r) ==
  /\ At(r, "quota")
  /\ \/ /\ OverQuota(r) /\ req[r].mode = "create"
        /\ req' = [req EXCEPT ![r].pc = "select",
                              ![r].num = Excess(@)]
     \/ /\ OverQuota(r) /\ req[r].mode = "age"
        /\ Return(r)
     \/ /\ ~OverQuota(r)
        /\ \E old \in 1..Cardinality(Live) :
             req' = [req EXCEPT ![r].pc = "select", ![r].num = old]
     \/ /\ ~OverQuota(r)
        /\ Return(r)
  /\ UNCHANGED <<tables, statsCache, redisBatches, logged>>

----------------------------------------------------------------------------
(* archiveOldMessages *)

Select(r) ==
  /\ At(r, "select")
  /\ LET ids == OldestOf(req[r].num)
     IN  IF ids = {} THEN Return(r)
                     ELSE req' = [req EXCEPT ![r].pc = "log", ![r].num = 0, ![r].ids = ids]
  /\ UNCHANGED <<tables, statsCache, redisBatches, logged>>

WriteLog(r) ==
  /\ At(r, "log")
  /\ \E l \in Log \ logged :
       /\ logged' = logged \cup {l}
       /\ req' = [req EXCEPT ![r].pc = "key", ![r].log = l]
  /\ UNCHANGED <<tables, statsCache, redisBatches>>

WriteBatch(r) ==
  /\ At(r, "key")
  /\ batch' = [batch EXCEPT ![req[r].log] = req[r].ids]
  /\ batchTTL' = [batchTTL EXCEPT ![req[r].log] = KeyTTL]
  /\ Return(r)
  /\ UNCHANGED <<tables, statsCache, confirms, confirmTTL, registered, logged>>

----------------------------------------------------------------------------
(* POST /archive/confirm by u, one of the two users of the identifier:        *)
(* canAccessConversation does not look at table conversation_participants.    *)

\* The key of the batch exists (a plausible bug: its row in the log is enough).
IsLogged(l) == l \in logged
Confirmable(l) == batchTTL[l] > 0

ConfirmStart(r, u, l) ==
  /\ Free(r)
  /\ Confirmable(l)
  /\ req' = [req EXCEPT ![r] = [Idle EXCEPT !.pc = "readConfirms", !.mode = "confirm",
                                !.ids = batch[l], !.log = l, !.peer = u]]
  /\ UNCHANGED <<tables, statsCache, redisBatches, logged>>

ReadConfirms(r) ==
  /\ At(r, "readConfirms")
  /\ LET l == req[r].log
     IN  req' = [req EXCEPT ![r].pc = "register",
                            ![r].seen = IF confirmTTL[l] > 0 THEN confirms[l] ELSE {}]
  /\ UNCHANGED <<tables, statsCache, redisBatches, logged>>

\* SET confirmKey with a fresh TTL (a plausible bug: a shorter life, KEEPTTL).
ShortLife(l) == [confirmTTL EXCEPT ![l] = KeyTTL - 1]
FreshLife(l) == [confirmTTL EXCEPT ![l] = KeyTTL]

Register(r) ==
  /\ At(r, "register")
  /\ LET l == req[r].log
         u == req[r].peer
         all == req[r].seen \cup {u}
     IN  /\ IF u \in req[r].seen
               THEN UNCHANGED <<confirms, confirmTTL>>
               ELSE /\ confirms' = [confirms EXCEPT ![l] = all]
                    /\ confirmTTL' = FreshLife(l)
         /\ registered' = [registered EXCEPT ![l] = @ \cup {u}]
         /\ req' = [req EXCEPT ![r].pc = "tally", ![r].seen = all]
  /\ UNCHANGED <<tables, statsCache, batch, batchTTL, logged>>

Tally(r) ==
  /\ At(r, "tally")
  /\ IF EnoughConfirms(req[r].seen) THEN Goto(r, "dropRows") ELSE Return(r)
  /\ UNCHANGED <<tables, statsCache, redisBatches, logged>>

DropRows(r) ==
  /\ At(r, "dropRows")
  /\ rows' = rows \ req[r].ids
  /\ softDeleted' = softDeleted \ req[r].ids
  /\ Goto(r, "dropKeys")
  /\ UNCHANGED <<lastId, members, statsCache, redisBatches, logged>>

DropKeys(r) ==
  /\ At(r, "dropKeys")
  /\ LET l == req[r].log
     IN  /\ batchTTL' = [batchTTL EXCEPT ![l] = 0]
         /\ confirms' = [confirms EXCEPT ![l] = {}]
         /\ confirmTTL' = [confirmTTL EXCEPT ![l] = 0]
  /\ statsCache' = NoStats
  /\ Return(r)
  /\ UNCHANGED <<tables, batch, registered, logged>>

----------------------------------------------------------------------------
(* The rest of the program, and the passage of time. *)

\* DELETE /messages/:id, one UPDATE.
SoftDelete(m) ==
  /\ m \in Live
  /\ softDeleted' = softDeleted \cup {m}
  /\ UNCHANGED <<rows, lastId, members, statsCache, redisBatches, logged, req>>

\* removeParticipantRow: u leaves the conversation.
Leave(u) ==
  /\ MayLeave
  /\ u \in members
  /\ members' = members \ {u}
  /\ UNCHANGED <<rows, softDeleted, lastId, statsCache, redisBatches, logged, req>>

\* Redis forgets a key whose time has come; a key and its value go together.
Sooner(ttl) == [l \in Log |-> IF ttl[l] > 0 THEN ttl[l] - 1 ELSE 0]

Tick ==
  /\ \E l \in Log : batchTTL[l] > 0 \/ confirmTTL[l] > 0
  /\ batchTTL' = Sooner(batchTTL)
  /\ confirmTTL' = Sooner(confirmTTL)
  /\ confirms' = [l \in Log |-> IF confirmTTL'[l] > 0 THEN confirms[l] ELSE {}]
  /\ UNCHANGED <<tables, statsCache, batch, registered, logged, req>>

StatsExpire ==
  /\ statsCache # NoStats
  /\ statsCache' = NoStats
  /\ UNCHANGED <<tables, redisBatches, logged, req>>

\* The next statement of r returns an error, or the process stops: the handler
\* gives up and nothing it did is undone.
Fail(r) ==
  /\ MayFail
  /\ ~Free(r)
  /\ Return(r)
  /\ UNCHANGED <<tables, statsCache, redisBatches, logged>>

----------------------------------------------------------------------------
Step(r) ==
  \/ DropStats(r) \/ StatsHit(r) \/ StatsMiss(r) \/ StatsCount(r) \/ SetStats(r)
  \/ Quota(r) \/ Select(r) \/ WriteLog(r) \/ WriteBatch(r)
  \/ ReadConfirms(r) \/ Register(r) \/ Tally(r) \/ DropRows(r) \/ DropKeys(r)

Next ==
  \/ \E r \in Request :
       \/ Create(r) \/ ViewStart(r) \/ AgeStart(r) \/ PurgeStart(r)
       \/ \E u \in User, l \in Log : ConfirmStart(r, u, l)
       \/ Step(r)
       \/ Fail(r)
  \/ \E m \in Msg : SoftDelete(m)
  \/ \E u \in User : Leave(u)
  \/ Tick \/ StatsExpire

Spec == Init /\ [][Next]_vars

\* A goroutine that has begun is scheduled again until its handler returns.
FairSpec == Spec /\ \A r \in Request : WF_vars(Step(r))

----------------------------------------------------------------------------
(* Properties *)

\* Messages leave the server from the oldest end only: whoever reads the
\* conversation never finds a deleted message between two that are still
\* shown, whatever batches overlap and in whatever order they are confirmed
\* (archiveOldMessages and confirmArchive).
NoHoles == \A gone \in Removed, m \in Live : gone < m

\* While a batch can still be confirmed, the confirmations recorded for it are
\* not forgotten: the second key never expires before the first, although it
\* is written later and by other handlers (the two rset of 3600 s).
ConfirmOutlivesBatch ==
  \A l \in Log : batchTTL[l] > 0 /\ registered[l] # {} => confirmTTL[l] >= batchTTL[l]

\* A message is deleted from the server only if it is in some batch that both
\* users of the conversation confirmed ("Ils ne sont supprimes qu'apres
\* confirmation de tous les participants", comment of archiveOldMessages).
RemovalConfirmedByAll ==
  \A m \in Removed : \E l \in Log : m \in batch[l] /\ registered[l] = User

\* Once both users have confirmed a batch and no confirmation of it is in
\* progress, its messages are gone ("quand tous les participants ont confirme,
\* les messages sont supprimes", comment of confirmArchive).
AllConfirmedThenDeleted ==
  \A l \in Log :
    (registered[l] = User /\ \A r \in Request : req[r].log # l)
      => batch[l] \cap rows = {}

\* When no handler runs, a conversation over its quota has a batch that brings
\* it back under ("quota verifie apres creation", comment of create).
OverQuotaIsArchived ==
  ((\A r \in Request : Free(r)) /\ Cardinality(Live) > QuotaMax)
    => \E l \in Log : Cardinality(Live \ batch[l]) <= QuotaMax

\* When the key of a batch holds both users, some handler goes on to delete the
\* messages of the batch: no interleaving of two confirmations leaves a complete
\* list behind without anyone acting on it (confirmArchive).
FullyConfirmedIsRemoved ==
  \A l \in Log :
    (confirmTTL[l] > 0 /\ confirms[l] = User) ~> (batch[l] \cap rows = {})

\* What the archive promises, seen in its variables: every step of its handlers
\* is a step of ConfirmedRemoval, or changes nothing it shows.  It keeps that
\* promise as long as nobody leaves the conversation.
Promise == INSTANCE ConfirmedRemoval WITH
             sent <- lastId, kept <- rows, offered <- batch, acks <- registered
KeepsPromise == Promise!Spec
=============================================================================
