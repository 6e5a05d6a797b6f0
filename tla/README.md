# A TLA+ model of the AlfyChat messages service

The service stores the messages of direct conversations and groups of AlfyChat. It is a
Go HTTP server over MySQL and Redis (`src/main.go`, `src/internal/messages`,
`src/internal/platform`). Its handlers run concurrently, in several instances of the
service if need be, and share nothing but those two stores. They use no SQL
transaction, no Redis transaction and no lock: each handler is a sequence of single
statements, and between two statements anything may happen. That is what the models
here are about.

Nothing in this directory comes from the repository's documentation alone: the modules
are translated from the code, and its comments are used as statements to be checked.

## Inventory

| Component | State | Operations | Hard behaviour |
|---|---|---|---|
| Hybrid archive of direct conversations (`archive.go`) | tables `messages`, `dm_archive_log`, `dm_conversation_stats`; Redis keys `dm:stats:*` (300 s), `dm:archiving:*` and `dm:archive:confirm:*` (3600 s) | statistics, quota check after each creation, daily maintenance (purge, then age), archiving of the N oldest, confirmation by a peer, deletion | cache filled while it is invalidated, read-modify-write of the list of confirmations, keys that expire, overlapping batches, stops between two statements |
| Creation of messages (`messages.go`, `create`) | tables `messages`, `conversations`, `conversation_participants` | automatic creation of a direct conversation, insertion, quota check, cache version | the conversation's rows are inserted one by one; an error after the insertion answers 500 |
| Cache of message lists (`messages.go`, `list`; `common.go`, `bumpCacheVersion`) | Redis keys `msgver:*` (24 h), `msg:*` | versioned read, fill, bump | a list read before a creation and cached after it; the version is raised after the answer; edition and deletion raise nothing |
| Edition, deletion, reactions, read marks (`messages.go`) | tables `messages`, `message_reactions` | update, delete, addReaction, removeReaction, markRead, deleteAllOfUser | check then act against a message the archive deletes |
| Voice messages (`messages.go`, `voice`) | files under the upload directory, table `messages` | upload, insertion, cleanup | a stop between the file and the row |
| Groups (`conversations.go`) | tables `conversations` (owner, is_open), `conversation_participants` (role) | create, add, remove, leave with hand-over, open or close, delete | check then act on size, owner and role; a hand-over in three statements |
| Direct conversations by route (`conversations.go`, `createConversation`, `findOrCreateDM`), pins | `conversations`, `conversation_participants`, `pinned_conversations` | find or create, pin, unpin, listings | rows inserted one by one; two creations for one pair; two pins with one order |
| Reading (`messages.go`, `extdb.go`; `common.go`, `canAccessConversation`) | the same tables, the reader's own database | list, search, by conversation, outside | pages cut by a date that keeps seconds, while messages come and go |
| Notifications (`notifications.go`) | tables `notifications`, `channel_notification_settings` | upsert, list, mark read, settings | each handler is one statement; creations and readings in any order |
| External databases (`extdb.go`) | table `user_archive_db_config`, key `extdb:attempts:*` | save, test, export, read | a counter whose expiry is set by a second command; an export that stops half-way |
| Schema (`schema.go`) | the schema | migrations at start-up | several instances migrate at once, over a new or an old database, and stop anywhere |
| Registration (`platform/registrar.go`) | registered id, ticker, timers, under a mutex released during requests | register, heartbeat, answers 403 and 404 | late answers, two registrations at once, a gateway that restarts |
| Router (`platform/router.go`, `routes.go`) | an ordered list of routes | first match | a route declared earlier hides a later one |
| Validation, HTTP plumbing, JavaScript values, configuration | none | pure functions, input and output | none a state space tells apart |

How they interact: the creation of a direct message drops the archive's statistics and
calls its quota check in the same handler; the archive deletes rows of `messages`; the
groups' `removeParticipantRow` also serves direct conversations, and changes the number
of participants that `confirmArchive` compares confirmations with. A removal takes the
reactions of its messages along, while users react and edit; archiving starts an export
to the external database of each participant and does not wait for it. The registrar
interacts with the gateway only.

What makes each correct, and whether it is checked, is in `PROJECT.json`: its
"hazards" list every place where the code is exposed, with the properties that cover it
or the reason why none does.

## Modules

| Module | Role |
|---|---|
| `DmArchive` | the archive of one direct conversation, with the creation, deletion and departure steps that touch it |
| `ConfirmedRemoval` | what the archive promises: append, offer a batch, acknowledge, remove what all acknowledged |
| `DmArchiveProofs` | theorems about `DmArchive`, refinement of `ConfirmedRemoval` included |
| `Groups`, `GroupsProofs` | the participants of one group and theorems about them |
| `MessageCache`, `MessageCacheProofs` | the versioned cache of the lists of one conversation and theorems about it |
| `Registrar`, `RegistrarProofs` | registration with the gateway and theorems about it |
| `DirectMessages`, `DirectMessagesProofs` | how conversations and messages come into being, statement by statement, and theorems about it |
| `MessageStore`, `MessageStoreProofs` | edition, deletion, reactions, voice clips and removals of the messages of one conversation, and theorems about them |
| `Reading` | the routes that read a conversation page by page |
| `ConversationsProofs` | theorems about `Reading`, and that `MCConversations` implements each of its three parts |
| `UserState` | notifications, their settings and the pins of one user |
| `ExternalDb` | the external database of one user |
| `Schema` | the migration that each instance runs before it serves |
| `ServiceProofs` | theorems about `UserState`, `ExternalDb` and `Schema`, and that `MCService` implements each of them |
| `MCDmArchive`, `MCGroups`, `MCMessageCache`, `MCRegistrar` | instances for TLC (symmetry sets) |
| `MCConversations`, `MCService` | instances for TLC of several modules together |

Definitions come in the order of the handlers. Where a definition is preceded by one
marked "a plausible bug", that one is not used by the specification: it is what the
definition would be with that bug, and substituting it makes a run fail. This shows
that the property checked depends on that line of the code.

`MCConversations` composes `DirectMessages`, `MessageStore` and `Reading`, and
`MCService` composes `UserState`, `ExternalDb` and `Schema`. The parts share no
variable, so that interleaving them would multiply states without adding a behaviour:
the variable `focus`, chosen at the start, is the part that runs, and the states of an
instance are the sum of those of its parts. The constant `Focus` says which parts a run
takes. Each part prefixes its names (`Dm`, `St`, `Rd`, `Us`, `Xd`, `Sch`).

### DmArchive

A *request* is a handler in flight or an iteration of the maintenance. Its record holds
the handler's local variables: `num` the count it read or computed, `ids` the batch it
selected or is confirming, `log` and `peer` the identifiers, `seen` the confirmations it
read. The field `pc` names the next statement.

| pc | code |
|---|---|
| dropStats | `rdel dm:stats` in `create` |
| stats, count, setStats | `conversationStats`: the GET that finds the cached value or misses, then COUNT, later SET |
| quota | `checkQuota` and the test of its caller |
| select, log, key | `archiveOldMessages`: SELECT, INSERT in the log, SET of the batch |
| readConfirms, register, tally, dropRows, dropKeys | `confirmArchive` after it has read the batch |

Abstractions, each of which allows more behaviours than the code and never fewer,
except where said:

- A message is its rank in `created_at` order, and the insertion order is that order.
  (Messages inserted within the same second are ordered by the database as it likes.
  Their order is not told apart.)
- Age is left open: any number of the oldest messages may be past `dmQuotaMaxDays`
  (150 days, `archive.go:24`). Whether
  a conversation is "inactive" (fewer than 90 recent messages) is left open too.
- Peers may confirm any log whose key exists: how a peer learns the id is not modelled.
  `archiveOldMessages` does not return it, so it is the gateway's business.
- `removeParticipantRow` may remove a participant at any time if `MayLeave`; an
  automatic creation re-inserts both users at once.
- `deleteAllOfUser` is a series of `SoftDelete`. A voice message is a creation whose
  handler stops after the insertion, as `Fail` allows.
- The deletion of reactions is in `MessageStore`, the export in `ExternalDb`. The log's
  contents and the table of statistics (written and never read) are left out.
- `DM_ARCHIVE` is on. Redis keeps what it is given until it expires.
- BOUND `MaxMsg`: messages ever created. BOUND `LogsLeft`: an operation that may archive
  starts only if there is a log identifier left for it, `uuid.NewString()` never fails.

### Groups

The same style: `pc` names the next SQL statement of `addParticipant`,
`removeParticipant`, `leaveGroup`, `updateConv` and `deleteConv`. `Init` is any group
`createConv` can make, taken after its insertions. `joined_at` has a resolution of one
second and the order among equal values is the database's, so the successor is any
other participant. A block between two users may refuse an addition at any time.
`halfway` is a history variable: a hand-over stopped between the promotion of the
successor and the demotion of the others.

The model reaches two kinds of states that no document or test speaks of, so they are
described and not listed as findings: the owner who removes itself through
`DELETE /participants/:userId` leaves a group without an owner; and two last members
who leave at the same time both count two, so the group stays with no participant. In
the latter no request can begin: that is why its runs do not check deadlock.

### MessageCache

Each message has a handler that creates it (`post`), each reader is one `GET /messages`
(`read`), and each of their Redis commands and SQL statements is an action. Time is
counted in ticks. `verTTL` and the `ttl` of an `entry` are the lives of the two kinds of
keys. A list is kept as what it says of each message: absent, as created, or edited.

- One conversation and one query: the keys of other queries share only the version.
- The access checks, the reactions and the parsing are left out.
- `POST /messages` answers before it raises the version and `POST /messages/voice`
  after. The model does not tell them apart, as its readers depend on Redis only.
- An error of Redis is a missing key in `cacheVersion` and a miss in `list`, as in the code.
- `Delete` is also the archive's deletion, which raises no version either.
- BOUND `Slow`: a reader lasts that many ticks at most. A slower one could store a list
  of any age, as the code does not check how long it took.
- History variables: `bumped` and the field `must` record what had raised the version
  when a reader found it, `since` how long ago each message changed, `recycled` that the
  key expired while something was kept under it.

### Registrar

`loop` is what each ticker's goroutine is doing, `call` what each goroutine of
`register` is doing; both hold an answer of the gateway for some time before they handle
it, because the mutex is released during a request. A tick and the reading of the
registered id under the mutex, which decides whether a heartbeat is sent, are two steps
(`Tick`, `Heartbeat`). `ticker` and `registeredID` are what
the mutex protects, and each critical section is one step. The gateway is external: it
knows the service, has forgotten it, or blocks it. A fault is a restart of the gateway,
a network error (before or after the gateway has acted), or an answer to a registration
that is not the gateway's verdict: another status than 2xx, or a 200 whose body is lost,
after which the gateway may know the service. BOUND
`MaxFaults` caps their number; that there are finitely many faults is what "once the
network behaves" means. Durations are left out, except where the constants of the file
put two events in one order only: the check at 15 s finds no call under way, as the
registration at 2 s is over after the 8 s of its client's time-out; between the two no
other timer fires; and the first tick comes 30 s after a registration, hence after the
check. A service the gateway has turned away stops for good, so deadlock is not checked.

### DirectMessages

A request is a handler again, and `pc` names its next SQL statement.

| pc | code |
|---|---|
| convRow, pairRow, reread | the automatic creation of `create`: `conversations`, its two participants, the second SELECT |
| message, touch | the INSERT of the message, the UPDATE of the conversation and the answer 201 |
| newConv, newRow | `createConversation`, called by `findOrCreateDM` and `createConv`: the conversation, then one row for each user |
| count, deleteConv, deleteRow | `leaveGroup` and `removeParticipantRow` as a direct conversation goes through them |

- There is one conversation whose id has the form `dm_<first>_<second>`, which the first
  message makes, and ids that `createConversation` generates. BOUND `DmGenerated`: a
  generated id that nothing refers to stands for one never generated before.
- Blocked users: `createConv` is left with any list of the others without repetition,
  in any order.
- A creation that is refused at once changes nothing, whatever its reason.
- A failure keeps what was written. A failure reported of a statement that was done is a
  stop right after it.
- Departures are those from a direct conversation. `Groups` has those from a group.
- History variables: `dmAnswered` (what was answered 201), `dmDisturbed` (a creation of
  the named conversation stopped between its two participants, or one of them left), and
  the field `alone` of a request.

The model shows what a user meets and no document forbids: after a stop between the two
participants, the second user is refused in that conversation for good
(`BothOrNobody` says that this needs such a stop, a departure, or another request just
between the two); the last participant of a direct conversation who leaves has the
conversation deleted but not its own row; and the two forms of direct conversation
between the same users can exist together.

### MessageStore

The messages of one author in a conversation. A reaction, an edition and a removal are
each two statements (`pc`): the one that finds the message, and the one that acts. The
rest are single statements. A voice message is a row of `stVoice`: its file is written
before anything is checked, and each refusal passes through `cleanup`.

- Contents are a ciphertext as it was sent, rewritten or erased; `own` is the presence
  of `sender_content`. One emoji for each user and message.
- A removal takes any set of messages at any time: which set and when is `DmArchive`.
- The error of `os.Remove` is ignored: after a refusal the file may be left, as after a
  stop (`StRefusal`, state "left").
- History variables: `stLate` (reactions inserted after their message was removed),
  `stReacted` (made and not taken back), `stHalf` (removals stopped between their two
  statements), `stErased` (erased by `deleteAllOfUser`), `stDoubtful` (an INSERT that was
  done and reported an error).

`OrphansWereLate` and `ErasedUntilRewritten` state exactly what the code gives: a request
that found its message before it was removed does leave a reaction that belongs to
nothing, and an edition that found its message before everything of the user was erased
brings its text back into the row, which stays deleted. `ClipsMatchFiles` leaves out the
files that a stop or a refused `os.Remove` leaves behind, and an INSERT that was done and
reported an error. `DeletedIsNeverListed` is about the flag `is_deleted`, which every list
of messages filters by; the last message that the listing of conversations shows
(`conversations.go:162`) does not, and is not covered. Deleted, erased and archived
voice messages leave their file, and a deleted one keeps its `voice_url`.

### Reading

A page is one request: the access check, then a SELECT of the messages created before a
date, newest first. `rdMessages` is the sequence of messages with their dates in
seconds, so that several may share one. Between two pages messages are created, deleted
and exported, and the reader's row may go. Which messages of one second come first is
the database's choice. `RdLimit` keeps what each route does with its `limit`; the
negative value that the external route lets through is an error of the SELECT.

`fetchFromExternal` answers every failure (no configuration, a host that is not public, a
connection, the making of the table, a query, a scan) with an empty list and 200, which
the reader cannot tell from the end: `RdFetchFails` ends an external reading at any page.
A failure of the other routes is an answer 500 and leaves the reading where it was.
`PagesMissOnlyTwins` says what holds at any time (what was due is seen, shares its date
with another message, or is older than every page so far) and at the end (nothing older
is left, unless the last page was such a failure). `rdFailed` is a history variable.
BOUND `RdSize`, `RdTime`: the messages and the seconds.

### UserState

Each handler of the notifications is one statement, so each is one action; a pin is two,
with a request between them. `NamedRows` is what `notifRead` makes of the name the client
sends: one without prefix becomes a key `dm_<a>_<b>`, which is none of those of a
group or a channel. BOUND `UsMaxCount`, `UsMaxOrder`.
`message_count` is not reset by a reading, so the next notification counts on from the
old value: the model keeps that (`PingsCounted` in the proofs), and no document says
what the number means.

### ExternalDb

The counter of attempts is two Redis commands, INCR and, for the one that counted 1,
EXPIRE (`pc` expire); the check of the address, the connection and the UPSERT follow
(check, connect, store). An export opens the configured database, makes its table and
inserts its batch entry by entry. Names resolve to public addresses or not, as they
like, and are resolved again for each connection. A batch is an interval of entries, so
that two of them may overlap. History variables: `xdAllowed`, `xdLost`, `xdFault`.
BOUND `XdEntries`, `XdMaxCount`.

### Schema

`Migrate` is the list of statements of `schema.go`, in their order, as data: what each
does, to which table, and the column, form or index it adds. Each instance runs through
it, over an empty database or one of the first versions. A failure is fatal when a table
is created, and is ignored or logged otherwise. BOUND `SchFaults`: failures and stops.
A MODIFY is the presence of the form it asks for, and succeeds only on a column that is
there (`SchNeeds`): when `ADD COLUMN sender_content` (`schema.go:136`) has failed,
`MODIFY COLUMN sender_content` (141) fails with 1054, is logged, and the instance serves.
`ServesCompleteSchema` therefore speaks of the statements that did not fail by themselves
in the start of that very instance and whose column was not missing for that reason
(`schFailed`, `SchExcused`). The two statements of `ensureIndex` are one.

## Runs

| Run | Question | Instance | States |
|---|---|---|---|
| DmArchiveOverlap | are messages removed only when confirmed and from the oldest end? does each step keep the promise? | 2 users, 2 requests, 2 batches, 2 messages, any statement may fail, symmetric | 1.75 million |
| DmArchiveConfirm | do confirmations outlive the batch, and does a complete list lead to deletion? | 1 batch, keys of 2 ticks, users may leave, fairness | 155 000 |
| DmArchiveLostConfirm | does every double confirmation delete? **no** | 2 users confirming together | |
| DmArchiveLeave | is a removal confirmed by all when someone may leave? **no** | | |
| DmArchiveStaleStats | is a conversation over its quota always archived? **no** | a count cached late | |
| GroupsSafe | size, owner and rows under interleavings | 5 users, 2 requests, maximum 3, failures, symmetric | 508 000 |
| GroupsCap | does the maximum hold? **no** | two additions at once | |
| MessageCache | is an announced creation always shown, and any change after a bounded time? | 2 messages, 2 readers, lists of 2 ticks, key of 4, readers of 1, symmetric | 3 million |
| RegistrarOk | one ticker, never silent, reconnects | 2 calls, 3 tickers, 5 faults, fairness | 24 000 |
| RegistrarRefused | is a service that is told 404 always registered again? **no** | 2 faults: a restart of the gateway, then an answer to the re-registration that is no acceptance | |
| Conversations | who founds a direct conversation and who is refused; is what was answered 201 stored; are reactions, erasures and clips as the users left them; do pages show everything? | creation: 3 users, one named and one generated conversation, 1 message, 2 requests (597 000); messages: one text, one clip, 2 requests (1.36 million); reading: 3 messages in 2 seconds, pages of 1 and 2 (549 000); failures anywhere | 2.5 million |
| Service | are pings kept until read, pins in order, attempts limited, exports whole, schemas complete? | 3 conversations and counts up to 3; 2 pins; 2 attempts and 2 overlapping exports of 2 entries, limit 2; 2 instances migrating with two failures or stops | 2.2 million |

A run whose instance excludes a fault does so for the sake of its question and says so in
its configuration. Deadlock is not checked where everything the bounds allow may have
been done, or, in `Groups`, where nobody is left to make a request.

Why the bounds suffice. Every hazard of the archive is between two handlers, hence two
requests: two confirmations of one batch, two archivings that select overlapping
batches, a creation against a status request that fills the cache. Two messages and two
batches are the least for a batch that contains, equals or is disjoint from another,
and for a hole. One tick of key life in DmArchiveOverlap lets keys vanish between any
two steps; DmArchiveConfirm needs two ticks for one key to be older than the other.
In MessageCache one reader stores what another finds, while the two creations make the
difference between the version a list was read under and a later one; the version key
outlives a list and its reader by one tick, so it may expire in every phase of both.
The group has two users more than its maximum, so that one too many can be told from two too many. In Registrar
two calls are not a restriction: `RegistrationsNeverMultiply` shows that the code never
has more than two registrations in progress.

In Conversations, the races of a creation are between two requests over one
conversation: one reads what the other has half written. Three users are the pair and a
stranger, and the lists of a group of three are in all orders. One message id is used by
both requests, which is the case of a retry. One text and one clip meet in one removal,
and two requests cross a removal with a reaction, an edition or another removal. Three
messages in two seconds leave at least two with the same date, and pages of one and two
cut between them. In Service, a limit of two attempts is exceeded by four that are
counted, the expiry falls between any two of them, and exports of two overlapping
batches share an entry. Two instances that migrate are what makes one find done what
the other did. Two faults are a failed ADD followed by anything else that can go wrong, a
second failure, a stop or a failure of the other instance.

Fairness. `DmArchive` is fair to the steps of a request that has begun: a goroutine is
scheduled until its handler returns, and a statement returns. Nobody is forced to
confirm, to create or to begin anything. `DmArchiveConfirm`, which checks liveness,
excludes failures (`MayFail` FALSE), as a handler that stops need not be resumed.
`Registrar` is fair to timers, goroutines and answers: an HTTP request ends within 5 or
8 s with an answer or an error.
`Groups`, `MessageCache` and the modules of Conversations and Service state no fairness:
what is checked of them is safety.

## What does not hold

Five statements made by the repository's comments or messages are violated by the code;
each has a run that finds the behaviour and an entry under "findings":

1. `archive.go:195`. Two peers confirm at the same time, both read the list without
   the other's name, and one write is lost. Both have confirmed and the messages stay.
   They are removed only if one of them confirms again within the hour.
2. `archive.go:203`. Confirmations are counted against the participants that remain:
   after one user left, one confirmation is enough.
3. `archive.go:106`. `conversationStats` may cache a count older than the creation that
   just dropped the key. For up to 300 s the quota check uses it.
4. `conversations.go:637`. Two additions pass the check of the maximum together.
   `OvershootBounded` says how far this goes: one participant per other handler.
5. `registrar.go:246`. A service told 404 registers again once; if that registration gets
   an answer that is not an acceptance, by a passing fault, nothing is armed any more and
   the service stays unregistered.

One exception is part of a property, not a finding: when the version key expires, 24 h
after the last creation (`common.go:108`), a list stored within the last seconds is
still there, and the next creation counts from 1 again. If that list is of version 1, it
is served without the new message until it expires. `BumpedIsSeen` leaves this case out
(`recycled`), and `SettledIsServed`, which does not, says that it ends with the list.

Some things were met while reading that no property is about, because nothing runs
concurrently there:

- `GET /messages/notifications` is declared after `GET /messages/{messageId}`
  (`routes.go:41`, `routes.go:108`), which takes it and refuses `notifications` as an id.
- An emoji may have 50 characters (`routes.go:51`), its column 32 (`schema.go:79`).
- `POST /messages/conversation/{conversationId}/read` wants a UUID (`routes.go:54`), which
  the ids `dm_<a>_<b>` are not, and the column `target_id` of the settings has the width
  of a UUID (`schema.go:260`).
- The unread count (`conversations.go:448`) compares seconds: what is sent in the second
  of a reading counts as read.

## Proofs

All theorems hold for every value of the constants that satisfies the named
assumptions (`ConstantsAssumption`, `GroupsAssumption`, `CacheAssumption`,
`RegistrarAssumption`, `DmAssumption`, `StAssumption`, `RdAssumption`, `UsAssumption`,
`XdAssumption`, `SchAssumption`), so for any number of users, handlers, batches, messages
and instances. Each module keeps its own invariant, a conjunction of named parts, and
proves `Init => IInv`, `IInv /\ [Next]_vars => IInv'` and what follows from it.

`DmArchiveProofs`
- `TypeCorrect`: `TypeOK`. The strengthening `LocalOK` says which local variables are
  set at which `pc`. Without it `batch[req[r].log]` has no type.
- `HistoryHasNoHoles`: `NoHoles`. A batch is read as the oldest live messages and is
  used much later. The inductive invariant `OldestInv` says that every set in a local
  variable or in `batch` is closed downwards among the messages that are live *now*:
  insertions add at the end, soft deletions and removals only take away, so this
  survives any delay. Removing such a set cannot leave a hole.
- `OnlyConfirmedRemoval`: `~MayLeave => Spec => []RemovalConfirmedByAll`. The invariant
  `ConfirmInv`: the list under the key, and what a handler has read of it, are subsets
  of the users that registered, despite lost updates; with all the users as members, a
  handler past the test has seen them all. The hypothesis is needed: run
  DmArchiveLeave shows it.
- `ArchiveKeepsPromise`: `~MayLeave => Spec => KeepsPromise`, each step maps to
  `Append`, `Offer`, `Ack`, `Remove` or a stutter of `ConfirmedRemoval`, from the same
  invariants.
- `ConfirmationsOutliveBatch`: `ConfirmOutlivesBatch`. The two keys of a log age together,
  but different handlers write them. `LogsInv`: a log not used yet has no key, and the
  confirmations kept are of users that registered. `LocksInv`: the log whose batch is about
  to be written is fresh and nobody confirms it; a handler that finds its user already
  registered, and so writes nothing, followed a registration that still counts. It holds
  whether or not anyone leaves.

`GroupsProofs`
- `TypeCorrect`: `TypeOK`.
- `CapOvershoot`: `OvershootBounded`. The invariant counts, with the participants, the
  requests that have passed the test and not inserted yet. The sum is at most the
  maximum plus the other requests.
- `SingleOwner`: `AtMostOneOwner`. With several owners some request must be about to
  demote, or `halfway` holds.
- `AdditionsOnly`: `OnlyAdditionsAdd`, an action property.

`MessageCacheProofs`
- `TypeCorrect`: `TypeOK`. That the version stays within its bound needs `Counted`: it is
  at most the number of messages that have raised it.
- `CreationsAreSeen`: `BumpedIsSeen`, an action property. The invariant `Fresh` says that
  nothing is kept or read under a version to come (`NotAhead`), that what is kept under
  the current version has all the messages that raised it (`Current`), and that the
  readers of one version agree on what they must see (`Agree`), so that the list that
  one of them stores satisfies the others (`Covered`). `NotAhead` is what an expiry of
  the key breaks, hence `recycled \/ Fresh`.
- `ChangesSettle`: `SettledIsServed`, an action property. The invariant `Aged` adds two
  ages up: what a reader has read lacks only changes younger than its handler
  (`ReadsAged`), and what is stored lacks only changes younger than the longest handler
  and the time the list has been stored together (`StoredAged`). It is a bound in time,
  whatever the version is: nothing in it depends on the version having been raised.

`RegistrarProofs`
- `OneTicker`: `NoTickerLeaks`; `RegistrationGoesOn`: `NeverSilent`. Each is inductive
  with the types of five variables.
- `TwoChainsAtMost`: `RegistrationsNeverMultiply`, and `RegistrarTypes`: `TypeOK`, whose
  bound on the timers follows. Timers, the first check, calls under way and tickers that
  can still be told 404 are tokens; each step moves one or drops some. An unknown
  heartbeat arms a timer, but the ticker it answers is stopped with it, being the current
  one or closed already (`NoTickerLeaks`). That the sets counted are finite is part of the
  induction.

`DirectMessagesProofs`
- `AnswersHold`: `AnsweredIsStored`. A request about to answer has its message in the
  table (`TouchedIsStored`), and no statement changes a row that is there.
- `PairIsWhole`: `BothOrNobody`. The rows of the pair are inserted in one order
  (`PairInOrder`), so a request that is half-way has the first in the table; only the two
  named users have requests beyond the reading of the participants (`OnlyThePair`).
- `OwnersAreThere`: `GroupHasItsOwner`. A creation is alone with its id until it has
  inserted its conversation (`NewIsAlone`), and the creator's row is its first
  (`OwnerComesFirst`).
- `DmsAreReused`: `KnownDmIsReused`, an action property, from `StillNotFound`: what was not
  found is still not there, unless the request was crossed.
- `StrangersGetNowhere`: `StrangersChangeNothing`, an action property, from `OnlyThePair`.
- `CreationTypes`: `DmTypeOK`. What a request still has to insert is no longer than the
  users allow (`ListsAreShort`): a list is made once and only shrinks.

The lemmas `LocalKeeps` (a step that changes no table), `TableKeeps` (one that changes
the rows of its own conversation), `MessageKeeps` and `DepartureKeeps` carry the
invariant once for each kind of step.

`MessageStoreProofs`
- `OnlyLateOrphans`: `OrphansWereLate`, and `ReactionsStay`: `ReactionsKept`. Between the two
  statements of a removal its messages have late reactions only (`DropsAreClean`), and
  nobody has found a clip that was not inserted (`Untouched`).
- `ErasureHolds`: `ErasedUntilRewritten`. `ClipsHaveFiles`: `ClipsMatchFiles`, since a clip
  comes with its file until it is refused (`ComesWithFile`).
- `DeletionHolds`: `DeletedIsNeverListed`, an action property.

`ConversationsProofs`
- `PagesMissNothingElse`: `PagesMissOnlyTwins`. The last page is known by its length, so
  what it leaves behind must be counted against what the condition still selects. A page
  is asked for before everything that was shown (`SeenIsBehind`); what the reader is owed
  and was not deleted can still be selected (`DueIsThere`); what is owed and not shown is
  ahead of the page, but for messages with the date of one that was shown (`DueIsAhead`),
  and at the end only if the last page was an external one that failed, which moves nothing.
  A page has a least date by the well-foundedness of the naturals (`MinIsLeast`).
- `EachPartIsKept`: `ConvSpec => DmSpec /\ StSpec /\ RdSpec`. A step of one part is a stutter
  of the others, so each theorem about a part is one about `MCConversations`;
  `ConversationTypes` gathers their types (`ConvTypeOK`).

`ServiceProofs`
- `LimitHolds`: `AtMostLimitPerHour`, and `OnlyLostExpiryLocksOut`:
  `LockedOutOnlyByLostExpiry`. The attempts allowed are among those counted, and the one
  that created the counter, alone to do so, is still to be allowed (`XdCounted`).
- `ExportsAreWhole`: `ExportIsWholeOrFailed`. What an export has passed is in the table it
  writes to (`XdProgress`), which nothing takes away.
- `PingsStay`: `PingsStayUntilRead`. Unread notifications were counted (`UsPingsCounted`).
- `OrdersDistinct`: `PinsDistinctUnlessRaced`. A pin that nothing crossed will be inserted
  behind all that are there (`UsAloneIsAhead`). That a greatest order exists is the
  well-foundedness of the naturals.
- `ReactionsAreMoved`: `NoReactionLost`; `SchemaIsComplete`: `ServesCompleteSchema`.
  They are about the one list of statements of `schema.go`, whose shape comes first as
  lemmas: nine tables, one place where the reactions are counted, copied and dropped, statements that touch
  nothing else, and each MODIFY behind the ADD of its column (`SchBacked`). What stands
  before the position of an instance is done and stays done, or is excused by a failure of
  its own start (`SchDone`, `SchDid`), whatever another instance fails at; an instance at
  the drop has all the old rows in the new table, but for those already taken (`SchMovedFirst`); and the two tables
  that are dropped never have a column recorded (`SchNoOldColumn`). This is for any number
  of instances, failures and restarts.
- `EachPartIsServed`: `ServiceSpec => UsSpec /\ XdSpec /\ SchSpec`, and `ServiceTypes`:
  `ServiceTypeOK`, as above.

Only model-checked: the liveness properties `FullyConfirmedIsRemoved`,
`EndsConnectedUnlessRefused` and `BlockedFallsSilent`, because the prover reaches neither
fairness nor ENABLED. Every other property of a passing run is a theorem.

## Plan

Done in this order: `DmArchive` with its abstract promise, `Groups`, `Registrar`,
`MessageCache` and their proofs; `DirectMessages`, `MessageStore`, `UserState`,
`ExternalDb` and their proofs; `Reading` and `Schema` and their proofs; the proofs about
ages and cardinalities and those about the compositions. Left, most useful first:

1. The maintenance loop over several conversations, where one error ends the day's work,
   and the cache of peer messages (`archiveCache`, `archiveMessage`).
2. Read marks and the count of unread messages, against messages of the same second.

## Not modelled

- Validation formats, HTTP parsing and error pages, conversions between JavaScript, JSON
  and SQL values, configuration and connection pools: about half of the code. They are
  computations within one request and share no state between requests; no property
  here depends on their details.
- The router: a fixed list, matched without any state.
- The metrics that a heartbeat carries.
- Names and avatars of groups, and the listings of conversations, which only read.
- Read marks, and the maintenance loop over several conversations (see the plan).
- Token verification, encryption and the stores themselves are libraries and services:
  MySQL statements and Redis commands are taken as atomic.
