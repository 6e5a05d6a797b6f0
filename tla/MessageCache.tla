---------------------------- MODULE MessageCache ----------------------------
(***************************************************************************)
(* The versioned cache of message lists: GET /messages against the         *)
(* creations that raise the version (POST /messages, POST /messages/voice) *)
(* and the changes that do not (edition, deletion); list, create, voice,   *)
(* update and delete of internal/messages/messages.go, bumpCacheVersion    *)
(* and cacheVersion of internal/messages/common.go.                        *)
(*                                                                         *)
(* One conversation and one query (limit and before): queries have keys of *)
(* their own and share the version only.  Contents, reactions and access   *)
(* are left out.  Time is a clock of ticks that Redis keys live by.        *)
(***************************************************************************)
EXTENDS Integers, FiniteSets

CONSTANTS
  Msg,      \* messages that may be created, each by a handler of its own
  Reader,   \* handlers of GET /messages, one per request
  ListTTL,  \* msgCacheTTL (4 s), in ticks
  VerTTL,   \* life of the version key (24 h), in ticks
  Slow      \* longest life of a handler of GET /messages, in ticks

ASSUME CacheAssumption ==
  /\ IsFiniteSet(Msg)
  /\ ListTTL \in Nat \ {0} /\ VerTTL \in Nat \ {0} /\ Slow \in Nat

VARIABLES
  content,  \* what table messages holds of each message
  post,     \* next step of the handler that creates each message
  version,  \* value under key msgver:<conv>, 0 without the key
  verTTL,   \* remaining life of that key, 0 without it, or NoExpiry
  entry,    \* per version, the list under msg:<conv>:<version>:<query>
  read,     \* local state of each reader
  bumped,   \* HISTORY: the messages whose creation has raised the version
  since,    \* HISTORY: ticks since each message last changed, up to Settled
  recycled  \* HISTORY: the version key expired before all that was read under it

history == <<bumped, since, recycled>>
vars == <<content, post, version, verTTL, entry, read, history>>

NoExpiry == VerTTL + 1
Settled == ListTTL + Slow   \* the longest a list is kept, in Redis and in a handler
Versions == 0..Cardinality(Msg)
Lists == [Msg -> {"none", "first", "edited", "deleted"}]
Empty == [m \in Msg |-> "none"]
Absent == [ttl |-> 0, list |-> Empty]
Idle == [pc |-> "idle", ver |-> 0, list |-> Empty, age |-> 0, must |-> {}]

Entries == [ttl : 0..ListTTL, list : Lists]
Reads == [pc : {"idle", "lookup", "select", "fill", "served", "failed"}, ver : Versions,
          list : Lists, age : 0..Slow, must : SUBSET Msg]

TypeOK ==
  /\ content \in Lists
  /\ post \in [Msg -> {"insert", "bump", "expire", "done"}]
  /\ version \in Versions /\ verTTL \in 0..NoExpiry
  /\ version = 0 <=> verTTL = 0
  /\ entry \in [Versions -> Entries] /\ read \in [Reader -> Reads]
  /\ bumped \subseteq Msg /\ since \in [Msg -> 0..Settled] /\ recycled \in BOOLEAN

Init ==
  /\ content = Empty
  /\ post = [m \in Msg |-> "insert"]
  /\ version = 0 /\ verTTL = 0
  /\ entry = [v \in Versions |-> Absent]
  /\ read = [r \in Reader |-> Idle]
  /\ bumped = {} /\ since = [m \in Msg |-> Settled] /\ recycled = FALSE

----------------------------------------------------------------------------
(* Writers *)

Write(m, c) ==
  /\ content' = [content EXCEPT ![m] = c]
  /\ since' = [since EXCEPT ![m] = 0]
  /\ UNCHANGED <<version, verTTL, entry, read, bumped, recycled>>

Insert(m) ==
  /\ post[m] = "insert"
  /\ post' = [post EXCEPT ![m] = "bump"]
  /\ Write(m, "first")

\* INCR creates the key without expiry, and keeps the one it has.
RaisedTTL == IF verTTL = 0 THEN NoExpiry ELSE verTTL

Bump(m) ==
  /\ post[m] = "bump"
  /\ version' = version + 1
  /\ verTTL' = RaisedTTL
  /\ post' = [post EXCEPT ![m] = "expire"]
  /\ bumped' = bumped \cup {m}
  /\ UNCHANGED <<content, entry, read, since, recycled>>

\* EXPIRE does nothing if the key has gone in between.
SetExpiry(m) ==
  /\ post[m] = "expire"
  /\ verTTL' = IF verTTL = 0 THEN 0 ELSE VerTTL
  /\ post' = [post EXCEPT ![m] = "done"]
  /\ UNCHANGED <<content, version, entry, read, history>>

\* INCR or EXPIRE fails, which the handlers ignore, or the process stops.
Lose(m) ==
  /\ post[m] \in {"bump", "expire"}
  /\ post' = [post EXCEPT ![m] = "done"]
  /\ UNCHANGED <<content, version, verTTL, entry, read, history>>

Edit(m) ==
  /\ content[m] = "first"
  /\ Write(m, "edited")
  /\ UNCHANGED post

\* By its sender, or by the archive, which takes the row away.
Delete(m) ==
  /\ content[m] \in {"first", "edited"}
  /\ Write(m, "deleted")
  /\ UNCHANGED post

----------------------------------------------------------------------------
(* Readers *)

\* cacheVersion.  Without the key the version is "0", and an error of Redis is
\* taken for that.  With a version, the reader must see what raised it.
ReadVersion(r) ==
  /\ read[r].pc = "idle"
  /\ \E v \in {version, 0} :
       read' = [read EXCEPT ![r] = [Idle EXCEPT !.pc = "lookup", !.ver = v,
                                                !.must = IF v = 0 THEN {} ELSE bumped]]
  /\ UNCHANGED <<content, post, version, verTTL, entry, history>>

\* The list a reader answers with: the one it finds, else the one it has read.
AnswerOf(r) == IF read[r].pc = "lookup" THEN entry[read[r].ver].list ELSE read[r].list

Answer(r) == read' = [read EXCEPT ![r] = [Idle EXCEPT !.pc = "served"]]

Lookup(r) ==
  /\ read[r].pc = "lookup"
  /\ \/ entry[read[r].ver].ttl > 0 /\ Answer(r)
     \/ read' = [read EXCEPT ![r].pc = "select"]           \* no key, or an error
  /\ UNCHANGED <<content, post, version, verTTL, entry, history>>

\* WHERE is_deleted = FALSE.
Visible == [m \in Msg |-> IF content[m] = "deleted" THEN "none" ELSE content[m]]

Select(r) ==
  /\ read[r].pc = "select"
  /\ read' = [read EXCEPT ![r].pc = "fill", ![r].list = Visible]
  /\ UNCHANGED <<content, post, version, verTTL, entry, history>>

\* The version the list is stored under (a plausible bug: the current one), and for
\* how long (a plausible bug: as long as the version).
VersionNow(r) == version
VersionRead(r) == read[r].ver
LongLife(n) == n
ListLife(n) == ListTTL

Fill(r) ==
  /\ read[r].pc = "fill"
  /\ entry' = [entry EXCEPT ![VersionRead(r)] =
                 [ttl |-> ListLife(VerTTL), list |-> read[r].list]]
  /\ Answer(r)
  /\ UNCHANGED <<content, post, version, verTTL, history>>

\* SET fails, which the handler ignores.
FillFails(r) ==
  /\ read[r].pc = "fill"
  /\ Answer(r)
  /\ UNCHANGED <<content, post, version, verTTL, entry, history>>

\* The query fails, or the process stops.
ReadFails(r) ==
  /\ read[r].pc \in {"lookup", "select", "fill"}
  /\ read' = [read EXCEPT ![r] = [Idle EXCEPT !.pc = "failed"]]
  /\ UNCHANGED <<content, post, version, verTTL, entry, history>>

----------------------------------------------------------------------------
(* Time.  BOUND Slow: a handler of GET /messages lasts that long at most.     *)

Busy(r) == read[r].pc \in {"lookup", "select", "fill"}
Older(e) == IF e.ttl > 1 THEN [e EXCEPT !.ttl = @ - 1] ELSE Absent

\* A list remains, or a reader works, under some version that the key had.
Outlived ==
  \/ \E v \in Versions \ {0} : entry[v].ttl > 1
  \/ \E r \in Reader : Busy(r) /\ read[r].ver # 0

Tick ==
  /\ \A r \in Reader : Busy(r) => read[r].age < Slow
  /\ entry' = [v \in Versions |-> Older(entry[v])]
  /\ verTTL' = IF verTTL \in 1..VerTTL THEN verTTL - 1 ELSE verTTL
  /\ version' = IF verTTL' = 0 THEN 0 ELSE version
  /\ read' = [r \in Reader |-> IF Busy(r) THEN [read[r] EXCEPT !.age = @ + 1] ELSE read[r]]
  /\ since' = [m \in Msg |-> IF since[m] < Settled THEN since[m] + 1 ELSE Settled]
  /\ recycled' = (recycled \/ (version # version' /\ Outlived))
  /\ UNCHANGED <<content, post, bumped>>

Next ==
  \/ \E m \in Msg : Insert(m) \/ Bump(m) \/ SetExpiry(m) \/ Lose(m) \/ Edit(m) \/ Delete(m)
  \/ \E r \in Reader :
       \/ ReadVersion(r) \/ Lookup(r) \/ Select(r) \/ Fill(r) \/ FillFails(r) \/ ReadFails(r)
  \/ Tick

Spec == Init /\ [][Next]_vars

----------------------------------------------------------------------------
(* Properties *)

Answers(r) == read[r].pc # "served" /\ read'[r].pc = "served"

\* What the answer to r must have, given the version it found.
Shown(r) == \A m \in read[r].must : AnswerOf(r)[m] # "none" \/ content[m] = "deleted"

\* A reader that found a version is served every message that had raised it, but
\* those deleted since: no list read before a creation is served under the version
\* that creation made, however late it is stored (list against create and voice).
\* This holds until the version key expires (24 h without a creation) while a list is
\* still kept under it, or a reader still works under it.
BumpedIsSeen == [][\A r \in Reader : ~recycled /\ Answers(r) => Shown(r)]_vars

\* Whatever was lost or not announced (a failed bump, an edition or a deletion, which
\* raise nothing, an error of Redis taken for version 0), a change older than the life
\* of a list and of the request that stored it is in all that is served from now on
\* (msgCacheTTL, short "to stay consistent with real time").
SettledIsServed ==
  [][\A r \in Reader : Answers(r) =>
       \A m \in Msg : since[m] = Settled => AnswerOf(r)[m] = Visible[m]]_vars
=============================================================================
