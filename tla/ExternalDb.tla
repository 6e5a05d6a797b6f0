----------------------------- MODULE ExternalDb -----------------------------
(***************************************************************************)
(* The database of his own that a user may attach to receive what is       *)
(* archived (extdb.go): the limit on the attempts to connect, the routes   *)
(* that save, test and delete the configuration, and the export of a batch *)
(* that archiveOldMessages starts and does not wait for.                   *)
(*                                                                         *)
(* The state is that of one user, whose requests and exports are in flight *)
(* together.  An action is one command of Redis, one SQL statement or one  *)
(* exchange with the outside.  Names resolve to other addresses, and the   *)
(* user's server comes and goes, whenever they like.                       *)
(*                                                                         *)
(* Not told apart: ports, database names, passwords (but for the presence  *)
(* of the key that encrypts them), contents.  The reading of an external   *)
(* database is module Reading.                                             *)
(***************************************************************************)
EXTENDS Integers

CONSTANTS
  XdHost,     \* names of servers
  XdNone,     \* no configuration, or a configuration that is refused
  XdRequest,  \* requests in flight: POST /archive/external-db and its /test
  XdExport,   \* exports in flight, one for each batch
  XdEntries,  \* BOUND: the entries that a batch can hold are 1..XdEntries
  XdLimit,    \* attempts allowed in an hour
  XdMaxCount, \* BOUND: the greatest value of the counter of attempts
  XdKey       \* is ARCHIVE_DB_ENCRYPTION_KEY configured?

ASSUME XdAssumption ==
  /\ XdNone \notin XdHost
  /\ XdEntries \in Nat \ {0} /\ XdLimit \in Nat \ {0} /\ XdKey \in BOOLEAN
  /\ XdMaxCount \in Nat /\ XdMaxCount > XdLimit

VARIABLES
  xdConfig,  \* table user_archive_db_config: the host of the user
  xdPublic,  \* the hosts that resolve to public addresses only
  xdCount,   \* Redis: extdb:attempts:<user>, 0 without the key
  xdExpires, \* the key has an expiry
  xdReq,     \* local state of each request
  xdTable,   \* the table of archived messages on each host
  xdExport,  \* local state of each export
  xdAllowed, \* HISTORY: attempts allowed since the counter was created
  xdLost,    \* HISTORY: the expiry of the counter was not set
  xdFault    \* HISTORY: exports that an exchange failed, or that were stopped

xdAttempts == <<xdCount, xdExpires, xdAllowed, xdLost>>
xdExports == <<xdTable, xdExport, xdFault>>
xdVars == <<xdConfig, xdPublic, xdReq, xdAttempts, xdExports>>

XdIdle == [pc |-> "idle", host |-> XdNone, save |-> FALSE]
XdNoExport == [pc |-> "none", host |-> XdNone, first |-> 1, next |-> 1,
               last |-> 0]

XdTypeOK ==
  /\ xdConfig \in XdHost \cup {XdNone} /\ xdPublic \subseteq XdHost
  /\ xdCount \in 0..XdMaxCount /\ xdExpires \in BOOLEAN
  /\ xdAllowed \in 0..XdMaxCount /\ xdLost \in BOOLEAN
  /\ xdReq \in [XdRequest -> [pc : {"idle", "expire", "check", "connect", "store"},
                              host : XdHost \cup {XdNone}, save : BOOLEAN]]
  /\ xdTable \in [XdHost -> SUBSET (1..XdEntries)]
  /\ xdExport \in [XdExport -> [pc : {"none", "open", "table", "insert", "done", "failed"},
                                host : XdHost \cup {XdNone}, first : 1..XdEntries,
                                next : 1..(XdEntries + 1), last : 0..XdEntries]]
  /\ xdFault \subseteq XdExport

XdInit ==
  /\ xdConfig = XdNone /\ xdPublic = XdHost
  /\ xdCount = 0 /\ xdExpires = FALSE /\ xdAllowed = 0 /\ xdLost = FALSE
  /\ xdReq = [r \in XdRequest |-> XdIdle]
  /\ xdTable = [h \in XdHost |-> {}]
  /\ xdExport = [e \in XdExport |-> XdNoExport]
  /\ xdFault = {}

----------------------------------------------------------------------------
(* The limit: allowExternalDbAttempt *)

XdAt(r, pc) == xdReq[r].pc = pc
XdGoto(r, pc) == xdReq' = [xdReq EXCEPT ![r].pc = pc]
XdReturn(r) == xdReq' = [xdReq EXCEPT ![r] = XdIdle]

\* n <= 10 (a plausible bug: the count before this attempt is compared).
WithinBefore(n) == n - 1 <= XdLimit
Within(n) == n <= XdLimit

\* Only the attempt that created the counter sets its expiry (a plausible bug: only
\* the one that reaches the limit).
ExpiresAtLimit(n) == n = XdLimit
SetsExpiry(n) == n = 1

\* The attempt is allowed, or answered 429.
XdAllow(r, request, n) ==
  IF Within(n)
  THEN /\ xdReq' = [xdReq EXCEPT ![r] = [request EXCEPT !.pc = "check"]]
       /\ xdAllowed' = xdAllowed + 1
  ELSE XdReturn(r) /\ UNCHANGED xdAllowed

XdAttempt(r, host, save) ==
  LET n == xdCount + 1
      request == [pc |-> "expire", host |-> host, save |-> save]
  IN /\ XdAt(r, "idle") /\ n <= XdMaxCount
     /\ xdCount' = n
     /\ IF SetsExpiry(n) THEN xdReq' = [xdReq EXCEPT ![r] = request] /\ UNCHANGED xdAllowed
                         ELSE XdAllow(r, request, n)
     /\ UNCHANGED <<xdConfig, xdPublic, xdExpires, xdLost, xdExports>>

\* The request counted 1, whatever the others have counted since.
XdExpire(r) ==
  /\ XdAt(r, "expire")
  /\ xdExpires' = TRUE
  /\ XdAllow(r, xdReq[r], 1)
  /\ UNCHANGED <<xdConfig, xdPublic, xdCount, xdLost, xdExports>>

\* EXPIRE fails, and the attempt is refused; or the process stops before it.
XdExpireLost(r) ==
  /\ XdAt(r, "expire")
  /\ xdLost' = TRUE
  /\ XdReturn(r)
  /\ UNCHANGED <<xdConfig, xdPublic, xdCount, xdExpires, xdAllowed, xdExports>>

XdHourPasses ==
  /\ xdCount > 0 /\ xdExpires
  /\ xdCount' = 0 /\ xdExpires' = FALSE /\ xdAllowed' = 0
  /\ UNCHANGED <<xdConfig, xdPublic, xdLost, xdReq, xdExports>>

----------------------------------------------------------------------------
(* extSave and extTest, once the attempt is allowed; extDelete *)

XdCheck(r) ==
  /\ XdAt(r, "check")
  /\ IF xdReq[r].host \in xdPublic THEN XdGoto(r, "connect") ELSE XdReturn(r)
  /\ UNCHANGED <<xdConfig, xdPublic, xdAttempts, xdExports>>

\* Without the key no password can be encrypted, and the configuration is not saved.
XdEncrypted == XdKey

XdConnect(r) ==
  /\ XdAt(r, "connect")
  /\ IF xdReq[r].save /\ XdEncrypted THEN XdGoto(r, "store") ELSE XdReturn(r)
  /\ UNCHANGED <<xdConfig, xdPublic, xdAttempts, xdExports>>

XdStore(r) ==
  /\ XdAt(r, "store")
  /\ xdConfig' = xdReq[r].host
  /\ XdReturn(r)
  /\ UNCHANGED <<xdPublic, xdAttempts, xdExports>>

\* The connection cannot be made, the statement fails, or the process stops.
XdFails(r) ==
  /\ xdReq[r].pc \in {"check", "connect", "store"}
  /\ XdReturn(r)
  /\ UNCHANGED <<xdConfig, xdPublic, xdAttempts, xdExports>>

XdDelete ==
  /\ xdConfig # XdNone
  /\ xdConfig' = XdNone
  /\ UNCHANGED <<xdPublic, xdReq, xdAttempts, xdExports>>

XdResolves(h) ==
  /\ xdPublic' = IF h \in xdPublic THEN xdPublic \ {h} ELSE xdPublic \cup {h}
  /\ UNCHANGED <<xdConfig, xdReq, xdAttempts, xdExports>>

----------------------------------------------------------------------------
(* exportMessages, in a goroutine of its own for each participant           *)

XdNotExports == UNCHANGED <<xdConfig, xdPublic, xdReq, xdAttempts>>

\* openForUser: the configuration that is read.
XdExportStart(e, first, last) ==
  /\ xdExport[e].pc = "none" /\ first <= last
  /\ xdExport' = [xdExport EXCEPT ![e] =
       [pc |-> IF xdConfig = XdNone THEN "done" ELSE "open", host |-> xdConfig,
        first |-> first, next |-> first, last |-> last]]
  /\ UNCHANGED <<xdTable, xdFault>> /\ XdNotExports

\* The host is resolved again: one that is not public any more receives nothing.
XdExportOpen(e) ==
  /\ xdExport[e].pc = "open"
  /\ LET h == xdExport[e].host IN
     xdExport' = [xdExport EXCEPT
       ![e].pc = IF h \in xdPublic THEN "table" ELSE "done",
       ![e].host = IF h \in xdPublic THEN h ELSE XdNone]
  /\ UNCHANGED <<xdTable, xdFault>> /\ XdNotExports

XdExportTable(e) ==
  /\ xdExport[e].pc = "table"
  /\ xdExport' = [xdExport EXCEPT ![e].pc = "insert"]
  /\ UNCHANGED <<xdTable, xdFault>> /\ XdNotExports

\* The next statement after the insertion of an entry into rows.
\* (A plausible bug: the loop goes one entry too far.)
OneMore(n, last) == IF n > last THEN "done" ELSE "insert"
AfterEntry(n, last) == IF n = last THEN "done" ELSE "insert"

XdExportEntry(e) ==
  /\ xdExport[e].pc = "insert"
  /\ LET x == xdExport[e]
         rows == xdTable[x.host]
     IN /\ xdTable' = [xdTable EXCEPT ![x.host] = rows \cup {x.next}]
        /\ xdExport' = [xdExport EXCEPT ![e].next = x.next + 1,
                                        ![e].pc = AfterEntry(x.next, x.last)]
  /\ UNCHANGED xdFault /\ XdNotExports

\* An exchange with the database fails or reports a failure of what was done: the
\* rest is given up.  (A plausible bug: the next entry is tried.)
EntrySkipped(x) == IF x.pc = "insert" /\ x.next < x.last THEN [x EXCEPT !.next = @ + 1]
                   ELSE [x EXCEPT !.pc = "done"]
GivenUp(x) == [x EXCEPT !.pc = "failed"]

XdExportFails(e) ==
  /\ xdExport[e].pc \in {"open", "table", "insert"}
  /\ xdExport' = [xdExport EXCEPT ![e] = GivenUp(@)]
  /\ xdFault' = xdFault \cup {e}
  /\ UNCHANGED xdTable /\ XdNotExports

XdNext ==
  \/ \E r \in XdRequest :
       \/ \E h \in XdHost, save \in BOOLEAN : XdAttempt(r, h, save)
       \/ XdExpire(r) \/ XdExpireLost(r) \/ XdCheck(r) \/ XdConnect(r) \/ XdStore(r) \/ XdFails(r)
  \/ XdHourPasses \/ XdDelete \/ \E h \in XdHost : XdResolves(h)
  \/ \E e \in XdExport :
       \/ \E first, last \in 1..XdEntries : XdExportStart(e, first, last)
       \/ XdExportOpen(e) \/ XdExportTable(e) \/ XdExportEntry(e) \/ XdExportFails(e)

XdSpec == XdInit /\ [][XdNext]_xdVars

----------------------------------------------------------------------------
(* Between two expiries of the counter, no more attempts than the limit    *)
(* are allowed, however many requests count at the same time and wherever  *)
(* one of them stops.                                                      *)
AtMostLimitPerHour == xdAllowed <= XdLimit

(* A counter without expiry, which would limit its user for good, belongs  *)
(* to a request that is about to set it, or was left by one that could not.*)
LockedOutOnlyByLostExpiry ==
  xdCount > 0 /\ ~xdExpires => xdLost \/ \E r \in XdRequest : XdAt(r, "expire")

(* An export that went to its end has put every entry of its batch into    *)
(* the database it opened, and one that did not was failed by an exchange: *)
(* two batches that share messages do not disturb one another.             *)
ExportIsWholeOrFailed ==
  \A e \in XdExport :
    LET x == xdExport[e] IN
    /\ x.pc = "failed" => e \in xdFault
    /\ x.pc = "done" /\ x.host # XdNone => x.first..x.last \subseteq xdTable[x.host]
=============================================================================
