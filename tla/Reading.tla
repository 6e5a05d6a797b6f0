------------------------------ MODULE Reading ------------------------------
(***************************************************************************)
(* Reading the messages of one conversation page by page, from the newest  *)
(* to the oldest: GET /messages, /messages/search,                         *)
(* /messages/conversation/{conversationId} (messages.go) and               *)
(* /archive/external-db/messages (extdb.go).                               *)
(*                                                                         *)
(* A page is one request: the access check, then a SELECT of the messages  *)
(* created before a date, newest first.  The columns keep seconds, so that *)
(* messages share their date.  Between two pages messages are created,     *)
(* deleted and archived.  The reader asks for what is before the oldest    *)
(* message of the last page until a page is empty.  A page of the service  *)
(* that fails is answered as a failure, and nothing changes; a page of the *)
(* external database that fails is answered as an empty one.               *)
(*                                                                         *)
(* Not told apart: the cache of GET /messages (module MessageCache), names *)
(* and reactions, which a second SELECT adds to the messages of the page.  *)
(***************************************************************************)
EXTENDS Integers, FiniteSets, Sequences, FiniteSetsExt

CONSTANTS
  RdSize,     \* BOUND: the number of messages
  RdTime,     \* BOUND: dates are 1..RdTime
  RdMost,     \* the most messages in a page: 100, 50 in a search, 200 outside
  RdDefault,  \* messages in a page when the request does not say
  RdAsked     \* the values of limit in requests, beside a negative one; 0 stands for
              \* none or no number

ASSUME RdAssumption ==
  /\ RdSize \in Nat /\ RdTime \in Nat \ {0}
  /\ RdMost \in Nat \ {0} /\ RdDefault \in 1..RdMost
  /\ RdAsked \subseteq Nat

VARIABLES
  rdMessages, \* table messages: the sequence of their dates and whether each is encrypted
  rdDeleted,  \* the messages with is_deleted
  rdOutside,  \* the messages in the reader's external database
  rdAccess,   \* what lets the reader in: "name" (an id dm_<a>_<b> that names it), "row"
              \* (another id, and a row among the participants), or "none"
  rdBefore,   \* the date before which the next page is asked, RdTime + 1 for the first
  rdRoute,    \* "none" when nothing is being read
  rdDone,     \* the last page was empty: for the reader, the end
  rdFailed,   \* HISTORY: it was empty because the external database failed
  rdSeen,     \* HISTORY: the messages of the pages
  rdTwice,    \* HISTORY: those that two pages had
  rdDue       \* HISTORY: what there was to be read when the reading began

rdVars == <<rdMessages, rdDeleted, rdOutside, rdAccess, rdBefore, rdRoute, rdDone,
            rdFailed, rdSeen, rdTwice, rdDue>>
rdReader == <<rdBefore, rdRoute, rdDone, rdFailed, rdSeen, rdTwice>>

RdRoutes == {"list", "search", "outside"}
RdKeys == DOMAIN rdMessages
RdDate(m) == rdMessages[m].date

RdTypeOK ==
  /\ rdMessages \in Seq([date : 1..RdTime, plain : BOOLEAN])
  /\ Len(rdMessages) <= RdSize
  /\ rdDeleted \subseteq RdKeys /\ rdOutside \subseteq RdKeys /\ rdDue \subseteq RdKeys
  /\ rdAccess \in {"name", "row", "none"}
  /\ rdBefore \in 1..(RdTime + 1)
  /\ rdRoute \in RdRoutes \cup {"none"} /\ rdDone \in BOOLEAN /\ rdFailed \in BOOLEAN
  /\ rdSeen \subseteq RdKeys /\ rdTwice \subseteq RdKeys

RdInit ==
  /\ rdMessages = <<>> /\ rdDeleted = {} /\ rdOutside = {} /\ rdDue = {}
  /\ rdAccess \in {"name", "row", "none"}
  /\ rdBefore = RdTime + 1 /\ rdRoute = "none" /\ rdDone = FALSE /\ rdFailed = FALSE
  /\ rdSeen = {} /\ rdTwice = {}

----------------------------------------------------------------------------
(* The conversation goes on *)

RdCreate(date, plain) ==
  /\ Len(rdMessages) < RdSize
  /\ \A m \in RdKeys : RdDate(m) <= date
  /\ rdMessages' = Append(rdMessages, [date |-> date, plain |-> plain])
  /\ UNCHANGED <<rdDeleted, rdOutside, rdAccess, rdReader, rdDue>>

RdDelete(m) ==
  /\ m \notin rdDeleted
  /\ rdDeleted' = rdDeleted \cup {m}
  /\ rdDue' = IF rdRoute = "outside" THEN rdDue ELSE rdDue \ {m}
  /\ UNCHANGED <<rdMessages, rdOutside, rdAccess, rdReader>>

\* The export of a batch to the external database.
RdExport(m) ==
  /\ m \notin rdDeleted \cup rdOutside
  /\ rdOutside' = rdOutside \cup {m}
  /\ UNCHANGED <<rdMessages, rdDeleted, rdAccess, rdReader, rdDue>>

\* The reader's row goes.  Who is named by the id still reads.
RdLeave ==
  /\ rdAccess = "row"
  /\ rdAccess' = "none"
  /\ UNCHANGED <<rdMessages, rdDeleted, rdOutside, rdReader, rdDue>>

----------------------------------------------------------------------------
(* One page *)

\* canAccessConversation and accessCheck, on every page.
RdAllowed == rdAccess # "none"

\* The rows that each route selects from: those that are not deleted, of which search
\* leaves out the encrypted ones; the external table keeps what is deleted here.
RdListed == RdKeys \ rdDeleted
RdSearched == {m \in RdListed : rdMessages[m].plain}
RdFetched == rdOutside
RdRows(route) ==
  CASE route = "list" -> RdListed [] route = "search" -> RdSearched [] route = "outside" -> RdFetched

\* created_at < before
Before(m, before) == RdDate(m) < before

\* The routes on the service's own tables bring the limit into 1..RdMost.  The
\* external one bounds it above only.
RdWanted(asked) == IF asked = 0 THEN RdDefault ELSE Min({asked, RdMost})
RdListLimit(asked) == Max({RdWanted(asked), 1})
RdLimit(route, asked) == IF route = "outside" THEN RdWanted(asked) ELSE RdListLimit(asked)

\* ORDER BY created_at DESC LIMIT n: which of the messages of one date come first is
\* the database's choice.  (A plausible bug: ASC, as the lists are shown.)
OldestFirst(rows, n) ==
  {page \in SUBSET rows : /\ Cardinality(page) = Min({n, Cardinality(rows)})
                          /\ \A m \in page, other \in rows \ page : RdDate(m) <= RdDate(other)}
NewestFirst(rows, n) ==
  {page \in SUBSET rows : /\ Cardinality(page) = Min({n, Cardinality(rows)})
                          /\ \A m \in page, other \in rows \ page : RdDate(m) >= RdDate(other)}

RdStart(route) ==
  /\ rdRoute = "none" /\ RdAllowed
  /\ rdRoute' = route
  /\ rdDue' = RdRows(route)
  /\ UNCHANGED <<rdMessages, rdDeleted, rdOutside, rdAccess, rdBefore, rdDone, rdFailed,
                 rdSeen, rdTwice>>

\* A negative LIMIT is an error: no such page is read (RdFetchFails).
RdPage(asked) ==
  /\ rdRoute # "none" /\ ~rdDone /\ RdAllowed
  /\ RdLimit(rdRoute, asked) > 0
  /\ \E page \in NewestFirst({m \in RdRows(rdRoute) : Before(m, rdBefore)},
                             RdLimit(rdRoute, asked)) :
       /\ rdSeen' = rdSeen \cup page
       /\ rdTwice' = rdTwice \cup (rdSeen \cap page)
       /\ rdDone' = (page = {})
       /\ rdBefore' = IF page = {} THEN rdBefore ELSE Min({RdDate(m) : m \in page})
  /\ UNCHANGED <<rdMessages, rdDeleted, rdOutside, rdAccess, rdRoute, rdFailed, rdDue>>

\* No configuration, a host that is not public, a database out of reach, a table that
\* cannot be made, a query or a scan that fails: each is an empty list with 200, which
\* the reader takes for the end.
RdFetchFails ==
  /\ rdRoute = "outside" /\ ~rdDone /\ RdAllowed
  /\ rdDone' = TRUE /\ rdFailed' = TRUE
  /\ UNCHANGED <<rdMessages, rdDeleted, rdOutside, rdAccess, rdRoute, rdBefore, rdSeen, rdTwice,
                 rdDue>>

RdNext ==
  \/ \E date \in 1..RdTime, plain \in BOOLEAN : RdCreate(date, plain)
  \/ \E m \in RdKeys : RdDelete(m) \/ RdExport(m)
  \/ RdLeave
  \/ \E route \in RdRoutes : RdStart(route)
  \/ \E asked \in RdAsked \cup {-1} : RdPage(asked)
  \/ RdFetchFails

RdSpec == RdInit /\ [][RdNext]_rdVars

----------------------------------------------------------------------------
(* No message is shown by two pages of a reading, and at any time what was *)
(* there when it began and is still due has been shown, or has the date of *)
(* another message (the page after that date skips it), or is older than   *)
(* every page so far: whatever was written and deleted meanwhile and       *)
(* however long the pages were, no page leaves a hole behind.  At its end  *)
(* nothing older is left, unless the last page was an external one that    *)
(* failed: that one the reader cannot tell from the end, and all that is   *)
(* older stays unseen.                                                     *)
PagesMissOnlyTwins ==
  /\ rdTwice = {}
  /\ \A m \in rdDue :
       \/ m \in rdSeen
       \/ \E twin \in RdKeys \ {m} : RdDate(twin) = RdDate(m)
       \/ Before(m, rdBefore) /\ (rdDone => rdFailed)
=============================================================================
