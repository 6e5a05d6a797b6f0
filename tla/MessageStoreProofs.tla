------------------------ MODULE MessageStoreProofs ------------------------
(***************************************************************************)
(* What holds of MessageStore for every number of messages, of users and   *)
(* of requests in flight.                                                  *)
(***************************************************************************)
EXTENDS MessageStore, TLAPS

Rows == [there : BOOLEAN, text : {"sent", "edited", "erased"}, own : BOOLEAN, deleted : BOOLEAN]
StRequests == [pc : {"idle", "react", "unreact", "edit", "dropReactions", "dropRows"},
             who : StUser, ids : SUBSET StMessage]
Coming == {"none", "file", "insert"}

\* A clip that was not inserted yet has no row, and nobody has found it.
Untouched ==
  \A c \in StClip : stVoice[c] \in Coming =>
    /\ ~stRow[c].there
    /\ \A u \in StUser : <<c, u>> \notin stReacted
    /\ \A r \in StRequest : c \notin stReq[r].ids

\* Between the two statements of a removal, its messages have late reactions only.
DropsAreClean ==
  \A r \in StRequest : StAt(r, "dropRows") =>
    \A m \in stReq[r].ids, u \in StUser : <<m, u>> \in stReact => <<m, u>> \in stLate

\* The two invariants on reactions, message by message.
NoOrphan ==
  \A m \in StMessage, u \in StUser :
    <<m, u>> \in stReact => stRow[m].there \/ <<m, u>> \in stLate
Kept ==
  \A m \in StMessage, u \in StUser : <<m, u>> \in stReacted /\ stRow[m].there
    => <<m, u>> \in stReact \/ m \in stHalf \/ StRemoved(m)

ErasedIsThere == \A m \in stErased : stRow[m].there
ComesWithFile == \A c \in StClip : stVoice[c] \in {"file", "insert"} => c \in stFile

ReactionsOK == DropsAreClean /\ NoOrphan /\ Kept
ErasedOK == ErasedIsThere /\ ErasedUntilRewritten
ClipsOK == ComesWithFile /\ ClipsMatchFiles
StIInv == StTypeOK /\ Untouched /\ ReactionsOK /\ ErasedOK /\ ClipsOK

----------------------------------------------------------------------------
LEMMA StInitEstablishes == StInit => StIInv
<1> SUFFICES ASSUME StInit PROVE StIInv
  OBVIOUS
<1> USE StAssumption DEF StInit, StMessage
<1>1. StIdle \in StRequests /\ StIdle.pc = "idle" /\ StIdle.ids = {}
  BY DEF StIdle, StRequests
<1>2. \A m \in StMessage : StSent(m \in StText) \in Rows
  BY DEF StSent, Rows
<1>3. StTypeOK
  BY <1>1, <1>2 DEF StTypeOK, Rows, StRequests
<1>4. Untouched
  BY <1>1 DEF Untouched, StSent
<1>5. ReactionsOK
  BY DEF ReactionsOK, DropsAreClean, NoOrphan, Kept
<1>6. ErasedOK /\ ClipsOK
  BY DEF ErasedOK, ErasedIsThere, ErasedUntilRewritten, ClipsOK, ComesWithFile, ClipsMatchFiles,
         StSent
<1> QED
  BY <1>3, <1>4, <1>5, <1>6 DEF StIInv

\* The new local state of one request.
LEMMA RequestType ==
  ASSUME StTypeOK, NEW r \in StRequest, NEW new \in StRequests,
         stReq' = [stReq EXCEPT ![r] = new]
  PROVE  /\ stReq' \in [StRequest -> StRequests]
         /\ stReq'[r] = new
         /\ \A q \in StRequest : q # r => stReq'[q] = stReq[q]
BY DEF StTypeOK, StRequests

LEMMA StIdleRequest == StIdle \in StRequests /\ StIdle.pc = "idle" /\ StIdle.ids = {}
BY StAssumption DEF StIdle, StRequests

\* A request that begins, over messages that are there.
LEMMA BeginKeeps ==
  ASSUME StIInv, NEW r \in StRequest, NEW who \in StUser, NEW ids \in SUBSET StMessage,
         NEW pc \in {"react", "unreact", "edit", "dropReactions"},
         StBegin(r, pc, who, ids), \A m \in ids : stRow[m].there,
         UNCHANGED <<stRow, stReactions, stClips, stErased>>
  PROVE  StIInv'
<1> DEFINE new == [pc |-> pc, who |-> who, ids |-> ids]
<1>1. /\ new \in StRequests /\ new.pc = pc /\ new.ids = ids
      /\ stReq' = [stReq EXCEPT ![r] = new] /\ StAt(r, "idle")
  BY DEF StBegin, StRequests
<1> HIDE DEF new
<1>2. /\ stReq' \in [StRequest -> StRequests] /\ stReq'[r] = new
      /\ \A q \in StRequest : q # r => stReq'[q] = stReq[q]
  BY <1>1, RequestType DEF StIInv
<1> USE DEF StIInv, stReactions, stClips
<1>3. StTypeOK'
  BY <1>2 DEF StTypeOK, StRequests
<1>4. Untouched'
  BY <1>1, <1>2 DEF Untouched
<1>5. \A q \in StRequest : /\ StAt(q, "dropRows")' <=> StAt(q, "dropRows")
                           /\ StAt(q, "dropRows") => stReq'[q].ids = stReq[q].ids
  BY <1>1, <1>2 DEF StAt
<1>6. ReactionsOK'
  BY <1>5 DEF ReactionsOK, DropsAreClean, NoOrphan, Kept, StRemoved
<1>7. ErasedOK' /\ ClipsOK'
  BY DEF ErasedOK, ErasedIsThere, ErasedUntilRewritten, ClipsOK, ComesWithFile, ClipsMatchFiles
<1> QED
  BY <1>3, <1>4, <1>6, <1>7

LEMMA StartKeeps ==
  ASSUME StIInv, NEW r \in StRequest,
         \/ \E u \in StUser, m \in StMessage :
              \/ StReaction(r, u, m, "react") \/ StReaction(r, u, m, "unreact")
              \/ StEditStart(r, u, m)
         \/ \E ids \in SUBSET StMessage : StRemoval(r, ids)
  PROVE  StIInv'
<1>1. ASSUME NEW u \in StUser, NEW m \in StMessage, NEW pc \in {"react", "unreact"},
             StReaction(r, u, m, pc)
      PROVE  StIInv'
  BY <1>1, BeginKeeps DEF StReaction, StReadable
<1>2. ASSUME NEW u \in StUser, NEW m \in StMessage, StEditStart(r, u, m)
      PROVE  StIInv'
  BY <1>2, BeginKeeps DEF StEditStart
<1>3. ASSUME NEW ids \in SUBSET StMessage, StRemoval(r, ids)
      PROVE  StIInv'
  BY <1>3, BeginKeeps, StAssumption DEF StRemoval
<1> QED
  BY <1>1, <1>2, <1>3

\* A request that returns leaves the others as they are.
LEMMA ReturnType ==
  ASSUME StIInv, NEW r \in StRequest, StReturn(r)
  PROVE  /\ stReq' \in [StRequest -> StRequests]
         /\ stReq'[r].pc = "idle" /\ stReq'[r].ids = {}
         /\ \A q \in StRequest : q # r => stReq'[q] = stReq[q]
BY RequestType, StIdleRequest DEF StIInv, StReturn

\* The second statement of a reaction: one inserted after a removal is late.
LEMMA ReactKeeps ==
  ASSUME StIInv, NEW r \in StRequest, StReact(r) \/ StUnreact(r)
  PROVE  StIInv'
<1> DEFINE pairs == stReq[r].ids \X {stReq[r].who}
<1> USE DEF StIInv
<1>1. /\ UNCHANGED <<stRow, stHalf, stClips, stErased>> /\ StReturn(r)
      /\ ~StAt(r, "dropRows")
  BY DEF StReact, StUnreact, StAt
<1>2. /\ stReq' \in [StRequest -> StRequests]
      /\ stReq'[r].pc = "idle" /\ stReq'[r].ids = {}
      /\ \A q \in StRequest : q # r => stReq'[q] = stReq[q]
  BY <1>1, ReturnType
<1>3. stReq[r].ids \subseteq StMessage /\ stReq[r].who \in StUser
      /\ pairs \subseteq StMessage \X StUser
  BY DEF StTypeOK
<1>4. \A m \in StMessage : StRemoved(m)' <=> StRemoved(m)
  BY <1>1, <1>2 DEF StRemoved, StAt
<1>5. CASE StReact(r)
  <2>1. /\ stReact' = stReact \cup pairs /\ stReacted' = stReacted \cup pairs
        /\ stLate' = stLate \cup {x \in pairs : StRemoved(x[1])}
    BY <1>5 DEF StReact
  <2>2. StTypeOK'
    BY <1>1, <1>2, <1>3, <2>1 DEF StTypeOK, stClips, StRequests
  <2>3. Untouched'
    BY <1>1, <1>2, <2>1 DEF Untouched, stClips
  <2>4. \A m \in StMessage, u \in StUser : <<m, u>> \in pairs /\ StRemoved(m) => <<m, u>> \in stLate'
    BY <2>1
  <2>5. DropsAreClean' /\ NoOrphan'
    BY <1>1, <1>2, <2>1, <2>4 DEF ReactionsOK, DropsAreClean, NoOrphan, StRemoved, StAt, StTypeOK
  <2>6. Kept'
    BY <1>1, <1>4, <2>1 DEF ReactionsOK, Kept
  <2> QED
    BY <1>1, <2>2, <2>3, <2>5, <2>6
       DEF ReactionsOK, stClips, ErasedOK, ErasedIsThere, ErasedUntilRewritten, ClipsOK,
           ComesWithFile, ClipsMatchFiles
<1>6. CASE StUnreact(r)
  <2>1. /\ stReact' = stReact \ pairs /\ stReacted' = stReacted \ pairs
        /\ stLate' = stLate
    BY <1>6 DEF StUnreact
  <2>2. StTypeOK'
    BY <1>1, <1>2, <2>1 DEF StTypeOK, stClips, StRequests
  <2>3. Untouched'
    BY <1>1, <1>2, <2>1 DEF Untouched, stClips
  <2>4. DropsAreClean' /\ NoOrphan'
    BY <1>1, <1>2, <2>1 DEF ReactionsOK, DropsAreClean, NoOrphan, StAt
  <2>5. Kept'
    BY <1>1, <1>4, <2>1 DEF ReactionsOK, Kept
  <2> QED
    BY <1>1, <2>2, <2>3, <2>4, <2>5
       DEF ReactionsOK, stClips, ErasedOK, ErasedIsThere, ErasedUntilRewritten, ClipsOK,
           ComesWithFile, ClipsMatchFiles
<1> QED
  BY <1>5, <1>6

----------------------------------------------------------------------------
\* What the UPDATEs make of a row.
LEMMA RowsRewritten ==
  ASSUME NEW row \in Rows, NEW own \in BOOLEAN
  PROVE  /\ LET new == Edited(row, own) IN
            new \in Rows /\ new.there = row.there /\ new.deleted = row.deleted
         /\ LET new == [row EXCEPT !.text = "erased", !.deleted = TRUE] IN
            /\ new \in Rows /\ new.there = row.there /\ new.deleted
            /\ new.text = "erased" /\ new.own = row.own
         /\ LET new == ErasedRow(row) IN
            /\ new \in Rows /\ new.there = row.there /\ new.deleted
            /\ new.text = "erased" /\ ~new.own
<1>1. Edited(row, own) \in Rows /\ ErasedRow(row) \in Rows
      /\ [row EXCEPT !.text = "erased", !.deleted = TRUE] \in Rows
  BY DEF Rows, Edited, ErasedRow
<1>2. Edited(row, own).there = row.there /\ Edited(row, own).deleted = row.deleted
  BY DEF Rows, Edited
<1>3. LET new == [row EXCEPT !.text = "erased", !.deleted = TRUE] IN
      /\ new.there = row.there /\ new.deleted /\ new.text = "erased" /\ new.own = row.own
  BY DEF Rows
<1>4. LET new == ErasedRow(row) IN
      /\ new.there = row.there /\ new.deleted /\ new.text = "erased" /\ ~new.own
  BY DEF Rows, ErasedRow
<1> QED
  BY <1>1, <1>2, <1>3, <1>4

\* Edition and deletion rewrite rows and bring none into being.
LEMMA RewriteKeeps ==
  ASSUME StIInv, \/ \E r \in StRequest : StEdit(r)
               \/ \E u \in StUser : StDeleteAll(u) \/ \E m \in StMessage : StDelete(u, m)
  PROVE  /\ StIInv'
         /\ \A m \in StMessage : /\ stRow'[m].there = stRow[m].there
                                 /\ stRow[m].deleted => stRow'[m].deleted
<1> USE DEF StIInv
<1>1. /\ UNCHANGED <<stReactions, stClips>>
      /\ stReq' = stReq \/ \E r \in StRequest : StAt(r, "edit") /\ StReturn(r)
  BY DEF StEdit, StDelete, StDeleteAll
<1>2. /\ stReq' \in [StRequest -> StRequests]
      /\ \A q \in StRequest : stReq'[q] = stReq[q] \/ (stReq'[q].pc = "idle" /\ stReq'[q].ids = {}
                                                       /\ StAt(q, "edit"))
  BY <1>1, ReturnType DEF StTypeOK, StRequests
<1>3. /\ stRow' \in [StMessage -> Rows]
      /\ stErased' \subseteq StMessage
      /\ \A m \in StMessage : /\ stRow'[m].there = stRow[m].there
                              /\ stRow[m].deleted => stRow'[m].deleted
                              /\ m \in stErased' => stRow'[m].there /\ stRow'[m].text = "erased"
                                                    /\ ~stRow'[m].own
  <2>0. \A m \in StMessage : stRow[m] \in Rows
    BY DEF StTypeOK, Rows
  <2>1. ASSUME NEW r \in StRequest, StEdit(r) PROVE <1>3
    <3>1. PICK own \in BOOLEAN :
            stRow' = [m \in StMessage |-> IF m \in stReq[r].ids /\ stRow[m].there
                                          THEN Edited(stRow[m], own) ELSE stRow[m]]
      BY <2>1 DEF StEdit
    <3>2. stErased' = stErased \ stReq[r].ids
      BY <2>1 DEF StEdit
    <3>3. \A m \in StMessage : stRow[m] \in Rows /\ Edited(stRow[m], own) \in Rows
            /\ Edited(stRow[m], own).there = stRow[m].there
            /\ Edited(stRow[m], own).deleted = stRow[m].deleted
      <4> SUFFICES ASSUME NEW m \in StMessage
                   PROVE  /\ stRow[m] \in Rows /\ Edited(stRow[m], own) \in Rows
                          /\ Edited(stRow[m], own).there = stRow[m].there
                          /\ Edited(stRow[m], own).deleted = stRow[m].deleted
        OBVIOUS
      <4>1. own \in BOOLEAN
        BY <3>1
      <4> QED
        <5>1. stRow[m] \in Rows
          BY <2>0
        <5> QED
          BY <4>1, <5>1, RowsRewritten, ZenonT(60)
    <3> QED
      BY <3>1, <3>2, <3>3 DEF StTypeOK, ErasedOK, ErasedIsThere, ErasedUntilRewritten
  <2>2. ASSUME NEW u \in StUser, NEW k \in StMessage, StDelete(u, k) PROVE <1>3
    <3>1. /\ stRow' = [stRow EXCEPT ![k] = [stRow[k] EXCEPT !.text = "erased", !.deleted = TRUE]]
          /\ stErased' = stErased
      BY <2>2 DEF StDelete, StTypeOK
    <3>2. LET row == [stRow[k] EXCEPT !.text = "erased", !.deleted = TRUE] IN
          /\ row \in Rows /\ row.there = stRow[k].there /\ row.deleted
          /\ row.text = "erased" /\ row.own = stRow[k].own
      BY <2>0, RowsRewritten
    <3> QED
      BY <3>1, <3>2 DEF StTypeOK, Rows, ErasedOK, ErasedIsThere, ErasedUntilRewritten
  <2>3. ASSUME NEW u \in StUser, StDeleteAll(u) PROVE <1>3
    <3>1. /\ stRow' = [m \in StMessage |-> IF stRow[m].there THEN ErasedRow(stRow[m]) ELSE stRow[m]]
          /\ stErased' = stErased \cup {m \in StMessage : stRow[m].there}
      BY <2>3 DEF StDeleteAll
    <3>2. \A m \in StMessage : stRow[m] \in Rows /\ ErasedRow(stRow[m]) \in Rows
            /\ ErasedRow(stRow[m]).there = stRow[m].there
            /\ ErasedRow(stRow[m]).deleted
            /\ ErasedRow(stRow[m]).text = "erased" /\ ~ErasedRow(stRow[m]).own
      BY <2>0, RowsRewritten
    <3> QED
      BY <3>1, <3>2 DEF StTypeOK, ErasedOK, ErasedIsThere, ErasedUntilRewritten
  <2> QED
    BY <2>1, <2>2, <2>3
<1>4. StTypeOK'
  BY <1>1, <1>2, <1>3 DEF StTypeOK, Rows, StRequests, stReactions, stClips
<1>5. Untouched'
  BY <1>1, <1>2, <1>3 DEF Untouched, stReactions, stClips, StMessage
<1>6. \A q \in StRequest : /\ StAt(q, "dropRows")' <=> StAt(q, "dropRows")
                           /\ StAt(q, "dropRows") => stReq'[q].ids = stReq[q].ids
  BY <1>2 DEF StAt
<1>7. ReactionsOK'
  BY <1>1, <1>3, <1>6 DEF ReactionsOK, DropsAreClean, NoOrphan, Kept, StRemoved, stReactions, StTypeOK
<1>8. ErasedOK' /\ ClipsOK'
  BY <1>1, <1>3 DEF ErasedOK, ErasedIsThere, ErasedUntilRewritten, ClipsOK, ComesWithFile,
                    ClipsMatchFiles, stClips, StMessage
<1> QED
  BY <1>3, <1>4, <1>5, <1>7, <1>8

----------------------------------------------------------------------------
\* The two statements of a removal, and the failure of any statement: reactions go
\* before their messages, and what was inserted between the two is late.
LEMMA DropReactionsKeeps ==
  ASSUME StIInv, NEW r \in StRequest, StDropReactions(r)
  PROVE  StIInv'
<1> DEFINE ids == stReq[r].ids
<1> USE DEF StIInv
<1>1. /\ StAt(r, "dropReactions")
      /\ stReact' = {x \in stReact : x[1] \notin ids}
      /\ stReq' = [stReq EXCEPT ![r].pc = "dropRows"]
      /\ UNCHANGED <<stRow, stLate, stReacted, stHalf, stClips, stErased>>
  BY DEF StDropReactions, ReactionsLeft
<1>2. /\ stReq' \in [StRequest -> StRequests]
      /\ stReq'[r].pc = "dropRows" /\ stReq'[r].ids = ids
      /\ \A q \in StRequest : q # r => stReq'[q] = stReq[q]
  BY <1>1 DEF StTypeOK, StRequests
<1>3. \A m \in StMessage, u \in StUser :
        <<m, u>> \in stReact' <=> <<m, u>> \in stReact /\ m \notin ids
  BY <1>1
<1>4. StTypeOK'
  BY <1>1, <1>2 DEF StTypeOK, stClips, StRequests
<1>5. Untouched'
  BY <1>1, <1>2 DEF Untouched, stClips
<1>6. DropsAreClean' /\ NoOrphan'
  <2>1. stReq' \in [StRequest -> StRequests] /\ \A q \in StRequest : stReq'[q].ids \subseteq StMessage
    BY <1>2 DEF StRequests
  <2> QED
    BY <1>1, <1>2, <1>3, <2>1 DEF ReactionsOK, DropsAreClean, NoOrphan, StAt
<1>7. Kept'
  BY <1>1, <1>2, <1>3 DEF ReactionsOK, Kept, StRemoved, StAt
<1> QED
  BY <1>1, <1>4, <1>5, <1>6, <1>7
     DEF ReactionsOK, stClips, ErasedOK, ErasedIsThere, ErasedUntilRewritten, ClipsOK,
         ComesWithFile, ClipsMatchFiles

LEMMA DropRowsKeeps ==
  ASSUME StIInv, NEW r \in StRequest, StDropRows(r)
  PROVE  /\ StIInv'
         /\ \A m \in StMessage : stRow'[m].there => stRow'[m] = stRow[m]
<1> DEFINE ids == stReq[r].ids
<1> USE DEF StIInv
<1>1. /\ StAt(r, "dropRows") /\ StReturn(r)
      /\ stRow' = [m \in StMessage |-> IF m \in ids THEN StSent(FALSE) ELSE stRow[m]]
      /\ stErased' = stErased \ ids
      /\ UNCHANGED <<stReactions, stClips>>
  BY DEF StDropRows
<1>2. /\ stReq' \in [StRequest -> StRequests]
      /\ stReq'[r].pc = "idle" /\ stReq'[r].ids = {}
      /\ \A q \in StRequest : q # r => stReq'[q] = stReq[q]
  BY <1>1, ReturnType
<1>3. /\ stRow' \in [StMessage -> Rows]
      /\ \A m \in StMessage : IF m \in ids THEN ~stRow'[m].there ELSE stRow'[m] = stRow[m]
  <2>1. StSent(FALSE) \in Rows /\ ~StSent(FALSE).there
    BY DEF StSent, Rows
  <2> HIDE DEF ids
  <2> QED
    BY <1>1, <2>1 DEF StTypeOK, Rows
<1>4. StTypeOK'
  BY <1>1, <1>2, <1>3 DEF StTypeOK, stReactions, stClips, Rows, StRequests
<1>5. Untouched'
  BY <1>1, <1>2, <1>3 DEF Untouched, stReactions, stClips, StMessage
<1>6. DropsAreClean'
  BY <1>1, <1>2 DEF ReactionsOK, DropsAreClean, stReactions, StAt
<1>7. NoOrphan'
  BY <1>1, <1>3 DEF ReactionsOK, DropsAreClean, NoOrphan, stReactions
<1>8. Kept'
  BY <1>1, <1>2, <1>3 DEF ReactionsOK, Kept, StRemoved, stReactions, StAt
<1>9. ErasedOK' /\ ClipsOK'
  BY <1>1, <1>3 DEF StTypeOK, ErasedOK, ErasedIsThere, ErasedUntilRewritten, ClipsOK,
                    ComesWithFile, ClipsMatchFiles, stClips, StMessage
<1> QED
  BY <1>3, <1>4, <1>5, <1>6, <1>7, <1>8, <1>9 DEF ReactionsOK

LEMMA FailureKeeps ==
  ASSUME StIInv, NEW r \in StRequest, StFails(r)
  PROVE  StIInv'
<1> USE DEF StIInv
<1>1. /\ StReturn(r)
      /\ stHalf \subseteq stHalf' /\ (StAt(r, "dropRows") => stReq[r].ids \subseteq stHalf')
      /\ stHalf' \subseteq StMessage
      /\ UNCHANGED <<stRow, stReact, stLate, stReacted, stClips, stErased>>
  BY DEF StFails, StTypeOK
<1>2. /\ stReq' \in [StRequest -> StRequests]
      /\ stReq'[r].pc = "idle" /\ stReq'[r].ids = {}
      /\ \A q \in StRequest : q # r => stReq'[q] = stReq[q]
  BY <1>1, ReturnType
<1>3. StTypeOK'
  BY <1>1, <1>2 DEF StTypeOK, stClips, StRequests
<1>4. Untouched'
  BY <1>1, <1>2 DEF Untouched, stClips
<1>5. DropsAreClean' /\ NoOrphan'
  BY <1>1, <1>2 DEF ReactionsOK, DropsAreClean, NoOrphan, StAt
<1>6. Kept'
  BY <1>1, <1>2 DEF ReactionsOK, Kept, StRemoved, StAt
<1> QED
  BY <1>1, <1>3, <1>4, <1>5, <1>6
     DEF ReactionsOK, stClips, ErasedOK, ErasedIsThere, ErasedUntilRewritten, ClipsOK,
         ComesWithFile, ClipsMatchFiles

----------------------------------------------------------------------------
\* A clip on its way: its file is on the disk until it is refused, and its row comes
\* after the file and before anybody could have found it.
LEMMA VoiceKeeps ==
  ASSUME StIInv, NEW c \in StClip,
         \/ VoiceFile(c) \/ VoiceRefused(c) \/ VoiceAllowed(c) \/ VoiceInsert(c)
         \/ VoiceStops(c) \/ \E done \in BOOLEAN : VoiceInsertFails(c, done)
  PROVE  /\ StIInv'
         /\ \A m \in StMessage : stRow[m].there => stRow'[m] = stRow[m]
<1> USE DEF StIInv
<1>1. /\ UNCHANGED stNotVoice /\ stVoice[c] \in Coming
      /\ stDoubtful \subseteq stDoubtful' /\ stDoubtful' \subseteq StClip
      /\ \A d \in StClip \ {c} : stVoice'[d] = stVoice[d] /\ (d \in stFile' <=> d \in stFile)
      /\ stVoice' \in [StClip -> {"none", "file", "insert", "answered", "refused", "left"}]
      /\ stFile' \subseteq StClip
  BY DEF VoiceFile, VoiceRefused, VoiceAllowed, VoiceInsert, VoiceStops, VoiceInsertFails,
         StRefusal, StVoiceGoes, CleanedUp, Coming, StTypeOK
<1>2. /\ stVoice'[c] \in {"file", "insert", "answered"} => c \in stFile'
      /\ stVoice'[c] = "refused" => c \notin stFile'
  BY DEF VoiceFile, VoiceRefused, VoiceAllowed, VoiceInsert, VoiceStops, VoiceInsertFails,
         StRefusal, StVoiceGoes, CleanedUp, StTypeOK, ClipsOK, ComesWithFile
<1>3. \/ stRow' = stRow
      \/ /\ stRow' = [stRow EXCEPT ![c] = StClipRow]
         /\ \/ stVoice'[c] = "answered"
            \/ stVoice'[c] \in {"refused", "left"} /\ c \in stDoubtful'
  BY DEF VoiceFile, VoiceRefused, VoiceAllowed, VoiceInsert, VoiceStops, VoiceInsertFails,
         StRefusal, StVoiceGoes, StTypeOK
<1>4. ~stRow[c].there /\ c \in StMessage
  BY <1>1 DEF Untouched, StMessage
<1>5. StClipRow \in Rows
  BY DEF StClipRow, Rows
<1>6. /\ stRow' \in [StMessage -> Rows]
      /\ \A m \in StMessage : m # c => stRow'[m] = stRow[m]
      /\ stVoice'[c] \in Coming => stRow'[c] = stRow[c]
  <2>1. stRow \in [StMessage -> Rows]
    BY DEF StTypeOK, Rows
  <2> QED
    BY <1>3, <1>4, <1>5, <2>1 DEF Coming
<1>7. StTypeOK'
  BY <1>1, <1>6 DEF StTypeOK, stNotVoice, stReactions, Rows
<1>8. Untouched'
  BY <1>1, <1>4, <1>6 DEF Untouched, stNotVoice, stReactions, StMessage
<1>9. ReactionsOK'
  <2>1. \A u \in StUser : <<c, u>> \notin stReacted
    BY <1>1 DEF Untouched
  <2>2. DropsAreClean'
    BY <1>1 DEF ReactionsOK, DropsAreClean, stNotVoice, stReactions, StAt
  <2>3. NoOrphan'
    BY <1>1, <1>4, <1>6 DEF ReactionsOK, NoOrphan, stNotVoice, stReactions
  <2>4. Kept'
    BY <1>1, <1>6, <2>1 DEF ReactionsOK, Kept, StRemoved, stNotVoice, stReactions, StAt
  <2> QED
    BY <2>2, <2>3, <2>4 DEF ReactionsOK
<1>10. ErasedOK'
  BY <1>1, <1>4, <1>6 DEF StTypeOK, ErasedOK, ErasedIsThere, ErasedUntilRewritten, stNotVoice
<1>11. ClipsOK'
  <2>1. ComesWithFile'
    BY <1>1, <1>2 DEF ClipsOK, ComesWithFile
  <2>2. \A d \in StClip \ {c} :
          /\ stRow'[d].there => d \in stFile' \/ d \in stDoubtful'
          /\ stVoice'[d] = "refused" => d \notin stFile'
    BY <1>1, <1>6 DEF ClipsOK, ClipsMatchFiles, StMessage
  <2>3. stRow'[c].there => c \in stFile' \/ c \in stDoubtful'
    BY <1>2, <1>3, <1>4
  <2>4. ClipsMatchFiles'
    <3> SUFFICES ASSUME NEW d \in StClip
                 PROVE  /\ stRow'[d].there => d \in stFile' \/ d \in stDoubtful'
                        /\ stVoice'[d] = "refused" => d \notin stFile'
      BY DEF ClipsMatchFiles
    <3>1. CASE d = c
      BY <1>2, <2>3, <3>1
    <3>2. CASE d # c
      BY <2>2, <3>2
    <3> QED
      BY <3>1, <3>2
  <2> QED
    BY <2>1, <2>4 DEF ClipsOK
<1> QED
  BY <1>4, <1>6, <1>7, <1>8, <1>9, <1>10, <1>11

----------------------------------------------------------------------------
LEMMA StNextKeeps ==
  ASSUME StIInv, [StNext]_stVars
  PROVE  StIInv'
<1>1. CASE StNext
  <2>1. ASSUME NEW r \in StRequest,
               \/ StReact(r) \/ StUnreact(r) \/ StEdit(r)
               \/ StDropReactions(r) \/ StDropRows(r) \/ StFails(r)
        PROVE  StIInv'
    BY <2>1, ReactKeeps, RewriteKeeps, DropReactionsKeeps, DropRowsKeeps, FailureKeeps
  <2>2. ASSUME NEW r \in StRequest,
               \/ \E u \in StUser, m \in StMessage :
                    \/ StReaction(r, u, m, "react") \/ StReaction(r, u, m, "unreact")
                    \/ StEditStart(r, u, m)
               \/ \E ids \in SUBSET StMessage : StRemoval(r, ids)
        PROVE  StIInv'
    BY <2>2, StartKeeps
  <2>3. ASSUME NEW u \in StUser, StDeleteAll(u) \/ \E m \in StMessage : StDelete(u, m)
        PROVE  StIInv'
    BY <2>3, RewriteKeeps
  <2>4. ASSUME NEW c \in StClip,
               \/ VoiceFile(c) \/ VoiceRefused(c) \/ VoiceAllowed(c) \/ VoiceInsert(c)
               \/ VoiceStops(c) \/ \E done \in BOOLEAN : VoiceInsertFails(c, done)
        PROVE  StIInv'
    BY <2>4, VoiceKeeps
  <2> QED
    BY <1>1, <2>1, <2>2, <2>3, <2>4 DEF StNext
<1>2. CASE UNCHANGED stVars
  BY <1>2 DEF stVars, StIInv, StTypeOK, Untouched, ReactionsOK, DropsAreClean, NoOrphan, Kept,
     StRemoved, StAt, ErasedOK, ErasedIsThere, ErasedUntilRewritten, ClipsOK, ComesWithFile,
     ClipsMatchFiles
<1> QED
  BY <1>1, <1>2

LEMMA StInvariance == StSpec => []StIInv
<1>1. StInit => StIInv
  BY StInitEstablishes
<1>2. StIInv /\ [StNext]_stVars => StIInv'
  BY StNextKeeps
<1> QED
  BY <1>1, <1>2, PTL DEF StSpec

\* For any number of removals, reactions and failures, confirmArchive leaves behind
\* only reactions that were inserted after it had deleted those of their message.
THEOREM OnlyLateOrphans == StSpec => []OrphansWereLate
<1>1. StIInv => OrphansWereLate
  BY DEF StIInv, ReactionsOK, NoOrphan, OrphansWereLate, StTypeOK
<1> QED
  BY <1>1, StInvariance, PTL

\* No other handler takes a user's reaction away.
THEOREM ReactionsStay == StSpec => []ReactionsKept
<1>1. StIInv => ReactionsKept
  BY DEF StIInv, ReactionsOK, Kept, ReactionsKept, StTypeOK
<1> QED
  BY <1>1, StInvariance, PTL

\* What deleteAllOfUser erased stays so, but for an edition by its author.
THEOREM ErasureHolds == StSpec => []ErasedUntilRewritten
<1>1. StIInv => ErasedUntilRewritten
  BY DEF StIInv, ErasedOK
<1> QED
  BY <1>1, StInvariance, PTL

\* Whatever order clips arrive, are refused and fail in, a message that is there has
\* its file, and a refused request has left none that it could remove.
THEOREM ClipsHaveFiles == StSpec => []ClipsMatchFiles
<1>1. StIInv => ClipsMatchFiles
  BY DEF StIInv, ClipsOK
<1> QED
  BY <1>1, StInvariance, PTL

\* No edition, in flight or new, and no deletion takes is_deleted back: what selects
\* on it (the lists and the search) does not show the message again.
THEOREM DeletionHolds == StSpec => DeletedIsNeverListed
<1> DEFINE Step == \A m \in StMessage :
             stRow[m].there /\ stRow[m].deleted /\ stRow'[m].there => stRow'[m].deleted
<1>1. StIInv /\ [StNext]_stVars => [Step]_stVars
  <2> SUFFICES ASSUME StIInv, StNext, NEW m \in StMessage,
                      stRow[m].there, stRow[m].deleted, stRow'[m].there
               PROVE  stRow'[m].deleted
    OBVIOUS
  <2>1. \/ stRow' = stRow
        \/ \E r \in StRequest : StDropRows(r)
        \/ \E r \in StRequest : StEdit(r)
        \/ \E u \in StUser : StDeleteAll(u) \/ \E k \in StMessage : StDelete(u, k)
        \/ \E c \in StClip : VoiceInsert(c) \/ \E done \in BOOLEAN : VoiceInsertFails(c, done)
    BY DEF StNext, StReaction, StEditStart, StRemoval, StReact, StUnreact,
           StDropReactions, StFails, VoiceFile, VoiceRefused, VoiceAllowed, VoiceStops
  <2>2. ASSUME NEW r \in StRequest, StDropRows(r) PROVE stRow'[m] = stRow[m]
    BY <2>2, DropRowsKeeps
  <2>3. ASSUME \/ \E r \in StRequest : StEdit(r)
               \/ \E u \in StUser : StDeleteAll(u) \/ \E k \in StMessage : StDelete(u, k)
        PROVE  stRow'[m].deleted
    BY <2>3, RewriteKeeps
  <2>4. ASSUME NEW c \in StClip, VoiceInsert(c) \/ \E done \in BOOLEAN : VoiceInsertFails(c, done)
        PROVE  stRow'[m] = stRow[m]
    BY <2>4, VoiceKeeps
  <2> QED
    BY <2>1, <2>2, <2>3, <2>4
<1> QED
  BY <1>1, StInvariance, PTL DEF StSpec, DeletedIsNeverListed
=============================================================================
