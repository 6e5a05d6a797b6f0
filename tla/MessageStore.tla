---------------------------- MODULE MessageStore ----------------------------
(***************************************************************************)
(* What happens to the messages of one conversation once they exist:       *)
(* edition, deletion, deletion of everything a user wrote, reactions and   *)
(* voice clips (messages.go), and the removal of a batch that every peer   *)
(* has confirmed (archive.go, confirmArchive).                             *)
(*                                                                         *)
(* Every action is one SQL statement or one access to the disk, with the   *)
(* local computation that follows.  The messages are those of Author; the  *)
(* users of the model take part in the conversation and stay in it.        *)
(*                                                                         *)
(* Not told apart: contents (a ciphertext as it was sent, rewritten, or    *)
(* erased), emojis (one per user and message).  Which messages a batch     *)
(* holds and when it is removed is module DmArchive: here, any set at any  *)
(* time.                                                                   *)
(***************************************************************************)
EXTENDS FiniteSets

CONSTANTS
  StUser, StAuthor,  \* the participants; the one who wrote the messages
  StText, StClip,    \* text messages and voice messages
  StRequest          \* requests in flight at the same time

StMessage == StText \cup StClip

ASSUME StAssumption ==
  /\ StAuthor \in StUser
  /\ StText \cap StClip = {}

VARIABLES
  stRow,      \* table messages: there, text, own (sender_content), deleted of each
  stReact,    \* table message_reactions: <<message, user>>
  stFile,     \* the clips whose file is on the disk
  stVoice,    \* the request that brings each clip: where it stands
  stReq,      \* local state of each other request
  stLate,     \* HISTORY: reactions inserted after their message, or its reactions,
              \* had been removed
  stReacted,  \* HISTORY: reactions that users made and did not take back
  stHalf,     \* HISTORY: messages whose removal stopped after their reactions
  stErased,   \* HISTORY: messages erased with all those of their author, and not
              \* edited since
  stDoubtful  \* HISTORY: clips whose INSERT was done and reported an error

stVars == <<stRow, stReact, stFile, stVoice, stReq, stLate, stReacted, stHalf, stErased,
            stDoubtful>>
stReactions == <<stReact, stLate, stReacted, stHalf>>
stClips == <<stFile, stVoice, stDoubtful>>

\* A row has one of the three contents, and a request only messages there are.
StTypeOK ==
  /\ stRow \in [StMessage -> [there : BOOLEAN, text : {"sent", "edited", "erased"},
                              own : BOOLEAN, deleted : BOOLEAN]]
  /\ stReact \subseteq StMessage \X StUser
  /\ stFile \subseteq StClip /\ stDoubtful \subseteq StClip
  /\ stVoice \in [StClip -> {"none", "file", "insert", "answered", "refused", "left"}]
  /\ stReq \in [StRequest -> [pc : {"idle", "react", "unreact", "edit", "dropReactions",
                                    "dropRows"},
                              who : StUser, ids : SUBSET StMessage]]
  /\ stLate \subseteq StMessage \X StUser /\ stReacted \subseteq StMessage \X StUser
  /\ stHalf \subseteq StMessage /\ stErased \subseteq StMessage

StIdle == [pc |-> "idle", who |-> StAuthor, ids |-> {}]
StSent(there) == [there |-> there, text |-> "sent", own |-> TRUE, deleted |-> FALSE]

StInit ==
  /\ stRow = [m \in StMessage |-> StSent(m \in StText)]
  /\ stReact = {} /\ stFile = {}
  /\ stVoice = [c \in StClip |-> "none"]
  /\ stReq = [r \in StRequest |-> StIdle]
  /\ stLate = {} /\ stReacted = {} /\ stHalf = {} /\ stErased = {} /\ stDoubtful = {}

----------------------------------------------------------------------------
StAt(r, pc) == stReq[r].pc = pc
StReturn(r) == stReq' = [stReq EXCEPT ![r] = StIdle]
StBegin(r, pc, who, ids) ==
  /\ StAt(r, "idle")
  /\ stReq' = [stReq EXCEPT ![r] = [pc |-> pc, who |-> who, ids |-> ids]]

(* Reactions *)

\* assertMessageAccess, the first statement of addReaction and of removeReaction.
StReadable(m) == stRow[m].there
StReaction(r, u, m, pc) ==
  /\ StReadable(m)
  /\ StBegin(r, pc, u, {m})
  /\ UNCHANGED <<stRow, stReactions, stClips, stErased>>

\* Removals between their two statements, or done, leave no row to react to.
StRemoved(m) == ~stRow[m].there \/ \E q \in StRequest : StAt(q, "dropRows") /\ m \in stReq[q].ids

StReact(r) ==
  LET new == stReq[r].ids \X {stReq[r].who} IN
  /\ StAt(r, "react")
  /\ stReact' = stReact \cup new
  /\ stReacted' = stReacted \cup new
  /\ stLate' = stLate \cup {x \in new : StRemoved(x[1])}
  /\ StReturn(r)
  /\ UNCHANGED <<stRow, stHalf, stClips, stErased>>

StUnreact(r) ==
  LET old == stReq[r].ids \X {stReq[r].who} IN
  /\ StAt(r, "unreact")
  /\ stReact' = stReact \ old
  /\ stReacted' = stReacted \ old
  /\ StReturn(r)
  /\ UNCHANGED <<stRow, stLate, stHalf, stClips, stErased>>

----------------------------------------------------------------------------
(* Edition and deletion *)

\* The SELECT of update finds a message of its sender, deleted or not.
StEditStart(r, u, m) ==
  /\ u = StAuthor /\ stRow[m].there
  /\ StBegin(r, "edit", u, {m})
  /\ UNCHANGED <<stRow, stReactions, stClips, stErased>>

\* The row after the UPDATE: sender_content is that of the request, if it has one.
\* (A plausible bug: the UPDATE clears is_deleted.)
EditedRestored(row, own) == [row EXCEPT !.text = "edited", !.own = own, !.deleted = FALSE]
Edited(row, own) == [row EXCEPT !.text = "edited", !.own = own]

StEdit(r) ==
  /\ StAt(r, "edit")
  /\ \E own \in BOOLEAN :
       stRow' = [m \in StMessage |-> IF m \in stReq[r].ids /\ stRow[m].there
                                     THEN Edited(stRow[m], own) ELSE stRow[m]]
  /\ stErased' = stErased \ stReq[r].ids
  /\ StReturn(r)
  /\ UNCHANGED <<stReactions, stClips>>

\* sender_content stays.
StDelete(u, m) ==
  /\ u = StAuthor /\ stRow[m].there
  /\ stRow' = [stRow EXCEPT ![m].text = "erased", ![m].deleted = TRUE]
  /\ UNCHANGED <<stReactions, stClips, stReq, stErased>>

\* deleteAllOfUser.  (A plausible bug: it does what delete does.)
ErasedAsDeleted(row) == [row EXCEPT !.text = "erased", !.deleted = TRUE]
ErasedRow(row) == [row EXCEPT !.text = "erased", !.own = FALSE, !.deleted = TRUE]

StDeleteAll(u) ==
  /\ u = StAuthor
  /\ stRow' = [m \in StMessage |-> IF stRow[m].there THEN ErasedRow(stRow[m]) ELSE stRow[m]]
  /\ stErased' = stErased \cup {m \in StMessage : stRow[m].there}
  /\ UNCHANGED <<stReactions, stClips, stReq>>

----------------------------------------------------------------------------
(* The removal of a confirmed batch: reactions first, then messages.        *)

StRemoval(r, ids) ==
  /\ ids # {} /\ \A m \in ids : stRow[m].there
  /\ StBegin(r, "dropReactions", StAuthor, ids)
  /\ UNCHANGED <<stRow, stReactions, stClips, stErased>>

\* (Plausible bugs: every reaction of the conversation goes; none does.)
AllReactions(ids) == {}
NoReactions(ids) == stReact
ReactionsLeft(ids) == {x \in stReact : x[1] \notin ids}

StDropReactions(r) ==
  /\ StAt(r, "dropReactions")
  /\ stReact' = ReactionsLeft(stReq[r].ids)
  /\ stReq' = [stReq EXCEPT ![r].pc = "dropRows"]
  /\ UNCHANGED <<stRow, stLate, stReacted, stHalf, stClips, stErased>>

StDropRows(r) ==
  /\ StAt(r, "dropRows")
  /\ stRow' = [m \in StMessage |-> IF m \in stReq[r].ids THEN StSent(FALSE) ELSE stRow[m]]
  /\ stErased' = stErased \ stReq[r].ids
  /\ StReturn(r)
  /\ UNCHANGED <<stReactions, stClips>>

\* A statement fails or the process stops.
StFails(r) ==
  /\ ~StAt(r, "idle")
  /\ stHalf' = IF StAt(r, "dropRows") THEN stHalf \cup stReq[r].ids ELSE stHalf
  /\ StReturn(r)
  /\ UNCHANGED <<stRow, stReact, stLate, stReacted, stClips, stErased>>

----------------------------------------------------------------------------
(* Voice messages.  A clip has a file and a row of its own, both under      *)
(* generated names.                                                         *)

StVoiceGoes(c, from, to) == stVoice[c] = from /\ stVoice' = [stVoice EXCEPT ![c] = to]
stNotVoice == <<stReq, stReactions, stErased>>

\* readVoice and handleVoicePart: the file is written before anything is checked.
VoiceFile(c) ==
  /\ StVoiceGoes(c, "none", "file")
  /\ stFile' = stFile \cup {c}
  /\ UNCHANGED <<stRow, stDoubtful, stNotVoice>>

\* What is on the disk after a refusal: a further part that is malformed, a
\* conversationId that is missing, an access denied or that could not be checked.
\* (A plausible bug: one of these paths forgets cleanup.)
Forgotten(c) == stFile
CleanedUp(c) == stFile \ {c}

\* os.Remove may fail too, and nobody looks: the file is left on the disk.
StRefusal(c, from) ==
  \/ StVoiceGoes(c, from, "refused") /\ stFile' = CleanedUp(c)
  \/ StVoiceGoes(c, from, "left") /\ UNCHANGED stFile

VoiceRefused(c) ==
  /\ StRefusal(c, "file")
  /\ UNCHANGED <<stRow, stDoubtful, stNotVoice>>

VoiceAllowed(c) ==
  /\ StVoiceGoes(c, "file", "insert")
  /\ UNCHANGED <<stRow, stFile, stDoubtful, stNotVoice>>

StClipRow == [text |-> "sent", own |-> FALSE, deleted |-> FALSE, there |-> TRUE]

VoiceInsert(c) ==
  /\ StVoiceGoes(c, "insert", "answered")
  /\ stRow' = [stRow EXCEPT ![c] = StClipRow]
  /\ UNCHANGED <<stFile, stDoubtful, stNotVoice>>

\* The INSERT reports an error; the row may be there all the same.
VoiceInsertFails(c, done) ==
  /\ StRefusal(c, "insert")
  /\ stRow' = IF done THEN [stRow EXCEPT ![c] = StClipRow] ELSE stRow
  /\ stDoubtful' = IF done THEN stDoubtful \cup {c} ELSE stDoubtful
  /\ UNCHANGED stNotVoice

\* The process stops, and the file is left too.
VoiceStops(c) ==
  /\ stVoice[c] \in {"file", "insert"}
  /\ stVoice' = [stVoice EXCEPT ![c] = "left"]
  /\ UNCHANGED <<stRow, stFile, stDoubtful, stNotVoice>>

----------------------------------------------------------------------------
StNext ==
  \/ \E r \in StRequest :
       \/ StReact(r) \/ StUnreact(r) \/ StEdit(r)
       \/ StDropReactions(r) \/ StDropRows(r) \/ StFails(r)
       \/ \E u \in StUser, m \in StMessage :
            StReaction(r, u, m, "react") \/ StReaction(r, u, m, "unreact") \/ StEditStart(r, u, m)
       \/ \E ids \in SUBSET StMessage : StRemoval(r, ids)
  \/ \E u \in StUser : StDeleteAll(u) \/ \E m \in StMessage : StDelete(u, m)
  \/ \E c \in StClip :
       \/ VoiceFile(c) \/ VoiceRefused(c) \/ VoiceAllowed(c) \/ VoiceInsert(c)
       \/ VoiceStops(c) \/ \E done \in BOOLEAN : VoiceInsertFails(c, done)

StSpec == StInit /\ [][StNext]_stVars

----------------------------------------------------------------------------
(* A reaction without its message was inserted after the message or its    *)
(* reactions had been removed, by a request that had found the message:    *)
(* no removal leaves one behind, wherever it stopped.                      *)
OrphansWereLate == \A x \in stReact : stRow[x[1]].there \/ x \in stLate

(* A reaction of a message that is still there is lost only by a removal   *)
(* of that message, which deletes the reactions first and may stop there.  *)
ReactionsKept ==
  \A x \in stReacted : stRow[x[1]].there =>
    x \in stReact \/ x[1] \in stHalf \/ StRemoved(x[1])

(* What a user had erased with all its messages (deleteAllOfUser) stays    *)
(* erased, in both its copies, until the user edits it: an edit that was   *)
(* under way brings a message back, for those who ask for it by its id.    *)
ErasedUntilRewritten ==
  \A m \in stErased : stRow[m].text = "erased" /\ ~stRow[m].own

(* is_deleted is never taken back while the row is there, whatever is      *)
(* edited or deleted afterwards: the lists and the search, which select on *)
(* it, do not show the message again (the last message of a conversation   *)
(* in conversations.go is selected without it).                            *)
DeletedIsNeverListed ==
  [][\A m \in StMessage :
       stRow[m].there /\ stRow[m].deleted /\ stRow'[m].there => stRow'[m].deleted]_stVars

(* A voice message that can be listed can be played: only an INSERT that   *)
(* was done and reported an error leaves a message without its clip.  And  *)
(* a file that no message names was left by a process that stopped, by the *)
(* removal of its message, or by an os.Remove that failed: a refused       *)
(* request tries to remove its own, wherever it was refused.               *)
ClipsMatchFiles ==
  \A c \in StClip :
    /\ stRow[c].there => c \in stFile \/ c \in stDoubtful
    /\ stVoice[c] = "refused" => c \notin stFile
=============================================================================
