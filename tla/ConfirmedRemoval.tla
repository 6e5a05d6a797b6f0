-------------------------- MODULE ConfirmedRemoval --------------------------
(***************************************************************************)
(* What the archive of a direct conversation promises, whatever keys,      *)
(* handlers and caches it is built from: messages are offered in batches,  *)
(* the users acknowledge a batch one by one, and only a batch every user   *)
(* acknowledged is removed from the server.                                *)
(***************************************************************************)
EXTENDS Integers

CONSTANTS User, Log, MaxMsg

VARIABLES sent,     \* number of messages sent so far: they are 1..sent
          kept,     \* the messages the server still has
          offered,  \* the messages of each batch
          acks      \* the users who acknowledged each batch

vars == <<sent, kept, offered, acks>>

Init ==
  /\ sent = 0 /\ kept = {}
  /\ offered = [l \in Log |-> {}]
  /\ acks = [l \in Log |-> {}]

\* A message is stored.
Append ==
  /\ sent < MaxMsg
  /\ sent' = sent + 1
  /\ kept' = kept \cup {sent + 1}
  /\ UNCHANGED <<offered, acks>>

\* A batch is offered, once and for all, before anyone acknowledges it.
Offer(l, S) ==
  /\ offered[l] = {} /\ acks[l] = {}
  /\ offered' = [offered EXCEPT ![l] = S]
  /\ UNCHANGED <<sent, kept, acks>>

Ack(l, u) ==
  /\ offered[l] # {}
  /\ acks' = [acks EXCEPT ![l] = @ \cup {u}]
  /\ UNCHANGED <<sent, kept, offered>>

Remove(l) ==
  /\ acks[l] = User
  /\ kept' = kept \ offered[l]
  /\ UNCHANGED <<sent, offered, acks>>

Next ==
  \/ Append
  \/ \E l \in Log :
       \/ \E S \in SUBSET (1..sent) : Offer(l, S)
       \/ \E u \in User : Ack(l, u)
       \/ Remove(l)

Spec == Init /\ [][Next]_vars
=============================================================================
