-------------------------- MODULE MCConversations --------------------------
(***************************************************************************)
(* The creation of conversations and messages (DirectMessages), what       *)
(* happens to the messages afterwards (MessageStore) and the reading of    *)
(* what a conversation holds (Reading), in one instance for TLC.  The      *)
(* modules share no variable: focus is the one that runs, and the states   *)
(* are the sum of those of the modules, not their product.                 *)
(***************************************************************************)
EXTENDS DirectMessages, MessageStore, Reading, TLC

CONSTANT Focus  \* the modules that this instance explores

VARIABLE focus

\* No action and no property names a request.
Symmetry == Permutations(DmRequest)

ConvInit ==
  /\ focus \in Focus
  /\ DmInit /\ StInit /\ RdInit
  /\ focus = "reading" \/ rdAccess = "none"

ConvNext ==
  /\ UNCHANGED focus
  /\ \/ focus = "creation" /\ DmNext /\ UNCHANGED <<stVars, rdVars>>
     \/ focus = "messages" /\ StNext /\ UNCHANGED <<dmVars, rdVars>>
     \/ focus = "reading" /\ RdNext /\ UNCHANGED <<dmVars, stVars>>

ConvSpec == ConvInit /\ [][ConvNext]_<<focus, dmVars, stVars, rdVars>>

----------------------------------------------------------------------------
(* Every variable keeps its type: no request stands at a statement that    *)
(* its handler does not have or inserts more rows than its list of users   *)
(* allows, and nothing was read that was not written.                      *)
ConvTypeOK == DmTypeOK /\ StTypeOK /\ RdTypeOK
=============================================================================
