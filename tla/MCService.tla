----------------------------- MODULE MCService -----------------------------
(***************************************************************************)
(* What the service keeps beside conversations and messages, in one        *)
(* instance for TLC: the notifications, settings and pins of a user        *)
(* (UserState), its external database (ExternalDb), and the schema that    *)
(* an instance prepares before it serves (Schema).  The modules share no   *)
(* variable: focus is the part that runs, and the states are the sum of    *)
(* those of the parts, not their product.                                  *)
(***************************************************************************)
EXTENDS UserState, ExternalDb, Schema, TLC

CONSTANT Focus  \* the parts that this instance explores

VARIABLE focus

\* Two processes of a part are interchangeable: no action and no property names one.
Symmetry == Permutations(XdRequest) \cup Permutations(XdExport)

ServiceInit ==
  /\ focus \in Focus
  /\ UsInit /\ XdInit /\ SchInit
  /\ focus = "schema" \/ schOld = {}

ServiceNext ==
  /\ UNCHANGED focus
  /\ \/ /\ \/ focus = "notifications" /\ UsNoteNext
           \/ focus = "settings" /\ UsSettingNext
           \/ focus = "pins" /\ UsPinNext
        /\ UNCHANGED <<xdVars, schVars>>
     \/ focus = "external" /\ XdNext /\ UNCHANGED <<usVars, schVars>>
     \/ focus = "schema" /\ SchNext /\ UNCHANGED <<usVars, xdVars>>

ServiceSpec == ServiceInit /\ [][ServiceNext]_<<focus, usVars, xdVars, schVars>>

----------------------------------------------------------------------------
(* Every variable of every part keeps its type: in particular no request   *)
(* stands at a statement its handler does not have, no counter leaves its  *)
(* range and no export goes past the end of its batch.                     *)
ServiceTypeOK == UsTypeOK /\ XdTypeOK /\ SchTypeOK
=============================================================================
