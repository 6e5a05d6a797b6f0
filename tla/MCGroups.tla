------------------------------ MODULE MCGroups ------------------------------
(* The instances of Groups that TLC checks. *)
EXTENDS Groups, TLC

\* No action and no invariant names a user or a request.
Symmetry == Permutations(User) \cup Permutations(Request)
=============================================================================
