---------------------------- MODULE MCDmArchive ----------------------------
(* The instances of DmArchive that TLC checks. *)
EXTENDS DmArchive, TLC

\* Two users, handlers or logs of one instance are interchangeable: no action
\* and no invariant names one of them.
Symmetry == Permutations(User) \cup Permutations(Request) \cup Permutations(Log)
=============================================================================
