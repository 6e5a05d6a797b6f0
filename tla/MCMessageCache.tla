--------------------------- MODULE MCMessageCache ---------------------------
(* Instances of MessageCache for TLC. *)
EXTENDS MessageCache, TLC

Symmetry == Permutations(Msg) \cup Permutations(Reader)
=============================================================================
