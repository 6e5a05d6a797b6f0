---------------------------- MODULE MCRegistrar ----------------------------
(* Instances of Registrar for TLC; without symmetry, for liveness. *)
EXTENDS Registrar
=============================================================================
