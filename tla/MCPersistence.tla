---------------------------- MODULE MCPersistence ----------------------------
(* Transmissions are told apart by nothing but their names. *)
EXTENDS Persistence, TLC

Symmetry == Permutations(TransmissionID)
=============================================================================
