-------------------------- MODULE MCStrategies --------------------------
(* Small instances of Strategies for TLC. *)
EXTENDS Strategies, TLC
Symmetry == Permutations(Device) \cup Permutations(Conn)
=============================================================================
