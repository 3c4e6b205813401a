--------------------------- MODULE MCOptimistic ---------------------------
(* Small instances of Optimistic for TLC. *)
EXTENDS Optimistic, TLC

Symmetry == Permutations(Device) \cup Permutations(Conn) \cup Permutations(RequestId)
=============================================================================
