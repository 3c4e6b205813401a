-------------------------- MODULE MCLiveStrategy --------------------------
(* Small instances of LiveStrategy for TLC. *)
EXTENDS LiveStrategy, TLC

Symmetry == Permutations(Device) \cup Permutations(Conn) \cup Permutations(RequestId)
=============================================================================
