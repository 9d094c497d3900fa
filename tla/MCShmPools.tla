------------------------------ MODULE MCShmPools ------------------------------
(* ShmPools for TLC. *)
EXTENDS ShmPools, TLC

Symmetry == Permutations(Pools) \cup Permutations(Buffers) \cup Permutations(Files)

=============================================================================
