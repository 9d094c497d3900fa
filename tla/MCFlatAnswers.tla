---------------------------- MODULE MCFlatAnswers ----------------------------
(* FlatAnswers for TLC. *)
EXTENDS FlatAnswers, TLC

\* Callbacks and buffers are alike.  For the runs without a liveness property.
Symmetry == Permutations(Callbacks) \cup Permutations(Buffers)

=============================================================================
