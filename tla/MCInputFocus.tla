---------------------------- MODULE MCInputFocus ----------------------------
(* InputFocus for TLC. *)
EXTENDS InputFocus, TLC

\* Menus are alike.
Symmetry == Permutations(Menus)

=============================================================================
