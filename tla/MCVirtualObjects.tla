-------------------------- MODULE MCVirtualObjects --------------------------
(* VirtualObjects for TLC. *)
EXTENDS VirtualObjects, TLC

\* A pop-up longer than the window that asks for its start, and one half as long as
\* the window that asks for a place beyond its end.
MCPositioners ==
    { [at |-> 0, length |-> 1, anchor |-> "start", gravity |-> "end", size |-> 6, offset |-> 0],
      [at |-> 2, length |-> 2, anchor |-> "end", gravity |-> "middle", size |-> 2, offset |-> 0] }

\* A registry or a pop-up on a pop-up, but not both.
MCCasts == {(Surfaces \ Submenus) \cup Registries, Surfaces}

Symmetry ==
    UNION {Permutations(alike) : alike \in {Objects \ SubmenuObjects, SubmenuObjects,
                                            Surfaces \ Submenus, Submenus}}

=============================================================================
