---------------------------- MODULE MCSurfaceScene ----------------------------
(* SurfaceScene for TLC. *)
EXTENDS SurfaceScene, TLC

\* Of what the client has committed and attached, guards read only whether a menu is
\* still empty.
EmptyMenus == [m \in Menus |-> <<m \in drawn, pending[m]>>]

\* The casts of SurfaceScene.cfg have each window and each menu in the same places.
Symmetry == Permutations(Windows) \cup Permutations(Menus)

\* Of the groups, whether there is one.
Groups == <<main_surface, main_group # 0, group_root, groups_made, overlay_group # 0>>

\* All but spot and what of drawn and pending no guard reads: states that differ in
\* these alone have the same future, but for PopupsWhereTold and CommitsCopied, which
\* are checked without the view.
WhatMatters ==
    <<alive, parent, popup, EmptyMenus, last, Groups, tableVars, ov_canvas>>

=============================================================================
