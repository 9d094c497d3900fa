----------------------------- MODULE SurfaceScene -----------------------------
(***************************************************************************)
(* webOS 4: subsurfaces and pop-ups without wl_subcompositor               *)
(* (src/src/webos-xdg.c, "emulate_subsurface" to "ov_child_offset").       *)
(*                                                                         *)
(* The compositor can stack whole-window layers in a surface group but     *)
(* cannot place a small surface.  So a subsurface of the main window that  *)
(* stays at its origin becomes a group layer when it first commits, and    *)
(* everything else, xdg_popups and offset subsurfaces with the subsurfaces *)
(* in them, is copied into one transparent overlay window, itself a layer  *)
(* of the group.  Three tables say what is where: layered, ov_popups and   *)
(* ov_items.                                                               *)
(*                                                                         *)
(* Pictures stand for wl_shm buffers and what is in them, Places for       *)
(* positions.  A buffer's address is not another's later.  The order       *)
(* pop-ups are drawn in is not modelled; how a drawn canvas gets to the    *)
(* screen is OverlayBuffers' matter.                                       *)
(***************************************************************************)
EXTENDS Naturals, FiniteSets

CONSTANTS
    Windows,        \* the client's wl_surfaces by their role: toplevel windows,
    Menus,          \* xdg_popups,
    WindowChildren, \* subsurfaces of a window: Firefox's content, some of GTK's pop-ups,
    PopupChildren,  \* and subsurfaces of a pop-up: Firefox's content in it
    Pictures, Blank,
    Foreign,        \* a buffer the adapter cannot copy
    Origin, Places, \* Origin \in Places
    MAX_LAYERED,
    OV_ITEMS,
    MaxGroups,      \* bound: surface groups made
    Casts,          \* bound: sets of surfaces, of one of which all that are alive are
    Careless,       \* bound: the surfaces whose buffers may be destroyed while they are
                    \* attached, or be such as cannot be copied
    None

Children == WindowChildren \cup PopupChildren
Surfaces == Windows \cup Menus \cup Children

\* A surface has one role for life.
ASSUME RoleAssumption ==
    /\ Windows \cap (Menus \cup Children) = {}
    /\ Menus \cap Children = {}
    /\ WindowChildren \cap PopupChildren = {}

ASSUME SceneAssumption ==
    /\ Origin \in Places
    /\ None \notin Surfaces \cup Pictures \cup Places \cup {Blank, Foreign}
    /\ Blank \notin Pictures \cup {Foreign} /\ Foreign \notin Pictures
    /\ MAX_LAYERED \in Nat /\ OV_ITEMS \in Nat /\ MaxGroups \in Nat

VARIABLES
    (* the client *)
    alive,          \* its surfaces
    parent,         \* wl_subsurface objects: child |-> parent
    popup,          \* surfaces with an xdg_popup
    spot,           \* where it has put each
    drawn,          \* those it has committed a buffer to
    pending,        \* what it has attached to each and not yet committed
    last,           \* the surface it put each in last, outside the main window, while that lives
    (* the adapter *)
    main_surface,
    main_group,     \* the group's number (of groups_made), 0 for none
    group_root,
    groups_made,
    overlay_group,  \* the group ov_surface was attached to, 0 while it is not made
    layered,        \* per surface: its slot in layered[]
    ov_popups,      \* per surface: where its pop-up is drawn
    ov_items,       \* per surface: its copy
    ov_canvas       \* what ov_redraw drew last

clientVars == <<alive, parent, popup, spot, drawn, pending, last>>
groupVars  == <<main_surface, main_group, group_root, groups_made>>
tableVars  == <<layered, ov_popups, ov_items>>
sceneVars  == <<clientVars, groupVars, overlay_group, tableVars, ov_canvas>>

NoSlot   == [used |-> FALSE, attached |-> FALSE, committed |-> FALSE, at |-> Origin]
NewSlot  == [NoSlot EXCEPT !.used = TRUE]
NoItem   == [popup |-> None, off |-> Origin, pending |-> None, current |-> Blank, pix |-> Blank]

Item(p)  == [NoItem EXCEPT !.popup = p]

\* What a client attaches; no buffer is Blank.
Buffers == Pictures \cup {Blank, Foreign}

HasItem(s)  == ov_items[s].popup # None
IsPopup(s)  == ov_popups[s] # None

\* What ov_redraw would draw: the pop-ups' items, where they are.
Canvas ==
    [s \in Surfaces |->
        IF HasItem(s) /\ IsPopup(ov_items[s].popup) /\ ov_items[s].pix # Blank
        THEN <<ov_popups[ov_items[s].popup], ov_items[s].off, ov_items[s].pix>>
        ELSE Blank]

Init ==
    /\ alive = {}
    /\ parent = [s \in Surfaces |-> None]
    /\ popup = {}
    /\ spot = [s \in Surfaces |-> Origin]
    /\ drawn = {}
    /\ pending = [s \in Surfaces |-> None]
    /\ last = [s \in Surfaces |-> None]
    /\ main_surface = None
    /\ main_group = 0
    /\ group_root = None
    /\ groups_made = 0
    /\ overlay_group = 0
    /\ layered = [s \in Surfaces |-> NoSlot]
    /\ ov_popups = [s \in Surfaces |-> None]
    /\ ov_items = [s \in Surfaces |-> NoItem]
    /\ ov_canvas = [s \in Surfaces |-> Blank]

-----------------------------------------------------------------------------
(* Pieces of the handlers. *)

\* ov_update: ov_ensure makes the overlay once there is a group, and attaches
\* it to that; then ov_redraw.
Update ==
    \/ /\ overlay_group = 0 /\ main_group' = 0
       /\ UNCHANGED <<overlay_group, ov_canvas>>
    \/ /\ overlay_group # 0 \/ main_group' # 0
       /\ overlay_group' = IF overlay_group # 0 THEN overlay_group ELSE main_group'
       /\ ov_canvas' = Canvas'

NoUpdate == UNCHANGED <<overlay_group, ov_canvas>>

\* Mutant: the layer is never given back.
KeepSlot(slot) == slot

\* attach_slot and detach_slot on one entry of layered[].
AttachSlot(slot, group) == [slot EXCEPT !.attached = @ \/ group # 0]
DetachSlot(slot) == [slot EXCEPT !.attached = FALSE]

\* drop_group, as it leaves the table.
AllDetached(table) == [s \in Surfaces |-> DetachSlot(table[s])]

\* ov_item_add.
ItemAdded(s, p) ==
    IF HasItem(s) \/ Cardinality({t \in Surfaces : HasItem(t)}) >= OV_ITEMS
    THEN ov_items
    ELSE [ov_items EXCEPT ![s] = Item(p)]

\* ov_popup_at.
PopupAt(s, place) ==
    IF IsPopup(s) \/ Cardinality({t \in Surfaces : IsPopup(t)}) < OV_ITEMS
    THEN /\ ov_popups' = [ov_popups EXCEPT ![s] = place]
         /\ ov_items' = ItemAdded(s, s)
         /\ Update
    ELSE UNCHANGED <<ov_popups, ov_items>> /\ NoUpdate

\* Mutant: a subsurface that was in another pop-up stays there.
ChildLeft(c, p) ==
    /\ ov_items' = ItemAdded(c, p)
    /\ UNCHANGED <<groupVars, layered, ov_popups>>
    /\ NoUpdate

\* Mutants: a pop-up that is gone stays in the tables, or on the screen.
PopupKept(s) == UNCHANGED <<ov_popups, ov_items>> /\ NoUpdate
PopupUndrawn(s) ==
    /\ ov_popups' = [ov_popups EXCEPT ![s] = None]
    /\ ov_items' = [t \in Surfaces |-> IF ov_items[t].popup = s THEN NoItem ELSE ov_items[t]]
    /\ NoUpdate

\* ov_popup_gone, of a surface in ov_popups.
PopupGone(s) ==
    /\ ov_popups' = [ov_popups EXCEPT ![s] = None]
    /\ ov_items' = [t \in Surfaces |-> IF ov_items[t].popup = s THEN NoItem ELSE ov_items[t]]
    /\ Update

-----------------------------------------------------------------------------
(* The client's requests. *)

\* wl_compositor.create_surface.
NewSurface(s) ==
    /\ s \notin alive
    /\ \E cast \in Casts : alive \cup {s} \subseteq cast
    /\ alive' = alive \cup {s}
    /\ UNCHANGED <<parent, popup, spot, drawn, pending, last, groupVars, tableVars>>
    /\ NoUpdate

\* xdg_surface.get_toplevel: map_main_surface.  A window that was hidden gets its
\* role again when it is shown.
GetToplevel(w) ==
    /\ w \in alive
    /\ main_surface' = w
    /\ UNCHANGED <<clientVars, main_group, group_root, groups_made, tableVars>>
    /\ NoUpdate

\* ov_child.
Child(c, p) ==
    /\ IF HasItem(c) /\ ov_items[c].popup # p
       THEN /\ ov_items' = [ov_items EXCEPT ![c].popup = p, ![c].off = Origin]
            /\ UNCHANGED <<groupVars, layered, ov_popups>>
            /\ Update
       ELSE /\ ov_items' = ItemAdded(c, p)
            /\ UNCHANGED <<groupVars, layered, ov_popups>>
            /\ NoUpdate

\* The rest of emulate_subsurface, for a child of the main window: the group is
\* made, or made anew when the main window is another one, and the child gets
\* a slot.
ChildOfMain(c) ==
    LET moved == main_group # 0 /\ group_root # main_surface
        fresh == moved \/ main_group = 0
        table == IF moved THEN AllDetached(layered) ELSE layered
        room  == table[c].used \/ Cardinality({s \in Surfaces : table[s].used}) < MAX_LAYERED
        slot  == IF table[c].used THEN table[c] ELSE NewSlot
    IN  /\ fresh => groups_made < MaxGroups
        /\ groups_made' = IF fresh THEN groups_made + 1 ELSE groups_made
        /\ main_group' = IF fresh THEN groups_made' ELSE main_group
        /\ group_root' = main_surface
        /\ layered' = IF ~room THEN table
                      ELSE [table EXCEPT ![c] =
                              IF slot.committed THEN AttachSlot(slot, main_group') ELSE slot]
        /\ UNCHANGED <<main_surface, ov_popups, ov_items>>
        /\ NoUpdate

\* wl_subcompositor.get_subsurface, in a window or a pop-up: emulate_subsurface.
GetSubsurface(c, p) ==
    /\ c \in alive /\ p \in alive
    /\ <<c, p>> \in (WindowChildren \X Windows) \cup (PopupChildren \X Menus)
    /\ parent[c] = None
    /\ parent' = [parent EXCEPT ![c] = p]
    /\ spot' = [spot EXCEPT ![c] = Origin]
    /\ last' = [last EXCEPT ![c] = IF p = main_surface THEN @ ELSE p]
    /\ UNCHANGED <<alive, popup, drawn, pending>>
    /\ IF p = main_surface THEN ChildOfMain(c) ELSE Child(c, p)

\* wl_subsurface.set_position: layered_position.
SetPosition(c, place) ==
    /\ parent[c] # None
    /\ spot' = [spot EXCEPT ![c] = place]
    /\ UNCHANGED <<alive, parent, popup, drawn, pending, last, groupVars>>
    /\ \/ \* ov_child_offset: every surface with an item ends here, a pop-up unmoved
          /\ HasItem(c)
          /\ IF ov_items[c].popup = c
             THEN UNCHANGED ov_items /\ UNCHANGED <<layered, ov_popups>> /\ NoUpdate
             ELSE /\ ov_items' = [ov_items EXCEPT ![c].off = place]
                  /\ UNCHANGED <<layered, ov_popups>>
                  /\ Update
       \/ /\ ~HasItem(c) /\ IsPopup(c)
          /\ UNCHANGED layered
          /\ PopupAt(c, place)
       \/ /\ ~HasItem(c) /\ ~IsPopup(c)
          /\ IF layered[c].used /\ layered[c].committed /\ place # Origin
             THEN /\ layered' = [layered EXCEPT ![c] = NoSlot]
                  /\ PopupAt(c, place)
             ELSE /\ layered' = [layered EXCEPT ![c].at = IF layered[c].used THEN place ELSE Origin]
                  /\ UNCHANGED <<ov_popups, ov_items>>
                  /\ NoUpdate

\* wl_surface.attach, of a buffer or of none (Blank): ov_attach records it for a
\* surface that has its copy.
Attach(s, buffer) ==
    /\ s \in alive
    /\ buffer = Foreign => s \in Careless
    /\ pending' = [pending EXCEPT ![s] = buffer]
    /\ ov_items' = IF HasItem(s) THEN [ov_items EXCEPT ![s].pending = buffer] ELSE ov_items
    /\ UNCHANGED <<alive, parent, popup, spot, drawn, last, groupVars, layered, ov_popups>>
    /\ NoUpdate

\* wl_buffer.destroy, of a buffer that is a surface's current one, attached to it,
\* or both: ov_buf_destroyed, which knows the copyable ones.
BufferDestroyed(s, current, attached) ==
    /\ HasItem(s) /\ s \in Careless
    /\ current \/ attached
    /\ current => ov_items[s].current \in Pictures
    /\ attached => ov_items[s].pending \in Pictures
    /\ pending' = [pending EXCEPT ![s] = IF attached THEN Blank ELSE @]
    /\ ov_items' = [ov_items EXCEPT ![s].current = IF current THEN Blank ELSE @,
                                    ![s].pending = IF attached THEN Blank ELSE @]
    /\ UNCHANGED <<alive, parent, popup, spot, drawn, last, groupVars, layered, ov_popups>>
    /\ NoUpdate

\* What ov_commit makes of an item: the buffer that was attached, or the current
\* one, is copied; with none there is no picture, and one that cannot be copied
\* leaves the picture alone.  The current buffer, copied anew, may have been drawn
\* in since.
Copied(item) ==
    LET bare   == item.pending = None
        buffer == IF bare THEN item.current ELSE item.pending
        copies == IF buffer = Foreign THEN {item.pix}
                  ELSE IF bare /\ buffer # Blank THEN Pictures
                  ELSE {buffer}
    IN  {[item EXCEPT !.current = buffer, !.pending = None, !.pix = copy] : copy \in copies}

\* layered_commit: what the first commit makes of a subsurface of the main
\* window.
FirstCommit(s) == layered[s].used /\ ~layered[s].committed

\* wl_surface.commit: layered_commit, then ov_commit, which finds what
\* layered_commit made.
Commit(s) ==
    LET becomesPopup == FirstCommit(s) /\ layered[s].at # Origin
        room  == Cardinality({t \in Surfaces : IsPopup(t)}) < OV_ITEMS
        items == IF becomesPopup /\ room THEN ItemAdded(s, s) ELSE ov_items
    IN  /\ s \in alive /\ (s \in Children => parent[s] # None)
        /\ drawn' = CASE pending[s] = None -> drawn
                      [] pending[s] = Blank -> drawn \ {s}
                      [] OTHER -> drawn \cup {s}
        /\ pending' = [pending EXCEPT ![s] = None]
        /\ layered' = [layered EXCEPT ![s] =
              IF becomesPopup THEN NoSlot
              ELSE IF FirstCommit(s) THEN AttachSlot([@ EXCEPT !.committed = TRUE], main_group)
              ELSE @]
        /\ ov_popups' = IF becomesPopup /\ room
                        THEN [ov_popups EXCEPT ![s] = layered[s].at] ELSE ov_popups
        /\ UNCHANGED <<alive, parent, popup, spot, last, groupVars>>
        /\ \/ /\ items[s].popup = None
              /\ ov_items' = items
              /\ NoUpdate
           \/ /\ items[s].popup # None
              /\ \E item \in Copied(items[s]) : ov_items' = [items EXCEPT ![s] = item]
              /\ Update

\* xdg_surface.get_popup, at the place the positioner gives.
GetPopup(m, place) ==
    /\ m \in alive \ popup
    /\ pending[m] = None /\ m \notin drawn      \* the protocol wants it empty
    /\ popup' = popup \cup {m}
    /\ spot' = [spot EXCEPT ![m] = place]
    /\ UNCHANGED <<alive, parent, drawn, pending, last, groupVars, layered>>
    /\ PopupAt(m, place)

\* xdg_popup.reposition.
Reposition(m, place) ==
    /\ m \in popup
    /\ spot' = [spot EXCEPT ![m] = place]
    /\ UNCHANGED <<alive, parent, popup, drawn, pending, last, groupVars, layered>>
    /\ IF IsPopup(m) THEN PopupAt(m, place) ELSE UNCHANGED <<ov_popups, ov_items>> /\ NoUpdate

\* xdg_popup.destroy.
DestroyPopup(m) ==
    /\ m \in popup
    /\ popup' = popup \ {m}
    /\ UNCHANGED <<alive, parent, spot, drawn, pending, last, groupVars, layered>>
    /\ IF IsPopup(m) THEN PopupGone(m) ELSE UNCHANGED <<ov_popups, ov_items>> /\ NoUpdate

\* wl_subsurface.destroy: unlayer_surface, which leaves the slot to the surface.
DestroySubsurface(c) ==
    /\ parent[c] # None
    /\ parent' = [parent EXCEPT ![c] = None]
    /\ layered' = [layered EXCEPT ![c] = DetachSlot(@)]
    /\ UNCHANGED <<alive, popup, spot, drawn, pending, last, groupVars>>
    /\ IF IsPopup(c) THEN PopupGone(c) ELSE UNCHANGED <<ov_popups, ov_items>> /\ NoUpdate

\* wl_surface.destroy, after the surface's role objects and its children:
\* forget_slot, ov_surface_destroyed and, for the group's window, drop_group.
DestroySurface(s) ==
    LET dropped == main_group # 0 /\ group_root = s
        table == [layered EXCEPT ![s] = NoSlot]
    IN  /\ s \in alive /\ s \notin popup /\ parent[s] = None
        /\ \A c \in Surfaces : parent[c] # s
        /\ alive' = alive \ {s}
        /\ spot' = [spot EXCEPT ![s] = Origin]
        /\ drawn' = drawn \ {s}
        /\ pending' = [pending EXCEPT ![s] = None]
        /\ last' = [t \in Surfaces |-> IF t = s \/ last[t] = s THEN None ELSE last[t]]
        /\ UNCHANGED <<parent, popup, main_surface, groups_made>>
        /\ layered' = IF dropped THEN AllDetached(table) ELSE table
        /\ main_group' = IF dropped THEN 0 ELSE main_group
        /\ group_root' = IF dropped THEN None ELSE group_root
        /\ IF IsPopup(s)
           THEN PopupGone(s)
           ELSE /\ ov_items' = [ov_items EXCEPT ![s] = NoItem]
                /\ UNCHANGED ov_popups
                /\ IF HasItem(s) THEN Update ELSE NoUpdate

-----------------------------------------------------------------------------

Next ==
    \/ \E s \in Surfaces : NewSurface(s) \/ Commit(s) \/ DestroySurface(s)
    \/ \E w \in Windows : GetToplevel(w)
    \/ \E s \in Surfaces \ Windows, buffer \in Buffers : Attach(s, buffer)
    \/ \E s \in Surfaces, current, attached \in BOOLEAN : BufferDestroyed(s, current, attached)
    \/ \E c \in Children, p \in Windows \cup Menus : GetSubsurface(c, p)
    \/ \E c \in Children, place \in Places : SetPosition(c, place)
    \/ \E m \in Menus, place \in Places : GetPopup(m, place) \/ Reposition(m, place)
    \/ \E m \in Menus : DestroyPopup(m)
    \/ \E c \in Children : DestroySubsurface(c)

Spec == Init /\ [][Next]_sceneVars

-----------------------------------------------------------------------------
(* Properties. *)

TypeOK ==
    /\ alive \subseteq Surfaces
    /\ parent \in [Surfaces -> Surfaces \cup {None}]
    /\ popup \subseteq Menus
    /\ spot \in [Surfaces -> Places]
    /\ drawn \subseteq Surfaces
    /\ pending \in [Surfaces -> Buffers \cup {None}]
    /\ last \in [Surfaces -> Surfaces \cup {None}]
    /\ main_surface \in Windows \cup {None}
    /\ group_root \in Windows \cup {None}
    /\ {main_group, groups_made, overlay_group} \subseteq 0..MaxGroups
    /\ layered \in [Surfaces -> [used : BOOLEAN, attached : BOOLEAN, committed : BOOLEAN,
                                 at : Places]]
    /\ ov_popups \in [Surfaces -> Places \cup {None}]
    /\ ov_items \in [Surfaces -> [popup : Surfaces \cup {None}, off : Places,
                                  pending : Buffers \cup {None}, current : Buffers,
                                  pix : Pictures \cup {Blank}]]

\* A surface is shown as a layer only while there is a group to be in, once it
\* has drawn, and only at its origin: a layer covers the whole window.
LayersInGroup ==
    \A s \in Surfaces : layered[s].attached =>
        /\ layered[s].used /\ layered[s].committed /\ layered[s].at = Origin
        /\ main_group # 0 /\ group_root \in alive

\* No surface is on the screen twice, as a layer and in the overlay.
ShownOnce == \A s \in Surfaces : ~(layered[s].attached /\ Canvas[s] # Blank)

\* A destroyed surface is in no table, for its address will be another surface's;
\* and a copy is of the surface's own pop-up, or of what its surface was put in last,
\* as long as that lives.
NothingStale ==
    /\ \A s \in Surfaces \ alive : ~layered[s].used /\ ~IsPopup(s) /\ ~HasItem(s)
    /\ \A s \in Surfaces :
         HasItem(s) /\ last[s] # None => ov_items[s].popup \in {s, last[s]}

\* "A surface drawn into the overlay: a pop-up's own surface ... or Firefox's content
\* surface inside it" (l. 1209): none is drawn in a pop-up it was not put in.
NoneInherited ==
    \A s \in Surfaces : Canvas[s] # Blank => ov_items[s].popup \in {s, last[s]}

\* Whatever changes what the tables say of pop-ups draws them again.
OverlayDrawn == overlay_group # 0 => ov_canvas = Canvas

\* "... at the pop-up's place" (l. 1187): a pop-up is drawn where its client last
\* put it.
PopupsWhereTold == \A s \in Surfaces : IsPopup(s) => ov_popups[s] = spot[s]

\* "When a pop-up surface commits, its shared-memory buffer ... is copied to
\* the overlay" (l. 1185): after the commit the overlay has what was attached.
CommitsCopied ==
    [][\A s \in Surfaces :
          Commit(s) /\ pending[s] \in Pictures /\ IsPopup(s)' /\ HasItem(s)'
             => ov_items'[s].pix = pending[s]]_sceneVars

=============================================================================
