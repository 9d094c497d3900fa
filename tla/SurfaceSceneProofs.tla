------------------------- MODULE SurfaceSceneProofs --------------------------
(***************************************************************************)
(* What SurfaceScene guarantees for any number of windows, pop-ups and     *)
(* subsurfaces, and for tables of any length.                              *)
(*                                                                         *)
(* The three tables are kept by handlers that look at one or two of them   *)
(* and rely on the rest: a slot is turned into a pop-up without a look at  *)
(* ov_items, an item is drawn by its pop-up's entry.  The invariant says   *)
(* what they rely on: who may have a slot, an entry of ov_popups, an item  *)
(* (Slots, Popups, Items), that these are gone before their surface is,    *)
(* that an item follows its surface from parent to parent (Belongs), and   *)
(* that the group's window is there while the group is (Group).            *)
(***************************************************************************)
EXTENDS SurfaceScene, TLAPS

\* The client keeps to the protocol: role objects go before their surfaces.
Roles ==
    /\ popup \subseteq alive
    /\ \A s \in Surfaces :
         parent[s] # None => s \in Children /\ s \in alive /\ parent[s] \in alive

\* The group's root is alive while the group is.
Group == main_group # 0 => group_root \in alive

\* Only the main window's subsurfaces have slots.  A slot that has drawn is at the
\* origin; an attached one has drawn, and has a group to be in.
Slots ==
    \A s \in Surfaces :
        /\ layered[s].used => s \in WindowChildren /\ s \in alive /\ ~IsPopup(s)
        /\ layered[s].used /\ layered[s].committed => layered[s].at = Origin
        /\ layered[s].attached => layered[s].used /\ layered[s].committed /\ main_group # 0

\* In ov_popups are xdg_popups, and subsurfaces of windows while they are such.
Popups ==
    \A s \in Surfaces :
        IsPopup(s) => s \in popup \/ (s \in WindowChildren /\ parent[s] # None)

\* An item is a pop-up's own, or a child's of what it was a child of.
Owner(s, p) == <<s, p>> \in (WindowChildren \X Windows) \cup (PopupChildren \X Menus)

Items ==
    \A s \in Surfaces :
        HasItem(s) => s \in alive /\ (ov_items[s].popup = s \/ Owner(s, ov_items[s].popup))

\* It is of what the surface was put in last, while that lives.
Belongs ==
    \A s \in Surfaces : last[s] # None =>
        /\ last[s] \in alive
        /\ HasItem(s) => ov_items[s].popup \in {s, last[s]}

Tables == Roles /\ Group /\ Slots /\ Popups /\ Items /\ Belongs

IInv == TypeOK /\ Tables /\ OverlayDrawn

-----------------------------------------------------------------------------
(* The tables' types, and the pieces of the handlers. *)

SlotRecords == [used : BOOLEAN, attached : BOOLEAN, committed : BOOLEAN, at : Places]

SlotTable == [Surfaces -> SlotRecords]

ItemRecords ==
    [popup : Surfaces \cup {None}, off : Places, pending : Buffers \cup {None},
     current : Buffers, pix : Pictures \cup {Blank}]

ItemTable == [Surfaces -> ItemRecords]

PopupTable == [Surfaces -> Places \cup {None}]

LEMMA TableTypes ==
  ASSUME TypeOK
  PROVE  layered \in SlotTable /\ ov_items \in ItemTable /\ ov_popups \in PopupTable
BY DEF TypeOK, SlotTable, SlotRecords, ItemTable, ItemRecords, PopupTable

\* An update draws what the tables then say.
LEMMA UpdateDraws ==
  ASSUME TypeOK, Update, main_group' \in 0..MaxGroups
  PROVE  overlay_group' \in 0..MaxGroups /\ OverlayDrawn'
BY DEF TypeOK, Update, OverlayDrawn

\* Without one the tables must say what they said.
LEMMA NoUpdateKeeps ==
  ASSUME TypeOK, OverlayDrawn, NoUpdate, Canvas' = Canvas
  PROVE  overlay_group' \in 0..MaxGroups /\ OverlayDrawn'
BY DEF TypeOK, NoUpdate, OverlayDrawn

\* Items that differ in what is attached only, or have nothing drawn, make the same
\* picture.
LEMMA SameCanvas ==
  ASSUME UNCHANGED ov_popups,
         \A s \in Surfaces :
            \/ /\ ov_items'[s].popup = ov_items[s].popup
               /\ ov_items'[s].off = ov_items[s].off
               /\ ov_items'[s].pix = ov_items[s].pix
            \/ ~HasItem(s) /\ (~HasItem(s)' \/ ov_items'[s].pix = Blank)
  PROVE  Canvas' = Canvas
BY DEF Canvas, HasItem, IsPopup

LEMMA ItemAddedFacts ==
  ASSUME TypeOK, NEW s \in Surfaces, NEW p \in Surfaces
  PROVE  /\ ItemAdded(s, p) \in ItemTable
         /\ \/ ItemAdded(s, p) = ov_items
            \/ ~HasItem(s) /\ ItemAdded(s, p) = [ov_items EXCEPT ![s] = Item(p)]
         /\ Item(p).popup = p /\ Item(p).pix = Blank
<1>1. Item(p) \in ItemRecords /\ Item(p).popup = p /\ Item(p).pix = Blank
  BY SceneAssumption DEF Item, NoItem, ItemRecords, Buffers
<1> QED
  BY <1>1, TableTypes DEF ItemAdded, ItemTable

\* ov_popup_at changes the surface's own entries alone.
LEMMA PopupAtFacts ==
  ASSUME TypeOK, OverlayDrawn, main_group' \in 0..MaxGroups,
         NEW s \in Surfaces, NEW place \in Places, PopupAt(s, place)
  PROVE  /\ ov_popups' \in PopupTable
         /\ ov_items' \in ItemTable
         /\ overlay_group' \in 0..MaxGroups
         /\ OverlayDrawn'
         /\ \A t \in Surfaces : t # s => ov_popups'[t] = ov_popups[t]
         /\ \A t \in Surfaces : ov_items'[t].popup # ov_items[t].popup
                                  => t = s /\ ov_items'[t].popup = s
<1>1. CASE UNCHANGED <<ov_popups, ov_items>> /\ NoUpdate
  <2>1. Canvas' = Canvas
    BY <1>1 DEF Canvas, HasItem, IsPopup
  <2> QED
    BY <1>1, <2>1, NoUpdateKeeps, TableTypes
<1>2. CASE /\ ov_popups' = [ov_popups EXCEPT ![s] = place]
           /\ ov_items' = ItemAdded(s, s)
           /\ Update
  BY <1>2, UpdateDraws, TableTypes, ItemAddedFacts DEF PopupTable, ItemTable
<1> QED
  BY <1>1, <1>2 DEF PopupAt

\* ov_popup_gone takes the pop-up and its items off the tables.
LEMMA PopupGoneFacts ==
  ASSUME TypeOK, main_group' \in 0..MaxGroups, NEW s \in Surfaces, PopupGone(s)
  PROVE  /\ ov_popups' \in PopupTable
         /\ ov_items' \in ItemTable
         /\ overlay_group' \in 0..MaxGroups
         /\ OverlayDrawn'
         /\ ~IsPopup(s)'
         /\ \A t \in Surfaces : t # s => ov_popups'[t] = ov_popups[t]
         /\ \A t \in Surfaces :
              ov_items'[t].popup = IF ov_items[t].popup = s THEN None ELSE ov_items[t].popup
<1>1. NoItem \in ItemRecords /\ NoItem.popup = None
  BY SceneAssumption DEF NoItem, ItemRecords, Buffers
<1> QED
  BY <1>1, UpdateDraws, TableTypes DEF PopupGone, PopupTable, ItemTable, IsPopup

\* The entries of layered[] that are made or changed.
LEMMA NewSlots ==
  /\ NoSlot \in SlotRecords /\ ~NoSlot.used /\ ~NoSlot.attached /\ ~NoSlot.committed
  /\ NewSlot \in SlotRecords /\ NewSlot.used /\ ~NewSlot.attached /\ ~NewSlot.committed
BY SceneAssumption DEF NoSlot, NewSlot, SlotRecords

LEMMA SlotChanges ==
  ASSUME NEW slot \in SlotRecords, NEW group
  PROVE  /\ DetachSlot(slot) \in SlotRecords
         /\ ~DetachSlot(slot).attached
         /\ DetachSlot(slot).used = slot.used
         /\ DetachSlot(slot).committed = slot.committed
         /\ DetachSlot(slot).at = slot.at
         /\ AttachSlot(slot, group) \in SlotRecords
         /\ AttachSlot(slot, group).attached <=> slot.attached \/ group # 0
         /\ AttachSlot(slot, group).used = slot.used
         /\ AttachSlot(slot, group).committed = slot.committed
         /\ AttachSlot(slot, group).at = slot.at
<1>1. slot.attached \in BOOLEAN /\ (slot.attached \/ group # 0) \in BOOLEAN
  BY DEF SlotRecords
<1> QED
  BY <1>1 DEF DetachSlot, AttachSlot, SlotRecords

\* Who is a surface, and of one role.
LEMMA Sorts ==
  /\ Windows \subseteq Surfaces /\ Menus \subseteq Surfaces /\ Children \subseteq Surfaces
  /\ WindowChildren \subseteq Children /\ PopupChildren \subseteq Children
  /\ None \notin Surfaces
  /\ Windows \cap (Menus \cup Children) = {} /\ Menus \cap Children = {}
  /\ WindowChildren \cap PopupChildren = {}
BY SceneAssumption, RoleAssumption DEF Surfaces, Children

-----------------------------------------------------------------------------
(* The client's requests, one by one. *)

LEMMA NewSurfaceStep ==
  ASSUME IInv, NEW s \in Surfaces, NewSurface(s)
  PROVE  IInv'
<1> USE DEF IInv
<1>1. alive' = alive \cup {s}
      /\ UNCHANGED <<parent, popup, spot, drawn, pending, last, groupVars, tableVars>>
      /\ NoUpdate
  BY DEF NewSurface
<1>2. Canvas' = Canvas
  BY <1>1, SameCanvas DEF tableVars
<1>3. OverlayDrawn' /\ overlay_group' \in 0..MaxGroups
  BY <1>1, <1>2, NoUpdateKeeps
<1>4. TypeOK'
  BY <1>1, <1>3 DEF TypeOK, groupVars, tableVars
<1>5. Tables'
  BY <1>1 DEF Tables, Roles, Group, Slots, Popups, Items, Belongs, IsPopup, HasItem, groupVars,
              tableVars
<1> QED
  BY <1>3, <1>4, <1>5

LEMMA GetToplevelStep ==
  ASSUME IInv, NEW w \in Windows, GetToplevel(w)
  PROVE  IInv'
<1> USE DEF IInv
<1>1. /\ main_surface' = w
      /\ UNCHANGED <<clientVars, main_group, group_root, groups_made, tableVars>>
      /\ NoUpdate
  BY DEF GetToplevel
<1>2. Canvas' = Canvas
  BY <1>1, SameCanvas DEF tableVars
<1>3. OverlayDrawn' /\ overlay_group' \in 0..MaxGroups
  BY <1>1, <1>2, NoUpdateKeeps
<1>4. TypeOK'
  BY <1>1, <1>3 DEF TypeOK, clientVars, tableVars
<1>5. Tables'
  BY <1>1 DEF Tables, Roles, Group, Slots, Popups, Items, Belongs, IsPopup, HasItem, clientVars,
              tableVars
<1> QED
  BY <1>3, <1>4, <1>5

\* ov_child on a subsurface of a pop-up, or of a window that is not the main one.
LEMMA ChildFacts ==
  ASSUME IInv, NEW c \in Surfaces, NEW p \in Surfaces, Child(c, p)
  PROVE  /\ UNCHANGED <<groupVars, layered, ov_popups>>
         /\ ov_items' \in ItemTable
         /\ overlay_group' \in 0..MaxGroups
         /\ OverlayDrawn'
         /\ \A t \in Surfaces : ov_items'[t].popup # ov_items[t].popup
                                  => t = c /\ ov_items'[t].popup = p
         /\ HasItem(c)' => ov_items'[c].popup = p
<1> USE DEF IInv
<1>1. main_group' = main_group /\ main_group \in 0..MaxGroups
  BY DEF Child, groupVars, TypeOK
<1>2. UNCHANGED <<groupVars, layered, ov_popups>>
  BY DEF Child
<1>3. CASE /\ ov_items' = [ov_items EXCEPT ![c].popup = p, ![c].off = Origin]
           /\ Update
  <2>1. ov_items[c] \in ItemRecords
    BY TableTypes DEF ItemTable
  <2>2. ov_items' = [ov_items EXCEPT ![c] = [ov_items[c] EXCEPT !.popup = p, !.off = Origin]]
    BY <1>3, TableTypes DEF ItemTable
  <2>3. [ov_items[c] EXCEPT !.popup = p, !.off = Origin] \in ItemRecords
    BY <2>1, SceneAssumption DEF ItemRecords
  <2>4. ov_items' \in ItemTable /\ \A t \in Surfaces : t # c => ov_items'[t] = ov_items[t]
    BY <2>2, <2>3, TableTypes DEF ItemTable
  <2>5. ov_items'[c].popup = p
    BY <2>1, <2>2, TableTypes DEF ItemTable, ItemRecords
  <2> QED
    BY <1>1, <1>2, <1>3, <2>4, <2>5, UpdateDraws
<1>4. CASE /\ ~(HasItem(c) /\ ov_items[c].popup # p)
           /\ ov_items' = ItemAdded(c, p)
           /\ NoUpdate
  <2>1. ov_items' \in ItemTable
    BY <1>4, ItemAddedFacts
  <2>2. \A t \in Surfaces : \/ ov_items'[t] = ov_items[t]
                            \/ t = c /\ ~HasItem(t) /\ ov_items'[t] = Item(p)
    <3>1. ov_items' = ItemAdded(c, p) /\ ov_items \in ItemTable
      BY <1>4, TableTypes
    <3>2. \/ ov_items' = ov_items
          \/ ~HasItem(c) /\ ov_items' = [ov_items EXCEPT ![c] = Item(p)]
      BY <3>1, ItemAddedFacts
    <3> QED
      BY <3>1, <3>2 DEF ItemTable
  <2>3. Canvas' = Canvas
    BY <1>2, <2>2, SameCanvas, ItemAddedFacts
  <2>4. HasItem(c)' => ov_items'[c].popup = p
    BY <1>4, <2>2, ItemAddedFacts DEF HasItem
  <2> QED
    BY <1>2, <1>4, <2>1, <2>2, <2>3, <2>4, NoUpdateKeeps, ItemAddedFacts
<1> QED
  BY <1>3, <1>4 DEF Child

\* drop_group detaches all that is attached.
LEMMA AllDetachedFacts ==
  ASSUME NEW table \in SlotTable
  PROVE  /\ AllDetached(table) \in SlotTable
         /\ \A t \in Surfaces :
              LET slot == AllDetached(table)[t]
              IN  /\ ~slot.attached
                  /\ slot.used = table[t].used
                  /\ slot.committed = table[t].committed
                  /\ slot.at = table[t].at
BY SlotChanges DEF AllDetached, SlotTable

\* A slot that has drawn is the same slot, or a new attachment of it.
KeepsDrawing(old, slot) ==
    /\ slot \in SlotRecords
    /\ slot.used => old.used \/ ~slot.committed
    /\ slot.used /\ slot.committed => old.committed /\ slot.at = old.at
    /\ slot.attached => slot.used /\ slot.committed

LEMMA ChildOfMainFacts ==
  ASSUME IInv, NEW c \in Surfaces, ChildOfMain(c)
  PROVE  /\ main_group' \in 0..MaxGroups /\ groups_made' \in 0..MaxGroups
         /\ main_group' # 0
         /\ group_root' = main_surface
         /\ UNCHANGED <<main_surface, ov_popups, ov_items>> /\ NoUpdate
         /\ layered' \in SlotTable
         /\ \A t \in Surfaces : KeepsDrawing(layered[t], layered'[t])
                                /\ (layered'[t].used => layered[t].used \/ t = c)
<1> DEFINE moved == main_group # 0 /\ group_root # main_surface
           fresh == moved \/ main_group = 0
           table == IF moved THEN AllDetached(layered) ELSE layered
           slot  == IF table[c].used THEN table[c] ELSE NewSlot
           made  == IF slot.committed THEN AttachSlot(slot, main_group') ELSE slot
<1> USE DEF IInv
<1>1. layered \in SlotTable /\ \A t \in Surfaces : layered[t].attached =>
          layered[t].used /\ layered[t].committed
  BY TableTypes DEF Tables, Slots
<1>2. table \in SlotTable /\ \A t \in Surfaces : KeepsDrawing(layered[t], table[t])
                                               /\ table[t].used = layered[t].used
  BY <1>1, AllDetachedFacts DEF KeepsDrawing, SlotTable
<1>3. slot \in SlotRecords /\ slot.used /\ (slot.committed => table[c].used)
      /\ KeepsDrawing(layered[c], slot)
  BY <1>2, NewSlots DEF SlotTable, KeepsDrawing
<1>4. made \in SlotRecords /\ KeepsDrawing(layered[c], made)
  BY <1>3, SlotChanges DEF KeepsDrawing
<1>5. layered' = table \/ layered' = [table EXCEPT ![c] = made]
  BY DEF ChildOfMain
<1>6. layered' \in SlotTable
  BY <1>2, <1>4, <1>5 DEF SlotTable
<1>7. \A t \in Surfaces : layered'[t] = table[t] \/ (t = c /\ layered'[t] = made)
  BY <1>2, <1>5 DEF SlotTable
<1>8. \A t \in Surfaces : KeepsDrawing(layered[t], layered'[t])
                          /\ (layered'[t].used => layered[t].used \/ t = c)
  BY <1>2, <1>4, <1>7
<1>9. /\ groups_made' = IF fresh THEN groups_made + 1 ELSE groups_made
      /\ main_group' = IF fresh THEN groups_made' ELSE main_group
      /\ fresh => groups_made < MaxGroups
  BY DEF ChildOfMain
<1>10. main_group' \in 0..MaxGroups /\ groups_made' \in 0..MaxGroups /\ main_group' # 0
  BY <1>9, SceneAssumption DEF TypeOK
<1> QED
  BY <1>6, <1>8, <1>10 DEF ChildOfMain

LEMMA GetSubsurfaceStep ==
  ASSUME IInv, NEW c \in Children, NEW p \in Windows \cup Menus, GetSubsurface(c, p)
  PROVE  IInv'
<1> USE DEF IInv
<1>1. /\ c \in Surfaces /\ p \in Surfaces /\ Owner(c, p) /\ c \in alive /\ p \in alive
      /\ parent[c] = None
      /\ parent' = [parent EXCEPT ![c] = p]
      /\ spot' = [spot EXCEPT ![c] = Origin]
      /\ last' = [last EXCEPT ![c] = IF p = main_surface THEN last[c] ELSE p]
      /\ UNCHANGED <<alive, popup, drawn, pending>>
  BY Sorts DEF GetSubsurface, Owner
<1>2. /\ parent' \in [Surfaces -> Surfaces \cup {None}] /\ spot' \in [Surfaces -> Places]
      /\ last' \in [Surfaces -> Surfaces \cup {None}]
  BY <1>1, SceneAssumption DEF TypeOK
<1>3. Roles'
  BY <1>1 DEF Tables, Roles, TypeOK
<1>4. CASE p = main_surface
  <2>1. /\ main_group' \in 0..MaxGroups /\ groups_made' \in 0..MaxGroups /\ main_group' # 0
        /\ group_root' = main_surface
        /\ UNCHANGED <<main_surface, ov_popups, ov_items>> /\ NoUpdate
        /\ layered' \in SlotTable
        /\ \A t \in Surfaces : KeepsDrawing(layered[t], layered'[t])
                               /\ (layered'[t].used => layered[t].used \/ t = c)
    BY <1>1, <1>4, ChildOfMainFacts DEF GetSubsurface
  <2>2. OverlayDrawn' /\ overlay_group' \in 0..MaxGroups
    BY <2>1, SameCanvas, NoUpdateKeeps
  <2>3. TypeOK'
    BY <1>1, <1>2, <2>1, <2>2 DEF TypeOK, SlotTable, SlotRecords
  <2>4. c \in WindowChildren /\ ~IsPopup(c)
    BY <1>1, <1>4, Sorts DEF TypeOK, Owner, Tables, Popups, Roles
  <2>5. Slots'
    BY <1>1, <2>1, <2>4 DEF Tables, Slots, KeepsDrawing, IsPopup
  <2>6. Group' /\ Popups' /\ Items'
    BY <1>1, <1>4, <2>1 DEF Tables, Group, Popups, Items, IsPopup, HasItem, TypeOK
  <2>7. last' = last
    BY <1>1, <1>4 DEF TypeOK
  <2>8. Belongs'
    BY <1>1, <2>1, <2>7 DEF Tables, Belongs, HasItem
  <2> QED
    BY <1>3, <2>2, <2>3, <2>5, <2>6, <2>8 DEF Tables
<1>5. CASE p # main_surface
  <2>1. /\ UNCHANGED <<groupVars, layered, ov_popups>>
        /\ ov_items' \in ItemTable
        /\ overlay_group' \in 0..MaxGroups
        /\ OverlayDrawn'
        /\ \A t \in Surfaces : ov_items'[t].popup # ov_items[t].popup
                                 => t = c /\ ov_items'[t].popup = p
        /\ HasItem(c)' => ov_items'[c].popup = p
    BY <1>1, <1>5, ChildFacts DEF GetSubsurface
  <2>2. TypeOK'
    BY <1>1, <1>2, <2>1 DEF TypeOK, ItemTable, ItemRecords, groupVars
  <2>3. Items'
    BY <1>1, <2>1 DEF Tables, Items, HasItem
  <2>4. Group' /\ Slots' /\ Popups'
    BY <1>1, <2>1 DEF Tables, Group, Slots, Popups, IsPopup, groupVars, TypeOK
  <2>5. last'[c] = p /\ \A t \in Surfaces : t # c => last'[t] = last[t]
    BY <1>1, <1>5 DEF TypeOK
  <2>6. Belongs'
    BY <1>1, <2>1, <2>5 DEF Tables, Belongs, HasItem
  <2> QED
    BY <1>3, <2>1, <2>2, <2>3, <2>4, <2>6 DEF Tables
<1> QED
  BY <1>4, <1>5

\* What is left to show when a request changes the entries of one surface.
LEMMA TablesKept ==
  ASSUME IInv, NEW s \in Surfaces,
         UNCHANGED <<alive, parent, last, main_group, group_root>>, popup \subseteq popup',
         popup' \subseteq alive,
         \A t \in Surfaces : t # s => ov_popups'[t] = ov_popups[t] /\ layered'[t] = layered[t],
         \A t \in Surfaces : ov_items'[t].popup # ov_items[t].popup
                               => t = s /\ ov_items'[t].popup = s,
         s \in alive,
         layered'[s].used => layered[s].used /\ ~IsPopup(s)',
         layered'[s].used /\ layered'[s].committed => layered'[s].at = Origin,
         layered'[s].attached => layered'[s].used /\ layered'[s].committed /\ main_group # 0,
         IsPopup(s)' => s \in popup' \/ (s \in WindowChildren /\ parent[s] # None)
  PROVE  Tables'
<1> USE DEF IInv, Tables
<1>1. Roles' /\ Group'
  BY DEF Roles, Group
<1>2. Slots'
  BY DEF Slots, IsPopup
<1>3. Popups'
  BY DEF Popups, IsPopup
<1>4. Items' /\ Belongs'
  BY DEF Items, Belongs, HasItem
<1> QED
  BY <1>1, <1>2, <1>3, <1>4

LEMMA SetPositionStep ==
  ASSUME IInv, NEW c \in Children, NEW place \in Places, SetPosition(c, place)
  PROVE  IInv'
<1> USE DEF IInv
<1>1. /\ c \in Surfaces /\ c \in alive /\ parent[c] # None
      /\ spot' = [spot EXCEPT ![c] = place]
      /\ UNCHANGED <<alive, parent, popup, drawn, pending, last, groupVars>>
  BY Sorts DEF SetPosition, Tables, Roles
<1>2. main_group' \in 0..MaxGroups /\ popup \subseteq alive
  BY <1>1 DEF TypeOK, groupVars, Tables, Roles
<1>3. layered \in SlotTable /\ ov_popups \in PopupTable /\ ov_items \in ItemTable
  BY TableTypes
<1> DEFINE Changed ==
             /\ \A t \in Surfaces : t # c => ov_popups'[t] = ov_popups[t]
             /\ \A t \in Surfaces : ov_items'[t].popup # ov_items[t].popup
                                      => t = c /\ ov_items'[t].popup = c
             /\ ov_popups' \in PopupTable /\ ov_items' \in ItemTable
             /\ overlay_group' \in 0..MaxGroups /\ OverlayDrawn'
           Moved ==
             /\ \A t \in Surfaces : t # c => layered'[t] = layered[t]
             /\ layered' \in SlotTable
             /\ layered'[c].used => layered[c].used /\ ~IsPopup(c)'
             /\ layered'[c].used /\ layered'[c].committed => layered'[c].at = Origin
             /\ layered'[c].attached => layered'[c].used /\ layered'[c].committed /\ main_group # 0
             /\ IsPopup(c)' => c \in popup \/ c \in WindowChildren
<1>4. ASSUME Changed, Moved PROVE IInv'
  <2>1. TypeOK'
    BY <1>1, <1>4 DEF TypeOK, groupVars, PopupTable, ItemTable, ItemRecords, SlotTable, SlotRecords
  <2>2. Tables'
    BY <1>1, <1>2, <1>4, TablesKept DEF groupVars
  <2> QED
    BY <1>4, <2>1, <2>2
<1>5. CASE HasItem(c)
  <2>1. layered' = layered /\ ov_popups' = ov_popups
    BY <1>5 DEF SetPosition
  <2>2. Moved
    BY <1>1, <1>3, <2>1 DEF Tables, Slots, Popups, IsPopup
  <2>3. CASE ov_items' = ov_items /\ NoUpdate
    BY <1>2, <1>3, <1>4, <2>1, <2>2, <2>3, SameCanvas, NoUpdateKeeps
  <2>4. CASE ov_items' = [ov_items EXCEPT ![c].off = place] /\ Update
    <3>1. ov_items' \in ItemTable /\ \A t \in Surfaces : ov_items'[t].popup = ov_items[t].popup
      BY <1>3, <2>4 DEF ItemTable, ItemRecords
    <3> QED
      BY <1>2, <1>3, <1>4, <2>1, <2>2, <2>4, <3>1, UpdateDraws
  <2> QED
    BY <1>5, <2>3, <2>4 DEF SetPosition
<1>6. CASE ~HasItem(c) /\ IsPopup(c)
  <2>1. layered' = layered /\ PopupAt(c, place)
    BY <1>6 DEF SetPosition
  <2>2. Changed
    BY <1>1, <1>2, <2>1, PopupAtFacts
  <2>3. ~layered[c].used /\ (c \in popup \/ c \in WindowChildren)
    BY <1>1, <1>6 DEF Tables, Slots, Popups
  <2>4. Moved
    BY <1>1, <1>3, <2>1, <2>3 DEF Tables, Slots
  <2> QED
    BY <1>4, <2>2, <2>4
<1>7. CASE ~HasItem(c) /\ ~IsPopup(c)
  <2>1. CASE /\ layered[c].used /\ layered[c].committed /\ place # Origin
             /\ layered' = [layered EXCEPT ![c] = NoSlot]
             /\ PopupAt(c, place)
    <3>1. Changed
      BY <1>1, <1>2, <2>1, PopupAtFacts
    <3>2. c \in WindowChildren
      BY <1>1, <2>1 DEF Tables, Slots
    <3>3. Moved
      BY <1>1, <1>3, <2>1, <3>2, NewSlots DEF SlotTable
    <3> QED
      BY <1>4, <3>1, <3>3
  <2>2. CASE /\ ~(layered[c].used /\ layered[c].committed /\ place # Origin)
             /\ layered' = [layered EXCEPT ![c].at = IF layered[c].used THEN place ELSE Origin]
             /\ UNCHANGED <<ov_popups, ov_items>> /\ NoUpdate
    <3>1. Changed
      BY <1>2, <1>3, <2>2, SameCanvas, NoUpdateKeeps
    <3>2. layered[c] \in SlotRecords
      BY <1>1, <1>3 DEF SlotTable
    <3>3. layered' = [layered EXCEPT ![c] = layered'[c]] /\ layered'[c] \in SlotRecords
      BY <1>1, <1>3, <2>2, <3>2, SceneAssumption DEF SlotTable, SlotRecords
    <3>4. /\ layered'[c].used = layered[c].used
          /\ layered'[c].committed = layered[c].committed
          /\ layered'[c].attached = layered[c].attached
          /\ layered'[c].at = IF layered[c].used THEN place ELSE Origin
      BY <1>1, <1>3, <2>2, <3>2 DEF SlotTable, SlotRecords
    <3>5. Moved
      BY <1>1, <1>3, <1>7, <2>2, <3>3, <3>4 DEF SlotTable, Tables, Slots, IsPopup
    <3> QED
      BY <1>4, <3>1, <3>5
  <2> QED
    BY <1>7, <2>1, <2>2 DEF SetPosition
<1> QED
  BY <1>5, <1>6, <1>7

\* A request that changes only which buffers the items have leaves the rest as it was.
LEMMA BuffersStep ==
  ASSUME IInv,
         UNCHANGED <<alive, parent, popup, spot, drawn, last, groupVars, layered, ov_popups>>,
         NoUpdate, pending' \in [Surfaces -> Buffers \cup {None}],
         ov_items' \in ItemTable,
         \A t \in Surfaces : /\ ov_items'[t].popup = ov_items[t].popup
                             /\ ov_items'[t].off = ov_items[t].off
                             /\ ov_items'[t].pix = ov_items[t].pix
  PROVE  IInv'
<1> USE DEF IInv
<1>1. Canvas' = Canvas
  BY SameCanvas
<1>2. OverlayDrawn' /\ overlay_group' \in 0..MaxGroups
  BY <1>1, NoUpdateKeeps
<1>3. TypeOK'
  BY <1>2 DEF TypeOK, ItemTable, ItemRecords, groupVars
<1>4. Tables'
  BY DEF Tables, Roles, Group, Slots, Popups, Items, Belongs, IsPopup, HasItem, groupVars
<1> QED
  BY <1>2, <1>3, <1>4

LEMMA AttachStep ==
  ASSUME IInv, NEW s \in Surfaces, NEW buffer \in Buffers, Attach(s, buffer)
  PROVE  IInv'
<1> USE DEF IInv
<1>1. /\ pending' = [pending EXCEPT ![s] = buffer]
      /\ UNCHANGED <<alive, parent, popup, spot, drawn, last, groupVars, layered, ov_popups>>
      /\ NoUpdate
  BY DEF Attach
<1>2. ov_items' = ov_items \/ ov_items' = [ov_items EXCEPT ![s].pending = buffer]
  BY DEF Attach
<1>3. /\ ov_items' \in ItemTable
      /\ \A t \in Surfaces : /\ ov_items'[t].popup = ov_items[t].popup
                             /\ ov_items'[t].off = ov_items[t].off
                             /\ ov_items'[t].pix = ov_items[t].pix
  BY <1>2, TableTypes DEF ItemTable, ItemRecords
<1>4. pending' \in [Surfaces -> Buffers \cup {None}]
  BY <1>1 DEF TypeOK
<1> QED
  BY <1>1, <1>3, <1>4, BuffersStep

LEMMA BufferDestroyedStep ==
  ASSUME IInv, NEW s \in Surfaces, NEW current \in BOOLEAN, NEW attached \in BOOLEAN,
         BufferDestroyed(s, current, attached)
  PROVE  IInv'
<1> DEFINE item == [ov_items[s] EXCEPT !.current = IF current THEN Blank ELSE ov_items[s].current,
                                       !.pending = IF attached THEN Blank ELSE ov_items[s].pending]
<1> USE DEF IInv
<1>1. /\ pending' = [pending EXCEPT ![s] = IF attached THEN Blank ELSE pending[s]]
      /\ UNCHANGED <<alive, parent, popup, spot, drawn, last, groupVars, layered, ov_popups>>
      /\ NoUpdate
  BY DEF BufferDestroyed
<1>2. ov_items \in ItemTable /\ ov_items[s] \in ItemRecords
  BY TableTypes DEF ItemTable
<1>3. ov_items' = [ov_items EXCEPT ![s] = item]
  BY <1>2 DEF BufferDestroyed, ItemTable
<1>4. item \in ItemRecords /\ item.popup = ov_items[s].popup /\ item.off = ov_items[s].off
      /\ item.pix = ov_items[s].pix
  BY <1>2 DEF ItemRecords, Buffers
<1> HIDE DEF item
<1>5. /\ ov_items' \in ItemTable
      /\ \A t \in Surfaces : /\ ov_items'[t].popup = ov_items[t].popup
                             /\ ov_items'[t].off = ov_items[t].off
                             /\ ov_items'[t].pix = ov_items[t].pix
  BY <1>2, <1>3, <1>4 DEF ItemTable
<1>6. pending' \in [Surfaces -> Buffers \cup {None}]
  BY <1>1 DEF TypeOK, Buffers
<1> QED
  BY <1>1, <1>5, <1>6, BuffersStep

\* A copy is the same item with another buffer and picture.
LEMMA CopiedFacts ==
  ASSUME NEW item \in ItemRecords, NEW new \in Copied(item)
  PROVE  new \in ItemRecords /\ new.popup = item.popup
<1> DEFINE bare   == item.pending = None
           buffer == IF bare THEN item.current ELSE item.pending
           copies == IF buffer = Foreign THEN {item.pix}
                     ELSE IF bare /\ buffer # Blank THEN Pictures
                     ELSE {buffer}
<1>1. buffer \in Buffers
  BY DEF ItemRecords
<1>2. copies \subseteq Pictures \cup {Blank}
  BY <1>1 DEF ItemRecords, Buffers
<1> HIDE DEF copies, buffer
<1>3. PICK copy \in copies : new = [item EXCEPT !.current = buffer, !.pending = None, !.pix = copy]
  BY DEF Copied, copies, buffer
<1> QED
  BY <1>1, <1>2, <1>3 DEF ItemRecords

\* A commit that makes a pop-up of the surface, and every other one: what becomes of
\* the entries of the surface.
LEMMA CommitItems ==
  ASSUME IInv, NEW s \in Surfaces, NEW items \in ItemTable, Commit(s),
         \/ items = ov_items
         \/ ~HasItem(s) /\ items = [ov_items EXCEPT ![s] = Item(s)],
         \/ items[s].popup = None /\ ov_items' = items
         \/ /\ items[s].popup # None
            /\ \E item \in Copied(items[s]) : ov_items' = [items EXCEPT ![s] = item]
  PROVE  /\ ov_items' \in ItemTable
         /\ \A t \in Surfaces : t # s => ov_items'[t] = ov_items[t]
         /\ ov_items'[s].popup # ov_items[s].popup => ov_items'[s].popup = s
         /\ ov_items'[s].popup = items[s].popup
         /\ items[s].popup = None => ov_items' = ov_items
<1>1. s # None /\ Item(s).popup = s
  BY Sorts DEF Item, NoItem
<1>2. ov_items \in ItemTable /\ items[s] \in ItemRecords
  BY TableTypes DEF IInv, ItemTable
<1>3. CASE items[s].popup = None
  BY <1>1, <1>2, <1>3 DEF ItemTable
<1>4. CASE items[s].popup # None
  <2>1. PICK new \in Copied(items[s]) : ov_items' = [items EXCEPT ![s] = new]
    BY <1>4
  <2>2. new \in ItemRecords /\ new.popup = items[s].popup
    BY <1>2, CopiedFacts
  <2>3. \A t \in Surfaces : t # s => items[t] = ov_items[t]
    BY <1>2 DEF ItemTable
  <2>4. items[s].popup # ov_items[s].popup => items[s].popup = s
    BY <1>1, <1>2 DEF ItemTable
  <2> QED
    BY <1>4, <2>1, <2>2, <2>3, <2>4 DEF ItemTable
<1> QED
  BY <1>3, <1>4

LEMMA CommitStep ==
  ASSUME IInv, NEW s \in Surfaces, Commit(s)
  PROVE  IInv'
<1> DEFINE becomesPopup == FirstCommit(s) /\ layered[s].at # Origin
           room  == Cardinality({t \in Surfaces : IsPopup(t)}) < OV_ITEMS
           items == IF becomesPopup /\ room THEN ItemAdded(s, s) ELSE ov_items
           slot  == IF becomesPopup THEN NoSlot
                    ELSE IF FirstCommit(s)
                         THEN AttachSlot([layered[s] EXCEPT !.committed = TRUE], main_group)
                         ELSE layered[s]
<1> USE DEF IInv
<1>1. /\ s \in alive /\ (s \in Children => parent[s] # None)
      /\ drawn' \subseteq drawn \cup {s}
      /\ pending' = [pending EXCEPT ![s] = None]
      /\ UNCHANGED <<alive, parent, popup, spot, last, groupVars>>
      /\ layered' = [layered EXCEPT ![s] = slot]
      /\ ov_popups' = IF becomesPopup /\ room THEN [ov_popups EXCEPT ![s] = layered[s].at]
                      ELSE ov_popups
      /\ IF items[s].popup # None THEN Update ELSE NoUpdate
  BY DEF Commit
<1>2. layered \in SlotTable /\ ov_popups \in PopupTable /\ ov_items \in ItemTable
      /\ layered[s] \in SlotRecords
  BY TableTypes DEF SlotTable
<1>3. items \in ItemTable /\ (\/ items = ov_items
                              \/ ~HasItem(s) /\ items = [ov_items EXCEPT ![s] = Item(s)])
  BY <1>2, ItemAddedFacts
<1>4. /\ ov_items' \in ItemTable
      /\ \A t \in Surfaces : t # s => ov_items'[t] = ov_items[t]
      /\ ov_items'[s].popup # ov_items[s].popup => ov_items'[s].popup = s
      /\ ov_items'[s].popup = items[s].popup
      /\ items[s].popup = None => ov_items' = ov_items
  BY <1>3, CommitItems DEF Commit
<1>5. /\ slot \in SlotRecords
      /\ slot.used => layered[s].used /\ ~becomesPopup
      /\ slot.used /\ slot.committed => slot.at = Origin
      /\ slot.attached => slot.used /\ slot.committed /\ main_group # 0
  <2> DEFINE done == [layered[s] EXCEPT !.committed = TRUE]
  <2>1. /\ done \in SlotRecords /\ done.committed
        /\ done.used = layered[s].used /\ done.at = layered[s].at
        /\ done.attached = layered[s].attached
    BY <1>2 DEF SlotRecords
  <2>2. layered[s].attached => layered[s].used /\ layered[s].committed /\ main_group # 0
    BY DEF Tables, Slots
  <2>3. CASE becomesPopup
    BY <2>3, NewSlots
  <2>4. CASE ~becomesPopup /\ FirstCommit(s)
    <3>1. slot = AttachSlot(done, main_group)
      BY <2>4
    <3> HIDE DEF slot, done
    <3>2. /\ slot \in SlotRecords /\ slot.used = done.used /\ slot.committed = done.committed
          /\ slot.at = done.at /\ (slot.attached <=> done.attached \/ main_group # 0)
      BY <2>1, <3>1, SlotChanges
    <3> QED
      BY <2>1, <2>2, <2>4, <3>2 DEF FirstCommit
  <2>5. CASE ~becomesPopup /\ ~FirstCommit(s)
    BY <1>2, <2>2, <2>5 DEF Tables, Slots
  <2> QED
    BY <2>3, <2>4, <2>5
<1>6. main_group' \in 0..MaxGroups /\ popup \subseteq alive
  BY <1>1 DEF TypeOK, groupVars, Tables, Roles
<1>7. becomesPopup => s \in WindowChildren /\ parent[s] # None
  BY <1>1, Sorts DEF FirstCommit, Tables, Slots
<1>8. ov_popups' \in PopupTable
  BY <1>1, <1>2 DEF PopupTable, SlotRecords
<1> HIDE DEF slot
<1>9. layered' \in SlotTable /\ layered'[s] = slot
      /\ \A t \in Surfaces : t # s => layered'[t] = layered[t]
  BY <1>1, <1>2, <1>5 DEF SlotTable
<1>10. OverlayDrawn' /\ overlay_group' \in 0..MaxGroups
  <2>1. CASE items[s].popup # None
    BY <1>1, <1>6, <2>1, UpdateDraws
  <2>2. CASE items[s].popup = None
    <3>1. ov_items' = ov_items /\ ~HasItem(s) /\ NoUpdate
      BY <1>1, <1>4, <2>2 DEF HasItem
    <3>2. ASSUME NEW t \in Surfaces, HasItem(t)
          PROVE  IsPopup(ov_items[t].popup)' = IsPopup(ov_items[t].popup)
                 /\ ov_popups'[ov_items[t].popup] = ov_popups[ov_items[t].popup]
      <4>1. ov_items[t].popup \in Surfaces
        BY <1>2, <3>2 DEF ItemTable, ItemRecords, HasItem
      <4>2. CASE becomesPopup
        <5>1. ov_items[t].popup # s
          <6>1. s \notin Windows \cup Menus
            BY <1>7, <4>2, Sorts
          <6>2. ov_items[t].popup = t \/ ov_items[t].popup \in Windows \cup Menus
            BY <3>2 DEF Tables, Items, Owner
          <6> QED
            BY <3>1, <3>2, <6>1, <6>2
        <5> QED
          BY <1>1, <1>2, <3>1, <4>1, <5>1 DEF IsPopup, PopupTable
      <4>3. CASE ~becomesPopup
        BY <1>1, <3>1, <4>3 DEF IsPopup
      <4> QED
        BY <4>2, <4>3
    <3>3. Canvas' = Canvas
      BY <3>1, <3>2 DEF Canvas, HasItem, IsPopup
    <3> QED
      BY <3>1, <3>3, NoUpdateKeeps
  <2> QED
    BY <2>1, <2>2
<1>11. TypeOK'
  <2>1. drawn' \subseteq Surfaces /\ pending' \in [Surfaces -> Buffers \cup {None}]
    BY <1>1 DEF TypeOK
  <2> QED
    BY <1>1, <1>4, <1>8, <1>9, <1>10, <2>1
       DEF TypeOK, groupVars, PopupTable, ItemTable, ItemRecords, SlotTable, SlotRecords
<1>12. Tables'
  <2>1. \A t \in Surfaces : t # s => ov_popups'[t] = ov_popups[t]
    BY <1>1, <1>2 DEF PopupTable
  <2>2. /\ slot.used => ~IsPopup(s)'
        /\ IsPopup(s)' => s \in popup' \/ (s \in WindowChildren /\ parent[s] # None)
    BY <1>1, <1>2, <1>5, <1>7 DEF IsPopup, PopupTable, Tables, Slots, Popups
  <2> QED
    BY <1>1, <1>4, <1>5, <1>6, <1>9, <2>1, <2>2, TablesKept DEF groupVars
<1> QED
  BY <1>10, <1>11, <1>12

LEMMA GetPopupStep ==
  ASSUME IInv, NEW m \in Menus, NEW place \in Places, GetPopup(m, place) \/ Reposition(m, place)
  PROVE  IInv'
<1> USE DEF IInv
<1>1. m \in Surfaces /\ m \in alive /\ m \in popup' /\ popup' = popup \cup {m}
  BY Sorts DEF GetPopup, Reposition, Tables, Roles
<1>2. /\ spot' = [spot EXCEPT ![m] = place]
      /\ UNCHANGED <<alive, parent, drawn, pending, last, groupVars, layered>>
      /\ PopupAt(m, place) \/ (UNCHANGED <<ov_popups, ov_items>> /\ NoUpdate)
  BY DEF GetPopup, Reposition
<1>3. main_group' \in 0..MaxGroups /\ popup \subseteq alive
  BY <1>2 DEF TypeOK, groupVars, Tables, Roles
<1>4. /\ ov_popups' \in PopupTable /\ ov_items' \in ItemTable
      /\ overlay_group' \in 0..MaxGroups /\ OverlayDrawn'
      /\ \A t \in Surfaces : t # m => ov_popups'[t] = ov_popups[t]
      /\ \A t \in Surfaces : ov_items'[t].popup # ov_items[t].popup
                               => t = m /\ ov_items'[t].popup = m
  <2>1. CASE PopupAt(m, place)
    BY <1>1, <1>3, <2>1, PopupAtFacts
  <2>2. CASE UNCHANGED <<ov_popups, ov_items>> /\ NoUpdate
    BY <2>2, TableTypes, SameCanvas, NoUpdateKeeps
  <2> QED
    BY <1>2, <2>1, <2>2
<1>5. TypeOK'
  BY <1>1, <1>2, <1>4 DEF TypeOK, groupVars, PopupTable, ItemTable, ItemRecords
<1>6. ~layered[m].used /\ ~layered[m].attached
  BY <1>1, Sorts DEF Tables, Slots
<1>7. Tables'
  BY <1>1, <1>2, <1>3, <1>4, <1>6, TablesKept DEF groupVars
<1> QED
  BY <1>4, <1>5, <1>7

\* A pop-up goes, or what was none is left alone.
LEMMA GoneFacts ==
  ASSUME IInv, NEW s \in Surfaces, main_group' \in 0..MaxGroups,
         IF IsPopup(s) THEN PopupGone(s) ELSE UNCHANGED <<ov_popups, ov_items>> /\ NoUpdate
  PROVE  /\ ov_popups' \in PopupTable
         /\ ov_items' \in ItemTable
         /\ overlay_group' \in 0..MaxGroups
         /\ OverlayDrawn'
         /\ ~IsPopup(s)'
         /\ \A t \in Surfaces : t # s => ov_popups'[t] = ov_popups[t]
         /\ \A t \in Surfaces : ov_items'[t].popup \in {None, ov_items[t].popup}
<1> USE DEF IInv
<1>1. CASE IsPopup(s)
  BY <1>1, PopupGoneFacts
<1>2. CASE ~IsPopup(s)
  BY <1>2, TableTypes, SameCanvas, NoUpdateKeeps DEF IsPopup
<1> QED
  BY <1>1, <1>2

LEMMA DestroyPopupStep ==
  ASSUME IInv, NEW m \in Menus, DestroyPopup(m)
  PROVE  IInv'
<1> USE DEF IInv
<1>1. /\ m \in Surfaces /\ popup' = popup \ {m}
      /\ UNCHANGED <<alive, parent, spot, drawn, pending, last, groupVars, layered>>
  BY Sorts DEF DestroyPopup
<1>2. main_group' \in 0..MaxGroups
  BY <1>1 DEF TypeOK, groupVars
<1>3. /\ ov_popups' \in PopupTable /\ ov_items' \in ItemTable
      /\ overlay_group' \in 0..MaxGroups /\ OverlayDrawn'
      /\ ~IsPopup(m)'
      /\ \A t \in Surfaces : t # m => ov_popups'[t] = ov_popups[t]
      /\ \A t \in Surfaces : ov_items'[t].popup \in {None, ov_items[t].popup}
  BY <1>1, <1>2, GoneFacts DEF DestroyPopup
<1>4. TypeOK'
  BY <1>1, <1>3 DEF TypeOK, groupVars, PopupTable, ItemTable, ItemRecords
<1>5. Roles' /\ Group' /\ Items' /\ Belongs'
  BY <1>1, <1>3 DEF Tables, Roles, Group, Items, Belongs, HasItem, groupVars
<1>6. Slots' /\ Popups'
  BY <1>1, <1>3 DEF Tables, Slots, Popups, IsPopup, groupVars
<1> QED
  BY <1>3, <1>4, <1>5, <1>6 DEF Tables

LEMMA DestroySubsurfaceStep ==
  ASSUME IInv, NEW c \in Children, DestroySubsurface(c)
  PROVE  IInv'
<1> USE DEF IInv
<1>1. /\ c \in Surfaces /\ parent' = [parent EXCEPT ![c] = None]
      /\ layered' = [layered EXCEPT ![c] = DetachSlot(layered[c])]
      /\ UNCHANGED <<alive, popup, spot, drawn, pending, last, groupVars>>
  BY Sorts DEF DestroySubsurface
<1>2. main_group' \in 0..MaxGroups
  BY <1>1 DEF TypeOK, groupVars
<1>3. /\ ov_popups' \in PopupTable /\ ov_items' \in ItemTable
      /\ overlay_group' \in 0..MaxGroups /\ OverlayDrawn'
      /\ ~IsPopup(c)'
      /\ \A t \in Surfaces : t # c => ov_popups'[t] = ov_popups[t]
      /\ \A t \in Surfaces : ov_items'[t].popup \in {None, ov_items[t].popup}
  BY <1>1, <1>2, GoneFacts DEF DestroySubsurface
<1>4. /\ layered' \in SlotTable
      /\ \A t \in Surfaces : t # c => layered'[t] = layered[t]
      /\ ~layered'[c].attached
      /\ layered'[c].used = layered[c].used
      /\ layered'[c].committed = layered[c].committed
      /\ layered'[c].at = layered[c].at
  BY <1>1, TableTypes, SlotChanges DEF SlotTable
<1>5. TypeOK'
  BY <1>1, <1>3, <1>4 DEF TypeOK, groupVars, PopupTable, ItemTable, ItemRecords, SlotTable,
                          SlotRecords
<1>6. Roles' /\ Group' /\ Items' /\ Belongs'
  BY <1>1, <1>3 DEF TypeOK, Tables, Roles, Group, Items, Belongs, HasItem, groupVars
<1>7. Slots'
  BY <1>1, <1>3, <1>4 DEF Tables, Slots, IsPopup, groupVars
<1>8. Popups'
  BY <1>1, <1>3 DEF TypeOK, Tables, Popups, IsPopup
<1> QED
  BY <1>3, <1>5, <1>6, <1>7, <1>8 DEF Tables

LEMMA DestroySurfaceStep ==
  ASSUME IInv, NEW s \in Surfaces, DestroySurface(s)
  PROVE  IInv'
<1> DEFINE dropped == main_group # 0 /\ group_root = s
           table == [layered EXCEPT ![s] = NoSlot]
<1> USE DEF IInv
<1>1. /\ s \in alive /\ s \notin popup /\ parent[s] = None
      /\ \A c \in Surfaces : parent[c] # s
      /\ alive' = alive \ {s}
      /\ spot' = [spot EXCEPT ![s] = Origin]
      /\ drawn' = drawn \ {s}
      /\ pending' = [pending EXCEPT ![s] = None]
      /\ last' = [t \in Surfaces |-> IF t = s \/ last[t] = s THEN None ELSE last[t]]
      /\ UNCHANGED <<parent, popup, main_surface, groups_made>>
      /\ layered' = IF dropped THEN AllDetached(table) ELSE table
      /\ main_group' = IF dropped THEN 0 ELSE main_group
      /\ group_root' = IF dropped THEN None ELSE group_root
  BY DEF DestroySurface
<1>2. ~IsPopup(s)
  BY <1>1 DEF Tables, Popups
<1>3. /\ ov_items' = [ov_items EXCEPT ![s] = NoItem] /\ ov_popups' = ov_popups
      /\ IF HasItem(s) THEN Update ELSE NoUpdate
  BY <1>2 DEF DestroySurface
<1>4. main_group' \in 0..MaxGroups
  BY <1>1, SceneAssumption DEF TypeOK
<1>5. /\ ov_items' \in ItemTable /\ ~HasItem(s)'
      /\ \A t \in Surfaces : t # s => ov_items'[t] = ov_items[t]
  BY <1>3, TableTypes, SceneAssumption DEF ItemTable, ItemRecords, NoItem, HasItem, Buffers
<1>6. OverlayDrawn' /\ overlay_group' \in 0..MaxGroups
  <2>1. CASE HasItem(s)
    BY <1>3, <1>4, <2>1, UpdateDraws
  <2>2. CASE ~HasItem(s)
    <3>1. Canvas' = Canvas
      BY <1>3, <1>5, <2>2, SameCanvas
    <3> QED
      BY <1>3, <2>2, <3>1, NoUpdateKeeps
  <2> QED
    BY <2>1, <2>2
<1>7. table \in SlotTable /\ ~table[s].used /\ ~table[s].attached
      /\ \A t \in Surfaces : t # s => table[t] = layered[t]
  BY TableTypes, NewSlots DEF SlotTable
<1> HIDE DEF table
<1>8. /\ layered' \in SlotTable
      /\ \A t \in Surfaces : /\ layered'[t].used = table[t].used
                             /\ layered'[t].committed = table[t].committed
                             /\ layered'[t].at = table[t].at
                             /\ layered'[t].attached => table[t].attached /\ ~dropped
  BY <1>1, <1>7, AllDetachedFacts
<1>9. TypeOK'
  <2>1. /\ spot' \in [Surfaces -> Places]
        /\ drawn' \subseteq Surfaces
        /\ pending' \in [Surfaces -> Buffers \cup {None}]
        /\ last' \in [Surfaces -> Surfaces \cup {None}]
        /\ group_root' \in Windows \cup {None}
    BY <1>1, SceneAssumption DEF TypeOK
  <2> QED
    BY <1>1, <1>3, <1>4, <1>5, <1>6, <1>8, <2>1
       DEF TypeOK, ItemTable, ItemRecords, SlotTable, SlotRecords
<1>10. Roles' /\ Group'
  BY <1>1 DEF Tables, Roles, Group
<1>11. Slots'
  BY <1>1, <1>3, <1>7, <1>8 DEF Tables, Slots, IsPopup
<1>12. Popups' /\ Items'
  BY <1>1, <1>3, <1>5 DEF Tables, Popups, Items, IsPopup, HasItem
<1>13. Belongs'
  <2>1. \A t \in Surfaces : last'[t] # None => last'[t] = last[t] /\ t # s /\ last[t] # s
    BY <1>1
  <2> QED
    BY <1>1, <1>5, <2>1 DEF Tables, Belongs, HasItem
<1> QED
  BY <1>6, <1>9, <1>10, <1>11, <1>12, <1>13 DEF Tables

-----------------------------------------------------------------------------
(* The theorems. *)

LEMMA InitInv == Init => IInv
<1> SUFFICES ASSUME Init PROVE IInv
  OBVIOUS
<1>1. NoSlot \in SlotRecords /\ NoItem \in ItemRecords /\ NoItem.popup = None /\ ~NoSlot.used
      /\ ~NoSlot.attached
  BY NewSlots, SceneAssumption DEF NoItem, ItemRecords, Buffers
<1>2. TypeOK
  BY <1>1, SceneAssumption DEF Init, TypeOK, SlotRecords, ItemRecords
<1>3. Tables
  BY <1>1 DEF Init, Tables, Roles, Group, Slots, Popups, Items, Belongs, IsPopup, HasItem
<1>4. OverlayDrawn
  BY DEF Init, OverlayDrawn
<1> QED
  BY <1>2, <1>3, <1>4 DEF IInv

LEMMA InvStep == IInv /\ [Next]_sceneVars => IInv'
<1> SUFFICES ASSUME IInv, [Next]_sceneVars PROVE IInv'
  OBVIOUS
<1>1. CASE UNCHANGED sceneVars
  BY <1>1 DEF sceneVars, clientVars, groupVars, tableVars, IInv, TypeOK, Tables, Roles, Group, Slots,
              Popups, Items, Belongs, IsPopup, HasItem, OverlayDrawn, Canvas
<1>2. CASE Next
  BY <1>2, NewSurfaceStep, GetToplevelStep, CommitStep, DestroySurfaceStep, AttachStep,
     BufferDestroyedStep, GetSubsurfaceStep, SetPositionStep, GetPopupStep, DestroyPopupStep, DestroySubsurfaceStep DEF Next
<1> QED
  BY <1>1, <1>2

LEMMA InvHolds == Spec => []IInv
BY InitInv, InvStep, PTL DEF Spec

\* The client's objects, the group and the three tables keep their types.
THEOREM TypeCorrect == Spec => []TypeOK
<1>1. IInv => TypeOK
  BY DEF IInv
<1> QED
  BY <1>1, InvHolds, PTL

\* A layer is shown only in a group whose window is there, once it has drawn, at its
\* origin: through the group's drops and new makings, and whatever order positions and
\* first commits come in.
THEOREM LayersStayInGroup == Spec => []LayersInGroup
<1>1. IInv => LayersInGroup
  BY DEF IInv, Tables, Slots, Group, LayersInGroup
<1> QED
  BY <1>1, InvHolds, PTL

\* No surface is shown twice, as a layer and in the overlay.
THEOREM NothingShownTwice == Spec => []ShownOnce
<1>1. IInv => ShownOnce
  <2> SUFFICES ASSUME IInv, NEW s \in Surfaces, layered[s].attached, Canvas[s] # Blank
               PROVE  FALSE
    BY DEF ShownOnce
  <2>1. HasItem(s) /\ IsPopup(ov_items[s].popup)
    BY DEF Canvas
  <2>2. s \in WindowChildren /\ ~IsPopup(s)
    BY DEF IInv, Tables, Slots
  <2>3. ov_items[s].popup = s \/ ov_items[s].popup \in Windows
    BY <2>1, <2>2, Sorts DEF IInv, Tables, Items, Owner
  <2>4. \A w \in Windows : ~IsPopup(w)
    BY Sorts DEF IInv, TypeOK, Tables, Popups
  <2> QED
    BY <2>1, <2>2, <2>3, <2>4
<1> QED
  BY <1>1, InvHolds, PTL

\* No table has an entry of a destroyed surface, and an entry that names the surface it
\* is drawn in names the one its client put it in last, as long as that lives.  That it
\* may go on naming one that is destroyed is not excluded: the code does that.
THEOREM TablesForget == Spec => []NothingStale
<1>1. IInv => NothingStale
  BY DEF IInv, Tables, Roles, Slots, Popups, Items, Belongs, NothingStale
<1> QED
  BY <1>1, InvHolds, PTL

\* What the overlay shows is what the tables say.
THEOREM OverlayIsDrawn == Spec => []OverlayDrawn
<1>1. IInv => OverlayDrawn
  BY DEF IInv
<1> QED
  BY <1>1, InvHolds, PTL

=============================================================================
