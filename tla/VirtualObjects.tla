---------------------------- MODULE VirtualObjects ----------------------------
(***************************************************************************)
(* The adapter's stand-ins for protocol objects that the compositor does   *)
(* not have (src/src/webos-xdg.c, "virt_get" to "emit_toplevel_configure"  *)
(* and "virt_request"): xdg_surfaces, toplevels, pop-ups and the rest are  *)
(* wl_proxies that only libwayland knows, with an entry each in a table of *)
(* fixed length.  An entry is found by the address of its proxy; freeing   *)
(* one clears the address alone, so what else it held stays until another  *)
(* object takes the entry.  wl_registries have entries too, which nobody   *)
(* frees.                                                                  *)
(*                                                                         *)
(* Pop-ups are placed along one axis; the code does the same for each.     *)
(* Objects whose requests do nothing here (positioners, data devices ...)  *)
(* are of kind "other".                                                    *)
(***************************************************************************)
EXTENDS Integers

CONSTANTS
    Objects,        \* addresses of virtual proxies
    Registries,     \* addresses of wl_registry proxies
    Surfaces,       \* the client's wl_surfaces
    NoObject,
    NoSurface,
    MAX_VIRT,
    Positioners,    \* what pop-ups ask for: at, length, anchor, gravity, size, offset
    Window,         \* geo_w, or geo_h
    Submenus,       \* bound: surfaces that are pop-ups on pop-ups and nothing else,
    SubmenuObjects, \* and the addresses that their objects have, and no others
    Casts,          \* bound: sets of surfaces and registries, in one of which are all that
                    \* the table names
    HandlersAct     \* GTK's configure handlers may make and destroy shell objects

ASSUME VirtConstants ==
    /\ MAX_VIRT \in Nat
    /\ NoObject \notin Objects \cup Registries
    /\ NoSurface \notin Surfaces
    /\ Positioners \subseteq [at : Int, length : Nat, size : Int, offset : Int,
                             anchor : {"start", "middle", "end"},
                             gravity : {"start", "middle", "end"}]
    /\ Window \in Nat
    /\ HandlersAct \in BOOLEAN

VARIABLES
    virts,          \* g.virts
    object,         \* the client's view of each address
    emitting        \* the object whose configure GTK handles, or none

vars == <<virts, object, emitting>>

Slots == 1..MAX_VIRT

\* An entry after memset.
Entry(o, kind, s) ==
    [proxy |-> o, kind |-> kind, wl_surface |-> s, listener |-> FALSE,
     configured |-> FALSE, popup_x |-> 0, abs_x |-> 0, p_w |-> 0]

\* An address no object is at.
Unused == [state |-> "none", kind |-> "other", surface |-> NoSurface, parent |-> NoSurface,
           listener |-> FALSE, owed |-> FALSE]

Init ==
    /\ virts = [i \in Slots |-> Entry(NoObject, "registry", NoSurface)]
    /\ object = [o \in Objects \cup Registries |-> Unused]
    /\ emitting = NoObject

-----------------------------------------------------------------------------
(* The table. *)

\* virt_get: i is the first entry of the object's address.
Gets(o, i) == virts[i].proxy = o /\ \A j \in Slots : j < i => virts[j].proxy # o

Free == {i \in Slots : virts[i].proxy = NoObject}

\* Mutant: the last free entry is taken.
TakesLast(i) == i \in Free /\ \A j \in Free : j <= i

\* virt_add takes the first free entry.
Takes(i) == i \in Free /\ \A j \in Free : i <= j

\* new_virt: a proxy, and an entry if there is a free one.
Added(e) ==
    \/ \E i \in Slots : Takes(i) /\ virts' = [virts EXCEPT ![i] = e]
    \/ Free = {} /\ UNCHANGED virts

\* The search for a role's xdg_surface: by kind and surface, of entries in use and
\* freed ones alike.
SurfaceEntry(s, j) ==
    /\ virts[j].kind = "surface" /\ virts[j].wl_surface = s
    /\ \A k \in Slots : k < j => ~(virts[k].kind = "surface" /\ virts[k].wl_surface = s)

-----------------------------------------------------------------------------
(* Places. *)

\* anchor_point, along one axis.
AnchorPoint(pos) ==
    pos.at + (CASE pos.anchor = "start"  -> 0
                [] pos.anchor = "middle" -> pos.length \div 2
                [] pos.anchor = "end"    -> pos.length)

Size(pos) == IF pos.size > 0 THEN pos.size ELSE 1

\* place_popup before it looks at the window.
Asked(pos) ==
    AnchorPoint(pos) + pos.offset -
        (CASE pos.gravity = "start"  -> Size(pos)
           [] pos.gravity = "middle" -> Size(pos) \div 2
           [] pos.gravity = "end"    -> 0)

\* Its last lines: kept in the window, as if the parent were at its origin.
Place(pos) ==
    LET x == IF Asked(pos) + Size(pos) > Window THEN Window - Size(pos) ELSE Asked(pos)
    IN  IF x < 0 THEN 0 ELSE x

\* A live pop-up of the surface.
IsPopupOf(s, j) ==
    virts[j].proxy # NoObject /\ virts[j].kind = "popup" /\ virts[j].wl_surface = s

\* Mutant: pop-ups on pop-ups are placed as if these were the window.
WindowAbs(s) == 0

\* The absolute place of a parent: the first such pop-up's, or the window's.
ParentAbs(s) ==
    IF \E j \in Slots : IsPopupOf(s, j)
    THEN virts[CHOOSE j \in Slots :
                 IsPopupOf(s, j) /\ \A k \in Slots : k < j => ~IsPopupOf(s, k)].abs_x
    ELSE 0

-----------------------------------------------------------------------------
(* The client makes objects. *)

\* The table may come to name a surface, or a registry.
MayName(x) ==
    \E cast \in Casts :
        {x} \cup {virts[i].wl_surface : i \in {j \in Slots : virts[j].wl_surface # NoSurface}}
            \cup ({virts[i].proxy : i \in Slots} \cap Registries) \subseteq cast

\* Outside of GTK's configure handlers, unless these may.
Calm == emitting = NoObject \/ HandlersAct

Live(o) == object[o].state = "live"

\* The client's view of a new object.
Born(o, kind, s, p) ==
    object' = [object EXCEPT ![o] = [state |-> "live", kind |-> kind, surface |-> s, parent |-> p,
                                     listener |-> FALSE, owed |-> kind \in {"popup", "toplevel"}]]

Unborn(o) == Calm /\ object[o].state = "none"

\* The surface has an xdg_surface (and a role of a kind) that is not destroyed.
Has(s, kinds) ==
    \E o \in Objects : Live(o) /\ object[o].surface = s /\ object[o].kind \in kinds

Roles == {"popup", "toplevel"}

\* xdg_wm_base.get_xdg_surface.
GetXdgSurface(o, s) ==
    /\ Unborn(o)
    /\ o \in SubmenuObjects <=> s \in Submenus
    /\ MayName(s)
    /\ s \in Submenus => \E t \in Surfaces : Has(t, {"popup"})
    /\ ~Has(s, {"surface"})
    /\ Added(Entry(o, "surface", s))
    /\ Born(o, "surface", s, NoSurface)
    /\ UNCHANGED emitting

\* A positioner, a data device and the like.
CreateOther(o) ==
    /\ Unborn(o) /\ o \notin SubmenuObjects
    /\ Added(Entry(o, "other", NoSurface))
    /\ Born(o, "other", NoSurface, NoSurface)
    /\ UNCHANGED emitting

\* The request reaches virt_request, of an entry of its kind.
Requested(o, kind, i) == Live(o) /\ Gets(o, i) /\ virts[i].kind = kind

\* GTK makes a role of an xdg_surface it listens to and that has none.
Roleless(x, i) ==
    Requested(x, "surface", i) /\ virts[i].listener /\ ~Has(virts[i].wl_surface, Roles)

\* xdg_surface.get_toplevel; map_main_surface's requests to the compositor are left out.
GetToplevel(o, x) ==
    /\ Unborn(o) /\ o \notin SubmenuObjects
    /\ \E i \in Slots :
         /\ Roleless(x, i) /\ virts[i].wl_surface \notin Submenus
         /\ Added(Entry(o, "toplevel", virts[i].wl_surface))
         /\ Born(o, "toplevel", virts[i].wl_surface, NoSurface)
    /\ UNCHANGED emitting

\* xdg_surface.get_popup on a surface with a role.
GetPopup(o, x, s, pos) ==
    /\ Unborn(o)
    /\ Has(s, Roles)
    /\ \E i \in Slots :
         /\ Roleless(x, i)
         /\ o \in SubmenuObjects <=> virts[i].wl_surface \in Submenus
         /\ o \in SubmenuObjects => Has(s, {"popup"})
         /\ Added([Entry(o, "popup", virts[i].wl_surface) EXCEPT
                     !.popup_x = Place(pos), !.p_w = Size(pos),
                     !.abs_x = ParentAbs(s) + Place(pos)])
         /\ Born(o, "popup", virts[i].wl_surface, s)
    /\ UNCHANGED emitting

-----------------------------------------------------------------------------
(* Listeners and configure. *)

\* emit_popup_configure and emit_toplevel_configure, up to GTK's handlers.  v is
\* the entry with what the caller has stored in it.
Emit(o, i, v) ==
    /\ virts' = [virts EXCEPT ![i] = v]
    /\ emitting' = IF emitting # NoObject \/ ~v.listener \/ (v.kind = "popup" /\ v.configured)
                   THEN emitting ELSE o

\* Mutant: GTK listens, and is not answered.
ReadyUnanswered(o, i, v) == virts' = [virts EXCEPT ![i] = v] /\ UNCHANGED emitting

\* webos_xdg_listener_ready.
Ready(o, i, v) ==
    IF v.kind \in Roles
    THEN Emit(o, i, v)
    ELSE virts' = [virts EXCEPT ![i] = v] /\ UNCHANGED emitting

\* wl_proxy_add_listener on a virtual object.
AddListener(o) ==
    /\ Calm
    /\ Live(o) /\ ~object[o].listener
    /\ \E i \in Slots :
         /\ Gets(o, i) /\ virts[i].kind # "registry"
         /\ Ready(o, i, [virts[i] EXCEPT !.listener = TRUE])
    /\ object' = [object EXCEPT ![o].listener = TRUE]

\* GTK's handlers of role and xdg_surface return: they were called if an
\* xdg_surface with a listener was found.
Configured ==
    /\ emitting # NoObject
    /\ \E i \in Slots : Gets(emitting, i) /\ virts' = [virts EXCEPT ![i].configured = TRUE]
    /\ object' =
         IF \E j \in Slots : SurfaceEntry(object[emitting].surface, j) /\ virts[j].listener
         THEN [object EXCEPT ![emitting].owed = FALSE]
         ELSE object
    /\ emitting' = NoObject

\* xdg_toplevel.set_fullscreen or set_maximized: the state does not change, the
\* client gets the configure it waits for.
SetState(o) ==
    /\ Calm
    /\ \E i \in Slots : Requested(o, "toplevel", i) /\ Emit(o, i, virts[i])
    /\ object' = [object EXCEPT ![o].owed = TRUE]

\* A pop-up's entry after it is placed anew.
Moved(v, pos) ==
    [v EXCEPT !.popup_x = Place(pos), !.p_w = Size(pos), !.configured = FALSE,
              !.abs_x = @ + Place(pos) - v.popup_x]

\* Pop-ups may be open on this one.
IsParent(o) ==
    \E c \in Objects : Live(c) /\ object[c].kind = "popup" /\ object[c].parent = object[o].surface

\* xdg_popup.reposition.  GTK moves its newest pop-up only.
Reposition(o, pos) ==
    /\ Calm
    /\ ~IsParent(o)
    /\ object[o].listener
    /\ \E i \in Slots :
         /\ Requested(o, "popup", i)
         /\ Emit(o, i, Moved(virts[i], pos))
    /\ object' = [object EXCEPT ![o].owed = TRUE]

-----------------------------------------------------------------------------
(* Objects go. *)

\* Mutant: the entry stays in use.
StillThere(i) == UNCHANGED virts

\* virt_teardown: the entry is free, and keeps what it held.  Of that only an
\* xdg_surface's kind and surface are read again before memset; the rest is dropped.
Teardown(i) ==
    virts' = [virts EXCEPT ![i] =
                IF @.kind = "surface" THEN Entry(NoObject, "surface", @.wl_surface)
                                      ELSE Entry(NoObject, "registry", NoSurface)]

\* The client's order: a role goes before its xdg_surface, pop-ups before the
\* pop-up they are open on.
MayGo(o) ==
    CASE object[o].kind = "surface" -> ~Has(object[o].surface, Roles)
      [] object[o].kind \in Roles   -> ~IsParent(o) /\ emitting # o
      [] OTHER                      -> TRUE

\* The destructor request: with WL_MARSHAL_FLAG_DESTROY it frees the proxy as well.
DestroyRequest(o, flag) ==
    /\ Calm
    /\ Live(o) /\ object[o].kind # "registry"
    /\ MayGo(o)
    /\ \E i \in Slots : Gets(o, i) /\ virts[i].kind # "registry" /\ Teardown(i)
    /\ object' = [object EXCEPT ![o] = IF flag THEN Unused ELSE [Unused EXCEPT !.state = "undone"]]
    /\ UNCHANGED emitting

\* webos_xdg_virtual_destroyed: wl_proxy_destroy, after the request, or by itself.
ProxyDestroy(o) ==
    /\ Calm
    /\ object[o].state = "undone" \/ (Live(o) /\ object[o].kind = "other")
    /\ \/ \E i \in Slots : Gets(o, i) /\ Teardown(i)
       \/ (\A i \in Slots : virts[i].proxy # o) /\ UNCHANGED virts
    /\ object' = [object EXCEPT ![o] = Unused]
    /\ UNCHANGED emitting

\* Firefox, GTK or the driver listens to a wl_registry: an entry is made, or the
\* one of its address used again.
ListenRegistry(r) ==
    /\ Calm /\ MayName(r)
    /\ object[r].state = "none"
    /\ \/ \E i \in Slots : Gets(r, i) /\ virts' = [virts EXCEPT ![i].listener = TRUE]
       \/ /\ \A i \in Slots : virts[i].proxy # r
          /\ Added([Entry(r, "registry", NoSurface) EXCEPT !.listener = TRUE])
    /\ Born(r, "registry", NoSurface, NoSurface)
    /\ UNCHANGED emitting

\* ... and destroys it, which the adapter does not see.
DestroyRegistry(r) ==
    /\ Calm
    /\ Live(r) /\ object[r].kind = "registry"
    /\ object' = [object EXCEPT ![r] = Unused]
    /\ UNCHANGED <<virts, emitting>>

-----------------------------------------------------------------------------

Next ==
    \/ \E o \in Objects :
         \/ CreateOther(o) \/ AddListener(o) \/ SetState(o) \/ ProxyDestroy(o)
         \/ \E s \in Surfaces : GetXdgSurface(o, s)
         \/ \E x \in Objects :
              \/ GetToplevel(o, x)
              \/ \E s \in Surfaces, pos \in Positioners : GetPopup(o, x, s, pos)
         \/ \E pos \in Positioners : Reposition(o, pos)
         \/ \E flag \in BOOLEAN : DestroyRequest(o, flag)
    \/ \E r \in Registries : ListenRegistry(r) \/ DestroyRegistry(r)
    \/ Configured

Spec == Init /\ [][Next]_vars

-----------------------------------------------------------------------------
(* Properties. *)

Kinds == {"registry", "surface", "toplevel", "popup", "other"}

Entries ==
    [proxy : Objects \cup Registries \cup {NoObject}, kind : Kinds,
     wl_surface : Surfaces \cup {NoSurface}, listener : BOOLEAN, configured : BOOLEAN,
     popup_x : Nat, abs_x : Int, p_w : Nat]

ClientObjects ==
    [state : {"none", "live", "undone"}, kind : Kinds, surface : Surfaces \cup {NoSurface},
     parent : Surfaces \cup {NoSurface}, listener : BOOLEAN, owed : BOOLEAN]

\* The values the variables take.
TypeOK ==
    /\ virts \in [Slots -> Entries]
    /\ object \in [Objects \cup Registries -> ClientObjects]
    /\ emitting \in Objects \cup {NoObject}

\* While an object lives its address finds its own entry, and no entry has the
\* address of an object that is gone: a request of the client is never taken for
\* another object's, nor sent to the compositor that knows nothing of the object.
OwnEntry ==
    \A o \in Objects :
        IF Live(o)
        THEN \E i \in Slots : Gets(o, i) /\ virts[i].kind = object[o].kind
                              /\ virts[i].wl_surface = object[o].surface
                              /\ virts[i].listener = object[o].listener
        ELSE \A i \in Slots : virts[i].proxy # o

\* A role's configure goes to the xdg_surface it belongs to, though the search
\* looks at freed entries and these still name their surfaces.
LiveSurfaceFound ==
    \A o \in Objects :
        Live(o) /\ object[o].kind \in Roles =>
            \E j \in Slots : SurfaceEntry(object[o].surface, j) /\ virts[j].proxy # NoObject

\* GTK gets the configure it waits for before it maps or moves a pop-up.
ConfiguresCome ==
    \A o \in Objects :
        Live(o) /\ object[o].listener /\ emitting # o => ~object[o].owed

\* The entries of the pop-up that a pop-up is open on, as its client knows it.
ParentPopups(o) ==
    {j \in Slots : \E p \in Objects : /\ Live(p) /\ object[p].kind = "popup"
                                     /\ object[p].surface = object[o].parent
                                     /\ Gets(p, j)}

\* A pop-up is where its parent is and GTK was told it is in that: abs_x, by which
\* webOS 4 draws it and clicks find it, follows what configure says, for pop-ups on
\* the window and pop-ups on pop-ups.
PlacedWhereTold ==
    \A o \in Objects, i \in Slots :
        Live(o) /\ object[o].kind = "popup" /\ Gets(o, i) =>
            /\ ParentPopups(o) = {} => virts[i].abs_x = virts[i].popup_x
            /\ \A j \in ParentPopups(o) : virts[i].abs_x = virts[j].abs_x + virts[i].popup_x

\* place_popup "keep[s] it on screen": a pop-up that fits is within the window.
OnScreen ==
    \A i \in Slots :
        virts[i].proxy # NoObject /\ virts[i].kind = "popup" /\ virts[i].p_w <= Window =>
        virts[i].abs_x >= 0 /\ virts[i].abs_x + virts[i].p_w <= Window

=============================================================================
