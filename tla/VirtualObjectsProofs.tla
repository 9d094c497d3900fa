-------------------------- MODULE VirtualObjectsProofs --------------------------
(***************************************************************************)
(* What the table of virtual objects promises, for any number of objects   *)
(* and entries, as long as it is never full and no registry had the        *)
(* address of a later object.  An address finds its own entry because no   *)
(* two entries have it (Unique).  That a role finds its own xdg_surface    *)
(* among freed entries that look the same needs that new objects take the  *)
(* first free entry: no entry before a live xdg_surface's, in use or       *)
(* freed, names its surface (FirstSurface).                                *)
(* That every configure comes needs more of the objects than of the        *)
(* table: roles are on listened-to xdg_surfaces, and only an entry that    *)
(* was listened to is noted as configured (Answered).  That places agree   *)
(* needs that what a pop-up is open on keeps its role (ParentsStay).       *)
(***************************************************************************)
EXTENDS VirtualObjects, TLAPS

Fits == Objects \cap Registries = {}

NotFull == Free # {}

Unique ==
    \A i, j \in Slots :
        virts[i].proxy = virts[j].proxy /\ virts[i].proxy # NoObject => i = j

Owns(o) ==
    IF Live(o)
    THEN /\ object[o].kind # "registry"
         /\ \E i \in Slots : /\ virts[i].proxy = o /\ virts[i].kind = object[o].kind
                             /\ virts[i].wl_surface = object[o].surface
                             /\ virts[i].listener = object[o].listener
    ELSE \A i \in Slots : virts[i].proxy # o

Owned == \A o \in Objects : Owns(o)

RegistryEntries ==
    \A i \in Slots : virts[i].proxy \in Registries => virts[i].kind = "registry"

OneRole ==
    \A x, y \in Objects :
        /\ Live(x) /\ Live(y) /\ object[x].surface = object[y].surface
        /\ \/ object[x].kind = "surface" /\ object[y].kind = "surface"
           \/ object[x].kind \in Roles /\ object[y].kind \in Roles
        => x = y

\* A role is on an xdg_surface that GTK listens to.
RoleOnSurface ==
    \A o \in Objects :
        Live(o) /\ object[o].kind \in Roles =>
            \E x \in Objects : /\ Live(x) /\ object[x].kind = "surface"
                              /\ object[x].surface = object[o].surface /\ object[x].listener

FirstSurface ==
    \A i, k \in Slots :
        virts[i].proxy # NoObject /\ virts[i].kind = "surface" /\ k < i =>
            ~(virts[k].kind = "surface" /\ virts[k].wl_surface = virts[i].wl_surface)

\* What a pop-up is open on has a role: it stays where it is as long as the pop-up lives.
ParentsStay ==
    \A o \in Objects :
        Live(o) /\ object[o].kind = "popup" => Has(object[o].parent, Roles)

\* Places add up, by the table's own search for the parent.
PlacesAdd ==
    \A i \in Slots, o \in Objects :
        virts[i].proxy = o /\ virts[i].kind = "popup" =>
            virts[i].abs_x = ParentAbs(object[o].parent) + virts[i].popup_x

\* What is between a configure GTK waits for and its handlers, if these make and
\* destroy nothing.
Answered ==
    /\ emitting # NoObject =>
          Live(emitting) /\ object[emitting].kind \in Roles /\ object[emitting].listener
    /\ \A i \in Slots, o \in Objects :
          virts[i].proxy = o /\ virts[i].configured => object[o].listener
    /\ \A o \in Objects : Live(o) /\ object[o].owed => object[o].kind \in Roles
    /\ ConfiguresCome

IInv ==
    /\ TypeOK /\ Unique /\ Owned /\ RegistryEntries /\ OneRole /\ RoleOnSurface /\ FirstSurface
    /\ ParentsStay /\ PlacesAdd
    /\ ~HandlersAct => Answered

-----------------------------------------------------------------------------

\* The only entry of an address is the one virt_get finds.
LEMMA OnlyEntryGot ==
    ASSUME Unique, NEW o, o # NoObject, NEW i \in Slots
    PROVE  Gets(o, i) <=> virts[i].proxy = o
    BY DEF Unique, Gets, Slots

\* A live object's entry, as virt_get finds it.
LEMMA OwnEntryGot ==
    ASSUME IInv, NEW o \in Objects, Live(o), NEW i \in Slots, Gets(o, i)
    PROVE  /\ virts[i].proxy = o /\ virts[i].kind = object[o].kind
           /\ virts[i].wl_surface = object[o].surface
           /\ virts[i].listener = object[o].listener
           /\ o # NoObject
           /\ \A k \in Slots : virts[k].proxy = o => k = i
<1>1. o # NoObject
    BY VirtConstants
<1> QED
    BY <1>1 DEF IInv, Owned, Owns, Unique, Gets

\* Places are within the window's start, sizes at least 1.
LEMMA PlaceType ==
    ASSUME NEW pos \in Positioners
    PROVE  Size(pos) \in Nat /\ Place(pos) \in Nat
<1>1. /\ pos.at \in Int /\ pos.length \in Nat /\ pos.size \in Int /\ pos.offset \in Int
      /\ pos.anchor \in {"start", "middle", "end"} /\ pos.gravity \in {"start", "middle", "end"}
    BY VirtConstants
<1>2. Size(pos) \in Nat
    BY <1>1 DEF Size
<1>3. AnchorPoint(pos) \in Int
    BY <1>1 DEF AnchorPoint
<1>4. Asked(pos) \in Int
    BY <1>1, <1>2, <1>3 DEF Asked
<1> QED
    BY <1>2, <1>4, VirtConstants DEF Place

\* What the search for a parent finds is a live pop-up's.
LEMMA PopupOfClient ==
    ASSUME IInv, NEW s, NEW i \in Slots, IsPopupOf(s, i)
    PROVE  /\ virts[i].proxy \in Objects /\ Live(virts[i].proxy)
           /\ object[virts[i].proxy].kind = "popup" /\ object[virts[i].proxy].surface = s
<1>1. virts[i].proxy \in Objects
    BY DEF IsPopupOf, IInv, TypeOK, Entries, RegistryEntries
<1> QED
    BY <1>1 DEF IsPopupOf, IInv, Owned, Owns, Unique

\* A surface has one live pop-up at most.
LEMMA OnlyPopup ==
    ASSUME IInv, NEW s, NEW j \in Slots, NEW k \in Slots, IsPopupOf(s, j), IsPopupOf(s, k)
    PROVE  j = k
<1>1. ASSUME NEW i \in Slots, IsPopupOf(s, i)
      PROVE  /\ virts[i].proxy \in Objects /\ Live(virts[i].proxy)
             /\ object[virts[i].proxy].kind = "popup" /\ object[virts[i].proxy].surface = s
    BY <1>1, PopupOfClient
<1>2. virts[j].proxy = virts[k].proxy
    BY <1>1 DEF IInv, OneRole, Roles
<1> QED
    BY <1>2 DEF IsPopupOf, IInv, Unique

\* A surface's place: its only pop-up's, or the window's.
LEMMA ParentAbsValue ==
    ASSUME IInv, NEW s
    PROVE  /\ \A j \in Slots : IsPopupOf(s, j) => ParentAbs(s) = virts[j].abs_x
           /\ (\A j \in Slots : ~IsPopupOf(s, j)) => ParentAbs(s) = 0
<1>1. ASSUME NEW j \in Slots, IsPopupOf(s, j) PROVE ParentAbs(s) = virts[j].abs_x
    <2>1. \A k \in Slots : k < j => ~IsPopupOf(s, k)
        BY <1>1, OnlyPopup DEF Slots
    <2>2. (CHOOSE i \in Slots : IsPopupOf(s, i) /\ \A k \in Slots : k < i => ~IsPopupOf(s, k)) = j
        BY <1>1, <2>1, OnlyPopup
    <2> QED
        BY <1>1, <2>2 DEF ParentAbs
<1> QED
    BY <1>1 DEF ParentAbs

\* A parent has a place.
LEMMA ParentAbsType ==
    ASSUME IInv, NEW s
    PROVE  ParentAbs(s) \in Int
    BY ParentAbsValue DEF IInv, TypeOK, Entries

\* It is the same after a step that leaves its pop-ups where they are.
LEMMA ParentAbsKept ==
    ASSUME IInv, NEW s, \A j \in Slots : IsPopupOf(s, j)' <=> IsPopupOf(s, j),
           \A j \in Slots : IsPopupOf(s, j) => virts'[j].abs_x = virts[j].abs_x
    PROVE  ParentAbs(s)' = ParentAbs(s)
<1> DEFINE P(j) == IsPopupOf(s, j) /\ \A k \in Slots : k < j => ~IsPopupOf(s, k)
<1>1. \A j \in Slots : P(j)' <=> P(j)
    OBVIOUS
<1>2. (CHOOSE j \in Slots : P(j)') = (CHOOSE j \in Slots : P(j))
    BY <1>1
<1>3. (\E j \in Slots : IsPopupOf(s, j)') <=> \E j \in Slots : IsPopupOf(s, j)
    OBVIOUS
<1>4. CASE \E j \in Slots : IsPopupOf(s, j)
    <2>1. PICK i \in Slots : P(i)
        BY <1>4, OnlyPopup DEF Slots
    <2>2. IsPopupOf(s, CHOOSE j \in Slots : P(j)) /\ (CHOOSE j \in Slots : P(j)) \in Slots
        BY <2>1
    <2> QED
        BY <1>2, <1>3, <1>4, <2>2 DEF ParentAbs
<1>5. CASE ~\E j \in Slots : IsPopupOf(s, j)
    BY <1>3, <1>5 DEF ParentAbs
<1> QED
    BY <1>4, <1>5

\* An object of a pop-up's entry is a pop-up, and is open on something with a role.
LEMMA PopupEntry ==
    ASSUME IInv, NEW o \in Objects, NEW i \in Slots, virts[i].proxy = o, virts[i].kind = "popup"
    PROVE  /\ Live(o) /\ object[o].kind = "popup" /\ object[o].surface = virts[i].wl_surface
           /\ Has(object[o].parent, Roles)
<1>1. o # NoObject
    BY VirtConstants
<1>2. /\ Live(o) /\ object[o].kind = "popup" /\ object[o].surface = virts[i].wl_surface
    BY <1>1 DEF IInv, Owned, Owns, Unique
<1> QED
    BY <1>2 DEF IInv, ParentsStay

\* Nothing that places are made of changes.
LEMMA PlacesKept ==
    ASSUME IInv,
           \A k \in Slots : virts'[k] = virts[k] \/
                 /\ virts'[k].proxy = virts[k].proxy /\ virts'[k].kind = virts[k].kind
                 /\ virts'[k].wl_surface = virts[k].wl_surface
                 /\ virts'[k].abs_x = virts[k].abs_x /\ virts'[k].popup_x = virts[k].popup_x,
           \A x \in Objects : object'[x].parent = object[x].parent \/ ~Live(x)
    PROVE  PlacesAdd'
<1> SUFFICES ASSUME NEW k \in Slots, NEW x \in Objects,
                    virts'[k].proxy = x, virts'[k].kind = "popup", NEW q, q = object'[x].parent
             PROVE  virts'[k].abs_x = ParentAbs(q)' + virts'[k].popup_x
    BY DEF PlacesAdd
<1>1. virts[k].proxy = x /\ virts[k].kind = "popup"
    OBVIOUS
<1>2. q = object[x].parent /\ virts[k].abs_x = ParentAbs(q) + virts[k].popup_x
    BY <1>1, PopupEntry DEF IInv, PlacesAdd
<1>3. \A j \in Slots : IsPopupOf(q, j)' <=> IsPopupOf(q, j)
    BY DEF IsPopupOf
<1>4. ParentAbs(q)' = ParentAbs(q)
    BY <1>3, ParentAbsKept
<1> QED
    BY <1>2, <1>4

\* A new object gets the first free entry.
LEMMA Addition ==
    ASSUME IInv, Fits, NEW o \in Objects, object[o].state = "none",
           NEW kind \in {"surface", "toplevel", "popup", "other"},
           NEW s \in Surfaces \cup {NoSurface}, NEW p \in Surfaces \cup {NoSurface},
           NEW e \in Entries, e.proxy = o, e.kind = kind, e.wl_surface = s, e.listener = FALSE,
           kind = "surface" => ~Has(s, {"surface"}),
           e.configured = FALSE,
           kind \in Roles => /\ ~Has(s, Roles)
                            /\ \E x \in Objects : /\ Live(x) /\ object[x].kind = "surface"
                                                  /\ object[x].surface = s /\ object[x].listener,
           kind = "popup" => Has(p, Roles) /\ e.abs_x = ParentAbs(p) + e.popup_x,
           NEW i \in Slots, Takes(i), virts' = [virts EXCEPT ![i] = e],
           Born(o, kind, s, p), UNCHANGED emitting
    PROVE  IInv'
<1>1. /\ virts'[i] = e /\ \A k \in Slots : k # i => virts'[k] = virts[k]
      /\ virts' \in [Slots -> Entries]
    BY DEF IInv, TypeOK
<1>2. /\ object'[o].state = "live" /\ object'[o].kind = kind /\ object'[o].surface = s
      /\ object'[o].listener = FALSE /\ object'[o].parent = p
      /\ object'[o].owed => kind \in Roles
      /\ \A x \in Objects : x # o => object'[x] = object[x]
      /\ object' \in [Objects \cup Registries -> ClientObjects]
    <2> DEFINE w == [state |-> "live", kind |-> kind, surface |-> s, parent |-> p,
                     listener |-> FALSE, owed |-> kind \in {"popup", "toplevel"}]
    <2>1. w \in ClientObjects
        BY DEF ClientObjects, Kinds
    <2>2. /\ w.state = "live" /\ w.kind = kind /\ w.surface = s /\ w.parent = p
          /\ w.listener = FALSE /\ (w.owed => kind \in Roles)
        BY DEF Roles
    <2>3. object' = [object EXCEPT ![o] = w]
        BY DEF Born
    <2> HIDE DEF w
    <2> QED
        BY <2>1, <2>2, <2>3 DEF IInv, TypeOK
<1>3. o # NoObject /\ o \notin Registries /\ ~Live(o)
    BY VirtConstants DEF Fits, Live
<1>4. /\ virts[i].proxy = NoObject
      /\ \A k \in Slots : virts[k].proxy # o
      /\ \A k \in Slots : k < i => virts[k].proxy # NoObject
    BY <1>3 DEF Takes, Free, IInv, Owned, Owns, Slots
<1>5. TypeOK'
    BY <1>1, <1>2 DEF IInv, TypeOK
<1>6. Unique'
    BY <1>1, <1>4 DEF IInv, Unique
<1>7. Owned'
    <2> SUFFICES ASSUME NEW x \in Objects PROVE Owns(x)'
        BY DEF Owned
    <2>1. CASE x = o
        BY <1>1, <1>2, <2>1 DEF Owns, Live
    <2>2. CASE x # o
        <3>1. Live(x)' <=> Live(x)
            BY <1>2, <2>2 DEF Live
        <3>2. x # NoObject
            BY VirtConstants
        <3> QED
            BY <1>1, <1>2, <1>4, <2>2, <3>1, <3>2 DEF IInv, Owned, Owns
    <2> QED
        BY <2>1, <2>2
<1>8. RegistryEntries'
    BY <1>1, <1>3 DEF IInv, RegistryEntries
<1>9. OneRole'
    BY <1>2 DEF IInv, OneRole, Has, Live, Roles
<1>10. RoleOnSurface'
    BY <1>2, <1>3 DEF IInv, RoleOnSurface, Live
<1>11. FirstSurface'
    <2> SUFFICES ASSUME NEW j \in Slots, NEW k \in Slots, k < j,
                        virts'[j].proxy # NoObject, virts'[j].kind = "surface",
                        virts'[k].kind = "surface", virts'[k].wl_surface = virts'[j].wl_surface
                 PROVE  FALSE
        BY DEF FirstSurface
    <2>1. CASE j = i
        <3>1. virts[k].kind = "surface" /\ virts[k].wl_surface = s /\ virts[k].proxy # NoObject
            BY <1>1, <1>4, <2>1 DEF Slots
        <3>2. virts[k].proxy \in Objects
            BY <3>1 DEF IInv, TypeOK, Entries, RegistryEntries
        <3>3. Live(virts[k].proxy) /\ object[virts[k].proxy].surface = s
              /\ object[virts[k].proxy].kind = "surface"
            BY <3>1, <3>2 DEF IInv, Owned, Owns, Unique
        <3> QED
            BY <1>1, <2>1, <3>2, <3>3 DEF Has
    <2>2. CASE j # i /\ k = i
        <3>1. virts[j].proxy # NoObject /\ virts[j].kind = "surface" /\ virts[j].wl_surface = s
            BY <1>1, <2>2
        <3>2. virts[j].proxy \in Objects
            BY <3>1 DEF IInv, TypeOK, Entries, RegistryEntries
        <3>3. Live(virts[j].proxy) /\ object[virts[j].proxy].surface = s
              /\ object[virts[j].proxy].kind = "surface"
            BY <3>1, <3>2 DEF IInv, Owned, Owns, Unique
        <3> QED
            BY <1>1, <2>2, <3>2, <3>3 DEF Has
    <2>3. CASE j # i /\ k # i
        BY <1>1, <2>3 DEF IInv, FirstSurface
    <2> QED
        BY <2>1, <2>2, <2>3
<1>12. ParentsStay'
    <2>1. \A t, K : Has(t, K) => Has(t, K)'
        BY <1>2, <1>3 DEF Has, Live
    <2> QED
        BY <1>2, <2>1 DEF IInv, ParentsStay, Live
<1>13. PlacesAdd'
    <2> SUFFICES ASSUME NEW k \in Slots, NEW x \in Objects,
                        virts'[k].proxy = x, virts'[k].kind = "popup",
                        NEW q, q = object'[x].parent
                 PROVE  virts'[k].abs_x = ParentAbs(q)' + virts'[k].popup_x
        BY DEF PlacesAdd
    <2>1. Has(q, Roles) /\ virts'[k].abs_x = ParentAbs(q) + virts'[k].popup_x
        <3>1. CASE x = o
            BY <1>1, <1>2, <1>4, <3>1
        <3>2. CASE x # o
            <4>1. virts'[k] = virts[k] /\ object'[x] = object[x]
                BY <1>1, <1>2, <3>2
            <4> QED
                BY <4>1, PopupEntry DEF IInv, PlacesAdd
        <3> QED
            BY <3>1, <3>2
    <2>2. \A j \in Slots : IsPopupOf(q, j)' <=> IsPopupOf(q, j)
        BY <1>1, <1>4, <2>1 DEF IsPopupOf, Roles
    <2>3. \A j \in Slots : IsPopupOf(q, j) => virts'[j].abs_x = virts[j].abs_x
        BY <1>1, <1>4 DEF IsPopupOf
    <2>4. ParentAbs(q)' = ParentAbs(q)
        BY <2>2, <2>3, ParentAbsKept
    <2> QED
        BY <2>1, <2>4
<1>14. ~HandlersAct => Answered'
    <2> SUFFICES ASSUME ~HandlersAct, Answered PROVE Answered'
        BY DEF IInv
    <2>1. emitting' # NoObject => /\ Live(emitting)' /\ object'[emitting'].kind \in Roles
                                  /\ object'[emitting'].listener
        BY <1>2, <1>3 DEF Answered, Live, IInv, TypeOK
    <2>2. ASSUME NEW k \in Slots, NEW x \in Objects, virts'[k].proxy = x, virts'[k].configured
          PROVE  object'[x].listener
        BY <1>1, <1>2, <1>3, <1>4, <2>2, VirtConstants DEF Answered, IInv, Unique
    <2>3. \A x \in Objects : Live(x)' /\ object'[x].owed => object'[x].kind \in Roles
        BY <1>1, <1>2, <1>3, <1>4 DEF Answered, Live
    <2>4. ConfiguresCome'
        BY <1>1, <1>2, <1>3, <1>4 DEF Answered, ConfiguresCome, Live
    <2> QED
        BY <2>1, <2>2, <2>3, <2>4 DEF Answered
<1> QED
    BY <1>5, <1>6, <1>7, <1>8, <1>9, <1>10, <1>11, <1>12, <1>13, <1>14 DEF IInv

\* An entry of a live object changes, but neither whose it is nor what it is.
LEMMA Change ==
    ASSUME IInv, NEW o \in Objects, Live(o), NEW i \in Slots, virts[i].proxy = o,
           NEW e \in Entries, e.proxy = o, e.kind = virts[i].kind,
           e.wl_surface = virts[i].wl_surface,
           NEW v \in ClientObjects, v.state = "live", v.kind = object[o].kind,
           v.surface = object[o].surface, v.parent = object[o].parent, v.listener = e.listener,
           object[o].listener => v.listener,
           e.abs_x - e.popup_x = virts[i].abs_x - virts[i].popup_x,
           e.abs_x # virts[i].abs_x => ~IsParent(o),
           ~HandlersAct => /\ emitting = NoObject /\ emitting' \in {NoObject, o}
                           /\ emitting' = o => v.kind \in Roles /\ v.listener
                           /\ e.configured => v.listener
                           /\ v.owed => v.kind \in Roles
                           /\ v.owed /\ v.listener => emitting' = o,
           virts' = [virts EXCEPT ![i] = e], object' = [object EXCEPT ![o] = v],
           emitting' \in Objects \cup {NoObject}
    PROVE  IInv'
<1>1. /\ virts'[i] = e /\ \A k \in Slots : k # i => virts'[k] = virts[k]
      /\ virts' \in [Slots -> Entries]
    BY DEF IInv, TypeOK
<1>2. /\ object'[o] = v /\ \A x \in Objects : x # o => object'[x] = object[x]
      /\ object' \in [Objects \cup Registries -> ClientObjects]
    BY DEF IInv, TypeOK
<1>3. /\ o # NoObject
      /\ \A k \in Slots : /\ virts'[k].proxy = virts[k].proxy /\ virts'[k].kind = virts[k].kind
                          /\ virts'[k].wl_surface = virts[k].wl_surface
    BY <1>1, VirtConstants
<1>4. \A x \in Objects : /\ object'[x].state = object[x].state /\ object'[x].kind = object[x].kind
                         /\ object'[x].surface = object[x].surface
                         /\ object'[x].parent = object[x].parent
                         /\ object[x].listener => object'[x].listener
    BY <1>2 DEF Live
<1>5. TypeOK'
    BY <1>1, <1>2 DEF IInv, TypeOK
<1>6. Unique' /\ RegistryEntries' /\ FirstSurface'
    BY <1>3 DEF IInv, Unique, RegistryEntries, FirstSurface
<1>7. OneRole' /\ RoleOnSurface' /\ ParentsStay'
    BY <1>4 DEF IInv, OneRole, RoleOnSurface, ParentsStay, Has, Live
<1>8. Owned'
    <2> SUFFICES ASSUME NEW x \in Objects PROVE Owns(x)'
        BY DEF Owned
    <2>1. CASE x = o
        <3>1. virts[i].kind = object[o].kind /\ virts[i].wl_surface = object[o].surface
              /\ object[o].kind # "registry"
            BY <1>3 DEF IInv, Owned, Owns, Unique
        <3> QED
            BY <1>1, <1>2, <2>1, <3>1 DEF Owns, Live
    <2>2. CASE x # o
        <3>1. object'[x] = object[x] /\ \A k \in Slots : virts[k].proxy = x => virts'[k] = virts[k]
            BY <1>1, <1>2, <2>2
        <3>2. Owns(x)
            BY DEF IInv, Owned
        <3> QED
            BY <1>3, <3>1, <3>2 DEF Owns, Live
    <2> QED
        BY <2>1, <2>2
<1>9. PlacesAdd'
    <2> SUFFICES ASSUME NEW k \in Slots, NEW x \in Objects,
                        virts'[k].proxy = x, virts'[k].kind = "popup",
                        NEW q, q = object'[x].parent
                 PROVE  virts'[k].abs_x = ParentAbs(q)' + virts'[k].popup_x
        BY DEF PlacesAdd
    <2>1. virts[k].proxy = x /\ virts[k].kind = "popup" /\ object[x].parent = q
        BY <1>3, <1>4
    <2>2. Live(x) /\ object[x].kind = "popup"
          /\ virts[k].abs_x = ParentAbs(q) + virts[k].popup_x
        BY <2>1, PopupEntry DEF IInv, PlacesAdd
    <2>3. \A j \in Slots : IsPopupOf(q, j)' <=> IsPopupOf(q, j)
        BY <1>3 DEF IsPopupOf
    <2>4. \A j \in Slots : IsPopupOf(q, j) => virts'[j].abs_x = virts[j].abs_x
        <3>1. CASE IsPopupOf(q, i) /\ e.abs_x # virts[i].abs_x
            <4>1. object[o].surface = q
                BY <3>1, PopupEntry DEF IsPopupOf
            <4> QED
                BY <2>2, <3>1, <4>1 DEF IsParent
        <3> QED
            BY <1>1, <3>1
    <2>5. ParentAbs(q)' = ParentAbs(q)
        BY <2>3, <2>4, ParentAbsKept
    <2>6. /\ virts[k].abs_x \in Int /\ virts[k].popup_x \in Int
          /\ virts'[k].abs_x \in Int /\ virts'[k].popup_x \in Int /\ ParentAbs(q) \in Int
        BY <1>1, ParentAbsType DEF IInv, TypeOK, Entries
    <2>7. virts'[k].abs_x - virts'[k].popup_x = virts[k].abs_x - virts[k].popup_x
        BY <1>1
    <2> QED
        BY <2>1, <2>2, <2>5, <2>6, <2>7
<1>10. ~HandlersAct => Answered'
    <2> SUFFICES ASSUME ~HandlersAct, Answered PROVE Answered'
        BY DEF IInv
    <2>1. emitting' # NoObject => /\ Live(emitting)' /\ object'[emitting'].kind \in Roles
                                  /\ object'[emitting'].listener
        BY <1>1, <1>2, <1>3, <1>4 DEF Answered, Live
    <2>2. ASSUME NEW k \in Slots, NEW x \in Objects, virts'[k].proxy = x, virts'[k].configured
          PROVE  object'[x].listener
        BY <1>1, <1>2, <1>3, <1>4, <2>2, VirtConstants DEF Answered, IInv, Unique
    <2>3. \A x \in Objects : Live(x)' /\ object'[x].owed => object'[x].kind \in Roles
        BY <1>1, <1>2, <1>3, <1>4 DEF Answered, Live
    <2>4. ConfiguresCome'
        BY <1>2, <1>3, <1>4, VirtConstants DEF Answered, ConfiguresCome, Live
    <2> QED
        BY <2>1, <2>2, <2>3, <2>4 DEF Answered
<1> QED
    BY <1>5, <1>6, <1>7, <1>8, <1>9, <1>10 DEF IInv

\* What is left of a freed entry.
LEMMA TeardownEntry ==
    ASSUME IInv, NEW i \in Slots, virts[i].proxy # NoObject, Teardown(i)
    PROVE  /\ virts' \in [Slots -> Entries] /\ virts'[i].proxy = NoObject
           /\ virts'[i].kind = "surface" =>
                 virts[i].kind = "surface" /\ virts'[i].wl_surface = virts[i].wl_surface
           /\ \A k \in Slots : k # i => virts'[k] = virts[k]
<1> DEFINE e == IF virts[i].kind = "surface" THEN Entry(NoObject, "surface", virts[i].wl_surface)
                ELSE Entry(NoObject, "registry", NoSurface)
<1>1. e \in Entries /\ e.proxy = NoObject
      /\ (e.kind = "surface" => virts[i].kind = "surface" /\ e.wl_surface = virts[i].wl_surface)
    BY DEF IInv, TypeOK, Entries, Entry, Kinds
<1>2. virts' = [virts EXCEPT ![i] = e]
    BY DEF Teardown
<1> HIDE DEF e
<1> QED
    BY <1>1, <1>2 DEF IInv, TypeOK

\* An object goes with its entry: after the roles of its surface.
LEMMA Removal ==
    ASSUME IInv, NEW o \in Objects, Live(o), NEW i \in Slots, virts[i].proxy = o, Teardown(i),
           object[o].kind = "surface" => ~Has(object[o].surface, Roles),
           object[o].kind \in Roles => ~IsParent(o),
           ~HandlersAct => emitting = NoObject,
           NEW v \in ClientObjects, v.state # "live", object' = [object EXCEPT ![o] = v],
           UNCHANGED emitting
    PROVE  IInv'
<1>1. o # NoObject
    BY VirtConstants
<1>2. /\ virts' \in [Slots -> Entries] /\ virts'[i].proxy = NoObject
      /\ virts'[i].kind = "surface" =>
            virts[i].kind = "surface" /\ virts'[i].wl_surface = virts[i].wl_surface
      /\ \A k \in Slots : k # i => virts'[k] = virts[k]
    BY <1>1, TeardownEntry
<1>3. /\ object'[o] = v /\ \A x \in Objects : x # o => object'[x] = object[x]
      /\ object' \in [Objects \cup Registries -> ClientObjects]
    BY DEF IInv, TypeOK
<1>4. TypeOK'
    BY <1>2, <1>3 DEF IInv, TypeOK
<1>5. Unique' /\ RegistryEntries'
    BY <1>2, VirtConstants DEF IInv, Unique, RegistryEntries
<1>6. FirstSurface'
    BY <1>1, <1>2 DEF IInv, FirstSurface
<1>7. Owned'
    <2> SUFFICES ASSUME NEW x \in Objects PROVE Owns(x)'
        BY DEF Owned
    <2>1. CASE x = o
        BY <1>1, <1>2, <1>3, <2>1 DEF Owns, Live, IInv, Unique
    <2>2. CASE x # o
        <3>1. object'[x] = object[x] /\ \A k \in Slots : virts[k].proxy = x => virts'[k] = virts[k]
            BY <1>2, <1>3, <2>2
        <3>2. Owns(x) /\ x # NoObject
            BY VirtConstants DEF IInv, Owned
        <3> QED
            BY <1>2, <3>1, <3>2 DEF Owns, Live
    <2> QED
        BY <2>1, <2>2
<1>8. OneRole'
    BY <1>3 DEF IInv, OneRole, Live
<1>9. RoleOnSurface'
    <2> SUFFICES ASSUME NEW x \in Objects, Live(x)', object'[x].kind \in Roles
                 PROVE  \E y \in Objects :
                          /\ Live(y)' /\ object'[y].kind = "surface"
                          /\ object'[y].surface = object'[x].surface /\ object'[y].listener
        BY DEF RoleOnSurface
    <2>1. x # o /\ object'[x] = object[x] /\ Live(x)
        BY <1>3 DEF Live
    <2>2. PICK y \in Objects : /\ Live(y) /\ object[y].surface = object[x].surface
                             /\ object[y].kind = "surface" /\ object[y].listener
        BY <2>1 DEF IInv, RoleOnSurface
    <2>3. y # o
        BY <2>1, <2>2 DEF Has
    <2> QED
        BY <1>3, <2>1, <2>2, <2>3 DEF Live
<1>10. ParentsStay'
    <2> SUFFICES ASSUME NEW x \in Objects, Live(x)', object'[x].kind = "popup",
                        NEW q, q = object'[x].parent
                 PROVE  Has(q, Roles)'
        BY DEF ParentsStay
    <2>1. x # o /\ object'[x] = object[x] /\ Live(x)
        BY <1>3 DEF Live
    <2>2. PICK y \in Objects : /\ Live(y) /\ object[y].surface = object[x].parent
                             /\ object[y].kind \in Roles
        BY <2>1 DEF IInv, ParentsStay, Has
    <2>3. y # o
        BY <2>1, <2>2 DEF IsParent
    <2>4. Live(y)' /\ object'[y] = object[y] /\ object[x].parent = q
        BY <1>3, <2>1, <2>2, <2>3 DEF Live
    <2> QED
        BY <2>2, <2>4 DEF Has
<1>11. PlacesAdd'
    <2> SUFFICES ASSUME NEW k \in Slots, NEW x \in Objects,
                        virts'[k].proxy = x, virts'[k].kind = "popup",
                        NEW q, q = object'[x].parent
                 PROVE  virts'[k].abs_x = ParentAbs(q)' + virts'[k].popup_x
        BY DEF PlacesAdd
    <2>1. x # NoObject
        BY VirtConstants
    <2>2. k # i /\ virts'[k] = virts[k]
        BY <1>2, <2>1
    <2>3. x # o /\ object'[x] = object[x]
        BY <1>1, <1>3, <2>2 DEF IInv, Unique
    <2>4. Live(x) /\ object[x].kind = "popup"
          /\ virts[k].abs_x = ParentAbs(q) + virts[k].popup_x
        BY <2>2, <2>3, PopupEntry DEF IInv, PlacesAdd
    <2>5. ~IsPopupOf(q, i)
        <3> SUFFICES ASSUME IsPopupOf(q, i) PROVE FALSE
            OBVIOUS
        <3>1. object[o].kind = "popup" /\ object[o].surface = q
            BY PopupEntry DEF IsPopupOf
        <3> QED
            BY <2>3, <2>4, <3>1 DEF IsParent, Roles
    <2>6. \A j \in Slots : IsPopupOf(q, j)' <=> IsPopupOf(q, j)
        BY <1>2, <2>5 DEF IsPopupOf
    <2>7. \A j \in Slots : IsPopupOf(q, j) => virts'[j].abs_x = virts[j].abs_x
        BY <1>2, <2>5
    <2>8. ParentAbs(q)' = ParentAbs(q)
        BY <2>6, <2>7, ParentAbsKept
    <2> QED
        BY <2>2, <2>4, <2>8
<1>12. ~HandlersAct => Answered'
    <2> SUFFICES ASSUME ~HandlersAct, Answered PROVE Answered'
        BY DEF IInv
    <2>1. emitting' # NoObject => /\ Live(emitting)' /\ object'[emitting'].kind \in Roles
                                  /\ object'[emitting'].listener
        BY <1>1, <1>2, <1>3 DEF Answered, Live
    <2>2. ASSUME NEW k \in Slots, NEW x \in Objects, virts'[k].proxy = x, virts'[k].configured
          PROVE  object'[x].listener
        BY <1>1, <1>2, <1>3, <2>2, VirtConstants DEF Answered, IInv, Unique
    <2>3. \A x \in Objects : Live(x)' /\ object'[x].owed => object'[x].kind \in Roles
        BY <1>1, <1>2, <1>3 DEF Answered, Live
    <2>4. ConfiguresCome'
        BY <1>1, <1>2, <1>3 DEF Answered, ConfiguresCome, Live
    <2> QED
        BY <2>1, <2>2, <2>3, <2>4 DEF Answered
<1> QED
    BY <1>4, <1>5, <1>6, <1>7, <1>8, <1>9, <1>10, <1>11, <1>12 DEF IInv

-----------------------------------------------------------------------------
(* The client's requests. *)

\* The entry a request with a new object makes.
LEMMA AddedEntry ==
    ASSUME NotFull, NEW e, Added(e)
    PROVE  \E i \in Slots : Takes(i) /\ virts' = [virts EXCEPT ![i] = e]
    BY DEF NotFull, Added

\* An object is made of the entry virt_get finds for its xdg_surface.
LEMMA CreationStep ==
    ASSUME IInv, Fits, NotFull, NEW o \in Objects,
           \/ CreateOther(o)
           \/ \E s \in Surfaces : GetXdgSurface(o, s)
           \/ \E x \in Objects : GetToplevel(o, x)
           \/ \E x \in Objects, s \in Surfaces, pos \in Positioners : GetPopup(o, x, s, pos)
    PROVE  IInv'
<1>1. ASSUME NEW kind \in Kinds, NEW s \in Surfaces \cup {NoSurface}
      PROVE  LET e == Entry(o, kind, s)
             IN  e \in Entries /\ e.proxy = o /\ e.kind = kind /\ e.wl_surface = s
                 /\ e.listener = FALSE /\ e.configured = FALSE
    BY DEF Entry, Entries
<1>2. CASE CreateOther(o)
    <2>1. PICK i \in Slots : Takes(i) /\ virts' = [virts EXCEPT ![i] = Entry(o, "other", NoSurface)]
        BY <1>2, AddedEntry DEF CreateOther
    <2>2. /\ object[o].state = "none" /\ Born(o, "other", NoSurface, NoSurface)
          /\ UNCHANGED emitting
        BY <1>2 DEF CreateOther, Unborn
    <2>3. LET e == Entry(o, "other", NoSurface)
          IN  e \in Entries /\ e.proxy = o /\ e.kind = "other" /\ e.wl_surface = NoSurface
              /\ e.listener = FALSE /\ e.configured = FALSE
        BY <1>1 DEF Kinds
    <2> QED
        BY <2>1, <2>2, <2>3, Addition DEF Roles
<1>3. ASSUME NEW s \in Surfaces, GetXdgSurface(o, s) PROVE IInv'
    <2>1. PICK i \in Slots : Takes(i) /\ virts' = [virts EXCEPT ![i] = Entry(o, "surface", s)]
        BY <1>3, AddedEntry DEF GetXdgSurface
    <2>2. /\ object[o].state = "none" /\ Born(o, "surface", s, NoSurface)
          /\ UNCHANGED emitting /\ ~Has(s, {"surface"})
        BY <1>3 DEF GetXdgSurface, Unborn
    <2>3. LET e == Entry(o, "surface", s)
          IN  e \in Entries /\ e.proxy = o /\ e.kind = "surface" /\ e.wl_surface = s
              /\ e.listener = FALSE /\ e.configured = FALSE
        BY <1>1 DEF Kinds
    <2> QED
        BY <2>1, <2>2, <2>3, Addition DEF Roles
<1>4. ASSUME NEW x \in Objects, NEW j \in Slots, Roleless(x, j)
      PROVE  /\ virts[j].wl_surface \in Surfaces \cup {NoSurface}
             /\ ~Has(virts[j].wl_surface, Roles)
             /\ \E y \in Objects : /\ Live(y) /\ object[y].kind = "surface"
                                 /\ object[y].surface = virts[j].wl_surface /\ object[y].listener
    <2>1. Live(x) /\ Gets(x, j) /\ virts[j].kind = "surface"
        BY <1>4 DEF Roleless, Requested
    <2>2. /\ object[x].kind = "surface" /\ object[x].surface = virts[j].wl_surface
          /\ object[x].listener = virts[j].listener
        BY <2>1, OwnEntryGot
    <2> QED
        BY <1>4, <2>1, <2>2 DEF Roleless, IInv, TypeOK, Entries
<1>5. ASSUME NEW x \in Objects, GetToplevel(o, x) PROVE IInv'
    <2>1. PICK j \in Slots : /\ Roleless(x, j)
                            /\ Added(Entry(o, "toplevel", virts[j].wl_surface))
                            /\ Born(o, "toplevel", virts[j].wl_surface, NoSurface)
        BY <1>5 DEF GetToplevel
    <2> DEFINE s == virts[j].wl_surface
    <2>2. PICK i \in Slots : Takes(i) /\ virts' = [virts EXCEPT ![i] = Entry(o, "toplevel", s)]
        BY <2>1, AddedEntry
    <2>3. object[o].state = "none" /\ UNCHANGED emitting
        BY <1>5 DEF GetToplevel, Unborn
    <2>4. s \in Surfaces \cup {NoSurface} /\ ~Has(s, Roles)
          /\ \E y \in Objects : /\ Live(y) /\ object[y].kind = "surface"
                              /\ object[y].surface = s /\ object[y].listener
        BY <1>4, <2>1
    <2>5. LET e == Entry(o, "toplevel", s)
          IN  e \in Entries /\ e.proxy = o /\ e.kind = "toplevel" /\ e.wl_surface = s
              /\ e.listener = FALSE /\ e.configured = FALSE
        BY <1>1, <2>4 DEF Kinds
    <2> QED
        BY <2>1, <2>2, <2>3, <2>4, <2>5, Addition DEF Roles
<1>6. ASSUME NEW x \in Objects, NEW p \in Surfaces, NEW pos \in Positioners,
             GetPopup(o, x, p, pos)
      PROVE  IInv'
    <2> DEFINE E(s) == [Entry(o, "popup", s) EXCEPT
                          !.popup_x = Place(pos), !.p_w = Size(pos),
                          !.abs_x = ParentAbs(p) + Place(pos)]
    <2>1. PICK j \in Slots : /\ Roleless(x, j)
                            /\ Added(E(virts[j].wl_surface))
                            /\ Born(o, "popup", virts[j].wl_surface, p)
        BY <1>6 DEF GetPopup
    <2> DEFINE s == virts[j].wl_surface
    <2>2. PICK i \in Slots : Takes(i) /\ virts' = [virts EXCEPT ![i] = E(s)]
        BY <2>1, AddedEntry
    <2>3. object[o].state = "none" /\ UNCHANGED emitting
        BY <1>6 DEF GetPopup, Unborn
    <2>4. s \in Surfaces \cup {NoSurface} /\ ~Has(s, Roles)
          /\ \E y \in Objects : /\ Live(y) /\ object[y].kind = "surface"
                              /\ object[y].surface = s /\ object[y].listener
        BY <1>4, <2>1
    <2>5. E(s) \in Entries /\ E(s).proxy = o /\ E(s).kind = "popup" /\ E(s).wl_surface = s
          /\ E(s).listener = FALSE /\ E(s).configured = FALSE
          /\ E(s).abs_x = ParentAbs(p) + E(s).popup_x
        <3>1. Size(pos) \in Nat /\ Place(pos) \in Nat /\ ParentAbs(p) \in Int
            BY PlaceType, ParentAbsType
        <3>2. ParentAbs(p) + Place(pos) \in Int
            BY <3>1
        <3>3. LET e == Entry(o, "popup", s)
              IN  e \in Entries /\ e.proxy = o /\ e.kind = "popup" /\ e.wl_surface = s
                  /\ e.listener = FALSE /\ e.configured = FALSE
            BY <1>1, <2>4 DEF Kinds
        <3> QED
            BY <3>1, <3>2, <3>3 DEF Entries
    <2>6. Has(p, Roles)
        BY <1>6 DEF GetPopup
    <2> HIDE DEF E
    <2> QED
        BY <2>1, <2>2, <2>3, <2>4, <2>5, <2>6, Addition DEF Roles
<1> QED
    BY <1>2, <1>3, <1>5, <1>6

\* An entry that is stored and answered is still the object's.
LEMMA EmitStep ==
    ASSUME IInv, NEW o \in Objects, Live(o), NEW i \in Slots, Gets(o, i),
           NEW v \in Entries, v.proxy = o, v.kind = virts[i].kind,
           v.wl_surface = virts[i].wl_surface,
           NEW w \in ClientObjects, w.state = "live", w.kind = object[o].kind,
           w.surface = object[o].surface, w.parent = object[o].parent, w.listener = v.listener,
           object[o].listener => w.listener,
           v.abs_x - v.popup_x = virts[i].abs_x - virts[i].popup_x,
           v.abs_x # virts[i].abs_x => ~IsParent(o),
           Calm, v.kind \in Roles,
           ~HandlersAct => /\ v.configured => v.listener
                           /\ v.kind = "popup" /\ v.configured => ~w.owed,
           Emit(o, i, v), object' = [object EXCEPT ![o] = w]
    PROVE  IInv'
<1>1. virts[i].proxy = o
    BY DEF Gets
<1>2. virts' = [virts EXCEPT ![i] = v] /\ emitting' \in Objects \cup {NoObject}
    BY DEF Emit, IInv, TypeOK
<1>3. virts[i].kind = object[o].kind
    BY OwnEntryGot
<1>4. ~HandlersAct => /\ emitting = NoObject /\ emitting' \in {NoObject, o}
                      /\ emitting' = o => w.kind \in Roles /\ w.listener
                      /\ v.configured => w.listener
                      /\ w.owed => w.kind \in Roles
                      /\ w.owed /\ w.listener => emitting' = o
    BY <1>3, VirtConstants DEF Emit, Calm
<1> QED
    BY <1>1, <1>2, <1>4, Change

\* The steps that change a live object.
LEMMA ChangeStep ==
    ASSUME IInv, NEW o \in Objects,
           \/ AddListener(o) \/ SetState(o)
           \/ \E pos \in Positioners : Reposition(o, pos)
    PROVE  IInv'
<1>0. virts \in [Slots -> Entries] /\ object[o] \in ClientObjects /\ emitting \in Objects \cup {NoObject}
    BY DEF IInv, TypeOK
<1>1. CASE AddListener(o)
    <2>1. PICK i \in Slots : Gets(o, i) /\ Ready(o, i, [virts[i] EXCEPT !.listener = TRUE])
        BY <1>1 DEF AddListener
    <2> DEFINE v == [virts[i] EXCEPT !.listener = TRUE]
    <2> DEFINE w == [object[o] EXCEPT !.listener = TRUE]
    <2>2. Live(o) /\ object' = [object EXCEPT ![o] = w] /\ virts[i].proxy = o
        BY <1>1, <2>1 DEF AddListener, Gets
    <2>3. /\ v \in Entries /\ v.proxy = o /\ v.kind = virts[i].kind /\ v.listener = TRUE
          /\ v.wl_surface = virts[i].wl_surface /\ v.configured = virts[i].configured
          /\ v.abs_x = virts[i].abs_x /\ v.popup_x = virts[i].popup_x
        BY <1>0, <2>2 DEF Entries
    <2>4. /\ w \in ClientObjects /\ w.state = "live" /\ w.kind = object[o].kind
          /\ w.surface = object[o].surface /\ w.parent = object[o].parent /\ w.listener = TRUE
          /\ w.owed = object[o].owed
        BY <1>0, <2>2 DEF ClientObjects, Live
    <2>5. Ready(o, i, v) /\ Calm /\ object[o].listener = FALSE
        BY <1>0, <1>1, <2>1 DEF AddListener, ClientObjects
    <2>6. ~HandlersAct => ~virts[i].configured
        BY <2>2, <2>5 DEF IInv, Answered
    <2>7. virts[i].kind = object[o].kind
        BY <2>1, <2>2, OwnEntryGot
    <2> HIDE DEF v, w
    <2>8. CASE v.kind \in Roles
        <3>1. Emit(o, i, v)
            BY <2>5, <2>8 DEF Ready
        <3> QED
            BY <1>0, <2>1, <2>2, <2>3, <2>4, <2>5, <2>6, <2>8, <3>1, EmitStep
    <2>9. CASE v.kind \notin Roles
        <3>1. virts' = [virts EXCEPT ![i] = v] /\ UNCHANGED emitting
            BY <2>5, <2>9 DEF Ready
        <3>2. ~HandlersAct => emitting = NoObject /\ ~w.owed
            BY <2>2, <2>3, <2>4, <2>5, <2>7, <2>9 DEF Calm, IInv, Answered
        <3> QED
            BY <1>0, <2>2, <2>3, <2>4, <2>5, <2>6, <3>1, <3>2, VirtConstants, Change
    <2> QED
        BY <2>8, <2>9
<1>2. CASE SetState(o)
    <2>1. PICK i \in Slots : /\ Live(o) /\ Gets(o, i) /\ Emit(o, i, virts[i])
                            /\ virts[i].kind = "toplevel" /\ Calm
        BY <1>2 DEF SetState, Requested
    <2> DEFINE w == [object[o] EXCEPT !.owed = TRUE]
    <2>2. object' = [object EXCEPT ![o] = w] /\ virts[i] \in Entries
        BY <1>0, <1>2 DEF SetState
    <2>3. virts[i].proxy = o /\ virts[i].listener = object[o].listener
        BY <2>1, OwnEntryGot
    <2>4. /\ w \in ClientObjects /\ w.state = "live" /\ w.kind = object[o].kind
          /\ w.surface = object[o].surface /\ w.parent = object[o].parent /\ w.listener = virts[i].listener
        BY <1>0, <2>1, <2>3 DEF ClientObjects, Live
    <2>5. ~HandlersAct => (virts[i].configured => object[o].listener)
        BY <2>3 DEF IInv, Answered
    <2> HIDE DEF w
    <2> QED
        BY <1>0, <2>1, <2>2, <2>3, <2>4, <2>5, EmitStep DEF Roles
<1>3. ASSUME NEW pos \in Positioners, Reposition(o, pos) PROVE IInv'
    <2>1. PICK i \in Slots : /\ Live(o) /\ Gets(o, i) /\ Emit(o, i, Moved(virts[i], pos))
                            /\ virts[i].kind = "popup" /\ Calm /\ ~IsParent(o)
        BY <1>3 DEF Reposition, Requested
    <2> DEFINE v == Moved(virts[i], pos)
    <2> DEFINE w == [object[o] EXCEPT !.owed = TRUE]
    <2>2. object' = [object EXCEPT ![o] = w] /\ virts[i] \in Entries
        BY <1>0, <1>3 DEF Reposition
    <2>3. virts[i].proxy = o /\ virts[i].listener = object[o].listener
        BY <2>1, OwnEntryGot
    <2>4. /\ w \in ClientObjects /\ w.state = "live" /\ w.kind = object[o].kind
          /\ w.surface = object[o].surface /\ w.parent = object[o].parent /\ w.listener = virts[i].listener
        BY <1>0, <2>1, <2>3 DEF ClientObjects, Live
    <2>5. /\ v \in Entries /\ v.proxy = o /\ v.kind = virts[i].kind
          /\ v.wl_surface = virts[i].wl_surface /\ v.listener = virts[i].listener
          /\ v.configured = FALSE
          /\ v.abs_x - v.popup_x = virts[i].abs_x - virts[i].popup_x
        <3>1. Size(pos) \in Nat /\ Place(pos) \in Nat
            BY PlaceType
        <3>2. virts[i].abs_x + Place(pos) - virts[i].popup_x \in Int
            BY <2>2, <3>1 DEF Entries
        <3>3. /\ v.abs_x = virts[i].abs_x + Place(pos) - virts[i].popup_x
              /\ v.popup_x = Place(pos)
            BY <2>2 DEF Moved, Entries
        <3>4. virts[i].abs_x \in Int /\ virts[i].popup_x \in Int
            BY <2>2 DEF Entries
        <3>5. v.abs_x - v.popup_x = virts[i].abs_x - virts[i].popup_x
            BY <3>1, <3>3, <3>4
        <3> QED
            BY <2>2, <2>3, <3>1, <3>2, <3>5 DEF Moved, Entries
    <2>6. Emit(o, i, v)
        BY <2>1
    <2> HIDE DEF v, w
    <2> QED
        BY <2>1, <2>2, <2>3, <2>4, <2>5, <2>6, EmitStep DEF Roles
<1> QED
    BY <1>1, <1>2, <1>3

\* The search for a role's xdg_surface ends at the live one, which GTK listens to.
LEMMA SurfaceFound ==
    ASSUME IInv, NEW o \in Objects, Live(o), object[o].kind \in Roles
    PROVE  \E j \in Slots : /\ SurfaceEntry(object[o].surface, j) /\ virts[j].proxy # NoObject
                            /\ virts[j].listener
<1>1. PICK x \in Objects : /\ Live(x) /\ object[x].surface = object[o].surface
                         /\ object[x].kind = "surface" /\ object[x].listener
    BY DEF IInv, RoleOnSurface
<1>2. PICK j \in Slots : /\ virts[j].proxy = x /\ virts[j].kind = "surface"
                        /\ virts[j].wl_surface = object[o].surface /\ virts[j].listener
    BY <1>1 DEF IInv, Owned, Owns
<1>3. virts[j].proxy # NoObject
    BY <1>2, VirtConstants
<1> QED
    BY <1>2, <1>3 DEF IInv, FirstSurface, SurfaceEntry

\* GTK's handlers return: the role's entry is noted as configured.
LEMMA ConfiguredStep ==
    ASSUME IInv, Configured
    PROVE  IInv'
<1>1. PICK i \in Slots : Gets(emitting, i) /\ virts' = [virts EXCEPT ![i].configured = TRUE]
    BY DEF Configured
<1>2. emitting' = NoObject /\ emitting \in Objects
    BY DEF Configured, IInv, TypeOK
<1>3. /\ virts' \in [Slots -> Entries]
      /\ \A k \in Slots : /\ virts'[k].proxy = virts[k].proxy /\ virts'[k].kind = virts[k].kind
                          /\ virts'[k].wl_surface = virts[k].wl_surface
                          /\ virts'[k].listener = virts[k].listener
                          /\ virts'[k].abs_x = virts[k].abs_x
                          /\ virts'[k].popup_x = virts[k].popup_x
                          /\ k # i => virts'[k] = virts[k]
    BY <1>1 DEF IInv, TypeOK, Entries
<1>4. /\ \A x \in Objects \cup Registries :
            /\ object'[x] \in ClientObjects /\ object'[x].state = object[x].state
            /\ object'[x].kind = object[x].kind /\ object'[x].surface = object[x].surface
            /\ object'[x].listener = object[x].listener /\ object'[x].parent = object[x].parent
      /\ object' \in [Objects \cup Registries -> ClientObjects]
    <2>1. CASE UNCHANGED object
        BY <2>1 DEF IInv, TypeOK
    <2>2. CASE object' = [object EXCEPT ![emitting].owed = FALSE]
        BY <1>2, <2>2 DEF IInv, TypeOK, ClientObjects
    <2> QED
        BY <2>1, <2>2 DEF Configured
<1>5. TypeOK' /\ Unique' /\ RegistryEntries' /\ FirstSurface'
    BY <1>2, <1>3, <1>4 DEF IInv, TypeOK, Unique, RegistryEntries, FirstSurface
<1>6. OneRole' /\ RoleOnSurface' /\ ParentsStay'
    BY <1>4 DEF IInv, OneRole, RoleOnSurface, ParentsStay, Has, Live
<1>7. Owned'
    BY <1>3, <1>4 DEF IInv, Owned, Owns, Live
<1>8. PlacesAdd'
    BY <1>3, <1>4, PlacesKept
<1>9. ~HandlersAct => Answered'
    <2> SUFFICES ASSUME ~HandlersAct, Answered PROVE Answered'
        BY DEF IInv
    <2>1. Live(emitting) /\ object[emitting].kind \in Roles /\ object[emitting].listener
        BY DEF Answered, Configured
    <2>2. object' = [object EXCEPT ![emitting].owed = FALSE]
        BY <1>2, <2>1, SurfaceFound DEF Configured
    <2>3. /\ object'[emitting].owed = FALSE
          /\ \A x \in Objects : x # emitting => object'[x].owed = object[x].owed
        BY <1>2, <2>2 DEF IInv, TypeOK, ClientObjects
    <2>4. virts[i].proxy = emitting
        BY <1>1 DEF Gets
    <2>5. ASSUME NEW k \in Slots, NEW x \in Objects, virts'[k].proxy = x, virts'[k].configured
          PROVE  object'[x].listener
        BY <1>3, <1>4, <2>1, <2>4, <2>5 DEF Answered
    <2>6. \A x \in Objects : Live(x)' /\ object'[x].owed => object'[x].kind \in Roles
        BY <1>4, <2>3 DEF Answered, Live
    <2>7. ConfiguresCome'
        BY <1>4, <2>3 DEF Answered, ConfiguresCome, Live
    <2> QED
        BY <1>2, <2>5, <2>6, <2>7 DEF Answered
<1> QED
    BY <1>5, <1>6, <1>7, <1>8, <1>9 DEF IInv

\* The steps by which objects go.
LEMMA RemovalStep ==
    ASSUME IInv, NEW o \in Objects,
           ProxyDestroy(o) \/ \E flag \in BOOLEAN : DestroyRequest(o, flag)
    PROVE  IInv'
<1>0. Unused \in ClientObjects /\ Unused.state # "live"
      /\ [Unused EXCEPT !.state = "undone"] \in ClientObjects
      /\ [Unused EXCEPT !.state = "undone"].state # "live"
    BY DEF Unused, ClientObjects, Kinds
<1>1. ASSUME NEW flag \in BOOLEAN, DestroyRequest(o, flag) PROVE IInv'
    <2>1. PICK i \in Slots : Gets(o, i) /\ Teardown(i)
        BY <1>1 DEF DestroyRequest
    <2>2. /\ Live(o) /\ virts[i].proxy = o /\ UNCHANGED emitting
          /\ object[o].kind = "surface" => ~Has(object[o].surface, Roles)
          /\ object[o].kind \in Roles => ~IsParent(o)
          /\ ~HandlersAct => emitting = NoObject
        BY <1>1, <2>1 DEF DestroyRequest, Gets, MayGo, Roles, Calm
    <2>3. PICK v \in ClientObjects : v.state # "live" /\ object' = [object EXCEPT ![o] = v]
        BY <1>0, <1>1 DEF DestroyRequest
    <2> QED
        BY <2>1, <2>2, <2>3, Removal
<1>2. CASE ProxyDestroy(o)
    <2>1. /\ object' = [object EXCEPT ![o] = Unused] /\ UNCHANGED emitting
          /\ ~HandlersAct => emitting = NoObject
        BY <1>2 DEF ProxyDestroy, Calm
    <2>2. CASE Live(o) /\ object[o].kind = "other"
        <3>1. PICK i \in Slots : virts[i].proxy = o /\ Teardown(i)
            BY <1>2, <2>2 DEF ProxyDestroy, Gets, IInv, Owned, Owns
        <3> QED
            BY <1>0, <2>1, <2>2, <3>1, Removal DEF Roles
    <2>3. CASE object[o].state = "undone"
        <3>1. \A i \in Slots : virts[i].proxy # o
            BY <2>3 DEF IInv, Owned, Owns, Live
        <3>2. UNCHANGED virts
            BY <1>2, <3>1 DEF ProxyDestroy, Gets
        <3>3. /\ object'[o] = Unused /\ \A x \in Objects : x # o => object'[x] = object[x]
              /\ object' \in [Objects \cup Registries -> ClientObjects]
            BY <1>0, <2>1 DEF IInv, TypeOK
        <3>4. ~Live(o) /\ ~Live(o)' /\ \A x \in Objects : Live(x)' <=> Live(x)
            BY <1>0, <2>3, <3>3 DEF Live
        <3>5. TypeOK' /\ Unique' /\ RegistryEntries' /\ FirstSurface'
            BY <2>1, <3>2, <3>3 DEF IInv, TypeOK, Unique, RegistryEntries, FirstSurface
        <3>6. OneRole' /\ RoleOnSurface' /\ ParentsStay'
            BY <3>3, <3>4 DEF IInv, OneRole, RoleOnSurface, ParentsStay, Has
        <3>7. Owned'
            BY <3>1, <3>2, <3>3, <3>4 DEF IInv, Owned, Owns
        <3>8. PlacesAdd'
            BY <3>2, <3>3, <3>4, PlacesKept
        <3>9. ~HandlersAct => Answered'
            BY <2>1, <3>1, <3>2, <3>3, <3>4 DEF IInv, Answered, ConfiguresCome
        <3> QED
            BY <3>5, <3>6, <3>7, <3>8, <3>9 DEF IInv
    <2> QED
        BY <1>2, <2>2, <2>3 DEF ProxyDestroy
<1> QED
    BY <1>1, <1>2

\* The steps of registries, whose entries stay.
LEMMA RegistryStep ==
    ASSUME IInv, Fits, NotFull, NEW r \in Registries, ListenRegistry(r) \/ DestroyRegistry(r)
    PROVE  IInv'
<1>1. r \notin Objects /\ r # NoObject
    BY VirtConstants DEF Fits
<1>2. CASE DestroyRegistry(r)
    <2>1. /\ UNCHANGED <<virts, emitting>> /\ \A x \in Objects : object'[x] = object[x]
          /\ object' \in [Objects \cup Registries -> ClientObjects]
        BY <1>1, <1>2 DEF DestroyRegistry, IInv, TypeOK, Unused, ClientObjects, Kinds
    <2> QED
        <3>1. TypeOK' /\ Unique' /\ RegistryEntries' /\ FirstSurface'
            BY <2>1 DEF IInv, TypeOK, Unique, RegistryEntries, FirstSurface
        <3>2. OneRole' /\ RoleOnSurface' /\ ParentsStay' /\ Owned'
            BY <2>1 DEF IInv, OneRole, RoleOnSurface, ParentsStay, Has, Live, Owned, Owns
        <3>3. PlacesAdd'
            BY <2>1, PlacesKept
        <3>4. ~HandlersAct => Answered'
            BY <2>1 DEF IInv, Answered, ConfiguresCome, Live, TypeOK
        <3> QED
            BY <3>1, <3>2, <3>3, <3>4 DEF IInv
<1>3. CASE ListenRegistry(r)
    <2>1. /\ UNCHANGED emitting /\ \A x \in Objects : object'[x] = object[x]
          /\ object' \in [Objects \cup Registries -> ClientObjects]
        BY <1>1, <1>3 DEF ListenRegistry, Born, IInv, TypeOK, ClientObjects, Kinds
    <2>2. OneRole' /\ RoleOnSurface' /\ ParentsStay'
        BY <2>1 DEF IInv, OneRole, RoleOnSurface, ParentsStay, Has, Live
    <2>3. ASSUME NEW i \in Slots, NEW e \in Entries, e.proxy = r, e.kind = "registry",
                 virts' = [virts EXCEPT ![i] = e],
                 virts[i].proxy = r \/ (virts[i].proxy = NoObject /\ \A k \in Slots : virts[k].proxy # r)
          PROVE  IInv'
        <3>1. /\ virts'[i] = e /\ \A k \in Slots : k # i => virts'[k] = virts[k]
              /\ virts' \in [Slots -> Entries]
            BY <2>3 DEF IInv, TypeOK
        <3>2. TypeOK' /\ Unique' /\ RegistryEntries'
            BY <1>1, <2>1, <2>3, <3>1 DEF IInv, TypeOK, Unique, RegistryEntries
        <3>3. FirstSurface'
            BY <2>3, <3>1 DEF IInv, FirstSurface
        <3>4. Owned'
            <4> SUFFICES ASSUME NEW x \in Objects PROVE Owns(x)'
                BY DEF Owned
            <4>1. Owns(x) /\ x # NoObject /\ x # r
                BY <1>1, VirtConstants DEF IInv, Owned
            <4> QED
                BY <2>1, <2>3, <3>1, <4>1 DEF Owns, Live
        <3>5. PlacesAdd'
            <4> SUFFICES ASSUME NEW k \in Slots, NEW x \in Objects,
                                virts'[k].proxy = x, virts'[k].kind = "popup",
                                NEW q, q = object'[x].parent
                         PROVE  virts'[k].abs_x = ParentAbs(q)' + virts'[k].popup_x
                BY DEF PlacesAdd
            <4>1. virts'[k] = virts[k] /\ object'[x] = object[x] /\ k # i
                BY <1>1, <2>1, <2>3, <3>1
            <4>2. virts[k].abs_x = ParentAbs(q) + virts[k].popup_x
                BY <4>1 DEF IInv, PlacesAdd
            <4>3. ~IsPopupOf(q, i)
                BY <2>3 DEF IsPopupOf, IInv, RegistryEntries
            <4>4. \A j \in Slots : IsPopupOf(q, j)' <=> IsPopupOf(q, j)
                BY <2>3, <3>1, <4>3 DEF IsPopupOf
            <4>5. ParentAbs(q)' = ParentAbs(q)
                BY <3>1, <4>3, <4>4, ParentAbsKept
            <4> QED
                BY <4>1, <4>2, <4>5
        <3>6. ~HandlersAct => Answered'
            BY <1>1, <2>1, <2>3, <3>1 DEF IInv, Answered, ConfiguresCome, Live, TypeOK
        <3> QED
            BY <2>2, <3>2, <3>3, <3>4, <3>5, <3>6 DEF IInv
    <2>4. CASE \E i \in Slots : Gets(r, i) /\ virts' = [virts EXCEPT ![i].listener = TRUE]
        <3>1. PICK i \in Slots : Gets(r, i) /\ virts' = [virts EXCEPT ![i].listener = TRUE]
            BY <2>4
        <3> DEFINE e == [virts[i] EXCEPT !.listener = TRUE]
        <3>2. virts[i].proxy = r /\ virts[i].kind = "registry" /\ virts[i] \in Entries
            BY <3>1 DEF Gets, IInv, RegistryEntries, TypeOK
        <3>3. e \in Entries /\ e.proxy = r /\ e.kind = "registry" /\ virts' = [virts EXCEPT ![i] = e]
            <4>1. e \in Entries /\ e.proxy = r /\ e.kind = "registry"
                BY <3>2 DEF Entries
            <4> QED
                BY <3>1, <4>1
        <3> HIDE DEF e
        <3> QED
            BY <2>3, <3>2, <3>3
    <2>5. CASE /\ \A i \in Slots : virts[i].proxy # r
               /\ Added([Entry(r, "registry", NoSurface) EXCEPT !.listener = TRUE])
        <3> DEFINE e == [Entry(r, "registry", NoSurface) EXCEPT !.listener = TRUE]
        <3>1. PICK i \in Slots : Takes(i) /\ virts' = [virts EXCEPT ![i] = e]
            BY <2>5, AddedEntry
        <3>2. e \in Entries /\ e.proxy = r /\ e.kind = "registry"
            <4>1. LET f == Entry(r, "registry", NoSurface)
                  IN  f \in Entries /\ f.proxy = r /\ f.kind = "registry"
                BY DEF Entry, Entries, Kinds
            <4> QED
                BY <4>1 DEF Entries
        <3>3. virts[i].proxy = NoObject
            BY <3>1 DEF Takes, Free
        <3> HIDE DEF e
        <3> QED
            BY <2>3, <2>5, <3>1, <3>2, <3>3
    <2> QED
        BY <1>3, <2>4, <2>5 DEF ListenRegistry
<1> QED
    BY <1>2, <1>3

\* Every step keeps the invariant, if there is a free entry.
LEMMA InvariantStep == Fits /\ NotFull /\ IInv /\ [Next]_vars => IInv'
<1> SUFFICES ASSUME Fits, NotFull, IInv, [Next]_vars PROVE IInv'
    OBVIOUS
<1>1. CASE UNCHANGED vars
    <2>1. TypeOK' /\ Unique' /\ RegistryEntries' /\ FirstSurface'
        BY <1>1 DEF vars, IInv, TypeOK, Unique, RegistryEntries, FirstSurface
    <2>2. OneRole' /\ RoleOnSurface' /\ ParentsStay' /\ Owned'
        BY <1>1 DEF vars, IInv, OneRole, RoleOnSurface, ParentsStay, Has, Live, Owned, Owns
    <2>3. PlacesAdd'
        BY <1>1, PlacesKept DEF vars
    <2>4. ~HandlersAct => Answered'
        BY <1>1 DEF vars, IInv, Answered, ConfiguresCome, Live
    <2> QED
        BY <2>1, <2>2, <2>3, <2>4 DEF IInv
<1>2. CASE Next
    BY <1>2, CreationStep, ChangeStep, ConfiguredStep, RemovalStep, RegistryStep DEF Next
<1> QED
    BY <1>1, <1>2

\* The invariant holds from the start.
LEMMA InvariantInit == Init => IInv
<1> SUFFICES ASSUME Init PROVE IInv
    OBVIOUS
<1>1. /\ \A i \in Slots : /\ virts[i].proxy = NoObject /\ virts[i].kind = "registry"
                          /\ virts[i] \in Entries
      /\ virts \in [Slots -> Entries]
    BY DEF Init, Entry, Entries, Kinds
<1>2. /\ \A o \in Objects : object[o].state = "none"
      /\ object \in [Objects \cup Registries -> ClientObjects]
    BY DEF Init, Unused, ClientObjects, Kinds
<1>3. \A o \in Objects \cup Registries : o # NoObject
    BY VirtConstants
<1>4. emitting = NoObject
    BY DEF Init
<1>5. TypeOK /\ Unique /\ RegistryEntries /\ FirstSurface
    BY <1>1, <1>2, <1>3, <1>4 DEF TypeOK, Unique, RegistryEntries, FirstSurface
<1>6. OneRole /\ RoleOnSurface /\ ParentsStay /\ Owned
    BY <1>1, <1>2, <1>3 DEF OneRole, RoleOnSurface, ParentsStay, Live, Owned, Owns
<1>7. PlacesAdd
    BY <1>1 DEF PlacesAdd
<1>8. Answered
    BY <1>1, <1>2, <1>3, <1>4 DEF Answered, ConfiguresCome, Live
<1> QED
    BY <1>5, <1>6, <1>7, <1>8 DEF IInv

\* The invariant holds throughout.
LEMMA InvariantHolds == Fits /\ Spec /\ []NotFull => []IInv
<1> SUFFICES ASSUME Fits PROVE Spec /\ []NotFull => []IInv
    OBVIOUS
<1>1. NotFull /\ IInv /\ [Next]_vars => IInv'
    BY InvariantStep
<1> QED
    BY <1>1, InvariantInit, PTL DEF Spec

-----------------------------------------------------------------------------
(* The results. *)

\* The table and the client's objects keep their types.
THEOREM TypeCorrect == Fits /\ Spec /\ []NotFull => []TypeOK
<1>1. IInv => TypeOK
    BY DEF IInv
<1> QED
    BY <1>1, InvariantHolds, PTL

\* virt_get finds every live object's own entry, and none for an object that is gone,
\* for any number of objects and entries, while the table is not full and no registry's
\* address is used again.
THEOREM EntriesFound == Fits /\ Spec /\ []NotFull => []OwnEntry
<1>1. IInv => OwnEntry
    <2> SUFFICES ASSUME IInv PROVE OwnEntry
        OBVIOUS
    <2>1. \A o \in Objects : o # NoObject
        BY VirtConstants
    <2> QED
        BY <2>1, OnlyEntryGot DEF IInv, OwnEntry, Owned, Owns
<1> QED
    BY <1>1, InvariantHolds, PTL

\* The xdg_surface found for a role, among entries in use and freed, is the live one.
THEOREM SurfacesFound == Fits /\ Spec /\ []NotFull => []LiveSurfaceFound
<1>1. IInv => LiveSurfaceFound
    BY SurfaceFound DEF LiveSurfaceFound
<1> QED
    BY <1>1, InvariantHolds, PTL

\* GTK gets every configure it waits for, on a role it listens to, unless its own
\* configure handlers make or destroy shell objects: `emitting` then drops none.
THEOREM ConfigureAlwaysComes ==
    Fits /\ ~HandlersAct /\ Spec /\ []NotFull => []ConfiguresCome
<1> SUFFICES ASSUME Fits, ~HandlersAct PROVE Spec /\ []NotFull => []ConfiguresCome
    OBVIOUS
<1>1. IInv => ConfiguresCome
    BY DEF IInv, Answered
<1> QED
    BY <1>1, InvariantHolds, PTL

\* The place by which a pop-up is drawn and clicked on, abs_x, stays its parent's place
\* plus what GTK was told, through any sequence of openings, repositions and closings.
THEOREM PlacesAgree == Fits /\ Spec /\ []NotFull => []PlacedWhereTold
<1>1. IInv => PlacedWhereTold
    <2> SUFFICES ASSUME IInv, NEW o \in Objects, NEW i \in Slots,
                        Live(o), object[o].kind = "popup", Gets(o, i)
                 PROVE  /\ ParentPopups(o) = {} => virts[i].abs_x = virts[i].popup_x
                        /\ \A j \in ParentPopups(o) :
                             virts[i].abs_x = virts[j].abs_x + virts[i].popup_x
        BY DEF PlacedWhereTold
    <2> DEFINE q == object[o].parent
    <2>1. /\ virts[i].abs_x = ParentAbs(q) + virts[i].popup_x
          /\ virts[i].popup_x \in Nat
        BY OwnEntryGot DEF IInv, PlacesAdd, TypeOK, Entries
    <2>2. \A j \in ParentPopups(o) : j \in Slots /\ IsPopupOf(q, j)
        BY OwnEntryGot DEF ParentPopups, IsPopupOf
    <2>3. ASSUME NEW j \in Slots, IsPopupOf(q, j) PROVE j \in ParentPopups(o)
        <3>1. virts[j].proxy \in Objects /\ virts[j].proxy # NoObject
            BY <2>3, PopupOfClient DEF IsPopupOf
        <3>2. Gets(virts[j].proxy, j)
            BY <3>1, OnlyEntryGot DEF IInv
        <3> QED
            BY <2>3, <3>1, <3>2, PopupOfClient DEF ParentPopups
    <2>4. /\ ParentPopups(o) = {} => ParentAbs(q) = 0
          /\ \A j \in ParentPopups(o) : ParentAbs(q) = virts[j].abs_x
        BY <2>2, <2>3, ParentAbsValue
    <2> HIDE DEF q
    <2> QED
        BY <2>1, <2>4
<1> QED
    BY <1>1, InvariantHolds, PTL

=============================================================================
