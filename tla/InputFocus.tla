------------------------------ MODULE InputFocus ------------------------------
(***************************************************************************)
(* What GTK is told of the pointer and the keyboard (src/src/webos-xdg.c,  *)
(* "pointer_enter" to "keyboard_key").  The adapter stands between the     *)
(* compositor's wl_pointer and wl_keyboard events and GTK's listeners, and *)
(* tells GTK of clicks of its own, which it reads from evdev, on TVs whose *)
(* compositor sends none.  Pop-ups are subsurfaces on newer TVs, where the *)
(* compositor gives them a focus of their own, and on webOS 4 pictures in  *)
(* one overlay, where the adapter has to make that focus up.               *)
(*                                                                         *)
(* Events are on their way for a while (wire), during which GTK may close  *)
(* the pop-up they name; libwayland then hands them over with no surface.  *)
(* GTK closes a pop-up in one go: xdg_popup, xdg_surface and wl_surface.   *)
(* A release of the button takes the same way as its press and is left     *)
(* out, and so are positions: what is under the pointer is any pop-up that *)
(* is shown.  That the keyboard on the screen covers a click is a choice   *)
(* (OnScreenKeyboard has its state).                                       *)
(***************************************************************************)
EXTENDS Naturals, Sequences, FiniteSets

CONSTANTS
    Menus,          \* the surfaces of GTK's pop-ups
    MaxWire,        \* bound: events of the compositor on their way
    MaxClicks,      \* bound: clicks of the remote
    IdleClicks      \* clicks may come 10 s after the pointer last moved

Main    == "main"       \* the main window
Content == "content"    \* a layer of it (webOS 4)
Overlay == "overlay"    \* the adapter's pop-up overlay (webOS 4)
None    == "none"

ASSUME FocusConstants ==
    /\ Menus \cap {Main, Content, Overlay, None} = {}
    /\ MaxWire \in Nat /\ MaxClicks \in Nat
    /\ IdleClicks \in BOOLEAN

VARIABLES
    tv,             \* overlay: pop-ups are in the overlay; delivers: wl_pointer events come
    menus,          \* pop-ups with an xdg_popup
    shown,          \* those configured, and in the overlay with a picture
    synth_focus,
    ov_ptr_on,
    ov_ptr_popup,
    recent,         \* real_pointer_active()
    focused_keys,   \* focused_keys is set
    wire,           \* the compositor's events on their way, oldest first
    pointer_at,     \* the compositor's own view of both focuses
    keys_at,
    ptr_q,          \* the remote's events that wait for drain_remote
    gtk,            \* where GTK was told the pointer is; astray: told what cannot be
    gtk_keys,       \* the window GTK was told has the keyboard
    swallowed,      \* history: GTK was spared a leave of its window, for an open menu,
                    \* and has not been told of an enter since
    made, told      \* clicks made on the remote, and told to GTK

menuVars   == <<menus, shown>>
ptrVars    == <<synth_focus, ov_ptr_on, ov_ptr_popup, recent>>
keyVars    == <<focused_keys, gtk_keys, swallowed>>
serverVars == <<pointer_at, keys_at>>
clickVars  == <<made, told>>
vars == <<tv, menuVars, ptrVars, keyVars, wire, serverVars, ptr_q, gtk, clickVars>>

Init ==
    /\ tv \in [overlay : BOOLEAN, delivers : BOOLEAN]
    /\ menus = {} /\ shown = {}
    /\ synth_focus = None /\ ov_ptr_on = FALSE /\ ov_ptr_popup = None /\ recent = FALSE
    /\ focused_keys = FALSE /\ gtk_keys = None /\ swallowed = FALSE
    /\ wire = << >> /\ pointer_at = None /\ keys_at = None
    /\ ptr_q = << >>
    /\ gtk = [at |-> None, astray |-> FALSE]
    /\ made = 0 /\ told = 0

-----------------------------------------------------------------------------
(* GTK. *)

\* GTK handles an enter or a leave; one without a surface it ignores.
Entered(g, s) ==
    IF s = None THEN g ELSE [at |-> s, astray |-> g.astray \/ g.at # None]
Left(g, s) ==
    IF s = None THEN g ELSE [at |-> None, astray |-> g.astray \/ g.at # s]

\* xdg_surface.get_popup.
OpenMenu(m) ==
    /\ m \notin menus
    /\ menus' = menus \cup {m}
    /\ UNCHANGED <<tv, shown, ptrVars, keyVars, wire, serverVars, ptr_q, gtk, clickVars>>

\* emit_popup_configure, and GTK's picture.
ShowMenu(m) ==
    /\ m \in menus \ shown
    /\ shown' = shown \cup {m}
    /\ UNCHANGED <<tv, menus, ptrVars, keyVars, wire, serverVars, ptr_q, gtk, clickVars>>

Forgotten(s, m) == IF s = m THEN None ELSE s

\* Mutant: the focus stays on a pop-up that is gone.
FocusKept(m) == UNCHANGED <<synth_focus, ov_ptr_popup>>

\* virt_teardown of a subsurface pop-up, ov_popup_gone of one in the overlay.
FocusForgets(m) ==
    IF tv.overlay
    THEN /\ ov_ptr_popup' = Forgotten(ov_ptr_popup, m)
         /\ UNCHANGED synth_focus
    ELSE /\ synth_focus' = Forgotten(synth_focus, m)
         /\ UNCHANGED ov_ptr_popup

\* GTK closes a pop-up; events on their way no longer name it.
CloseMenu(m) ==
    /\ m \in menus
    /\ menus' = menus \ {m} /\ shown' = shown \ {m}
    /\ FocusForgets(m)
    /\ wire' = [i \in DOMAIN wire |-> [wire[i] EXCEPT !.on = Forgotten(@, m)]]
    /\ pointer_at' = Forgotten(pointer_at, m)
    /\ keys_at' = Forgotten(keys_at, m)
    /\ gtk' = [gtk EXCEPT !.at = Forgotten(@, m)]
    /\ UNCHANGED <<tv, ov_ptr_on, recent, keyVars, ptr_q, clickVars>>

-----------------------------------------------------------------------------
(* The compositor, and the hand on the remote. *)

Sent(kind, s) == IF s = None THEN << >> ELSE <<[kind |-> kind, on |-> s]>>

\* What the compositor may give a focus to: on webOS 4 the overlay once it
\* shows something, elsewhere each pop-up.
Focusable ==
    {Main, None} \cup
    (IF ~tv.overlay THEN shown ELSE {Content} \cup (IF shown = {} THEN {} ELSE {Overlay}))

MovePointer(s) ==
    /\ tv.delivers
    /\ s \in Focusable /\ s # pointer_at
    /\ Len(wire) + 2 <= MaxWire
    /\ pointer_at' = s
    /\ wire' = wire \o Sent("leave", pointer_at) \o Sent("enter", s)
    /\ UNCHANGED <<tv, menuVars, ptrVars, keyVars, keys_at, ptr_q, gtk, clickVars>>

Motion ==
    /\ tv.delivers
    /\ pointer_at # None
    /\ Len(wire) < MaxWire
    /\ wire' = wire \o Sent("motion", pointer_at)
    /\ UNCHANGED <<tv, menuVars, ptrVars, keyVars, serverVars, ptr_q, gtk, clickVars>>

MoveKeys(s) ==
    /\ s \in Focusable /\ s # keys_at
    /\ Len(wire) + 2 <= MaxWire
    /\ keys_at' = s
    /\ wire' = wire \o Sent("keyboard_leave", keys_at) \o Sent("keyboard_enter", s)
    /\ UNCHANGED <<tv, menuVars, ptrVars, keyVars, pointer_at, ptr_q, gtk, clickVars>>

\* remote_thread sees the click, and so does the compositor.  Unless IdleClicks,
\* the pointer has moved within the 10 s before.
Click ==
    /\ made < MaxClicks
    /\ tv.delivers /\ ~IdleClicks => recent
    /\ Len(wire) < MaxWire
    /\ made' = made + 1
    /\ ptr_q' = Append(ptr_q, "press")
    /\ wire' = IF tv.delivers THEN wire \o Sent("press", pointer_at) ELSE wire
    /\ UNCHANGED <<tv, menuVars, ptrVars, keyVars, serverVars, gtk, told>>

\* remote_thread sees a wheel notch or Back.
Notch ==
    /\ ptr_q = << >>
    /\ ptr_q' = <<"other">>
    /\ UNCHANGED <<tv, menuVars, ptrVars, keyVars, wire, serverVars, gtk, clickVars>>

\* 10 s without a wl_pointer event.
Idle ==
    /\ recent
    /\ ptr_q = << >> \/ IdleClicks
    /\ recent' = FALSE
    /\ UNCHANGED <<tv, menuVars, synth_focus, ov_ptr_on, ov_ptr_popup, keyVars, wire,
                   serverVars, ptr_q, gtk, clickVars>>

-----------------------------------------------------------------------------
(* The compositor's events are dispatched. *)

InputSurface(s) == IF s \in {Overlay, Content} THEN Main ELSE s

Dispatch(kind) ==
    /\ wire # << >>
    /\ Head(wire).kind = kind
    /\ wire' = Tail(wire)
    /\ UNCHANGED <<tv, menuVars, serverVars, ptr_q, made>>

\* ov_hit: the pop-up under the pointer, or none.
OvHit == shown \cup {None}

PointerEnter ==
    /\ Dispatch("enter")
    /\ recent' = TRUE
    /\ IF Head(wire).on = Overlay
       THEN \E hit \in OvHit :
              /\ ov_ptr_on' = TRUE
              /\ ov_ptr_popup' = hit
              /\ gtk' = Entered(gtk, hit)
              /\ UNCHANGED synth_focus
       ELSE /\ ov_ptr_on' = FALSE
            /\ synth_focus' = InputSurface(Head(wire).on)
            /\ gtk' = Entered(gtk, InputSurface(Head(wire).on))
            /\ UNCHANGED ov_ptr_popup
    /\ UNCHANGED <<keyVars, told>>

PointerLeave ==
    /\ Dispatch("leave")
    /\ IF Head(wire).on = Overlay
       THEN /\ gtk' = Left(gtk, ov_ptr_popup)
            /\ ov_ptr_popup' = None
            /\ ov_ptr_on' = FALSE
            /\ UNCHANGED synth_focus
       ELSE /\ gtk' = Left(gtk, InputSurface(Head(wire).on))
            /\ synth_focus' = Forgotten(synth_focus, InputSurface(Head(wire).on))
            /\ UNCHANGED <<ov_ptr_on, ov_ptr_popup>>
    /\ UNCHANGED <<recent, keyVars, told>>

\* On the overlay, GTK is told when the pointer comes to another pop-up.
PointerMotion ==
    /\ Dispatch("motion")
    /\ recent' = TRUE
    /\ IF ov_ptr_on
       THEN \E hit \in OvHit :
              /\ ov_ptr_popup' = hit
              /\ gtk' = IF hit = ov_ptr_popup THEN gtk ELSE Entered(Left(gtk, ov_ptr_popup), hit)
       ELSE UNCHANGED <<ov_ptr_popup, gtk>>
    /\ UNCHANGED <<synth_focus, ov_ptr_on, keyVars, told>>

PointerButton ==
    /\ Dispatch("press")
    /\ recent' = TRUE
    /\ told' = told + 1
    /\ UNCHANGED <<synth_focus, ov_ptr_on, ov_ptr_popup, keyVars, gtk>>

\* A pop-up that is a subsurface; pop-ups in the overlay get no focus.
IsPopupSurface(s) == s \in menus /\ ~tv.overlay

\* popup_is_open.
PopupIsOpen == menus # {}

KeyboardEnter ==
    /\ Dispatch("keyboard_enter")
    /\ focused_keys' = TRUE
    /\ LET s == InputSurface(Head(wire).on)
       IN  IF IsPopupSurface(s) \/ s = None
           THEN UNCHANGED <<gtk_keys, swallowed>>
           ELSE gtk_keys' = s /\ swallowed' = FALSE
    /\ UNCHANGED <<ptrVars, gtk, told>>

\* Mutant: a leave is swallowed whether or not a menu is open.
SwallowAnyLeave(s) == IsPopupSurface(s) \/ s = Main

\* keyboard_leave keeps a leave from GTK.
LeaveSwallowed(s) == IsPopupSurface(s) \/ (s = Main /\ PopupIsOpen)

KeyboardLeave ==
    /\ Dispatch("keyboard_leave")
    /\ LET s == InputSurface(Head(wire).on)
       IN  IF LeaveSwallowed(s)
           THEN /\ swallowed' = (swallowed \/ (s = Main /\ PopupIsOpen))
                /\ UNCHANGED <<focused_keys, gtk_keys>>
           ELSE /\ focused_keys' = FALSE
                /\ gtk_keys' = IF s = None THEN gtk_keys ELSE None
                /\ UNCHANGED swallowed
    /\ UNCHANGED <<ptrVars, gtk, told>>

-----------------------------------------------------------------------------
(* The remote's events are applied, on the thread that dispatches. *)

\* popup_at: a configured subsurface pop-up there, or none.
PopupAt == IF tv.overlay THEN {None} ELSE shown \cup {None}

\* focus_and_move.
FocusAndMove(target) ==
    /\ synth_focus' = target
    /\ gtk' = IF target = synth_focus THEN gtk ELSE Entered(Left(gtk, synth_focus), target)

Drain(kind) ==
    /\ ptr_q # << >>
    /\ Head(ptr_q) = kind
    /\ ptr_q' = Tail(ptr_q)
    /\ UNCHANGED <<tv, menuVars, ov_ptr_on, ov_ptr_popup, recent, keyVars, wire, serverVars, made>>

\* Mutant: a click is told to GTK however lately the compositor sent one.
AlwaysInjects == TRUE

\* The compositor is not known to send clicks itself.
Injects == ~recent

\* apply_remote_event, of a click: on the keyboard, while the compositor sends its
\* own, or told to GTK.
ApplyClick ==
    /\ Drain("press")
    /\ \/ UNCHANGED <<synth_focus, gtk, told>>
       \/ /\ Injects
          /\ told' = told + 1
          /\ \E over \in PopupAt : FocusAndMove(IF over = None THEN Main ELSE over)

\* deliver_wheel and hide_keyboard move no focus.
ApplyOther ==
    /\ Drain("other")
    /\ UNCHANGED <<synth_focus, gtk, told>>

-----------------------------------------------------------------------------

Gtk == \E m \in Menus : OpenMenu(m) \/ ShowMenu(m) \/ CloseMenu(m)

Server ==
    \/ \E s \in {Main, Content, Overlay, None} \cup Menus : MovePointer(s) \/ MoveKeys(s)
    \/ Motion

Remote == Click \/ Notch \/ Idle

Handlers ==
    \/ PointerEnter \/ PointerLeave \/ PointerMotion \/ PointerButton
    \/ KeyboardEnter \/ KeyboardLeave
    \/ ApplyClick \/ ApplyOther

Next == Gtk \/ Server \/ Remote \/ Handlers

Spec == Init /\ [][Next]_vars

-----------------------------------------------------------------------------
(* Properties. *)

Surfaces == {Main, Content, Overlay, None} \cup Menus
Kinds == {"enter", "leave", "motion", "press", "keyboard_enter", "keyboard_leave"}

\* The values the variables take.
TypeOK ==
    /\ tv \in [overlay : BOOLEAN, delivers : BOOLEAN]
    /\ shown \subseteq menus /\ menus \subseteq Menus
    /\ synth_focus \in {Main, None} \cup Menus
    /\ ov_ptr_popup \in {None} \cup shown
    /\ ov_ptr_on \in BOOLEAN /\ recent \in BOOLEAN
    /\ focused_keys \in BOOLEAN /\ swallowed \in BOOLEAN
    /\ gtk_keys \in {Main, None}
    /\ wire \in Seq([kind : Kinds, on : Surfaces])
    /\ pointer_at \in Surfaces /\ keys_at \in Surfaces
    /\ ptr_q \in Seq({"press", "other"})
    /\ gtk \in [at : {Main, None} \cup Menus, astray : BOOLEAN]
    /\ made \in 0..MaxClicks /\ told \in Nat

\* GTK is led through its surfaces step by step: every enter when it is in none,
\* every leave of the one it is in, whatever pop-ups close on the way and
\* whichever of compositor, overlay and remote the events are from.
NeverAstray == ~gtk.astray

\* A click reaches GTK once, from the compositor or from the remote, not both.
ClickedOnce == told <= made

\* Once menus are closed and all events are handled, GTK is right about the
\* keyboard, and so is focused_keys, by which keysyms are typed: both are wrong
\* only where GTK was spared a leave and the keyboard then went to another
\* application for good.
KeyboardBelief ==
    (wire = << >> /\ menus = {}) =>
        IF InputSurface(keys_at) = Main
        THEN gtk_keys = Main /\ focused_keys
        ELSE gtk_keys = None \/ swallowed

=============================================================================
