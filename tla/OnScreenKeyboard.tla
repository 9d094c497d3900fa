--------------------------- MODULE OnScreenKeyboard ---------------------------
(***************************************************************************)
(* The webOS keyboard (src/src/webos-xdg.c, "text_input_v3" and            *)
(* "show_keyboard" to "ensure_text_model").  GTK says which field has the  *)
(* focus by text-input-v3, which the adapter implements; the adapter shows *)
(* and hides the keyboard by LG's text_model.  A compositor destroys a     *)
(* text_model that is deactivated, so each hide is the end of one and the  *)
(* next show makes another.  keyboard_up is the adapter's belief; requests *)
(* and events on their way make it differ from the panel on the screen.    *)
(*                                                                         *)
(* The requests show_keyboard sends together are one, "activate", and      *)
(* hide_keyboard's "deactivate".  The seat and the factory are there.      *)
(* What the compositor does with the keyboard when the surface loses the   *)
(* text focus is open: it takes it down, or leaves it up.                  *)
(* Typed text, the panel's rectangle and the serials are not modelled.     *)
(***************************************************************************)
EXTENDS Naturals, Sequences

CONSTANTS
    Models,         \* text_model object ids
    NoModel,
    MaxInFlight     \* bound: requests and events on their way when a keyboard is shown

ASSUME KeyboardAssumption == NoModel \notin Models /\ MaxInFlight \in Nat

VARIABLES
    (* the adapter, for GTK *)
    v3,             \* text_input_v3: no object, one without a listener, or one with
    text_input_bound,
    text_input_entered,
    text_input_pending,
    text_input_enabled,
    main_surface,   \* it is mapped
    clicked,        \* clicked_recently()
    (* the adapter, for the compositor *)
    text_input,     \* the text_model in use
    keyboard_up,
    (* the compositor *)
    model,          \* what each text_model is to it
    panel,          \* the text_model whose keyboard is on the screen
    left_up,        \* or the one whose keyboard a leave has left there
    stray_leave,    \* an event may have crossed a new activation (history): a leave with
                    \* no keyboard up, or the end of one that was left up
    requests,       \* on their way to it
    events          \* and from it

gtkVars      == <<v3, text_input_bound, text_input_entered>>
fieldVars    == <<text_input_pending, text_input_enabled>>
keyboardVars == <<text_input, keyboard_up>>
imeVars      == <<panel, left_up, stray_leave>>
wireVars     == <<model, requests, events>>
vars         == <<gtkVars, fieldVars, main_surface, clicked, keyboardVars, imeVars, wireVars>>

Init ==
    /\ v3 = "none"
    /\ text_input_bound = FALSE
    /\ text_input_entered = FALSE
    /\ text_input_pending = FALSE
    /\ text_input_enabled = FALSE
    /\ main_surface = FALSE
    /\ clicked = FALSE
    /\ text_input = NoModel
    /\ keyboard_up = FALSE
    /\ model = [m \in Models |-> "free"]
    /\ panel = NoModel
    /\ left_up = NoModel
    /\ stray_leave = FALSE
    /\ requests = <<>>
    /\ events = <<>>

-----------------------------------------------------------------------------
(* show_keyboard and hide_keyboard. *)

Places == {"address bar", "page", "menu"}

Requests == [what : {"activate", "deactivate"}, model : Models]
Events   == [what : {"leave", "closed", "deleted"}, model : Models]

Message(what, m) == [what |-> what, model |-> m]

\* ensure_text_model: the one in use, or a new one.
TextModels == IF text_input # NoModel THEN {text_input}
              ELSE {m \in Models : model[m] = "free"}

\* show_keyboard: a keyboard that is up is shown again.
ShowKeyboard ==
    /\ Len(requests) + Len(events) < MaxInFlight
    /\ \E m \in TextModels :
         /\ text_input' = m
         /\ model' = [model EXCEPT ![m] = IF @ = "free" THEN "made" ELSE @]
         /\ requests' = Append(requests, Message("activate", m))
    /\ keyboard_up' = TRUE
    /\ UNCHANGED events

\* Mutants: the deactivated model is used again; or its keyboard is believed up.
HideAndKeep ==
    IF text_input # NoModel /\ keyboard_up
    THEN /\ requests' = Append(requests, Message("deactivate", text_input))
         /\ keyboard_up' = FALSE
         /\ UNCHANGED <<text_input, model, events>>
    ELSE UNCHANGED <<keyboardVars, wireVars>>
HideUnnoticed ==
    IF text_input # NoModel /\ keyboard_up
    THEN /\ requests' = Append(requests, Message("deactivate", text_input))
         /\ text_input' = NoModel
         /\ UNCHANGED <<keyboard_up, model, events>>
    ELSE UNCHANGED <<keyboardVars, wireVars>>

\* Only a keyboard believed up is hidden, and its text_model is given up.
HideKeyboard ==
    IF text_input # NoModel /\ keyboard_up
    THEN /\ requests' = Append(requests, Message("deactivate", text_input))
         /\ text_input' = NoModel
         /\ keyboard_up' = FALSE
         /\ UNCHANGED <<model, events>>
    ELSE UNCHANGED <<keyboardVars, wireVars>>

-----------------------------------------------------------------------------
(* GTK's side. *)

\* Mutant: the window, when it comes last, is not told.
EnterForgotten(ready, mapped) ==
    text_input_entered' = (text_input_entered \/ (v3 = "made" /\ ready /\ mapped))

\* text_input_enter_main, called where either half comes true.
EnterMain(ready, mapped) == text_input_entered' = (text_input_entered \/ (ready /\ mapped))

\* GTK binds the manager when it opens the display, or never.
BindManager ==
    /\ ~main_surface
    /\ text_input_bound' = TRUE
    /\ UNCHANGED <<v3, text_input_entered, fieldVars, main_surface, clicked, keyboardVars, imeVars,
                   wireVars>>

\* map_main_surface.
MapMain ==
    /\ ~main_surface
    /\ main_surface' = TRUE
    /\ EnterMain(v3 = "ready", TRUE)
    /\ UNCHANGED <<v3, text_input_bound, fieldVars, clicked, keyboardVars, imeVars, wireVars>>

\* get_text_input.
GetTextInput ==
    /\ text_input_bound /\ v3 = "none"
    /\ v3' = "made"
    /\ text_input_entered' = FALSE
    /\ UNCHANGED <<text_input_bound, fieldVars, main_surface, clicked, keyboardVars, imeVars,
                   wireVars>>

\* webos_xdg_listener_ready.
ListenerReady ==
    /\ v3 = "made"
    /\ v3' = "ready"
    /\ EnterMain(TRUE, main_surface)
    /\ UNCHANGED <<text_input_bound, fieldVars, main_surface, clicked, keyboardVars, imeVars,
                   wireVars>>

DestroyTextInput ==
    /\ v3 # "none"
    /\ v3' = "none"
    /\ UNCHANGED <<text_input_bound, text_input_entered, fieldVars, main_surface, clicked,
                   keyboardVars, imeVars, wireVars>>

\* enable and disable: for the next commit.  GTK enables only what it has entered.
SetPending(on) ==
    /\ v3 = "ready" /\ (on => text_input_entered)
    /\ text_input_pending' = on
    /\ UNCHANGED <<gtkVars, text_input_enabled, main_surface, clicked, keyboardVars, imeVars,
                   wireVars>>

\* Mutant: the keyboard of a field that has lost the focus stays.
CommitAndStay ==
    /\ text_input_enabled' = text_input_pending
    /\ IF text_input_pending /\ clicked /\ ~keyboard_up
       THEN ShowKeyboard
       ELSE UNCHANGED <<keyboardVars, wireVars>>

\* text_input_commit: a field gets the focus or loses it, or is clicked again.
CommitField ==
    /\ text_input_enabled' = text_input_pending
    /\ IF text_input_enabled /\ ~text_input_pending
       THEN HideKeyboard
       ELSE IF text_input_pending /\ clicked /\ (~text_input_enabled \/ ~keyboard_up)
       THEN ShowKeyboard
       ELSE UNCHANGED <<keyboardVars, wireVars>>

TextInputCommit ==
    /\ v3 = "ready"
    /\ CommitField
    /\ UNCHANGED <<gtkVars, text_input_pending, main_surface, clicked, imeVars>>

-----------------------------------------------------------------------------
(* The user. *)

\* Without text-input-v3 the place of a click shows or hides the keyboard, unless it
\* is in a menu (apply_remote_event, and pointer_button with the same lines).
Guess(place) ==
    IF text_input_bound \/ place = "menu" THEN UNCHANGED <<keyboardVars, wireVars>>
    ELSE IF place = "address bar" THEN ShowKeyboard
    ELSE HideKeyboard

\* A press, of either.
Click(place) ==
    /\ main_surface
    /\ clicked' = TRUE
    /\ Guess(place)
    /\ UNCHANGED <<gtkVars, fieldVars, main_surface, imeVars>>

\* 1.5 s later.
ClickFades ==
    /\ clicked
    /\ clicked' = FALSE
    /\ UNCHANGED <<gtkVars, fieldVars, main_surface, keyboardVars, imeVars, wireVars>>

\* Back, by the keyboard or from evdev.
Back ==
    /\ HideKeyboard
    /\ UNCHANGED <<gtkVars, fieldVars, main_surface, clicked, imeVars>>

-----------------------------------------------------------------------------
(* What the compositor sends. *)

\* Mutant: nothing is made of the keyboard's own button.
GoneUnseen == UNCHANGED keyboardVars

\* text_leave, and text_panel_state with state 0: the keyboard is not up.
KeyboardGone ==
    /\ keyboard_up' = FALSE
    /\ UNCHANGED text_input

\* An event is dispatched; libwayland drops one for an object given up, and uses
\* its id again once the compositor has said it may.
Dispatch ==
    /\ events # <<>>
    /\ events' = Tail(events)
    /\ LET e == Head(events) IN
       \/ /\ e.what \in {"leave", "closed"}
          /\ IF e.model = text_input THEN KeyboardGone ELSE UNCHANGED keyboardVars
          /\ UNCHANGED model
       \/ /\ e.what = "deleted"
          /\ model' = [model EXCEPT ![e.model] = "free"]
          /\ UNCHANGED keyboardVars
    /\ UNCHANGED <<gtkVars, fieldVars, main_surface, clicked, imeVars, requests>>

-----------------------------------------------------------------------------
(* The compositor and its keyboard. *)

Receive ==
    /\ requests # <<>>
    /\ requests' = Tail(requests)
    /\ LET r == Head(requests) IN
       \/ /\ r.what = "activate"
          /\ model' = [model EXCEPT ![r.model] = "active"]
          /\ panel' = r.model
          /\ left_up' = NoModel
          /\ UNCHANGED events
       \/ /\ r.what = "deactivate"
          /\ model' = [model EXCEPT ![r.model] = "gone"]
          /\ panel' = IF panel = r.model THEN NoModel ELSE panel
          /\ left_up' = IF left_up = r.model THEN NoModel ELSE left_up
          /\ events' = Append(events, Message("deleted", r.model))
    /\ UNCHANGED <<gtkVars, fieldVars, main_surface, clicked, keyboardVars, stray_leave>>

\* The keyboard is closed by its own button.
UserCloses ==
    /\ \/ /\ panel # NoModel
          /\ panel' = NoModel
          /\ events' = Append(events, Message("closed", panel))
          /\ UNCHANGED <<left_up, stray_leave>>
       \/ /\ left_up # NoModel
          /\ left_up' = NoModel
          /\ events' = Append(events, Message("closed", left_up))
          /\ stray_leave' = TRUE
          /\ UNCHANGED panel
    /\ UNCHANGED <<gtkVars, fieldVars, main_surface, clicked, keyboardVars, model, requests>>

\* The surface loses the text focus, to another application say: the keyboard goes, or
\* it stays up.
Leave(m) ==
    /\ model[m] = "active"
    /\ model' = [model EXCEPT ![m] = "made"]
    /\ IF panel = m
       THEN panel' = NoModel /\ left_up' \in {NoModel, m} /\ UNCHANGED stray_leave
       ELSE stray_leave' = TRUE /\ UNCHANGED <<panel, left_up>>
    /\ events' = Append(events, Message("leave", m))
    /\ UNCHANGED <<gtkVars, fieldVars, main_surface, clicked, keyboardVars, requests>>

-----------------------------------------------------------------------------

Gtk ==
    \/ BindManager \/ MapMain \/ GetTextInput \/ ListenerReady \/ DestroyTextInput
    \/ TextInputCommit
    \/ \E on \in BOOLEAN : SetPending(on)

User == ClickFades \/ Back \/ UserCloses \/ \E place \in Places : Click(place)

Next == Gtk \/ User \/ Dispatch \/ Receive \/ \E m \in Models : Leave(m)

\* What is on its way arrives.
Fairness == WF_vars(Dispatch) /\ WF_vars(Receive)

Safe == Init /\ [][Next]_vars

Spec == Safe /\ Fairness

-----------------------------------------------------------------------------
(* Properties. *)

\* The values the variables take.
TypeOK ==
    /\ v3 \in {"none", "made", "ready"}
    /\ text_input_bound \in BOOLEAN /\ text_input_entered \in BOOLEAN
    /\ text_input_pending \in BOOLEAN /\ text_input_enabled \in BOOLEAN
    /\ main_surface \in BOOLEAN /\ clicked \in BOOLEAN
    /\ text_input \in Models \cup {NoModel} /\ keyboard_up \in BOOLEAN
    /\ {panel, left_up} \subseteq Models \cup {NoModel} /\ stray_leave \in BOOLEAN
    /\ model \in [Models -> {"free", "made", "active", "gone"}]
    /\ requests \in Seq(Requests)
    /\ events \in Seq(Events)

\* "Any later request on it is a fatal 'invalid object'" (l. 2931): no request on
\* its way is for a text_model that is gone or that an earlier one will end.
NoRequestOnDeadModel ==
    \A i \in DOMAIN requests :
        /\ model[requests[i].model] \in {"made", "active"}
        /\ \A j \in 1..(i - 1) : requests[j] # Message("deactivate", requests[i].model)

\* The keyboard is believed up only for a field that has the focus, and with a
\* text_model to take it down by: hide_keyboard would do nothing otherwise.
UpForAField ==
    keyboard_up => text_input # NoModel /\ (text_input_bound => text_input_enabled)

\* GTK is told that its window has the text input whichever comes first, the
\* window or the object with its listener: it enables no field otherwise.
EnterReachesGtk == v3 = "ready" /\ main_surface => text_input_entered

OnScreen == panel # NoModel \/ left_up # NoModel

\* With nothing on its way, the adapter knows whether the keyboard is up, as long as
\* fields and not clicks show it and nothing can have crossed a new activation, but
\* for a keyboard that a leave has left up: of that one it believes that it is down.
BeliefIsRight ==
    text_input_bound /\ ~stray_leave /\ requests = <<>> /\ events = <<>> =>
        (keyboard_up <=> OnScreen /\ left_up = NoModel)

\* A keyboard does not outlive its field's focus, but for one that a leave has left up.
GoesWithTheField ==
    (text_input_bound /\ ~text_input_enabled)
        ~> (~OnScreen \/ left_up # NoModel \/ text_input_enabled \/ stray_leave)

\* "Nothing else dismisses the panel. [...] Back, a click outside the address bar, and
\* text_leave all land here" (l. 2920, in hide_keyboard): no keyboard outlives its
\* field's focus.  text_leave only clears keyboard_up, and hide_keyboard does nothing
\* from then on.
KeyboardGoes ==
    (text_input_bound /\ ~text_input_enabled) ~> (~OnScreen \/ text_input_enabled \/ stray_leave)

=============================================================================
