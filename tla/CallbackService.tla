--------------------------- MODULE CallbackService ---------------------------
(***************************************************************************)
(* What a Wayland client may expect of wl_surface.frame, whoever answers:  *)
(* every wl_callback it asks for gets `done` once, unless the client       *)
(* destroys it first, and an answered callback is never answered again.    *)
(* FlatAnswers, the adapter's own answering machine, implements this.      *)
(***************************************************************************)

CONSTANT Callbacks      \* the wl_callback objects (addresses are used again)

VARIABLE state          \* what each callback is to its client

Unused   == "unused"    \* no object, or one the client has destroyed
Awaiting == "awaiting"  \* asked for, not answered
Answered == "answered"  \* `done` has been delivered

Init == state = [c \in Callbacks |-> Unused]

Ask(c) ==
    /\ state[c] = Unused
    /\ state' = [state EXCEPT ![c] = Awaiting]

Answer(c) ==
    /\ state[c] = Awaiting
    /\ state' = [state EXCEPT ![c] = Answered]

Destroy(c) ==
    /\ state[c] # Unused
    /\ state' = [state EXCEPT ![c] = Unused]

Next == \E c \in Callbacks : Ask(c) \/ Answer(c) \/ Destroy(c)

Safe == Init /\ [][Next]_state

Spec == Safe /\ \A c \in Callbacks : WF_state(Answer(c))

=============================================================================
