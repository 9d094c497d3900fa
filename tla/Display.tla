------------------------------- MODULE Display -------------------------------
(***************************************************************************)
(* What a window the adapter draws itself promises: its picture changes in *)
(* any way at any time, and the screen goes to the picture of the moment,  *)
(* never to another one, and in the end always.                            *)
(***************************************************************************)
CONSTANT Canvases

VARIABLES canvas, shown

displayVars == <<canvas, shown>>

Init == canvas \in Canvases /\ shown = canvas

Draw(c) ==
    /\ canvas' = c
    /\ shown' \in {shown, c}

Show ==
    /\ shown # canvas
    /\ shown' = canvas
    /\ UNCHANGED canvas

Safe == Init /\ [][Show \/ \E c \in Canvases : Draw(c)]_displayVars

Spec == Safe /\ WF_displayVars(Show)

=============================================================================
