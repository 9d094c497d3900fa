---------------------------- MODULE OverlayBuffers ----------------------------
(***************************************************************************)
(* The webOS 4 overlay window on its own (src/src/webos-xdg.c, ov_redraw   *)
(* and ov_buffer_release): WindowBuffers under a canvas that SurfaceScene  *)
(* changes as it likes.  It implements Display.  Flat is FALSE here.       *)
(***************************************************************************)
EXTENDS WindowBuffers

CONSTANT Canvases       \* the pictures a scene can make

VARIABLE canvas

overlayVars == <<canvas, bufferVars>>

OverlayInit == canvas \in Canvases /\ BuffersInit(canvas)

\* ov_update after a change of the scene, or without one.
OverlayDraw(c) ==
    /\ canvas' = c
    /\ Redraw(c)

Release(b) == BufferRelease(b, canvas) /\ UNCHANGED canvas

Compositor(b) == CompositorReleases(b) /\ UNCHANGED canvas

OverlayNext ==
    \/ \E c \in Canvases : OverlayDraw(c)
    \/ \E b \in Slots : Release(b) \/ Compositor(b)

\* The compositor gives back a buffer once it has another one to show, and the
\* adapter's thread dispatches what it sends.
OverlayFairness ==
    \A b \in Slots :
        WF_overlayVars(Release(b)) /\ WF_overlayVars(b # latest /\ Compositor(b))

OverlaySafe == OverlayInit /\ [][OverlayNext]_overlayVars

OverlaySpec == OverlaySafe /\ OverlayFairness

-----------------------------------------------------------------------------

\* The values the variables take.
OverlayTypeOK ==
    /\ BuffersTypeOK(Canvases)
    /\ canvas \in Canvases

\* Every buffer is with the adapter (ov_free), with the compositor, or on its way
\* back, and with one of them only: none is lost track of over many redraws.
EachInOnePlace ==
    \A b \in Slots :
        /\ ~(b \in held /\ b \in releasing)
        /\ ov_free[b] <=> b \notin held \cup releasing

\* ov_dirty is owed to the compositor alone: no redraw waits while the adapter has
\* a buffer to draw in, so a release is all it takes to end the wait.
WaitsOnlyForBuffers == ov_dirty => \A b \in Slots : ~ov_free[b]

OnScreen == INSTANCE Display WITH shown <- ov_mem[latest]

\* The overlay does what a window the adapter draws is to do: the screen only
\* goes to the picture of the moment, and always does in the end.
ImplementsDisplay == OnScreen!Spec

=============================================================================
