---------------------------- MODULE WindowBuffers ----------------------------
(***************************************************************************)
(* The window the adapter draws itself (src/src/webos-xdg.c, ov_redraw and *)
(* ov_buffer_release): two full-window wl_shm buffers.  A redraw copies    *)
(* the canvas to a buffer the compositor has released and commits it; with *)
(* none free it leaves ov_dirty set, and a release, or in flat mode the    *)
(* pump, redraws.  A webOS 6.5 compositor releases nothing, so flat mode   *)
(* takes the buffer committed longer ago once that is 20 ms back.  The     *)
(* commit times are kept in milliseconds: of two equal ones it takes the   *)
(* first buffer, though the second may have been committed before it.      *)
(*                                                                         *)
(* The module has no specification: OverlayBuffers and FlatWindow          *)
(* supply the canvas and call Redraw from their actions.                   *)
(***************************************************************************)
EXTENDS Naturals

CONSTANT Flat       \* flat_mode()

ASSUME FlatAssumption == Flat \in BOOLEAN

VARIABLES
    ov_free,        \* per buffer: the adapter may draw in it
    ov_dirty,       \* a redraw waits for a buffer
    ov_mem,         \* per buffer: the canvas copied to it
    latest,         \* the buffer committed last
    tied,           \* the two ov_committed_at are the same millisecond
    aged,           \* the buffers committed 20 ms ago or more
    held,           \* the buffers the compositor may be reading
    releasing       \* release events on their way to the adapter

bufferVars == <<ov_free, ov_dirty, ov_mem, latest, tied, aged, held, releasing>>

Slots == 0..1

\* Mutant: the two commit times are compared the wrong way round.
Newer == latest

\* The buffer that was committed longer ago, by the times.
Older == IF tied THEN 0 ELSE 1 - latest

\* The times are equal after a commit to b: only if the other one's is no older.
MayTie(b) == IF 1 - b \in aged THEN {FALSE} ELSE BOOLEAN

\* The buffers as ov_ensure makes them, nothing committed yet.
BuffersInit(canvas) ==
    /\ ov_free = [i \in Slots |-> TRUE]
    /\ ov_dirty = FALSE
    /\ ov_mem = [i \in Slots |-> canvas]
    /\ latest = 1
    /\ tied = FALSE
    /\ aged = Slots
    /\ held = {}
    /\ releasing = {}

\* Mutants: the flat window waits for a release too; the overlay does not wait.
OnlyReturned == IF \E i \in Slots : ov_free[i] THEN {IF ov_free[0] THEN 0 ELSE 1} ELSE {}
NeverWaiting == IF \E i \in Slots : ov_free[i] THEN {IF ov_free[0] THEN 0 ELSE 1} ELSE {Older}

\* The buffer ov_redraw would draw in: the first free one, or, in flat mode,
\* the older one when it is old enough.
Drawable ==
    IF \E i \in Slots : ov_free[i] THEN {IF ov_free[0] THEN 0 ELSE 1}
    ELSE IF Flat THEN {Older} \cap aged
    ELSE {}

CommitTo(b, canvas) ==
    /\ ov_dirty' = FALSE
    /\ ov_mem' = [ov_mem EXCEPT ![b] = canvas]
    /\ ov_free' = [ov_free EXCEPT ![b] = FALSE]
    /\ latest' = b
    /\ tied' \in MayTie(b)
    /\ aged' = aged \ {b}
    /\ held' = held \cup {b}
    /\ UNCHANGED releasing

\* Mutant: with no buffer free the redraw is forgotten.
RedrawOrForget(canvas) ==
    \/ \E b \in Drawable : CommitTo(b, canvas)
    \/ Drawable = {} /\ UNCHANGED bufferVars

\* ov_redraw, at the end of whatever changed the picture.
Redraw(canvas) ==
    \/ \E b \in Drawable : CommitTo(b, canvas)
    \/ /\ Drawable = {}
       /\ ov_dirty' = TRUE
       /\ UNCHANGED <<ov_free, ov_mem, latest, tied, aged, held, releasing>>

\* The compositor is done with a buffer and says so.
CompositorReleases(b) ==
    /\ b \in held
    /\ held' = held \ {b}
    /\ releasing' = releasing \cup {b}
    /\ UNCHANGED <<ov_free, ov_dirty, ov_mem, latest, tied, aged>>

\* ov_buffer_release: a redraw that waited for the buffer is done at once.
BufferRelease(b, canvas) ==
    /\ b \in releasing
    /\ releasing' = releasing \ {b}
    /\ IF ov_dirty
       THEN LET d == IF ov_free[0] \/ b = 0 THEN 0 ELSE 1
            IN  /\ ov_dirty' = FALSE
                /\ ov_mem' = [ov_mem EXCEPT ![d] = canvas]
                /\ ov_free' = [ov_free EXCEPT ![b] = TRUE, ![d] = FALSE]
                /\ latest' = d
                /\ tied' \in MayTie(d)
                /\ aged' = aged \ {d}
                /\ held' = held \cup {d}
       ELSE /\ ov_free' = [ov_free EXCEPT ![b] = TRUE]
            /\ UNCHANGED <<ov_dirty, ov_mem, latest, tied, aged, held>>

\* 20 ms since a buffer's commit, or since both; first since the first.
Age(b) ==
    /\ b \notin aged
    /\ b = latest => tied \/ 1 - b \in aged
    /\ aged' = aged \cup (IF tied THEN Slots ELSE {b})
    /\ UNCHANGED <<ov_free, ov_dirty, ov_mem, latest, tied, held, releasing>>

-----------------------------------------------------------------------------

BuffersTypeOK(Canvases) ==
    /\ ov_free \in [Slots -> BOOLEAN]
    /\ ov_dirty \in BOOLEAN
    /\ ov_mem \in [Slots -> Canvases]
    /\ latest \in Slots
    /\ tied \in BOOLEAN
    /\ aged \subseteq Slots /\ held \subseteq Slots /\ releasing \subseteq Slots

\* What the user sees is the picture of the moment, unless a redraw is owed.
UpToDate(canvas) == ov_dirty \/ ov_mem[latest] = canvas

\* The adapter draws in no buffer the compositor may be reading.
DrawsOnlyReturned ==
    [][\A b \in Slots : ov_mem'[b] # ov_mem[b] => b \notin held]_bufferVars

\* The buffer on the screen is the first, and its time says no more than the second's.
TakenForOlder == tied /\ latest = 0

\* Flat mode, with nothing released: the picture on the screen is left alone,
\* only the one before it is drawn over, unless the times mistake one for the other.
NeverDrawsOnScreen ==
    [][ov_mem'[latest] = ov_mem[latest] \/ ov_free[latest] \/ TakenForOlder]_bufferVars

\* "reuse the older buffer once it is 20 ms old" (src/src/webos-xdg.c:1650), which
\* two commits in one millisecond refute: the buffer on the screen is drawn over.
ReusesTheOlder ==
    [][ov_mem'[latest] = ov_mem[latest] \/ ov_free[latest]]_bufferVars

=============================================================================
