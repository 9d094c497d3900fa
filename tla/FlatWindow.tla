------------------------------ MODULE FlatWindow ------------------------------
(***************************************************************************)
(* Flat mode as a whole: the client's surfaces are copied into the         *)
(* adapter's own window (ov_attach, ov_commit), its frame callbacks and    *)
(* releases are answered by FlatAnswers, and the pump thread (flat_pump)   *)
(* redraws the window and starts the answers.  The client draws in a       *)
(* buffer it holds, so what the adapter reads of it, and when, matters.    *)
(***************************************************************************)
EXTENDS FlatAnswers, WindowBuffers

CONSTANTS
    Surfaces,       \* the surfaces the window copies (its ov_items)
    Pictures,       \* what a finished buffer may show
    HalfDrawn,      \* a buffer the client is drawing in
    Blank           \* no picture

ASSUME PictureConstants ==
    HalfDrawn \notin Pictures /\ Blank \notin Pictures /\ HalfDrawn # Blank

VARIABLES
    item,           \* per surface: pending, has_pending, current, pix
    ink             \* what is in each client buffer's memory

flatVars == <<vars, bufferVars, item, ink>>

\* What ov_redraw draws: the copies.
Canvas == [s \in Surfaces |-> item[s].pix]

FlatInit ==
    /\ Init
    /\ item = [s \in Surfaces |->
                 [pending |-> NoEntry, has_pending |-> FALSE, current |-> NoEntry, pix |-> Blank]]
    /\ BuffersInit(Canvas)
    /\ ink \in [Buffers -> {Blank}]

-----------------------------------------------------------------------------
(* The client. *)

\* ov_intercept, wl_surface.frame: the window owes a frame before the answer.
Frame(c) ==
    /\ AskFrame(c)
    /\ ov_dirty' = TRUE
    /\ UNCHANGED <<ov_free, ov_mem, latest, tied, aged, held, releasing, item, ink>>

\* webos_xdg_prepare_listener, when the client adds its listener late.
Listen(c) ==
    /\ AddListener(c)
    /\ UNCHANGED <<bufferVars, item, ink>>

Destroy(c) ==
    /\ DestroyCallback(c)
    /\ UNCHANGED <<bufferVars, item, ink>>

Attached(b) == \E s \in Surfaces : item[s].has_pending /\ item[s].pending = b

\* A client draws only in a buffer it holds, and attaches it when it is done.
Draw(b) ==
    /\ b \notin busy
    /\ ~Attached(b)
    /\ \/ /\ ink[b] # HalfDrawn
          /\ ink' = [ink EXCEPT ![b] = HalfDrawn]
       \/ /\ ink[b] = HalfDrawn
          /\ \E p \in Pictures : ink' = [ink EXCEPT ![b] = p]
    /\ UNCHANGED <<vars, bufferVars, item>>

\* ov_attach, of a buffer or of none.
Attach(s, b) ==
    /\ b \in Buffers => b \notin busy /\ ~Attached(b) /\ ink[b] \in Pictures
    /\ item' = [item EXCEPT ![s].pending = b, ![s].has_pending = TRUE]
    /\ UNCHANGED <<vars, bufferVars, ink>>

\* Mutant: a commit without a new buffer copies the last one again.
Recopied(s) ==
    [item[s] EXCEPT !.pix = IF item[s].current = NoEntry THEN Blank ELSE ink[item[s].current]]

\* The item after a commit without a new buffer: as it was, for the last buffer
\* went back to the client, who may be drawing in it.
AfterBareCommit(s) == item[s]

\* What the surface may show of a buffer put in it: a copy, or what it showed before
\* if the adapter cannot read the buffer (no wl_shm memory, or not of a plain format).
Copies(s, b) == IF b = NoEntry THEN {Blank} ELSE {ink[b], item[s].pix}

\* ov_commit.
Commit(s) ==
    /\ IF item[s].has_pending
       THEN LET b == item[s].pending
            IN  /\ \E pix \in Copies(s, b) :
                     item' = [item EXCEPT ![s].has_pending = FALSE, ![s].current = b,
                                          ![s].pix = pix]
                /\ IF b = NoEntry THEN UNCHANGED vars ELSE CommitBuffer(b)
       ELSE item' = [item EXCEPT ![s] = AfterBareCommit(s)] /\ UNCHANGED vars
    /\ Redraw(Canvas')
    /\ UNCHANGED ink

\* ov_destroying, wl_buffer.destroy: flat_forget, and ov_buf_destroyed, which
\* leaves the pictures copied from it.
BufferDestroyed(b) ==
    /\ ink[b] # Blank
    /\ MayDestroy(b)
    /\ IF b \in busy THEN DestroyBuffer(b) ELSE UNCHANGED vars
    /\ ink' = [ink EXCEPT ![b] = Blank]
    /\ item' = [s \in Surfaces |->
                  [item[s] EXCEPT !.current = IF @ = b THEN NoEntry ELSE @,
                                  !.pending = IF @ = b THEN NoEntry ELSE @]]
    /\ UNCHANGED bufferVars

-----------------------------------------------------------------------------
(* The pump and dispatching threads, the clock. *)

\* One turn of flat_pump, under ov_mu.
Pump ==
    /\ IF ov_dirty THEN Redraw(Canvas) ELSE UNCHANGED bufferVars
    /\ IF AnswerDue THEN AnswerMaybe ELSE UNCHANGED vars
    /\ UNCHANGED <<item, ink>>

Dispatch ==
    /\ Dispatcher
    /\ UNCHANGED <<bufferVars, item, ink>>

RestClock == Rest /\ UNCHANGED <<bufferVars, item, ink>>

AgeClock(i) == Age(i) /\ UNCHANGED <<vars, item, ink>>

FlatNext ==
    \/ \E c \in Callbacks : Frame(c) \/ Listen(c) \/ Destroy(c)
    \/ \E b \in Buffers : Draw(b) \/ BufferDestroyed(b)
    \/ \E s \in Surfaces, b \in Buffers \cup {NoEntry} : Attach(s, b)
    \/ \E s \in Surfaces : Commit(s)
    \/ Pump
    \/ Dispatch
    \/ RestClock
    \/ \E i \in Slots : AgeClock(i)

\* The pump's thread and the clock go on.  The window asks nothing of the dispatching
\* thread: its redraws are the pump's, whatever the answers do.
FlatSpec ==
    /\ FlatInit /\ [][FlatNext]_flatVars
    /\ WF_flatVars(Pump)
    /\ \A i \in Slots : WF_flatVars(AgeClock(i))

-----------------------------------------------------------------------------
(* Properties. *)

FlatTypeOK ==
    /\ TypeOK
    /\ BuffersTypeOK([Surfaces -> Pictures \cup {HalfDrawn, Blank}])
    /\ item \in [Surfaces -> [pending : Buffers \cup {NoEntry}, has_pending : BOOLEAN,
                              current : Buffers \cup {NoEntry},
                              pix : Pictures \cup {HalfDrawn, Blank}]]
    /\ ink \in [Buffers -> Pictures \cup {HalfDrawn, Blank}]

\* The window never shows a picture the client was still drawing: the flicker
\* ov_commit's first branch is there to prevent.
NothingHalfDrawn == \A s \in Surfaces : item[s].pix # HalfDrawn

\* A committed picture is on the screen, or a redraw is owed for it.
WindowUpToDate == UpToDate(Canvas)

\* An owed redraw is done, though the compositor keeps both buffers.
WindowCatchesUp == ov_dirty ~> ~ov_dirty

=============================================================================
