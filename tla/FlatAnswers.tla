----------------------------- MODULE FlatAnswers -----------------------------
(***************************************************************************)
(* Flat mode's answers (src/src/webos-xdg.c, "flat_*").  A webOS 6.5       *)
(* compositor answers no frame callback and releases no buffer, so the     *)
(* adapter does both: wl_surface.frame makes a virtual wl_callback that is *)
(* put on flat_frames, a commit with a new buffer puts the buffer on       *)
(* flat_releases.  A pump thread moves both lists to what one              *)
(* wl_display.sync round trip will answer (flat_answer_maybe); the         *)
(* dispatching thread gets the round trip's `done` and hands the answers   *)
(* out one at a time, unlocked around each of the client's handlers        *)
(* (flat_sync_done).                                                       *)
(*                                                                         *)
(* The lists are sets here.  An entry is on a list at most once (a         *)
(* callback is asked for once; a client commits a buffer it holds), so     *)
(* flat_pending_forget's "all equal entries" is removal from a set and the *)
(* array's length is the cardinality.  The order within one round, which   *)
(* no property depends on, is left open.                                   *)
(*                                                                         *)
(* Time is one bit: rested, "16 ms have passed since flat_last_answer_ms". *)
(***************************************************************************)
EXTENDS Naturals, FiniteSets

CONSTANTS
    Callbacks,      \* virtual wl_callback objects (V_FRAME)
    Buffers,        \* the client's wl_buffers
    FLAT_PENDING,   \* the length of each list
    NoEntry,        \* no entry: neither a callback nor a buffer
    Faults          \* what may go wrong around the adapter, see below

(***************************************************************************)
(* slow_handlers   a round's handlers together may take 16 ms or more      *)
(* late_listener   a round trip may pass between wl_surface.frame and      *)
(*                 wl_callback_add_listener                                *)
(* foreign_destroy the client may destroy a callback or buffer from a      *)
(*                 thread other than the dispatching one                   *)
(* sync_fails      wl_display_sync may return NULL                         *)
(* no_listener     the client may have no listener on a buffer             *)
(***************************************************************************)
FaultNames ==
    {"slow_handlers", "late_listener", "foreign_destroy", "sync_fails", "no_listener"}

ASSUME FlatConstants ==
    /\ FLAT_PENDING \in Nat
    /\ IsFiniteSet(Callbacks) /\ IsFiniteSet(Buffers)
    /\ Callbacks \cap Buffers = {}
    /\ NoEntry \notin Callbacks \cup Buffers
    /\ Faults \subseteq FaultNames

VARIABLES
    flat_frames,            \* callbacks pending
    flat_releases,          \* buffers pending
    flat_frames_sent,       \* what the round trip in flight will answer
    flat_releases_sent,
    flat_sync_inflight,
    rested,                 \* now_ms() - flat_last_answer_ms >= 16
    thread,                 \* where the dispatching thread is in flat_sync_done
    taken,                  \* the entry it has taken off a list and not yet handled
    callback,               \* the client's view of each callback
    busy                    \* buffers the client has committed and not got back

listVars   == <<flat_frames, flat_releases>>
sentVars   == <<flat_frames_sent, flat_releases_sent>>
roundVars  == <<flat_sync_inflight, rested>>
threadVars == <<thread, taken>>
clientVars == <<callback, busy>>
vars       == <<listVars, sentVars, roundVars, threadVars, clientVars>>

CallbackStates == {"unused", "asked", "armed", "done", "done_again"}
ThreadStates   == {"idle", "releases", "frames"}

Init ==
    /\ flat_frames = {}
    /\ flat_releases = {}
    /\ flat_frames_sent = {}
    /\ flat_releases_sent = {}
    /\ flat_sync_inflight = FALSE
    /\ rested = TRUE
    /\ thread = "idle"
    /\ taken = NoEntry
    /\ callback = [c \in Callbacks |-> "unused"]
    /\ busy = {}

-----------------------------------------------------------------------------
(* The client's requests, from any of its threads. *)

\* Mutant: the last place of a list is never used.
WithPendingShort(list, p) ==
    IF Cardinality(list) < FLAT_PENDING - 1 THEN list \cup {p} ELSE list

\* flat_pending_add: the 129th entry is dropped.
WithPending(list, p) ==
    IF Cardinality(list) < FLAT_PENDING THEN list \cup {p} ELSE list

\* ov_intercept, wl_surface.frame: a virtual callback, pending at once.  Its
\* listener comes in a call of its own.
AskFrame(c) ==
    /\ callback[c] = "unused"
    /\ callback' = [callback EXCEPT ![c] = "asked"]
    /\ flat_frames' = WithPending(flat_frames, c)
    /\ UNCHANGED <<flat_releases, sentVars, roundVars, threadVars, busy>>

\* webos_xdg_prepare_listener on a V_FRAME object.
AddListener(c) ==
    /\ callback[c] = "asked"
    /\ callback' = [callback EXCEPT ![c] = "armed"]
    /\ UNCHANGED <<listVars, sentVars, roundVars, threadVars, busy>>

\* The tail of ov_commit with a buffer newly attached: the picture is copied
\* under the same lock, so the buffer only waits for its release.
CommitBuffer(b) ==
    /\ b \notin busy
    /\ busy' = busy \cup {b}
    /\ flat_releases' = WithPending(flat_releases, b)
    /\ UNCHANGED <<flat_frames, sentVars, roundVars, threadVars, callback>>

\* A client destroys its objects on the dispatching thread, never between the
\* adapter's taking an entry and calling its handler; or else anywhere.
MayDestroy(p) == p # taken \/ "foreign_destroy" \in Faults

\* Mutant: a callback in the round in flight is not forgotten.
ForgetPending(c) ==
    /\ flat_frames' = flat_frames \ {c}
    /\ UNCHANGED flat_frames_sent

\* flat_forget, of a callback.
ForgetFrame(c) ==
    /\ flat_frames' = flat_frames \ {c}
    /\ flat_frames_sent' = flat_frames_sent \ {c}

\* webos_xdg_virtual_destroyed on a V_FRAME object.
DestroyCallback(c) ==
    /\ callback[c] # "unused"
    /\ MayDestroy(c)
    /\ callback' = [callback EXCEPT ![c] = "unused"]
    /\ ForgetFrame(c)
    /\ UNCHANGED <<flat_releases, flat_releases_sent, roundVars, threadVars, busy>>

\* ov_destroying, wl_buffer.destroy: flat_forget.
DestroyBuffer(b) ==
    /\ b \in busy
    /\ MayDestroy(b)
    /\ busy' = busy \ {b}
    /\ flat_releases' = flat_releases \ {b}
    /\ flat_releases_sent' = flat_releases_sent \ {b}
    /\ UNCHANGED <<flat_frames, flat_frames_sent, roundVars, threadVars, callback>>

-----------------------------------------------------------------------------
(* The pump thread. *)

\* Mutants: a round trip in flight does not hold the next one back, the 16 ms do
\* not, or only frame callbacks start one.
DueInFlight == (flat_frames # {} \/ flat_releases # {}) /\ rested
DueAtOnce == ~flat_sync_inflight /\ (flat_frames # {} \/ flat_releases # {})
DueForFrames == ~flat_sync_inflight /\ flat_frames # {} /\ rested

\* flat_answer_maybe's early returns.
AnswerDue ==
    /\ ~flat_sync_inflight
    /\ flat_frames # {} \/ flat_releases # {}
    /\ rested

\* Both lists become the sent ones, whatever those still held.
SendPending ==
    /\ flat_frames_sent' = flat_frames /\ flat_frames' = {}
    /\ flat_releases_sent' = flat_releases /\ flat_releases' = {}

\* flat_answer_maybe: the pending answers go out with a round trip.
AnswerMaybe ==
    /\ AnswerDue
    /\ SendPending
    /\ \/ flat_sync_inflight' = TRUE
       \/ /\ "sync_fails" \in Faults
          /\ flat_sync_inflight' = FALSE
    /\ UNCHANGED <<rested, threadVars, clientVars>>

\* The clock: 16 ms since the last answer.  Without slow handlers a round is
\* handed out before that.
Rest ==
    /\ ~rested
    /\ thread = "idle" \/ "slow_handlers" \in Faults
    /\ rested' = TRUE
    /\ UNCHANGED <<listVars, sentVars, flat_sync_inflight, threadVars, clientVars>>

-----------------------------------------------------------------------------
(* The dispatching thread: flat_sync_done. *)

\* The compositor's `done` for the sync is dispatched.
SyncDone ==
    /\ thread = "idle"
    /\ flat_sync_inflight
    /\ flat_sync_inflight' = FALSE
    /\ rested' = FALSE
    /\ thread' = "releases"
    /\ UNCHANGED <<listVars, sentVars, taken, clientVars>>

\* One turn of the first loop, under ov_mu.
TakeRelease ==
    /\ thread = "releases"
    /\ taken = NoEntry
    /\ \/ /\ flat_releases_sent = {}
          /\ thread' = "frames"
          /\ UNCHANGED <<sentVars, taken>>
       \/ \E b \in flat_releases_sent :
            /\ taken' = b
            /\ flat_releases_sent' = flat_releases_sent \ {b}
            /\ UNCHANGED <<flat_frames_sent, thread>>
    /\ UNCHANGED <<listVars, roundVars, clientVars>>

\* The client's release handler, unlocked: the buffer is the client's again.  One
\* that has none is not told.
HandleRelease ==
    /\ thread = "releases"
    /\ taken # NoEntry
    /\ taken' = NoEntry
    /\ \/ busy' = busy \ {taken}
       \/ "no_listener" \in Faults /\ UNCHANGED busy
    /\ UNCHANGED <<listVars, sentVars, roundVars, thread, callback>>

\* One turn of the second loop, under ov_mu.
TakeFrame ==
    /\ thread = "frames"
    /\ taken = NoEntry
    /\ \/ /\ flat_frames_sent = {}
          /\ thread' = "idle"
          /\ UNCHANGED <<sentVars, taken>>
       \/ \E c \in flat_frames_sent :
            /\ taken' = c
            /\ flat_frames_sent' = flat_frames_sent \ {c}
            /\ UNCHANGED <<flat_releases_sent, thread>>
    /\ UNCHANGED <<listVars, roundVars, clientVars>>

\* The round trip leaves the client the time to add its listener; or else does not.
InTime(c) == callback[c] # "asked" \/ "late_listener" \in Faults

HasListener(c) == callback[c] \in {"armed", "done", "done_again"}

\* If virt_get finds the callback with a listener its done handler runs: again, if the
\* client had its answer and has not destroyed it yet.  Otherwise the entry is dropped.
HandleFrame ==
    /\ thread = "frames"
    /\ taken # NoEntry
    /\ InTime(taken)
    /\ callback' =
         IF HasListener(taken)
         THEN [callback EXCEPT ![taken] = IF @ = "armed" THEN "done" ELSE "done_again"]
         ELSE callback
    /\ taken' = NoEntry
    /\ UNCHANGED <<listVars, sentVars, roundVars, thread, busy>>

-----------------------------------------------------------------------------

Client ==
    \/ \E c \in Callbacks : AskFrame(c) \/ AddListener(c) \/ DestroyCallback(c)
    \/ \E b \in Buffers : CommitBuffer(b) \/ DestroyBuffer(b)

Dispatcher ==
    SyncDone \/ TakeRelease \/ HandleRelease \/ TakeFrame \/ HandleFrame

Next == Client \/ AnswerMaybe \/ Rest \/ Dispatcher

\* The pump runs every 20 ms, the clock goes on, the dispatching thread gets to its
\* events, and a client that has asked adds its listener: nothing obliges it to more.
Fairness ==
    /\ WF_vars(AnswerMaybe) /\ WF_vars(Rest) /\ WF_vars(Dispatcher)
    /\ \A c \in Callbacks : WF_vars(AddListener(c))

Safe == Init /\ [][Next]_vars

Spec == Safe /\ Fairness

-----------------------------------------------------------------------------
(* Properties. *)

\* The variables range over what the code can store in them.
TypeOK ==
    /\ flat_frames \subseteq Callbacks
    /\ flat_releases \subseteq Buffers
    /\ flat_frames_sent \subseteq Callbacks
    /\ flat_releases_sent \subseteq Buffers
    /\ flat_sync_inflight \in BOOLEAN
    /\ rested \in BOOLEAN
    /\ thread \in ThreadStates
    /\ taken \in Callbacks \cup Buffers \cup {NoEntry}
    /\ callback \in [Callbacks -> CallbackStates]
    /\ busy \subseteq Buffers

Unanswered(c) == callback[c] \in {"asked", "armed"}

\* Nothing on a list has been destroyed or already answered: flat_forget
\* takes a destroyed object off both lists, so no handler gets a stale one.
OnlyLiveEntries ==
    /\ \A c \in flat_frames \cup flat_frames_sent : Unanswered(c)
    /\ flat_releases \cup flat_releases_sent \subseteq busy

\* No frame callback is lost: one the client still waits for is pending, on
\* its way, or in the dispatching thread's hands (or that client's window
\* stops drawing for good, which is what flat mode exists to prevent).
NoLostFrame ==
    \A c \in Callbacks : Unanswered(c) => c \in flat_frames \cup flat_frames_sent \cup {taken}

\* Nor is a buffer: the client gets each one back to draw in.
NoLostRelease ==
    busy \subseteq flat_releases \cup flat_releases_sent \cup {taken}

\* A round's answers are fixed when its round trip starts: no entry joins the
\* sent lists until the dispatching thread has handed out all of the last
\* round ("that one waits for the next round").
RoundNotOverwritten ==
    [][ \/ /\ flat_frames_sent' \subseteq flat_frames_sent
           /\ flat_releases_sent' \subseteq flat_releases_sent
        \/ flat_frames_sent = {} /\ flat_releases_sent = {} /\ thread = "idle" ]_vars

\* The client's view, in the abstract service's words.
ServiceState ==
    [c \in Callbacks |->
        IF Unanswered(c) THEN "awaiting" ELSE
        IF callback[c] = "done" THEN "answered" ELSE callback[c]]

Service == INSTANCE CallbackService WITH state <- ServiceState

\* FlatAnswers implements the frame callback service: each callback asked for
\* is answered once, and in time, unless destroyed first.
ImplementsService == Service!Spec

\* The safety half alone: `done` goes to no callback that is destroyed, not
\* asked for, or answered before.
AnsweredAtMostOnce == Service!Safe

\* Every committed buffer comes back or is destroyed.
BuffersComeBack == \A b \in Buffers : b \in busy ~> b \notin busy

=============================================================================
