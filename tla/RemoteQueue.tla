----------------------------- MODULE RemoteQueue -----------------------------
(***************************************************************************)
(* The Magic Remote's events (src/src/webos-xdg.c, "enqueue_remote" to     *)
(* "drain_remote").  remote_thread reads evdev and puts clicks, wheel      *)
(* notches and Back in a ring under ptr_mu.  GTK may only be called on the *)
(* thread that dispatches Wayland events, so the first event of a batch    *)
(* starts a wl_display.sync round trip, and the callback's `done` on that  *)
(* thread drains the ring (remote_sync_done).  wake_pending_flag keeps it  *)
(* to one round trip a batch.                                              *)
(*                                                                         *)
(* An event is a model value; what apply_remote_event does with it is not  *)
(* modelled, only when.  wake_display is set by the first request, before  *)
(* the main window is mapped, and no event is queued before that.          *)
(***************************************************************************)
EXTENDS Integers, Sequences

CONSTANTS
    Events,
    NoEvent,
    PTR_QUEUE,      \* the length of the ring
    WakesMayFail    \* wl_display_sync may return NULL, or its done be dispatched
                    \* before wl_callback_add_listener

ASSUME QueueAssumption ==
    /\ NoEvent \notin Events
    /\ PTR_QUEUE \in Nat /\ PTR_QUEUE > 1
    /\ WakesMayFail \in BOOLEAN

VARIABLES
    ptr_q,
    ptr_q_head,     \* the next event to apply
    ptr_q_tail,     \* the next free entry
    wake_pending_flag,
    remote,         \* remote_thread: "reading", or "waking" the other thread
    syncs,          \* round trips in flight
    drain,          \* the dispatching thread: "idle", "draining" or "applying"
    ev              \* drain_remote's local copy

ringVars == <<ptr_q, ptr_q_head, ptr_q_tail>>
wakeVars == <<wake_pending_flag, remote, syncs>>
vars     == <<ringVars, wakeVars, drain, ev>>

Entries == 0..(PTR_QUEUE - 1)

Init ==
    /\ ptr_q \in [Entries -> {NoEvent}]
    /\ ptr_q_head = 0
    /\ ptr_q_tail = 0
    /\ wake_pending_flag = 0
    /\ remote = "reading"
    /\ syncs = 0
    /\ drain = "idle"
    /\ ev = NoEvent

-----------------------------------------------------------------------------

\* (i + 1) % PTR_QUEUE, of an entry.
After(i) == IF i = PTR_QUEUE - 1 THEN 0 ELSE i + 1

\* Mutant: the ring is filled to its last entry, and then looks empty.
NeverFull == TRUE

\* The ring can take an event: one entry always stays unused.
HasRoom == After(ptr_q_tail) # ptr_q_head

\* Mutant: an event that is alone in the ring wakes the other thread, and only that.
WakesIfEmpty == ptr_q_head = ptr_q_tail

\* The event must start a round trip.
MustWake == wake_pending_flag = 0

\* enqueue_remote, up to the unlock.
Enqueue(e) ==
    /\ remote = "reading"
    /\ IF HasRoom
       THEN /\ ptr_q' = [ptr_q EXCEPT ![ptr_q_tail] = e]
            /\ ptr_q_tail' = After(ptr_q_tail)
       ELSE UNCHANGED <<ptr_q, ptr_q_tail>>
    /\ wake_pending_flag' = IF MustWake THEN 1 ELSE wake_pending_flag
    /\ remote' = IF MustWake THEN "waking" ELSE remote
    /\ UNCHANGED <<ptr_q_head, syncs, drain, ev>>

\* The rest of it: the sync, its listener and the flush.
Wake ==
    /\ remote = "waking"
    /\ remote' = "reading"
    /\ \E started \in IF WakesMayFail THEN {0, 1} ELSE {1} : syncs' = syncs + started
    /\ UNCHANGED <<ringVars, wake_pending_flag, drain, ev>>

\* remote_sync_done, up to drain_remote.
SyncDone ==
    /\ drain = "idle"
    /\ syncs > 0
    /\ syncs' = syncs - 1
    /\ wake_pending_flag' = 0
    /\ drain' = "draining"
    /\ UNCHANGED <<ringVars, remote, ev>>

\* One turn of drain_remote, under ptr_mu.
Drain ==
    /\ drain = "draining"
    /\ IF ptr_q_head = ptr_q_tail
       THEN /\ drain' = "idle"
            /\ UNCHANGED <<ptr_q_head, ev>>
       ELSE /\ ev' = ptr_q[ptr_q_head]
            /\ ptr_q_head' = After(ptr_q_head)
            /\ drain' = "applying"
    /\ UNCHANGED <<ptr_q, ptr_q_tail, wakeVars>>

\* Mutant: one event a round trip.
ApplyAndReturn ==
    /\ drain = "applying"
    /\ ev' = NoEvent
    /\ drain' = "idle"
    /\ UNCHANGED <<ringVars, wakeVars>>

\* apply_remote_event returns, and drain_remote goes round.
Apply ==
    /\ drain = "applying"
    /\ ev' = NoEvent
    /\ drain' = "draining"
    /\ UNCHANGED <<ringVars, wakeVars>>

Dispatcher == SyncDone \/ Drain \/ Apply

Next == Wake \/ Dispatcher \/ \E e \in Events : Enqueue(e)

\* remote_thread goes on once it is in enqueue_remote, and the dispatching thread
\* handles what the compositor sends; nobody need press a button.
Fairness == WF_vars(Wake) /\ WF_vars(Dispatcher)

Safe == Init /\ [][Next]_vars

Spec == Safe /\ Fairness

-----------------------------------------------------------------------------
(* Properties. *)

\* The values the variables take.
TypeOK ==
    /\ ptr_q \in [Entries -> Events \cup {NoEvent}]
    /\ ptr_q_head \in Entries /\ ptr_q_tail \in Entries
    /\ wake_pending_flag \in 0..1
    /\ remote \in {"reading", "waking"}
    /\ syncs \in Nat
    /\ drain \in {"idle", "draining", "applying"}
    /\ ev \in Events \cup {NoEvent}

\* wake_pending_flag says what it is to say: a round trip is on its way, and one
\* only, however the two threads' steps fall.
OneRoundTrip == wake_pending_flag = syncs + (IF remote = "waking" THEN 1 ELSE 0)

\* No event is stranded: while the ring holds one, the other thread is draining it
\* or is being woken.
NothingStranded == ptr_q_head # ptr_q_tail => drain # "idle" \/ wake_pending_flag = 1

\* The ring's entries in use, oldest first.
Used == IF ptr_q_head <= ptr_q_tail THEN ptr_q_tail - ptr_q_head
        ELSE ptr_q_tail + PTR_QUEUE - ptr_q_head

Entry(i) == IF ptr_q_head + i <= PTR_QUEUE THEN ptr_q_head + i - 1
            ELSE ptr_q_head + i - 1 - PTR_QUEUE

Waiting == [i \in 1..Used |-> ptr_q[Entry(i)]]

Fifo == INSTANCE RemoteFifo WITH
            waiting <- Waiting, applying <- ev, Room <- PTR_QUEUE - 1

\* The ring alone, even when wake-ups fail: events are applied in the order they
\* were queued in, and no event that was queued is dropped or applied twice.
AppliedInOrder == Fifo!Safe

\* The ring and the wake-ups are a queue: moreover, every event queued is applied.
ImplementsFifo == Fifo!Spec

=============================================================================
