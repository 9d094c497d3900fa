-------------------------- MODULE RemoteQueueProofs --------------------------
(***************************************************************************)
(* What RemoteQueue promises, for any events and any length of the ring.   *)
(* The wake-ups need no more than the types.  The ring needs RingInv: its  *)
(* entries in use hold events, and an event is in hand while it is applied *)
(* and at no other time.                                                   *)
(***************************************************************************)
EXTENDS RemoteQueue, SequenceTheorems, TLAPS

\* The entry after one of the ring's is one of the ring's.
LEMMA AfterIsEntry ==
    ASSUME NEW i \in Entries PROVE After(i) \in Entries
BY QueueAssumption DEF Entries, After

\* Type correctness is inductive.
LEMMA TypeStep == TypeOK /\ [Next]_vars => TypeOK'
<1> SUFFICES ASSUME TypeOK, [Next]_vars PROVE TypeOK'
    OBVIOUS
<1> USE DEF TypeOK
<1>1. ASSUME NEW e \in Events, Enqueue(e) PROVE TypeOK'
    BY <1>1, AfterIsEntry DEF Enqueue
<1>2. CASE Wake
    BY <1>2 DEF Wake, ringVars
<1>3. CASE SyncDone
    BY <1>3 DEF SyncDone, ringVars
<1>4. CASE Drain
    BY <1>4, AfterIsEntry DEF Drain, wakeVars
<1>5. CASE Apply
    BY <1>5 DEF Apply, ringVars, wakeVars
<1>6. CASE UNCHANGED vars
    BY <1>6 DEF vars, ringVars, wakeVars
<1> QED
    BY <1>1, <1>2, <1>3, <1>4, <1>5, <1>6 DEF Next, Dispatcher

\* The types, throughout.
LEMMA TypeInvariant == Safe => []TypeOK
<1>1. Init => TypeOK
    <2> SUFFICES ASSUME Init PROVE TypeOK
        OBVIOUS
    <2>1. 0 \in Entries
        BY QueueAssumption DEF Entries
    <2> QED
        BY <2>1 DEF Init, TypeOK
<1> QED
    BY <1>1, TypeStep, PTL DEF Safe

\* The variables keep their types.
THEOREM TypeCorrect == Spec => []TypeOK
BY TypeInvariant, PTL DEF Spec

\* No event stays in the ring with nobody to take it out, whether or not the
\* wake-up that is owed succeeds.
THEOREM NoEventStranded == Spec => []NothingStranded
<1>1. Init => NothingStranded
    BY DEF Init, NothingStranded
<1>2. TypeOK /\ NothingStranded /\ [Next]_vars => NothingStranded'
    <2> SUFFICES ASSUME TypeOK, NothingStranded, [Next]_vars PROVE NothingStranded'
        OBVIOUS
    <2> USE DEF TypeOK, NothingStranded
    <2>1. ASSUME NEW e \in Events, Enqueue(e) PROVE NothingStranded'
        BY <2>1 DEF Enqueue, MustWake
    <2>2. CASE Wake
        BY <2>2 DEF Wake, ringVars
    <2>3. CASE SyncDone
        BY <2>3 DEF SyncDone, ringVars
    <2>4. CASE Drain
        BY <2>4 DEF Drain, wakeVars
    <2>5. CASE Apply
        BY <2>5 DEF Apply, ringVars, wakeVars
    <2>6. CASE UNCHANGED vars
        BY <2>6 DEF vars, ringVars, wakeVars
    <2> QED
        BY <2>1, <2>2, <2>3, <2>4, <2>5, <2>6 DEF Next, Dispatcher
<1> QED
    BY <1>1, <1>2, TypeInvariant, PTL DEF Spec, Safe

\* With wake-ups that succeed, the flag is raised exactly while one round trip is
\* on its way, and there are never two.
THEOREM RoundTripsOneByOne == ~WakesMayFail /\ Spec => []OneRoundTrip
<1>1. Init => OneRoundTrip
    BY DEF Init, OneRoundTrip
<1>2. ASSUME ~WakesMayFail
      PROVE TypeOK /\ OneRoundTrip /\ [Next]_vars => OneRoundTrip'
    <2> SUFFICES ASSUME TypeOK, OneRoundTrip, [Next]_vars PROVE OneRoundTrip'
        OBVIOUS
    <2> USE DEF TypeOK, OneRoundTrip
    <2>1. ASSUME NEW e \in Events, Enqueue(e) PROVE OneRoundTrip'
        BY <2>1 DEF Enqueue, MustWake
    <2>2. CASE Wake
        BY <1>2, <2>2 DEF Wake, ringVars
    <2>3. CASE SyncDone
        BY <2>3 DEF SyncDone, ringVars
    <2>4. CASE Drain
        BY <2>4 DEF Drain, wakeVars
    <2>5. CASE Apply
        BY <2>5 DEF Apply, ringVars, wakeVars
    <2>6. CASE UNCHANGED vars
        BY <2>6 DEF vars, ringVars, wakeVars
    <2> QED
        BY <2>1, <2>2, <2>3, <2>4, <2>5, <2>6 DEF Next, Dispatcher
<1>3. CASE WakesMayFail
    BY <1>3
<1>4. CASE ~WakesMayFail
    <2>1. TypeOK /\ OneRoundTrip /\ [Next]_vars => OneRoundTrip'
        BY <1>2, <1>4
    <2> QED
        BY <1>1, <2>1, TypeInvariant, PTL DEF Spec, Safe
<1> QED
    BY <1>3, <1>4

-----------------------------------------------------------------------------
(* The ring as a queue. *)

Values == Events \cup {NoEvent}

\* What applying in order needs: an event is in hand just while it is applied, and
\* the entries in use hold events.
RingInv ==
    /\ TypeOK
    /\ ev = NoEvent <=> drain # "applying"
    /\ \A i \in 1..Used : ptr_q[Entry(i)] \in Events

\* The entries in use are entries, and none of them is the next free one, which is
\* kept free.
LEMMA RingArithmetic ==
    ASSUME ptr_q_head \in Entries, ptr_q_tail \in Entries
    PROVE  /\ Used \in 0..(PTR_QUEUE - 1)
           /\ \A i \in 1..Used : Entry(i) \in Entries /\ Entry(i) # ptr_q_tail
           /\ HasRoom <=> Used < PTR_QUEUE - 1
           /\ Used = 0 <=> ptr_q_head = ptr_q_tail
BY QueueAssumption DEF Entries, Used, Entry, HasRoom, After

\* Waiting is a sequence as long as the ring is full.
WaitingFacts ==
    /\ Waiting \in Seq(Values)
    /\ Len(Waiting) = Used
    /\ \A i \in 1..Used : Waiting[i] = ptr_q[Entry(i)]

\* The entries in use are a sequence of events.
LEMMA WaitingIsSeq == TypeOK => WaitingFacts
<1> SUFFICES ASSUME TypeOK PROVE WaitingFacts
    OBVIOUS
<1>1. Used \in Nat /\ \A i \in 1..Used : ptr_q[Entry(i)] \in Values
    BY RingArithmetic, QueueAssumption DEF TypeOK, Values
<1>2. Waiting \in [1..Used -> Values]
    BY <1>1 DEF Waiting
<1>3. Waiting \in Seq(Values)
    BY <1>1, <1>2, SeqDef
<1>4. Len(Waiting) = Used
    BY <1>1, <1>2, <1>3, LenProperties
<1> QED
    BY <1>3, <1>4 DEF Waiting, WaitingFacts

\* An event queued is appended.
LEMMA EnqueueAppends ==
    ASSUME TypeOK, TypeOK', NEW e \in Events, Enqueue(e), HasRoom
    PROVE  /\ Used' = Used + 1
           /\ \A i \in 1..(Used + 1) :
                 ptr_q'[Entry(i)'] = IF i = Used + 1 THEN e ELSE ptr_q[Entry(i)]
<1>1. ptr_q_head' = ptr_q_head /\ ptr_q_tail' = After(ptr_q_tail)
      /\ ptr_q' = [ptr_q EXCEPT ![ptr_q_tail] = e]
    BY DEF Enqueue
<1>2. Used \in Nat /\ Used' = Used + 1 /\ Entry(Used + 1) = ptr_q_tail
    BY <1>1, QueueAssumption DEF TypeOK, Entries, Used, Entry, HasRoom, After
<1>3. \A i \in 1..(Used + 1) : Entry(i)' = Entry(i)
    BY <1>1 DEF Entry
<1> QED
    BY <1>1, <1>2, <1>3, RingArithmetic DEF TypeOK

\* An event taken was the first, and the others move up.
LEMMA DrainTakesFirst ==
    ASSUME TypeOK, TypeOK', Drain, ptr_q_head # ptr_q_tail
    PROVE  /\ Used \in Nat \ {0} /\ Used' = Used - 1
           /\ Entry(1) = ptr_q_head
           /\ \A i \in 1..Used' : ptr_q'[Entry(i)'] = ptr_q[Entry(i + 1)]
<1>1. ptr_q_head' = After(ptr_q_head) /\ ptr_q_tail' = ptr_q_tail /\ ptr_q' = ptr_q
    BY DEF Drain
<1>2. Used \in Nat \ {0} /\ Used' = Used - 1 /\ Entry(1) = ptr_q_head
    BY <1>1, QueueAssumption DEF TypeOK, Entries, Used, Entry, After
<1>3. \A i \in 1..Used' : Entry(i)' = Entry(i + 1)
    BY <1>1, <1>2, QueueAssumption DEF TypeOK, Entries, Entry, After, Used
<1> QED
    BY <1>1, <1>2, <1>3

\* Every step keeps the ring's invariant.
LEMMA RingStep == RingInv /\ [Next]_vars => RingInv'
<1> SUFFICES ASSUME RingInv, [Next]_vars PROVE RingInv'
    OBVIOUS
<1>0. TypeOK /\ TypeOK'
    BY TypeStep DEF RingInv
<1> USE DEF RingInv
<1>1. ASSUME NEW e \in Events, Enqueue(e) PROVE RingInv'
    <2>1. CASE HasRoom
        <3>1. \A i \in 1..Used' : ptr_q'[Entry(i)'] \in Events
            <4>1. Used \in Nat
                BY <1>0, RingArithmetic, QueueAssumption DEF TypeOK
            <4> QED
                BY <1>0, <1>1, <2>1, <4>1, EnqueueAppends
        <3> QED
            BY <1>0, <1>1, <3>1 DEF Enqueue
    <2>2. CASE ~HasRoom
        BY <1>0, <1>1, <2>2 DEF Enqueue, Used, Entry
    <2> QED
        BY <2>1, <2>2
<1>2. CASE Wake
    BY <1>0, <1>2 DEF Wake, ringVars, Used, Entry
<1>3. CASE SyncDone
    BY <1>0, <1>3 DEF SyncDone, ringVars, Used, Entry
<1>4. CASE Drain
    <2>1. CASE ptr_q_head = ptr_q_tail
        BY <1>0, <1>4, <2>1 DEF Drain, wakeVars, Used, Entry
    <2>2. CASE ptr_q_head # ptr_q_tail
        <3>1. \A i \in 1..Used' : ptr_q'[Entry(i)'] \in Events
            BY <1>0, <1>4, <2>2, DrainTakesFirst
        <3>2. ev' \in Events
            BY <1>0, <1>4, <2>2, DrainTakesFirst DEF Drain
        <3> QED
            BY <1>0, <1>4, <2>2, <3>1, <3>2, QueueAssumption DEF Drain
    <2> QED
        BY <2>1, <2>2
<1>5. CASE Apply
    BY <1>0, <1>5 DEF Apply, ringVars, wakeVars, Used, Entry
<1>6. CASE UNCHANGED vars
    BY <1>0, <1>6 DEF vars, ringVars, wakeVars, Used, Entry
<1> QED
    BY <1>1, <1>2, <1>3, <1>4, <1>5, <1>6 DEF Next, Dispatcher

\* The ring's invariant holds throughout.
LEMMA RingInvariant == Safe => []RingInv
<1>1. Init => RingInv
    <2> SUFFICES ASSUME Init PROVE RingInv
        OBVIOUS
    <2>1. 0 \in Entries /\ Used = 0
        BY QueueAssumption DEF Init, Entries, Used
    <2>2. TypeOK
        BY <2>1 DEF Init, TypeOK
    <2> QED
        BY <2>1, <2>2 DEF Init, RingInv
<1> QED
    BY <1>1, RingStep, PTL DEF Safe

\* Every step that changes neither the ring nor the event in hand leaves the queue
\* alone.
LEMMA QueueStutters ==
    ASSUME UNCHANGED <<ptr_q, ptr_q_head, ptr_q_tail, ev>>
    PROVE  UNCHANGED Fifo!fifoVars
BY DEF Fifo!fifoVars, Waiting, Used, Entry

\* Each step is one of the queue's, or none.
LEMMA QueueStep ==
    RingInv /\ [Next]_vars =>
        [Fifo!Get \/ Fifo!Done \/ \E e \in Events : Fifo!Put(e)]_Fifo!fifoVars
<1> SUFFICES ASSUME RingInv, [Next]_vars
             PROVE  \/ Fifo!Get
                    \/ Fifo!Done
                    \/ \E e \in Events : Fifo!Put(e)
                    \/ UNCHANGED Fifo!fifoVars
    OBVIOUS
<1>0. TypeOK /\ TypeOK'
    BY TypeStep DEF RingInv
<1>c. WaitingFacts /\ WaitingFacts'
    BY <1>0, WaitingIsSeq, PTL
<1>a. /\ Waiting \in Seq(Values) /\ Len(Waiting) = Used
      /\ \A i \in 1..Used : Waiting[i] = ptr_q[Entry(i)]
    BY <1>c DEF WaitingFacts
<1>b. /\ Waiting' \in Seq(Values) /\ Len(Waiting') = Used'
      /\ \A i \in 1..Used' : Waiting'[i] = ptr_q'[Entry(i)']
    BY <1>c DEF WaitingFacts
<1>d. Used \in Nat
    BY <1>0, RingArithmetic, QueueAssumption DEF TypeOK
<1>1. ASSUME NEW e \in Events, Enqueue(e), HasRoom PROVE Fifo!Put(e)
    <2> DEFINE longer == Append(Waiting, e)
    <2>1. /\ longer \in Seq(Values) /\ Len(longer) = Used + 1
          /\ \A i \in 1..Used : longer[i] = Waiting[i]
          /\ longer[Used + 1] = e
        BY <1>a, <1>d DEF Values
    <2>2. \A i \in 1..(Used + 1) : Waiting'[i] = longer[i]
        BY <1>0, <1>1, <1>a, <1>b, <1>d, <2>1, EnqueueAppends
    <2>3. Waiting' = longer
        BY <1>0, <1>1, <1>b, <2>1, <2>2, EnqueueAppends, SeqEqual
    <2> QED
        BY <1>0, <1>1, <1>a, <2>3, RingArithmetic DEF Fifo!Put, Enqueue, TypeOK
<1>2. ASSUME NEW e \in Events, Enqueue(e), ~HasRoom PROVE UNCHANGED Fifo!fifoVars
    BY <1>2, QueueStutters DEF Enqueue
<1>3. CASE Drain /\ ptr_q_head # ptr_q_tail
    <2>1. Waiting # <<>> /\ Head(Waiting) = Waiting[1]
        BY <1>0, <1>3, <1>a, DrainTakesFirst
    <2>2. /\ Tail(Waiting) \in Seq(Values) /\ Len(Tail(Waiting)) = Used - 1
          /\ \A i \in 1..(Used - 1) : Tail(Waiting)[i] = Waiting[i + 1]
        BY <1>a, <2>1, HeadTailProperties
    <2>3. \A i \in 1..(Used - 1) : Waiting'[i] = Tail(Waiting)[i]
        BY <1>0, <1>3, <1>a, <1>b, <2>2, DrainTakesFirst
    <2>4. Waiting' = Tail(Waiting)
        BY <1>0, <1>3, <1>b, <2>2, <2>3, DrainTakesFirst, SeqEqual
    <2>5. ev = NoEvent /\ ev' = Waiting[1]
        BY <1>0, <1>3, <1>a, DrainTakesFirst DEF Drain, RingInv
    <2> QED
        BY <2>1, <2>4, <2>5 DEF Fifo!Get
<1>4. CASE Drain /\ ptr_q_head = ptr_q_tail
    BY <1>4, QueueStutters DEF Drain
<1>5. CASE Wake \/ SyncDone \/ UNCHANGED vars
    BY <1>5, QueueStutters DEF Wake, SyncDone, vars, ringVars
<1>6. CASE Apply
    <2>1. UNCHANGED Waiting
        BY <1>6 DEF Apply, ringVars, Waiting, Used, Entry
    <2> QED
        BY <1>6, <2>1 DEF Apply, RingInv, Fifo!Done
<1> QED
    BY <1>1, <1>2, <1>3, <1>4, <1>5, <1>6 DEF Next, Dispatcher

\* Whatever the length of the ring and however the threads' steps fall, events are
\* applied in the order they were queued in, each once.
THEOREM RingIsFifo == Spec => AppliedInOrder
<1>1. Init => Fifo!Init
    <2> SUFFICES ASSUME Init PROVE Waiting = <<>> /\ ev = NoEvent
        BY DEF Fifo!Init
    <2>1. TypeOK /\ Used = 0
        <3>1. 0 \in Entries /\ Used = 0
            BY QueueAssumption DEF Init, Entries, Used
        <3> QED
            BY <3>1 DEF Init, TypeOK
    <2>2. Waiting \in Seq(Values) /\ Len(Waiting) = 0
        BY <2>1, WaitingIsSeq DEF WaitingFacts
    <2> QED
        BY <2>2, EmptySeq DEF Init
<1> QED
    BY <1>1, QueueStep, RingInvariant, PTL DEF Spec, Safe, AppliedInOrder, Fifo!Safe

=============================================================================
