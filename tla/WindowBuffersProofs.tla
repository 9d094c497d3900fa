-------------------------- MODULE WindowBuffersProofs --------------------------
(***************************************************************************)
(* What the two windows over WindowBuffers guarantee, and the answers that *)
(* go with one of them: FlatAnswers and FlatWindow for any number of       *)
(* callbacks, buffers, surfaces and pictures, OverlayBuffers for any       *)
(* pictures of its scene.                                                  *)
(*                                                                         *)
(* The invariant of FlatAnswers has three layers.  TypeOK holds whatever   *)
(* goes wrong.  Owned says that an entry is in one place at a time and     *)
(* that its object is alive and unanswered there; it needs the client to   *)
(* destroy objects on the dispatching thread only, since the adapter holds *)
(* a taken entry without its lock.  Apart says that no round starts while  *)
(* one is being handed out; it needs handlers faster than the 16 ms        *)
(* between rounds.  Nothing is lost under all three.  FlatWindow takes the *)
(* steps of FlatAnswers, so that the answers' theorems are the window's    *)
(* too; of its own it has the pictures' way from the client to the screen. *)
(*                                                                         *)
(* The invariant of OverlayBuffers joins three facts: each buffer is in    *)
(* one place, a redraw waits only while the adapter has none, and the      *)
(* buffer committed last holds the scene unless one waits.  The second     *)
(* alone is not inductive: a release that is drawn in at once needs the    *)
(* buffer to have been on its way.                                         *)
(***************************************************************************)
EXTENDS FlatWindow, OverlayBuffers, FiniteSetTheorems, TLAPS

\* A step keeps the types, with any faults.
LEMMA TypeStep ==
  ASSUME TypeOK, [Next]_vars
  PROVE  TypeOK'
<1> USE FlatConstants DEF TypeOK, ThreadStates, CallbackStates, listVars, sentVars,
        roundVars, threadVars, clientVars
<1>1. CASE \E c \in Callbacks : AskFrame(c)
  BY <1>1 DEF AskFrame, WithPending
<1>2. CASE \E c \in Callbacks : AddListener(c)
  BY <1>2 DEF AddListener
<1>3. CASE \E c \in Callbacks : DestroyCallback(c)
  BY <1>3 DEF DestroyCallback, ForgetFrame
<1>4. CASE \E b \in Buffers : CommitBuffer(b)
  BY <1>4 DEF CommitBuffer, WithPending
<1>5. CASE \E b \in Buffers : DestroyBuffer(b)
  BY <1>5 DEF DestroyBuffer
<1>6. CASE AnswerMaybe
  BY <1>6 DEF AnswerMaybe, AnswerDue, SendPending
<1>7. CASE Rest
  BY <1>7 DEF Rest
<1>8. CASE SyncDone
  BY <1>8 DEF SyncDone
<1>9. CASE TakeRelease
  BY <1>9 DEF TakeRelease
<1>10. CASE HandleRelease
  BY <1>10 DEF HandleRelease
<1>11. CASE TakeFrame
  BY <1>11 DEF TakeFrame
<1>12. CASE HandleFrame
  BY <1>12 DEF HandleFrame
<1>13. CASE UNCHANGED vars
  BY <1>13 DEF vars
<1> QED
  BY <1>1, <1>2, <1>3, <1>4, <1>5, <1>6, <1>7, <1>8, <1>9, <1>10, <1>11, <1>12, <1>13
     DEF Next, Client, Dispatcher

\* The variables keep their types: the base of every other invariant.
THEOREM TypeCorrect == Safe => []TypeOK
<1>1. Init => TypeOK
  BY DEF Init, TypeOK, ThreadStates, CallbackStates
<1>2. TypeOK /\ [Next]_vars => TypeOK'
  BY TypeStep
<1> QED
  BY <1>1, <1>2, PTL DEF Safe

-----------------------------------------------------------------------------
(* One place at a time. *)

FramesOwned ==
    /\ \A c \in flat_frames \cup flat_frames_sent : Unanswered(c)
    /\ flat_frames \cap flat_frames_sent = {}

ReleasesOwned ==
    /\ flat_releases \cup flat_releases_sent \subseteq busy
    /\ flat_releases \cap flat_releases_sent = {}

TakenOwned ==
    /\ taken \in Callbacks =>
         /\ thread = "frames"
         /\ Unanswered(taken)
         /\ taken \notin flat_frames \cup flat_frames_sent
    /\ taken \in Buffers =>
         /\ thread = "releases"
         /\ taken \in busy
         /\ taken \notin flat_releases \cup flat_releases_sent

Owned == TypeOK /\ FramesOwned /\ ReleasesOwned /\ TakenOwned

\* The faults under which an entry could be in two places.
SameThreadDestroys == "foreign_destroy" \notin Faults

\* Owned is inductive.
LEMMA OwnedStep ==
  ASSUME SameThreadDestroys, Owned, [Next]_vars
  PROVE  FramesOwned' /\ ReleasesOwned' /\ TakenOwned'
<1> USE FlatConstants DEF SameThreadDestroys, Owned, TypeOK, FramesOwned, ReleasesOwned,
        TakenOwned, Unanswered, ThreadStates, CallbackStates, MayDestroy, HasListener,
        listVars, sentVars, roundVars, threadVars, clientVars
<1>1. CASE \E c \in Callbacks : AskFrame(c)
  BY <1>1 DEF AskFrame, WithPending
<1>2. CASE \E c \in Callbacks : AddListener(c)
  BY <1>2 DEF AddListener
<1>3. CASE \E c \in Callbacks : DestroyCallback(c)
  BY <1>3 DEF DestroyCallback, ForgetFrame
<1>4. CASE \E b \in Buffers : CommitBuffer(b)
  BY <1>4 DEF CommitBuffer, WithPending
<1>5. CASE \E b \in Buffers : DestroyBuffer(b)
  BY <1>5 DEF DestroyBuffer
<1>6. CASE AnswerMaybe
  BY <1>6 DEF AnswerMaybe, AnswerDue, SendPending
<1>7. CASE Rest
  BY <1>7 DEF Rest
<1>8. CASE SyncDone
  BY <1>8 DEF SyncDone
<1>9. CASE TakeRelease
  BY <1>9 DEF TakeRelease
<1>10. CASE HandleRelease
  BY <1>10 DEF HandleRelease
<1>11. CASE TakeFrame
  BY <1>11 DEF TakeFrame
<1>12. CASE HandleFrame
  BY <1>12 DEF HandleFrame
<1>13. CASE UNCHANGED vars
  BY <1>13 DEF vars
<1> QED
  BY <1>1, <1>2, <1>3, <1>4, <1>5, <1>6, <1>7, <1>8, <1>9, <1>10, <1>11, <1>12, <1>13
     DEF Next, Client, Dispatcher

\* The invariants hold throughout.
LEMMA OwnedInvariant ==
  ASSUME SameThreadDestroys
  PROVE  Safe => []Owned
<1>1. Init => FramesOwned /\ ReleasesOwned /\ TakenOwned
  BY FlatConstants DEF Init, FramesOwned, ReleasesOwned, TakenOwned
<1>2. Owned /\ [Next]_vars => (FramesOwned /\ ReleasesOwned /\ TakenOwned)'
  BY OwnedStep
<1> QED
  BY <1>1, <1>2, TypeCorrect, PTL DEF Safe, Owned

\* No handler is ever given a destroyed or an answered object: the lists hold
\* live entries only.
THEOREM LiveEntriesOnly ==
  ASSUME SameThreadDestroys
  PROVE  Safe => []OnlyLiveEntries
<1>1. Owned => OnlyLiveEntries
  BY DEF Owned, FramesOwned, ReleasesOwned, OnlyLiveEntries
<1> QED
  BY <1>1, OwnedInvariant, PTL

-----------------------------------------------------------------------------
(* The safety half of the refinement. *)

\* Every step of the answering machine is a step of the callback service, or
\* changes nothing its clients see.
LEMMA ServiceStep ==
  ASSUME SameThreadDestroys, Owned, [Next]_vars
  PROVE  [Service!Next]_ServiceState
<1> USE DEF Owned, TypeOK, CallbackStates, Unanswered, ServiceState
<1>1. ASSUME callback' = callback PROVE ServiceState' = ServiceState
  BY <1>1
<1>2. ASSUME NEW c \in Callbacks, AskFrame(c) PROVE Service!Ask(c)
  BY <1>2 DEF AskFrame, Service!Ask, Service!Unused, Service!Awaiting
<1>3. ASSUME NEW c \in Callbacks, AddListener(c) PROVE ServiceState' = ServiceState
  BY <1>3 DEF AddListener
<1>4. ASSUME NEW c \in Callbacks, DestroyCallback(c) PROVE Service!Destroy(c)
  BY <1>4 DEF DestroyCallback, ForgetFrame, Service!Destroy, Service!Unused
<1>5. ASSUME HandleFrame PROVE [Service!Next]_ServiceState
  <2>1. taken \in Callbacks
    BY <1>5, FlatConstants DEF HandleFrame, TakenOwned
  <2>2. CASE ~HasListener(taken)
    <3>1. callback' = callback
      BY <1>5, <2>2 DEF HandleFrame
    <3> QED
      BY <3>1, <1>1
  <2>3. CASE HasListener(taken)
    <3>1. callback[taken] = "armed"
      BY <2>1, <2>3 DEF HasListener, TakenOwned
    <3>2. Service!Answer(taken)
      BY <1>5, <2>1, <2>3, <3>1
         DEF HandleFrame, Service!Answer, Service!Awaiting, Service!Answered
    <3> QED
      BY <2>1, <3>2 DEF Service!Next, Service!Answer
  <2> QED
    BY <2>2, <2>3
<1>6. CASE \E c \in Callbacks : AskFrame(c) \/ AddListener(c) \/ DestroyCallback(c)
  BY <1>6, <1>2, <1>3, <1>4 DEF Service!Next
<1>7. CASE \E b \in Buffers : CommitBuffer(b) \/ DestroyBuffer(b)
  BY <1>7, <1>1 DEF CommitBuffer, DestroyBuffer
<1>8. CASE AnswerMaybe \/ Rest
  BY <1>8, <1>1 DEF AnswerMaybe, AnswerDue, SendPending, Rest, clientVars
<1>9. CASE SyncDone \/ TakeRelease \/ HandleRelease \/ TakeFrame
  BY <1>9, <1>1 DEF SyncDone, TakeRelease, HandleRelease, TakeFrame, clientVars
<1>10. CASE HandleFrame
  BY <1>10, <1>5
<1>11. CASE UNCHANGED vars
  BY <1>11, <1>1 DEF vars, clientVars
<1> QED
  BY <1>6, <1>7, <1>8, <1>9, <1>10, <1>11 DEF Next, Client, Dispatcher

\* A frame callback is answered at most once, and never after its client has
\* destroyed it: the answering machine implements the callback service's
\* safety, with slow handlers, late listeners and failing syncs too.
THEOREM AnswersImplementService ==
  ASSUME SameThreadDestroys
  PROVE  Safe => AnsweredAtMostOnce
<1>1. Init => Service!Init
  BY DEF Init, Service!Init, ServiceState, Unanswered, Service!Unused
<1>2. Owned /\ [Next]_vars => [Service!Next]_ServiceState
  BY ServiceStep
<1> QED
  BY <1>1, <1>2, OwnedInvariant, PTL DEF Safe, AnsweredAtMostOnce, Service!Safe

-----------------------------------------------------------------------------
(* Nothing is lost. *)

NoFaults == Faults = {}

RoomForAll ==
    /\ Cardinality(Callbacks) <= FLAT_PENDING
    /\ Cardinality(Buffers) <= FLAT_PENDING

\* No round starts while another is handed out.
Apart ==
    /\ thread # "idle" => ~flat_sync_inflight /\ ~rested
    /\ thread = "idle" => taken = NoEntry
    /\ thread = "frames" => flat_releases_sent = {}
    /\ thread = "idle" /\ ~flat_sync_inflight =>
         flat_frames_sent = {} /\ flat_releases_sent = {}

NothingLost == Apart /\ NoLostFrame /\ NoLostRelease

\* flat_pending_add has room for an entry the list does not hold yet.
LEMMA PendingHasRoom ==
  ASSUME NEW S, IsFiniteSet(S), Cardinality(S) <= FLAT_PENDING,
         NEW list \in SUBSET S, NEW p \in S, p \notin list
  PROVE  WithPending(list, p) = list \cup {p}
<1>1. IsFiniteSet(S \ {p}) /\ Cardinality(S \ {p}) = Cardinality(S) - 1
  BY FS_RemoveElement
<1>2. Cardinality(list) <= Cardinality(S \ {p})
  BY <1>1, FS_Subset
<1>3. Cardinality(S) \in Nat /\ Cardinality(list) \in Nat
  BY FS_CardinalityType, FS_Subset
<1> QED
  BY <1>1, <1>2, <1>3, FlatConstants DEF WithPending

\* NothingLost is inductive, with Owned.
LEMMA NothingLostStep ==
  ASSUME NoFaults, RoomForAll, Owned, NothingLost, [Next]_vars
  PROVE  NothingLost'
<1> USE FlatConstants DEF NoFaults, Owned, TypeOK, FramesOwned, ReleasesOwned, TakenOwned,
        NothingLost, Apart, NoLostFrame, NoLostRelease, Unanswered, ThreadStates,
        CallbackStates, MayDestroy, HasListener, listVars, sentVars, roundVars, threadVars,
        clientVars
<1>1. ASSUME NEW c \in Callbacks, AskFrame(c) PROVE NothingLost'
  <2>1. flat_frames' = flat_frames \cup {c}
    BY <1>1, PendingHasRoom DEF AskFrame, RoomForAll
  <2> QED
    BY <1>1, <2>1 DEF AskFrame
<1>2. CASE \E c \in Callbacks : AddListener(c)
  BY <1>2 DEF AddListener
<1>3. CASE \E c \in Callbacks : DestroyCallback(c)
  BY <1>3 DEF DestroyCallback, ForgetFrame
<1>4. ASSUME NEW b \in Buffers, CommitBuffer(b) PROVE NothingLost'
  <2>1. flat_releases' = flat_releases \cup {b}
    BY <1>4, PendingHasRoom DEF CommitBuffer, RoomForAll
  <2> QED
    BY <1>4, <2>1 DEF CommitBuffer
<1>5. CASE \E b \in Buffers : DestroyBuffer(b)
  BY <1>5 DEF DestroyBuffer
<1>6. CASE AnswerMaybe
  BY <1>6 DEF AnswerMaybe, AnswerDue, SendPending
<1>7. CASE Rest
  BY <1>7 DEF Rest
<1>8. CASE SyncDone
  BY <1>8 DEF SyncDone
<1>9. CASE TakeRelease
  BY <1>9 DEF TakeRelease
<1>10. CASE HandleRelease
  BY <1>10 DEF HandleRelease
<1>11. CASE TakeFrame
  BY <1>11 DEF TakeFrame
<1>12. ASSUME HandleFrame PROVE NothingLost'
  <2>1. taken \in Callbacks /\ HasListener(taken)
    BY <1>12 DEF HandleFrame, InTime
  <2> QED
    BY <1>12, <2>1 DEF HandleFrame
<1>13. CASE UNCHANGED vars
  BY <1>13 DEF vars
<1> QED
  BY <1>1, <1>2, <1>3, <1>4, <1>5, <1>6, <1>7, <1>8, <1>9, <1>10, <1>11, <1>12, <1>13
     DEF Next, Client, Dispatcher

\* Nothing is lost, throughout.
LEMMA NothingLostInvariant ==
  ASSUME NoFaults, RoomForAll
  PROVE  Safe => [](Owned /\ NothingLost)
<1>1. SameThreadDestroys
  BY DEF NoFaults, SameThreadDestroys
<1>2. Init => NothingLost
  BY DEF Init, NothingLost, Apart, NoLostFrame, NoLostRelease, Unanswered
<1>3. Owned /\ NothingLost /\ [Next]_vars => NothingLost'
  BY NothingLostStep
<1> QED
  BY <1>1, <1>2, <1>3, OwnedInvariant, PTL DEF Safe

\* Without faults, and with room on the lists, every frame callback a client
\* waits for is on its way to an answer.
THEOREM NoFrameIsLost ==
  ASSUME NoFaults, RoomForAll
  PROVE  Safe => []NoLostFrame
<1>1. NothingLost => NoLostFrame
  BY DEF NothingLost
<1> QED
  BY <1>1, NothingLostInvariant, PTL

\* And every buffer it has committed is on its way back.
THEOREM NoReleaseIsLost ==
  ASSUME NoFaults, RoomForAll
  PROVE  Safe => []NoLostRelease
<1>1. NothingLost => NoLostRelease
  BY DEF NothingLost
<1> QED
  BY <1>1, NothingLostInvariant, PTL

\* What a round answers is fixed when its round trip starts.
THEOREM RoundsNotOverwritten ==
  ASSUME NoFaults, RoomForAll
  PROVE  Safe => RoundNotOverwritten
<1> DEFINE Kept == \/ /\ flat_frames_sent' \subseteq flat_frames_sent
                      /\ flat_releases_sent' \subseteq flat_releases_sent
                   \/ flat_frames_sent = {} /\ flat_releases_sent = {} /\ thread = "idle"
<1>1. ASSUME Owned, NothingLost, [Next]_vars PROVE [Kept]_vars
  <2> USE DEF listVars, sentVars, roundVars, threadVars, clientVars
  <2>1. CASE AnswerMaybe
    BY <1>1, <2>1 DEF AnswerMaybe, AnswerDue, SendPending, NothingLost, Apart, Owned, TypeOK
  <2>2. CASE Client
    BY <2>2 DEF Client, AskFrame, AddListener, DestroyCallback, ForgetFrame, CommitBuffer,
                DestroyBuffer
  <2>3. CASE Rest \/ Dispatcher
    BY <2>3 DEF Rest, Dispatcher, SyncDone, TakeRelease, HandleRelease, TakeFrame,
                HandleFrame
  <2> QED
    BY <1>1, <2>1, <2>2, <2>3 DEF Next
<1>2. Owned /\ NothingLost /\ [Next]_vars => [Kept]_vars
  BY <1>1
<1> QED
  BY <1>2, NothingLostInvariant, PTL DEF Safe, RoundNotOverwritten

-----------------------------------------------------------------------------
(* The window: it gives the answers as FlatAnswers does. *)

\* What the window's own variables hold.
Shown == Pictures \cup {HalfDrawn, Blank}

Items ==
    [pending : Buffers \cup {NoEntry}, has_pending : BOOLEAN,
     current : Buffers \cup {NoEntry}, pix : Shown]

WindowTypeOK ==
    /\ BuffersTypeOK([Surfaces -> Shown])
    /\ item \in [Surfaces -> Items]
    /\ ink \in [Buffers -> Shown]

\* A step of the window is one of the answering machine, or leaves that alone.
LEMMA WindowTakesAnswerSteps ==
  ASSUME WindowTypeOK, [FlatNext]_flatVars
  PROVE  [Next]_vars
<1>1. CASE \E c \in Callbacks : Frame(c) \/ Listen(c) \/ Destroy(c)
  BY <1>1 DEF Frame, Listen, Destroy, Next, Client
<1>2. CASE \E b \in Buffers : Draw(b)
  BY <1>2 DEF Draw
<1>3. CASE \E b \in Buffers : BufferDestroyed(b)
  BY <1>3 DEF BufferDestroyed, Next, Client
<1>4. CASE \E s \in Surfaces, b \in Buffers \cup {NoEntry} : Attach(s, b)
  BY <1>4 DEF Attach
<1>5. ASSUME NEW s \in Surfaces, Commit(s) PROVE [Next]_vars
  <2>1. item[s].pending \in Buffers \cup {NoEntry}
    BY DEF WindowTypeOK, Items
  <2>2. UNCHANGED vars \/ (item[s].pending # NoEntry /\ CommitBuffer(item[s].pending))
    BY <1>5 DEF Commit
  <2> QED
    BY <2>1, <2>2 DEF Next, Client
<1>6. CASE Pump
  BY <1>6 DEF Pump, Next
<1>7. CASE Dispatch \/ RestClock
  BY <1>7 DEF Dispatch, RestClock, Next
<1>8. CASE \E i \in Slots : AgeClock(i)
  BY <1>8 DEF AgeClock
<1>9. CASE UNCHANGED flatVars
  BY <1>9 DEF flatVars
<1> QED
  BY <1>1, <1>2, <1>3, <1>4, <1>5, <1>6, <1>7, <1>8, <1>9 DEF FlatNext

\* Whether the times tie is yes or no.
LEMMA TieIsBoolean == \A b : MayTie(b) \subseteq BOOLEAN
BY DEF MayTie

\* A redraw writes the canvas to a buffer it may draw in, or owes that.
LEMMA RedrawStep ==
  ASSUME NEW Pics, NEW pic \in Pics, BuffersTypeOK(Pics), Redraw(pic)
  PROVE  /\ BuffersTypeOK(Pics)'
         /\ UpToDate(pic)'
         /\ ov_mem'[latest] = ov_mem[latest] \/ ov_free[latest] \/ TakenForOlder
<1> USE DEF BuffersTypeOK, UpToDate, Slots
<1>1. Drawable \subseteq {b \in Slots : ov_free[b] \/ b # latest \/ TakenForOlder}
  BY DEF Drawable, Older, TakenForOlder
<1>2. CASE \E b \in Drawable : CommitTo(b, pic)
  BY <1>1, <1>2, TieIsBoolean DEF CommitTo
<1>3. CASE ~\E b \in Drawable : CommitTo(b, pic)
  BY <1>3 DEF Redraw
<1> QED
  BY <1>2, <1>3

\* The copies are a canvas.
LEMMA CanvasType ==
  ASSUME WindowTypeOK
  PROVE  Canvas \in [Surfaces -> Shown]
BY DEF WindowTypeOK, Items, Canvas

\* What a commit may make of an item.
Committed(s, pix) ==
    [item[s] EXCEPT !.has_pending = FALSE, !.current = item[s].pending, !.pix = pix]

LEMMA CommitItem ==
  ASSUME WindowTypeOK, NEW s \in Surfaces, Commit(s)
  PROVE  /\ item' \in [Surfaces -> Items]
         /\ \A t \in Surfaces \ {s} : item'[t] = item[t]
         /\ \/ item'[s] = item[s]
            \/ /\ item[s].has_pending
               /\ ~item'[s].has_pending
               /\ item'[s].pix \in Copies(s, item[s].pending)
<1> USE DEF WindowTypeOK
<1>1. item \in [Surfaces -> Items] /\ item[s] \in Items
  OBVIOUS
<1>2. CASE item[s].has_pending
  <2>1. PICK pix \in Copies(s, item[s].pending) : item' = [item EXCEPT ![s] = Committed(s, pix)]
    BY <1>2 DEF Commit, Committed
  <2>2. pix \in Shown
    BY <1>1 DEF Copies, Items, Shown
  <2>3. Committed(s, pix) \in Items
    BY <1>1, <2>2 DEF Committed, Items
  <2>4. ~Committed(s, pix).has_pending /\ Committed(s, pix).pix = pix
    BY <1>1 DEF Committed, Items
  <2> QED
    BY <1>1, <1>2, <2>1, <2>3, <2>4
<1>3. CASE ~item[s].has_pending
  BY <1>1, <1>3 DEF Commit, AfterBareCommit
<1> QED
  BY <1>2, <1>3

\* A step that leaves the copies alone leaves the canvas.
LEMMA SameCanvas ==
  ASSUME \A s \in Surfaces : item'[s].pix = item[s].pix
  PROVE  Canvas' = Canvas
BY DEF Canvas

\* Every step keeps the window's types, and its screen right: a change of the
\* canvas comes with a redraw, or with the debt of one.
LEMMA WindowStep ==
  ASSUME WindowTypeOK, WindowUpToDate, [FlatNext]_flatVars
  PROVE  /\ WindowTypeOK'
         /\ WindowUpToDate'
         /\ ov_mem'[latest] = ov_mem[latest] \/ ov_free[latest] \/ TakenForOlder
<1> USE DEF WindowUpToDate
<1>1. CASE \E c \in Callbacks : Frame(c)
  <2>1. UpToDate(Canvas)'
    BY <1>1 DEF Frame, UpToDate
  <2> QED
    BY <1>1, <2>1 DEF Frame, WindowTypeOK, BuffersTypeOK
<1>2. ASSUME UNCHANGED bufferVars, item' \in [Surfaces -> Items], ink' \in [Buffers -> Shown],
             \A s \in Surfaces : item'[s].pix = item[s].pix
      PROVE  WindowTypeOK' /\ WindowUpToDate' /\ ov_mem'[latest] = ov_mem[latest]
  <2>1. Canvas' = Canvas
    BY <1>2, SameCanvas
  <2> QED
    BY <1>2, <2>1 DEF bufferVars, WindowTypeOK, BuffersTypeOK, UpToDate
<1>3. CASE \E c \in Callbacks : Listen(c) \/ Destroy(c)
  BY <1>2, <1>3 DEF Listen, Destroy, WindowTypeOK
<1>4. CASE \E b \in Buffers : Draw(b)
  <2>1. ink' \in [Buffers -> Shown]
    BY <1>4 DEF Draw, WindowTypeOK, Shown
  <2> QED
    BY <1>2, <1>4, <2>1 DEF Draw, WindowTypeOK
<1>5. ASSUME NEW b \in Buffers, BufferDestroyed(b)
      PROVE  WindowTypeOK' /\ WindowUpToDate' /\ ov_mem'[latest] = ov_mem[latest]
  <2>1. item' \in [Surfaces -> Items] /\ \A s \in Surfaces : item'[s].pix = item[s].pix
    <3>1. ASSUME NEW s \in Surfaces
          PROVE  item'[s] \in Items /\ item'[s].pix = item[s].pix
      <4>1. item[s] \in Items
        BY DEF WindowTypeOK
      <4>2. item'[s] = [item[s] EXCEPT !.current = IF @ = b THEN NoEntry ELSE @,
                                       !.pending = IF @ = b THEN NoEntry ELSE @]
        BY <1>5 DEF BufferDestroyed
      <4> QED
        BY <4>1, <4>2 DEF Items
    <3>2. DOMAIN item' = Surfaces /\ item' = [s \in Surfaces |-> item'[s]]
      BY <1>5 DEF BufferDestroyed
    <3> QED
      BY <3>1, <3>2
  <2>2. ink' \in [Buffers -> Shown] /\ UNCHANGED bufferVars
    BY <1>5 DEF BufferDestroyed, WindowTypeOK, Shown
  <2> QED
    BY <1>2, <2>1, <2>2
<1>6. ASSUME NEW s \in Surfaces, NEW b \in Buffers \cup {NoEntry}, Attach(s, b)
      PROVE  WindowTypeOK' /\ WindowUpToDate' /\ ov_mem'[latest] = ov_mem[latest]
  <2>1. item' \in [Surfaces -> Items] /\ \A t \in Surfaces : item'[t].pix = item[t].pix
    <3>1. item[s] \in Items /\ item \in [Surfaces -> Items]
      BY DEF WindowTypeOK
    <3>2. item' = [item EXCEPT ![s] = [item[s] EXCEPT !.pending = b, !.has_pending = TRUE]]
      BY <1>6, <3>1 DEF Attach
    <3>3. [item[s] EXCEPT !.pending = b, !.has_pending = TRUE] \in Items
      BY <3>1 DEF Items
    <3> QED
      BY <3>1, <3>2, <3>3 DEF Items
  <2> QED
    BY <1>2, <1>6, <2>1 DEF Attach, WindowTypeOK
<1>7. ASSUME NEW s \in Surfaces, Commit(s)
      PROVE  WindowTypeOK' /\ WindowUpToDate'
             /\ (ov_mem'[latest] = ov_mem[latest] \/ ov_free[latest] \/ TakenForOlder)
  <2>1. item' \in [Surfaces -> Items] /\ ink' = ink /\ Redraw(Canvas')
    BY <1>7, CommitItem DEF Commit
  <2>2. Canvas' \in [Surfaces -> Shown]
    BY <2>1 DEF Canvas, Items
  <2>3. BuffersTypeOK([Surfaces -> Shown])
    BY DEF WindowTypeOK
  <2>4. /\ BuffersTypeOK([Surfaces -> Shown])'
        /\ UpToDate(Canvas)'
        /\ ov_mem'[latest] = ov_mem[latest] \/ ov_free[latest] \/ TakenForOlder
    BY <2>1, <2>2, <2>3, RedrawStep DEF BuffersTypeOK, UpToDate
  <2> QED
    BY <2>1, <2>4 DEF WindowTypeOK
<1>8. CASE Pump
  <2>1. UNCHANGED <<item, ink>> /\ Canvas' = Canvas
    BY <1>8, SameCanvas DEF Pump
  <2>2. BuffersTypeOK([Surfaces -> Shown])
    BY DEF WindowTypeOK
  <2>3. CASE Redraw(Canvas)
    <3>1. /\ BuffersTypeOK([Surfaces -> Shown])'
          /\ UpToDate(Canvas)'
          /\ ov_mem'[latest] = ov_mem[latest] \/ ov_free[latest] \/ TakenForOlder
      BY <2>1, <2>2, <2>3, CanvasType, RedrawStep DEF BuffersTypeOK, UpToDate
    <3> QED
      BY <2>1, <3>1 DEF WindowTypeOK
  <2>4. CASE UNCHANGED bufferVars
    BY <1>2, <2>1, <2>4 DEF WindowTypeOK
  <2> QED
    BY <1>8, <2>3, <2>4 DEF Pump
<1>9. CASE Dispatch \/ RestClock
  BY <1>2, <1>9 DEF Dispatch, RestClock, WindowTypeOK
<1>10. CASE \E i \in Slots : AgeClock(i)
  <2>1. UNCHANGED <<item, ink, ov_mem, ov_dirty, ov_free, latest, tied, held, releasing>>
        /\ aged' \subseteq Slots
    BY <1>10 DEF AgeClock, Age, WindowTypeOK, BuffersTypeOK
  <2>2. Canvas' = Canvas
    BY <2>1, SameCanvas
  <2> QED
    BY <2>1, <2>2 DEF WindowTypeOK, BuffersTypeOK, UpToDate
<1>11. CASE UNCHANGED flatVars
  BY <1>2, <1>11 DEF flatVars, WindowTypeOK
<1> QED
  BY <1>1, <1>2, <1>3, <1>4, <1>5, <1>6, <1>7, <1>8, <1>9, <1>10, <1>11 DEF FlatNext

\* The window starts well typed and right.
LEMMA WindowInit ==
  ASSUME FlatInit
  PROVE  WindowTypeOK /\ WindowUpToDate
<1>1. item \in [Surfaces -> Items] /\ ink \in [Buffers -> Shown]
  BY DEF FlatInit, Items, Shown
<1>2. Canvas \in [Surfaces -> Shown]
  BY <1>1 DEF Canvas, Items
<1>3. ASSUME NEW Pics, NEW pic \in Pics, BuffersInit(pic)
      PROVE  BuffersTypeOK(Pics) /\ UpToDate(pic)
  <2>1. 1 \in Slots
    BY DEF Slots
  <2>2. ov_mem \in [Slots -> Pics] /\ ov_mem[latest] = pic
    BY <1>3, <2>1 DEF BuffersInit
  <2> QED
    BY <1>3, <2>1, <2>2 DEF BuffersInit, BuffersTypeOK, UpToDate
<1>4. BuffersTypeOK([Surfaces -> Shown]) /\ UpToDate(Canvas)
  BY <1>2, <1>3 DEF FlatInit
<1> QED
  BY <1>1, <1>4 DEF WindowTypeOK, WindowUpToDate

\* The two hold throughout.
LEMMA WindowInvariant == FlatSpec => [](WindowTypeOK /\ WindowUpToDate)
<1>1. FlatInit => WindowTypeOK /\ WindowUpToDate
  BY WindowInit
<1>2. WindowTypeOK /\ WindowUpToDate /\ [FlatNext]_flatVars
        => (WindowTypeOK /\ WindowUpToDate)'
  BY WindowStep
<1> QED
  BY <1>1, <1>2, PTL DEF FlatSpec

\* What holds of the answers on their own holds of them in the window, however its
\* redraws, its pump and the client's pictures interleave with them.
THEOREM WindowAnswersAsSpecified == FlatSpec => Safe
<1>1. FlatInit => Init
  BY DEF FlatInit
<1>2. WindowTypeOK /\ [FlatNext]_flatVars => [Next]_vars
  BY WindowTakesAnswerSteps
<1> QED
  BY <1>1, <1>2, WindowInvariant, PTL DEF FlatSpec, Safe

\* So the lists hold live entries only, in the window as in FlatAnswers.
THEOREM WindowLiveEntriesOnly ==
  ASSUME SameThreadDestroys
  PROVE  FlatSpec => []OnlyLiveEntries
BY WindowAnswersAsSpecified, LiveEntriesOnly, PTL

\* The variables of the whole window keep their types.
THEOREM WindowTypeCorrect == FlatSpec => []FlatTypeOK
<1>1. TypeOK /\ WindowTypeOK => FlatTypeOK
  BY DEF FlatTypeOK, WindowTypeOK, Items, Shown
<1> QED
  BY <1>1, WindowInvariant, WindowAnswersAsSpecified, TypeCorrect, PTL

\* Whatever the client commits is on the screen, or a redraw is owed for it: no order
\* of commits, redraws without a free buffer and turns of the pump leaves an old
\* picture there with nothing to replace it.
THEOREM ScreenUpToDate == FlatSpec => []WindowUpToDate
BY WindowInvariant, PTL

\* The picture on the screen is never drawn over, though the adapter takes back
\* buffers that no one has released.
THEOREM ScreenLeftAlone == FlatSpec => NeverDrawsOnScreen
<1>1. WindowTypeOK /\ WindowUpToDate /\ [FlatNext]_flatVars
        => [ov_mem'[latest] = ov_mem[latest] \/ ov_free[latest] \/ TakenForOlder]_bufferVars
  BY WindowStep
<1> QED
  BY <1>1, WindowInvariant, PTL DEF FlatSpec, NeverDrawsOnScreen

-----------------------------------------------------------------------------
(* The client's pictures. *)

\* A buffer attached and not yet committed shows a finished picture; so then does
\* every copy.
AttachedFinished ==
    \A s \in Surfaces :
        item[s].has_pending /\ item[s].pending \in Buffers => ink[item[s].pending] \in Pictures

Finished == AttachedFinished /\ NothingHalfDrawn

\* Every step keeps the pictures finished.
LEMMA FinishedStep ==
  ASSUME WindowTypeOK, Finished, [FlatNext]_flatVars
  PROVE  Finished'
<1> USE DEF Finished, AttachedFinished, NothingHalfDrawn
<1>1. ASSUME UNCHANGED <<item, ink>> PROVE Finished'
  BY <1>1
<1>2. CASE \E c \in Callbacks : Frame(c) \/ Listen(c) \/ Destroy(c)
  BY <1>1, <1>2 DEF Frame, Listen, Destroy
<1>3. ASSUME NEW b \in Buffers, Draw(b) PROVE Finished'
  <2>1. item' = item /\ ~Attached(b) /\ \A d \in Buffers \ {b} : ink'[d] = ink[d]
    BY <1>3 DEF Draw, WindowTypeOK
  <2> QED
    BY <2>1 DEF Attached
<1>4. ASSUME NEW b \in Buffers, BufferDestroyed(b) PROVE Finished'
  <2>1. \A d \in Buffers \ {b} : ink'[d] = ink[d]
    BY <1>4 DEF BufferDestroyed, WindowTypeOK
  <2>2. ASSUME NEW s \in Surfaces
        PROVE  /\ item'[s].pix = item[s].pix
               /\ item'[s].has_pending = item[s].has_pending
               /\ item'[s].pending = IF item[s].pending = b THEN NoEntry ELSE item[s].pending
    <3>1. item[s] \in Items
      BY DEF WindowTypeOK
    <3> QED
      BY <1>4, <3>1 DEF BufferDestroyed, Items
  <2> QED
    BY <2>1, <2>2, FlatConstants
<1>5. ASSUME NEW s \in Surfaces, NEW b \in Buffers \cup {NoEntry}, Attach(s, b)
      PROVE  Finished'
  <2>1. ink' = ink /\ (b \in Buffers => ink[b] \in Pictures)
    BY <1>5 DEF Attach
  <2>2. \A t \in Surfaces :
          /\ item'[t].pix = item[t].pix
          /\ t # s => item'[t] = item[t]
    BY <1>5 DEF Attach, WindowTypeOK, Items
  <2>3. item'[s].pending = b
    BY <1>5 DEF Attach, WindowTypeOK, Items
  <2> QED
    BY <2>1, <2>2, <2>3
<1>6. ASSUME NEW s \in Surfaces, Commit(s) PROVE Finished'
  <2>1. ink' = ink /\ \A t \in Surfaces \ {s} : item'[t] = item[t]
    BY <1>6, CommitItem DEF Commit
  <2>2. CASE item'[s] = item[s]
    BY <2>1, <2>2
  <2>3. CASE /\ item[s].has_pending
             /\ ~item'[s].has_pending
             /\ item'[s].pix \in Copies(s, item[s].pending)
    <3>1. item[s].pending \in Buffers \cup {NoEntry}
      BY DEF WindowTypeOK, Items
    <3>2. item'[s].pix # HalfDrawn
      BY <2>3, <3>1, PictureConstants DEF Copies
    <3> QED
      BY <2>1, <2>3, <3>2
  <2> QED
    BY <1>6, <2>2, <2>3, CommitItem
<1>7. CASE Pump \/ Dispatch \/ RestClock \/ \E i \in Slots : AgeClock(i)
  BY <1>1, <1>7 DEF Pump, Dispatch, RestClock, AgeClock
<1>8. CASE UNCHANGED flatVars
  BY <1>1, <1>8 DEF flatVars
<1> QED
  BY <1>2, <1>3, <1>4, <1>5, <1>6, <1>7, <1>8 DEF FlatNext

\* The window never shows a picture the client was still drawing, though its buffers
\* go back to be drawn in while their surfaces' commits go on without new ones.
THEOREM OnlyFinishedPictures == FlatSpec => []NothingHalfDrawn
<1>1. FlatInit => Finished
  BY PictureConstants DEF FlatInit, Finished, AttachedFinished, NothingHalfDrawn
<1>2. WindowTypeOK /\ Finished /\ [FlatNext]_flatVars => Finished'
  BY FinishedStep
<1>3. Finished => NothingHalfDrawn
  BY DEF Finished
<1> QED
  BY <1>1, <1>2, <1>3, WindowInvariant, PTL DEF FlatSpec

-----------------------------------------------------------------------------
(* OverlayBuffers: webOS 4, where the window is not flat. *)

OverlayInvariant ==
    /\ OverlayTypeOK
    /\ EachInOnePlace
    /\ WaitsOnlyForBuffers
    /\ UpToDate(canvas)

\* Every step keeps the three facts.
LEMMA OverlayStep ==
  ASSUME ~Flat
  PROVE  OverlayInvariant /\ [OverlayNext]_overlayVars => OverlayInvariant'
<1> SUFFICES ASSUME OverlayInvariant, [OverlayNext]_overlayVars PROVE OverlayInvariant'
    OBVIOUS
<1> USE DEF OverlayInvariant, OverlayTypeOK, BuffersTypeOK, EachInOnePlace,
        WaitsOnlyForBuffers, UpToDate, Slots
<1>1. CASE UNCHANGED overlayVars
    BY <1>1 DEF overlayVars, bufferVars
<1>2. ASSUME NEW c \in Canvases, OverlayDraw(c) PROVE OverlayInvariant'
    <2>1. CASE \E b \in Drawable : CommitTo(b, c)
        <3>1. PICK b \in Drawable : CommitTo(b, c)
            BY <2>1
        <3>2. b \in Slots /\ ov_free[b]
            BY <3>1 DEF Drawable
        <3> QED
            BY <1>2, <3>1, <3>2, TieIsBoolean DEF OverlayDraw, CommitTo
    <2>2. CASE Drawable = {} /\ ov_dirty' = TRUE
              /\ UNCHANGED <<ov_free, ov_mem, latest, tied, aged, held, releasing>>
        <3>1. \A b \in Slots : ~ov_free[b]
            BY <2>2 DEF Drawable
        <3> QED
            BY <1>2, <2>2, <3>1 DEF OverlayDraw
    <2> QED
        BY <1>2, <2>1, <2>2 DEF OverlayDraw, Redraw
<1>3. ASSUME NEW b \in Slots, Release(b) PROVE OverlayInvariant'
    <2>1. CASE ov_dirty
        <3>1. ~ov_free[0] /\ ~ov_free[1]
            BY <2>1
        <3> QED
            BY <1>3, <2>1, <3>1, TieIsBoolean DEF Release, BufferRelease
    <2>2. CASE ~ov_dirty
        BY <1>3, <2>2 DEF Release, BufferRelease
    <2> QED
        BY <2>1, <2>2
<1>4. ASSUME NEW b \in Slots, Compositor(b) PROVE OverlayInvariant'
    BY <1>4 DEF Compositor, CompositorReleases
<1> QED
    BY <1>1, <1>2, <1>3, <1>4 DEF OverlayNext

\* The invariant holds throughout.
LEMMA OverlayInvariantHolds ==
  ASSUME ~Flat
  PROVE  OverlaySafe => []OverlayInvariant
<1>1. OverlayInit => OverlayInvariant
    <2> SUFFICES ASSUME OverlayInit PROVE OverlayInvariant
        OBVIOUS
    <2> USE DEF OverlayInit, BuffersInit, Slots
    <2>1. OverlayTypeOK
        <3>1. ov_free \in [Slots -> BOOLEAN] /\ ov_mem \in [Slots -> Canvases]
            BY Zenon
        <3>2. ov_dirty \in BOOLEAN /\ tied \in BOOLEAN /\ canvas \in Canvases
            BY Zenon
        <3>3. latest \in Slots
            BY SMT
        <3>4. aged \subseteq Slots /\ held \subseteq Slots /\ releasing \subseteq Slots
            BY Zenon
        <3> QED
            BY <3>1, <3>2, <3>3, <3>4, Zenon DEF OverlayTypeOK, BuffersTypeOK
    <2>2. EachInOnePlace /\ WaitsOnlyForBuffers
        BY DEF EachInOnePlace, WaitsOnlyForBuffers
    <2>3. UpToDate(canvas)
        <3>1. ov_mem[1] = canvas
            OBVIOUS
        <3> QED
            BY <3>1 DEF UpToDate
    <2> QED
        BY <2>1, <2>2, <2>3 DEF OverlayInvariant
<1> QED
    BY <1>1, OverlayStep, PTL DEF OverlaySafe

\* The variables keep their types.
THEOREM OverlayTypeCorrect ==
  ASSUME ~Flat
  PROVE  OverlaySpec => []OverlayTypeOK
<1>1. OverlayInvariant => OverlayTypeOK
    BY DEF OverlayInvariant
<1> QED
    BY <1>1, OverlayInvariantHolds, PTL DEF OverlaySpec

\* No buffer is ever in two places or in none: ov_free says which the adapter has.
THEOREM BuffersAccountedFor ==
  ASSUME ~Flat
  PROVE  OverlaySpec => []EachInOnePlace
<1>1. OverlayInvariant => EachInOnePlace
    BY DEF OverlayInvariant
<1> QED
    BY <1>1, OverlayInvariantHolds, PTL DEF OverlaySpec

\* A redraw is owed only while the compositor has both buffers.
THEOREM NoNeedlessWait ==
  ASSUME ~Flat
  PROVE  OverlaySpec => []WaitsOnlyForBuffers
<1>1. OverlayInvariant => WaitsOnlyForBuffers
    BY DEF OverlayInvariant
<1> QED
    BY <1>1, OverlayInvariantHolds, PTL DEF OverlaySpec

\* No step writes to a buffer the compositor may be reading.
THEOREM OnlyReturnedDrawnIn ==
  ASSUME ~Flat
  PROVE  OverlaySpec => DrawsOnlyReturned
<1>1. OverlayInvariant /\ [OverlayNext]_overlayVars =>
          [\A b \in Slots : ov_mem'[b] # ov_mem[b] => b \notin held]_bufferVars
    <2> SUFFICES ASSUME OverlayInvariant, [OverlayNext]_overlayVars, NEW b \in Slots, ov_mem'[b] # ov_mem[b]
                 PROVE b \notin held
        OBVIOUS
    <2> USE DEF OverlayInvariant, OverlayTypeOK, BuffersTypeOK, EachInOnePlace,
            WaitsOnlyForBuffers, Slots
    <2>1. CASE UNCHANGED overlayVars
        BY <2>1 DEF overlayVars, bufferVars
    <2>2. ASSUME NEW c \in Canvases, OverlayDraw(c) PROVE b \notin held
        <3>1. PICK d \in Drawable : CommitTo(d, c)
            BY <2>2 DEF OverlayDraw, Redraw
        <3> QED
            BY <3>1 DEF Drawable, CommitTo
    <2>3. ASSUME NEW r \in Slots, Release(r) PROVE b \notin held
        BY <2>3 DEF Release, BufferRelease
    <2>4. ASSUME NEW r \in Slots, Compositor(r) PROVE b \notin held
        BY <2>4 DEF Compositor, CompositorReleases
    <2> QED
        BY <2>1, <2>2, <2>3, <2>4 DEF OverlayNext
<1> QED
    BY <1>1, OverlayInvariantHolds, PTL DEF OverlaySpec, OverlaySafe, DrawsOnlyReturned

\* Every behaviour is one of Display, the buffer committed last being the screen:
\* what the user sees goes only to the picture of the moment.
THEOREM ShowsOnlyTheScene ==
  ASSUME ~Flat
  PROVE  OverlaySpec => OnScreen!Safe
<1>1. OverlayInit => OnScreen!Init
    <2> SUFFICES ASSUME OverlayInit PROVE ov_mem[latest] = canvas
        BY DEF OverlayInit, OnScreen!Init
    <2>1. ov_mem[1] = canvas /\ latest = 1
        BY DEF OverlayInit, BuffersInit, Slots
    <2> QED
        BY <2>1
<1>2. OverlayInvariant /\ [OverlayNext]_overlayVars =>
          [OnScreen!Show \/ \E c \in Canvases : OnScreen!Draw(c)]_OnScreen!displayVars
    <2> SUFFICES ASSUME OverlayInvariant, [OverlayNext]_overlayVars
                 PROVE  \/ OnScreen!Show
                        \/ \E c \in Canvases : OnScreen!Draw(c)
                        \/ UNCHANGED <<canvas, ov_mem[latest]>>
        BY DEF OnScreen!displayVars
    <2> USE DEF OverlayInvariant, OverlayTypeOK, BuffersTypeOK, Slots
    <2>1. CASE UNCHANGED overlayVars
        BY <2>1 DEF overlayVars, bufferVars
    <2>2. ASSUME NEW c \in Canvases, OverlayDraw(c) PROVE OnScreen!Draw(c)
        BY <2>2 DEF OverlayDraw, Redraw, CommitTo, Drawable, OnScreen!Draw
    <2>3. ASSUME NEW b \in Slots, Release(b)
          PROVE OnScreen!Show \/ UNCHANGED <<canvas, ov_mem[latest]>>
        BY <2>3 DEF Release, BufferRelease, OnScreen!Show
    <2>4. ASSUME NEW b \in Slots, Compositor(b) PROVE UNCHANGED <<canvas, ov_mem[latest]>>
        BY <2>4 DEF Compositor, CompositorReleases
    <2> QED
        BY <2>1, <2>2, <2>3, <2>4 DEF OverlayNext
<1> QED
    BY <1>1, <1>2, OverlayInvariantHolds, PTL DEF OverlaySpec, OverlaySafe, OnScreen!Safe

=============================================================================
