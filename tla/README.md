# Firefox for webOS TV: models of the Wayland adapter and its helpers

The adapter (`src/src/webos-xdg.c`) sits in a patched libwayland-client inside Firefox. It stands in
for what LG's compositors lack: xdg-shell, subsurfaces, pop-ups, text-input-v3, frame callbacks,
buffer releases and a remote control that clicks. Most of what can go wrong in this repository for a
reason a unit test would not show is in that file: several threads of one client, one dispatching
thread, a pump thread, an evdev thread, and compositors that do not answer, answer late, or destroy
objects on their own. Two helpers have such trouble of their own: `mask-wheel`, which makes the
compositor call ioctl with borrowed registers, and the launcher `geckotv`, which rewrites a user's
preferences and may be ended at any time. These modules model all three.

## Inventory

Line numbers are those of `src/src/webos-xdg.c` unless another file is named.

| Part | State | Operations | Hard because | What makes it correct |
|---|---|---|---|---|
| Flat mode's answers (1822-1996) | `flat_frames`, `flat_releases`, their `_sent` twins, `flat_sync_inflight`, the 16 ms | wl_surface.frame, commit, destroy; the pump's `flat_answer_maybe`; `flat_sync_done` | three threads, lock given up around handlers | each callback answered once; each buffer back; nothing stale handled |
| The adapter's own window (1232-1237, 1588-1717) | `ov_free`, `ov_mem`, `ov_dirty`, `ov_committed_at` | `ov_redraw`, `ov_buffer_release` | a compositor that releases late, or never | no buffer lost or drawn in too early; every redraw owed is done |
| Flat window (1960-2224) | `ov_items`: pending and current buffer, the copied picture | attach, commit, frame, wl_buffer.destroy, `flat_pump` | the client draws in buffers it got back | no half-drawn picture; window up to date |
| webOS 4 scene (972-1178, 1719-2038) | `layered`, `main_group`, `ov_popups`, `ov_items` | get_subsurface, set_position, attach, commit, pop-ups, destruction | three tables keyed by addresses, long sequences | shown once; nothing stale; every change drawn |
| Magic Remote queue (225-237, 3438-3554) | `ptr_q`, head, tail, `wake_pending_flag` | `enqueue_remote`, `remote_sync_done`, `drain_remote` | two threads and a round trip | FIFO; one round trip a batch; nothing stranded |
| Keyboard (864-928, 2905-3136) | `text_input`, `keyboard_up`, `text_input_*` | field focus, clicks, Back, leave, panel state | requests and events cross; a dead object is fatal | no request on a dead object; up for a field only |
| Pointer focus and injected clicks (3138-3436) | `synth_focus`, `ov_ptr_*`, `last_real_pointer` | wl_pointer events, `apply_remote_event` | two sources of the same click | enter and leave in step, each click once |
| Keyboard focus filter (3642-3742) | `focused_keys`, the open pop-ups | enter, leave, key | what is swallowed is never made up for | GTK's belief is right once menus are closed |
| Virtual objects, xdg-shell (497-740, 2254-2476) | `g.virts`, tags, shell roles, pop-up places | requests, listeners, configure, destroy | addresses used again, freed entries still read, configure inside configure | an object is found while it lives, and only then; pop-ups are where GTK was told |
| wl_shm pools (1295-1416) | `ov_pools`, `ov_bufs` | create, resize, destroy | reference counts, any order | mapped while used, unmapped in the end |
| mask-wheel (`src/src/mask-wheel.c`) | borrowed registers, `masked`, `absent` | attach, inject, detach, watch, bail | signals, restarts of the compositor, two runs at once | registers restored on every path; the wheel hidden while Firefox is in front, and only then |
| Launcher (`src/src/geckotv.c`) | the profile's folder, user.js, the rendering chosen | choose, give to the jail's user, first run, rewrite, exec | ended at any step; run by two users; what Firefox saved earlier; two tests of the same thing | the rendering of this launch; no line of the user's lost |
| EGL shim, diagnostics, libc compatibility, preferences, scripts, experiments | little or none | | sequential | |

How they meet: `ov_intercept` and `webos_xdg_intercept` see every request of the client and call
into the scene, the flat window and the answers; these share the lock `ov_mu`. `ov_redraw` reads the
scene's tables and writes the window's buffers. The pump retries redraws and starts answers.
Answers, remote events and the compositor's events all arrive on the thread that dispatches the
display; remote events end in the keyboard, the pointer focus and GTK's listeners. Clients' requests
come from any thread. `geckotv` runs before all this, decides by its own look at the compositor
whether Firefox renders in software, and, as root, runs `mask-wheel` once; `mask-wheel --watch` runs
beside Firefox.

PROJECT.json lists the hazards at their lines, with the properties that cover them.

## Modules

| Module | Models | Actions and code |
|---|---|---|
| `CallbackService` | abstract: what a client may expect of wl_surface.frame | Ask, Answer, Destroy |
| `FlatAnswers` | flat mode's answers | AskFrame, CommitBuffer: `ov_intercept`, `ov_commit`. AnswerMaybe: `flat_answer_maybe`. SyncDone, Take*, Handle*: the pieces of `flat_sync_done` between unlocks |
| `Display` | abstract: what a self-drawn window promises | Draw, Show |
| `WindowBuffers` | the two buffers, for any canvas | Redraw, BufferRelease, Age |
| `OverlayBuffers` | `WindowBuffers` on webOS 4, under any scene; implements `Display` | OverlayDraw: `ov_update` |
| `FlatWindow` | composes `FlatAnswers`, `WindowBuffers` and the client's pictures | Frame, Attach, Commit, BufferDestroyed, Pump: `flat_pump` |
| `SurfaceScene` | webOS 4's layers, overlay and pop-ups | one action per request of the client |
| `RemoteFifo` | abstract: a bounded FIFO that is emptied | Put, Get, Done |
| `RemoteQueue` | the evdev thread's ring and its wake-ups | Enqueue and Wake: `enqueue_remote` before and after its unlock. SyncDone, Drain, Apply |
| `OnScreenKeyboard` | text-input-v3 on one side, text_model and the wire on the other | one action per request, event and user's deed |
| `InputFocus` | what GTK is told of pointer and keyboard: the compositor's events, the remote's clicks, pop-ups closing under both | PointerEnter ... KeyboardLeave: the listeners of that name. ApplyClick: `apply_remote_event`. CloseMenu: `virt_teardown`, `ov_popup_gone` |
| `VirtualObjects` | the table of stand-in objects, listeners, configure, pop-up places | one action per request; AddListener and Configured: `webos_xdg_prepare_listener`, `emit_*_configure` before and after GTK's handlers |
| `ShmPools` | mapped pools and the buffers in them | CreatePool, Resize, DestroyPool, CreateBuffer, DestroyBuffer: `ov_pool_*`, `ov_buf_*` |
| `MaskWheel` | mask-wheel's watcher and the launcher's runs, surface-manager and what ptrace does to it | Attach, Borrow, Continue, Return, Leave: a run, one ptrace stop at a time. Poll: `watch_compositor`. Bail: `bail` |
| `Launcher` | geckotv's profile, user.js, who owns them, and the choice of rendering | Start, Give, GiveFiles, FirstRun: `main`, `give_profile`. Choose, CopyLine, AddChoice, Rename: `set_software_rendering`. Exec, End, Edit |
| `MC*` | the same for TLC, where it needs symmetry, a view or values for the constants | |
| `*Proofs` | theorems | |

Atomicity follows the locks. A step is what the code does without giving a lock up or what only the
dispatching thread can see; `flat_sync_done`, `enqueue_remote` and `drain_remote` are split where
they unlock. In `SurfaceScene` a request is one step: GTK and Firefox's widget code make these
requests on one thread. `VirtualObjects` is split where the adapter calls GTK's handlers,
`MaskWheel` at every stop of the compositor and every ptrace request, `Launcher` at every file
operation and every line that is copied, as a kill could come there.

Mutants stand before the definition they replace, marked as such: variants a plausible bug would
produce, used to see that each property can fail.

## Runs

| Run | Instance | Shows |
|---|---|---|
| `flat_answers` | 3 callbacks, 2 buffers, lists of 3, no fault | NoLostFrame, RoundNotOverwritten, BuffersComeBack; implements `CallbackService` with its liveness |
| `flat_slow` (violation) | 2 and 2, slow handlers | a round overwrites the last one: NoLostFrame fails |
| `flat_window` | 1 callback, 2 buffers, 1 surface, 1 picture, lists of 1; listeners late or missing, failing syncs, buffers that cannot be copied | OnlyLiveEntries, NothingHalfDrawn, WindowUpToDate, WindowCatchesUp, NeverDrawsOnScreen |
| `overlay_buffers` | 3 canvases | EachInOnePlace, DrawsOnlyReturned; implements `Display` |
| `surface_scene` | a content surface with two windows, with each window and pop-up, or with the two pop-ups; 2 slots in each table, 2 groups | LayersInGroup, ShownOnce, OverlayDrawn, NothingStale |
| `remote_queue` | 3 events, a ring of 4 | OneRoundTrip, NothingStranded; implements `RemoteFifo` with its liveness |
| `on_screen_keyboard` | 2 ids, 3 messages | NoRequestOnDeadModel, UpForAField, EnterReachesGtk, BeliefIsRight, GoesWithTheField |
| `input_focus` | 2 pop-ups, 4 events on their way, 1 click; TVs with and without the overlay, with and without wl_pointer events | TypeOK (the overlay's focus is on a pop-up that is shown), NeverAstray, ClickedOnce, KeyboardBelief |
| `virtual_objects` | 6 objects, 3 surfaces, one of them a submenu's, 1 registry, a table of 6, 2 positioners | OwnEntry, LiveSurfaceFound, ConfiguresCome, PlacedWhereTold |
| `mask_wheel` | the watcher and one run of the launcher, each ended anywhere; 2 descriptors, 1 restart, 1 signal | HandsOff; WheelHidden and WheelGoesBack under fairness |
| `launcher` | both users, every TV and env file, 2 lines added anywhere, reading that fails | RenderingAsChosen, EditsSurvive |
| `shm_pools` | 2 pools, 3 buffers, 3 files, 3 and 2 entries | CopiesOwnMemory, NothingLeaks |

The other type invariants hold of the same instances; most are theorems.

### Demonstrations

These configurations show what the findings below are about. TLC is run on them by hand (`tlc -config
X.cfg Module`); all but `RemoteFaults` end in a violation, which is the point.

| Configuration | Module | Shows |
|---|---|---|
| `PopupPicture` | MCSurfaceScene | CommitsCopied fails: the first picture of a subsurface that becomes a pop-up is lost |
| `PopupPlace` | MCSurfaceScene | PopupsWhereTold fails: such a pop-up cannot be moved |
| `StaleParent` | MCSurfaceScene | NoneInherited fails: a pop-up shows content put in a destroyed surface of its address |
| `SameMillisecond` | FlatWindow | ReusesTheOlder fails after two commits in one millisecond |
| `TextLeave` | OnScreenKeyboard | KeyboardGoes fails: a leave that leaves the panel up is not handled as the comment says |
| `RemoteFaults` | RemoteQueue | passes: when wake-ups are lost, what is applied is still in order and applied once |
| `ClickTwice` | MCInputFocus | ClickedOnce fails for a click 10 s after the pointer last moved |
| `Submenu` | MCVirtualObjects | OnScreen fails for a pop-up on a pop-up |
| `StaleRegistry` | MCVirtualObjects | OwnEntry fails when an object gets a destroyed registry's address |
| `NestedConfigure` | MCVirtualObjects | ConfiguresCome fails when GTK's configure handlers make objects |
| `MaskPaths` | MaskWheel | EveryPathRestores fails when a signal ends mask-wheel while the compositor runs for it |
| `CursorShow` | MaskWheel | CursorShowKept fails: the hiding run masks the CursorShow key |
| `LeftByRoot` | Launcher | RewrittenAtEachStart fails: root's launch, ended, leaves a file that bars the app's user |
| `LinesLost` | Launcher | UserCanEdit fails: user.js is replaced by what could be read of it |
| `TwoChoices` | Launcher | OneChoice fails: an old choice stays in user.js |
| `RootShell` | Launcher | ProfileStays fails after one launch from a root shell |
| `ActAsWebos4` | Launcher | FlatInSoftware fails with WEBOS_XDG_AS_WEBOS4=1 |

### Bounds

- Lists of 128 answers become 1 to 3 (1 in `flat_window`, which is about their entries and has a full
  list of releases that way). `flat_answers` gives the lists room for every callback, which
  is the assumption (RoomForAll) the theorems name; the mutant `WithPendingShort` is what happens
  without it. Three callbacks are enough for one pending, one sent and one in hand at a time.
- The ring of 64 has 4 entries: three usable ones let head and tail wrap at every distance, and it
  fills. The theorems hold for every length from 2.
- Two buffers are the code's own number.
- `surface_scene`: OV_ITEMS = 2 lets the table of copies fill up with three candidates (two pop-ups
  and the content in one); MAX_LAYERED = 2 always has room for the one content surface. MaxGroups =
  2 is one group dropped and made again, or made anew for the other window; it bounds `groups_made`
  in the guard of ChildOfMain. Casts bounds, in NewSurface, which surfaces are alive at a time: the
  content and two windows, a window and a pop-up, or two pop-ups. Careless names those whose buffers
  the client may destroy while they are attached, or make such as the adapter cannot copy. The view
  leaves out `spot` and what of `drawn` and `pending` no guard reads, and none of that run's
  properties.
- `on_screen_keyboard`: MaxInFlight bounds, in ShowKeyboard's guard, the messages on their way when
  a keyboard is shown. With 3, an activation, a hide and a leave or closed event can all be under
  way at a time; two ids suffice because a hide gives one up and the next show needs another.
- `input_focus`: MaxWire bounds the compositor's events on their way. With 4, a leave and an enter
  of the pointer can be under way with those of the keyboard, or behind a press, while the pop-up
  they name closes. Two pop-ups are a menu and its submenu. One click (MaxClicks) is enough for
  ClickedOnce, which counts.
- `virtual_objects`: the table is never full, which is the code's own assumption with 96. Three
  surfaces with an xdg_surface and a role each are all six objects, so that a window, a pop-up on it
  and a pop-up on that are open at once; every order of freeing and reuse occurs. One positioner
  asks for more than the window, the other for a place beyond its end, so both clamps of
  `place_popup` act. Casts bounds what the table names at a time: the registry, or the submenu's
  surface. The submenu (Submenus, SubmenuObjects) is always that, at addresses of its own. The
  theorems have no such bound.
- `mask_wheel`: AbsentPolls is 2 for 8. MaxDeaths and MaxSignals bound, in the guards of Die and
  TakeSignal, the ends of surface-manager by itself and the signals it gets. The theorem has no
  bound.
- `launcher`: MaxEdits bounds, in Edit's guard, the lines a user adds. Two are one before the mark
  that geckotv adds and one behind it, or one without a newline. Launches are unbounded. MCLauncher's
  view leaves out what no later step reads.
- `shm_pools`: tables of 64 and 128 become 3 and 2, so that buffers find theirs full and a dead pool
  stays beside two living ones. MaxSize bounds a pool's growth. The theorems have no bound.

### Fairness

- `FlatAnswers`: the pump thread loops every 20 ms, the clock goes on, and the dispatching thread
  dispatches. Nothing obliges the client or the compositor, except that wl_display.sync is answered
  (the one request every compositor must answer) and that a client that has asked for a callback adds
  its listener.
- `FlatWindow`: the pump loops and the clock goes on. Redraws ask for nothing more.
- `OverlayBuffers`: a compositor releases a buffer once it has a newer one to show, and the release
  is dispatched. It need not release the latest.
- `RemoteQueue`: a thread that has entered `enqueue_remote` goes on, and the dispatching thread
  handles what comes. No one need press a button.
- `OnScreenKeyboard`: what is sent arrives. No one need do anything.
- `MaskWheel`: mask-wheel's processes and the compositor's thread go on, the watcher polls, init
  starts a surface-manager that ended. Nothing obliges the log to settle, signals to come or anyone
  to end; the properties say what follows if Firefox stays in front, or away.
- The others have no liveness properties.

### Assumptions about the environment

- Without `foreign_destroy` a client destroys a callback or buffer on the dispatching thread, never
  between the adapter's taking an entry and calling its handler. Without `late_listener` it has
  added a callback's listener by the time the round trip has been made and the answer is due.
- `SurfaceScene`'s client keeps to the protocol: a surface's role is permanent, role objects go
  before their surface, an xdg_popup is made on an empty surface, a subsurface commits only while it
  has its wl_subsurface. A surface may have a child before it has its own role object. A buffer's
  address is not another buffer's later. Beyond the protocol, a surface's parents are of one kind
  (WindowChildren, PopupChildren): a subsurface moved from the window to a pop-up would be a layer
  and a copy at once, since `unlayer_surface` leaves its slot; Firefox does not do that.
- `OnScreenKeyboard`: the compositor handles requests in order, destroys a text_model on deactivate
  (2931-2936), and libwayland drops events for a destroyed object and uses its id again only after
  delete_id. A deactivate takes the keyboard down; findings.md:993-997 has that still unconfirmed for
  flat mode, where hide_input_panel is not sent. What a leave does to the keyboard is open, as the
  comment at 2920 says that nothing but the client's asking dismisses it: it goes, or it stays up
  (`left_up`), and the properties say which of them they speak of.
- A leave that the compositor sends while no keyboard is up (history variable `stray_leave`) can
  cross the next activation, and the adapter then believes that one gone; events name no activation,
  so the adapter cannot tell; nor when the panel's own button closes a keyboard that a leave has
  left up. BeliefIsRight and GoesWithTheField exclude these cases. Without text-input-v3 a "closed"
  event can cross a second show in the same way, so BeliefIsRight is about fields.
- `InputFocus`: libwayland hands an event over without its surface when that is destroyed, GTK
  closes a pop-up in one go and ignores events without a surface; on webOS 4 the overlay gets a
  focus only while it shows something. Without IdleClicks a click comes within 10 s of the last
  pointer event. KeyboardBelief allows for the leave of the window that `keyboard_leave` keeps from
  GTK while a menu is open (history variable `swallowed`).
- `VirtualObjects`: all on one thread. A client destroys roles before their xdg_surface and child
  pop-ups before their parent; it repositions only its newest pop-up; without HandlersAct GTK's
  configure handlers make and destroy no shell objects.
- `ShmPools`: the adapter's descriptor for a pool's memory is that memory's own, and memory shown by
  neither a pool nor a buffer may be used again. dup and mmap may fail.
- `MaskWheel`: the kernel's ptrace as man ptrace(2) has it: a signal stops the tracee for its
  tracer, requests fail while it runs, a tracer's end lets it go as it is, a SIGSTOP nobody takes
  freezes it. mask-wheel may be ended by a signal, or its alarm, anywhere. A compositor frozen by a
  leftover SIGSTOP, or started again behind the watcher's back, is excluded from the liveness
  properties (Trustworthy); so are the cases in which a run that failed halfway left some
  descriptors done (`spoilt`).
- `Launcher`: one launch at a time; files have owners, and the app's user cannot write root's;
  reading user.js may fail at any line; the disk is neither full nor loses power; Firefox reads
  user.js over prefs.js and may or may not have saved its preferences when it ends; as root it
  refuses a profile of the app's user.

## Proofs

All for every value of the constants; `tlapm` checks them to the last leaf.

- `WindowBuffersProofs`, of both windows and the answers. FlatAnswers.TypeOK is inductive.
  OnlyLiveEntries is not: an entry could be in two places, so that answering one leaves the other
  stale. The invariant Owned adds that each entry is on one list or in hand and its object alive and
  unanswered there; it needs SameThreadDestroys. The refinement of `CallbackService`'s safety
  (AnsweredAtMostOnce) follows step by step from Owned: AskFrame is Ask, HandleFrame is Answer, the
  rest stutters. That nothing is lost (NoLostFrame, NoLostRelease, RoundNotOverwritten) needs Apart
  (no round in flight while one is handed out), NoFaults and RoomForAll. The violation run shows
  that the first of these is needed. `FlatWindow` takes the steps of `FlatAnswers`, so these
  theorems are the window's too (WindowAnswersAsSpecified). Its pictures: WindowUpToDate and
  NeverDrawsOnScreen (which allows for two commits in the same millisecond) are inductive with the
  types, NothingHalfDrawn with AttachedFinished (what is attached, or copied, was finished by its
  client). Theorems on `OverlayBuffers` (under ~Flat, which is webOS 4's window) strengthen
  EachInOnePlace with the buffer `latest` and with WaitsOnlyForBuffers; from them DrawsOnlyReturned
  and the refinement of `Display`'s safety.
- `SurfaceSceneProofs`. LayersInGroup, ShownOnce, NothingStale and OverlayDrawn, by one invariant
  that relates each table to the roles of the client's surfaces. NothingStale is about two addresses
  in an entry: its own surface lives, and the pop-up it names is its own or the surface it was put
  in last. It says nothing of the latter once that is gone, since the entry is then wrong
  (`StaleParent`). The assumption on the constants (RoleAssumption) and the guards of the client's
  actions are the protocol's rules, listed above; nothing else is assumed.
- `RemoteQueueProofs`. OneRoundTrip needs that wake-ups do not fail, NothingStranded does not.
  RingIsFifo is the refinement: lemmas say what advancing head or tail does to the sequence of
  entries in use, with the wrap as a case.
- `OnScreenKeyboardProofs`. NoRequestOnDeadModel is not inductive. InUseAlive adds that the
  text_model in use has no deactivate on its way, FreedOnce that an id is told free once and after
  its object is gone; otherwise a request for the id's next object could meet the last one's end.
  UpForAField needs ShownBy: GTK's object comes from the manager, and without it only clicks on a
  mapped window show a keyboard. EnterReachesGtk is about the field's side only (FieldInv).
  BeliefIsRight says something of an empty wire, so its invariant (BeliefInv) says what each message
  still on its way will do: which of them name the text_model in use, in which order, and that the
  adapter's belief is the compositor's state once they have all been handled. Neither leaves that
  take the keyboard down nor those that leave it up are assumed; the latter is the stated exception.
- `VirtualObjectsProofs`. OwnEntry and LiveSurfaceFound, under Fits (no virtual object at a
  registry's address; `StaleRegistry` shows why) and NotFull (an entry is free). Unique says that no
  two entries have an address; FirstSurface, that before a live xdg_surface's entry none, freed or
  not, names its surface, which holds because `virt_add` takes the first free one. ConfiguresCome
  needs ~HandlersAct, as `NestedConfigure` shows; PlacedWhereTold needs ParentsStay, that what a
  pop-up is open on keeps its role, and PlacesAdd, that places add up along the table's own search
  for the parent, which then finds the entry they came from.
- `InputFocusProofs`. The events on the wire are what makes it hard: GTK and the adapter act on the
  compositor's past. Leads says that a sequence of states runs along the wire, from what GTK was told
  to what the compositor means now, each event naming the step; a step of the system prolongs it,
  shortens it or moves it, so that no induction over the wire is needed. With it KeyboardBelief
  (KeysFollow) and NeverAstray (PointerInv) go through for any wire, pop-ups and clicks.
  NeverAstray and ClickedOnce need ~IdleClicks, which `ClickTwice` shows.
- `ShmPoolsProofs`. CopiesOwnMemory and NothingLeaks from RefsCounted (`refs` is the number of
  buffers that refer to an entry, by the library's facts on cardinalities), BufsApart and PoolsApart
  (no address twice) and PoolsKnown (a dead entry has references, a living one its client's pool).
- `LaunchProofs`, of the two programs beside Firefox. HandsOff, for any number of processes, ended
  anywhere. It speaks of an untraced compositor, so the induction carries what is true of a traced
  one: its tracer is in a run on this very process (TracerAtWork), registers are lent exactly as
  long as the tracer's `dirty` says so, unless they are adrift already (LentIsDirty), and the
  SIGSTOP of an ATTACH is taken by a run's first call, or that call fails (StopPending). What it
  leaves out, a run cut short in a call, is what `MaskPaths` shows. The launcher's RenderingAsChosen
  and EditsSurvive: the copy of user.js is a step per line, so that the induction over its lines is
  one over steps. The new file has as many of the user's lines as are read and not behind a mark
  (Copying), and only a whole new file that says what was chosen takes user.js's place (Renaming);
  SaysChoice carries that to Firefox, or has the new file be root's (Barred).

Every safety property of the passing runs is a theorem. Only model-checked are the liveness
properties (BuffersComeBack, WindowCatchesUp, GoesWithTheField, WheelHidden, WheelGoesBack, and the
fairness in `CallbackService`, `Display` and `RemoteFifo`, whose safety halves are proved), since
tlapm cannot reason about ENABLED.

The theorems' conditions are those a run or a demonstration shows to be needed (NoFaults,
SameThreadDestroys, RoomForAll, Fits, ~HandlersAct, ~IdleClicks) or an assumption of the code's own
(NotFull: a table of 96 that never fills). Each invariant was checked by TLC on an instance before
it was proved, that of `InputFocus` with three events on the wire.

## What the models found

Each is in PROJECT.json under "findings", with the lines it is about.

1. A round of answers whose handlers take 16 ms or more is overwritten by the next one, and a frame
   callback in it is lost: that surface's frame clock stays frozen (`flat_slow`).
2. A subsurface that becomes a pop-up at its first commit shows nothing until the next attach
   (`PopupPicture`), and
3. cannot be moved afterwards (`PopupPlace`).
4. Content put in a surface that is destroyed before it becomes a pop-up is shown by the next pop-up
   at that address (`StaleParent`).
5. Of two buffers committed in one millisecond the wrong one may be taken for the older, and the
   picture on the screen is drawn over (`SameMillisecond`).
6. `text_leave` only clears `keyboard_up`, where the comment has it land in `hide_keyboard`: a panel
   that stays up after a leave is never taken down (`TextLeave`).
7. The overlay stays attached to the first surface group when the main window's group is made anew
   (no configuration of its own).
8. A click 10 s after the pointer last moved can be told to GTK twice (`ClickTwice`).
9. `place_popup` clamps a submenu as if its parent were at the window's origin (`Submenu`).
10. A registry's entry in the table of virtual objects is never freed and hides a later object at its
    address (`StaleRegistry`).
11. A configure asked for inside another's handlers is dropped for good (`NestedConfigure`).
12. A wheel notch goes to the first pointer, not "every seat"; `popup_at` finds the last pop-up in
    the table, not the "topmost" (read while modelling).
13. mask-wheel ended while the compositor runs its call leaves it with borrowed registers
    (`MaskPaths`).
14. Hiding the wheel also filters the CursorShow key, which a script of the repository warns of
    (`CursorShow`).
15. The launcher's probe does not know WEBOS_XDG_AS_WEBOS4 (`ActAsWebos4`).
16. A launch from a root shell moves the user to another profile (`RootShell`).
17. Such a launch, ended while it writes user.js, leaves a file that keeps the app's user from
    writing the rendering chosen (`LeftByRoot`).
18. A user.js that cannot be read to its end is replaced by what was read of it, and a line behind
    geckotv's mark is dropped (`LinesLost`).
19. A line between the mark and the preference, or a last line without newline, makes an old choice
    stay in user.js (`TwoChoices`).

Smaller things seen on the way, without a property: the tables of hooks and tags are never cleaned;
the release of a click that the keyboard covers is dropped though its press was delivered; the first
user.js, cut short, stays so; `.parentlock` is removed under a Firefox that still runs.

## Not modelled

Blending and pixel formats, regions, the pop-ups' drawing order; texts typed and the panel's
rectangle; memory and binding failures in `ov_ensure`; the roles flat mode gives the window.
Releases of the button and the delivery of the wheel. The requests a role passes on to the
compositor. The lookup of virtual objects by other threads, a race on single words which a model of
one thread cannot show. The tables of tags and cursor surfaces, and the hook layer, which runs once
at start-up. mask-wheel's probing modes, its self-test and its search in the compositor's memory,
with the TVs on which that fails and a run ends before its first call; mask-wheel killed by SIGKILL;
a call whose registers cannot be read back; the launcher's environment variables. The EGL shim,
diagnostics, libc wrappers, scripts and experiments: sequential tools with no shared state.

## Plan

1. Proofs: what still holds where a theorem's condition fails: of the answers under each fault, of
   `VirtualObjects` with a full table, of clicks later than 10 s; and the invariants that the
   liveness properties rest on.
2. Releases in `InputFocus`, with `RemoteFifo` between the evdev thread and `apply_remote_event`:
   presses and releases reach GTK in pairs.
3. Surfaces that join and leave flat mode's window, with `SurfaceScene`'s tables.
4. Text delivery in `OnScreenKeyboard`: what is typed arrives once and in order.
