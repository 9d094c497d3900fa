------------------------------ MODULE MaskWheel ------------------------------
(***************************************************************************)
(* mask-wheel (src/src/mask-wheel.c): hides the Magic Remote's wheel from  *)
(* the compositor, surface-manager, by making it call ioctl(EVIOCSMASK) on *)
(* its own input descriptors.  mask-wheel attaches with ptrace, lends the  *)
(* compositor's main thread registers that make the call and return to an  *)
(* unmapped address, waits for the fault, and gives the thread its own     *)
(* registers back.                                                         *)
(*                                                                         *)
(* One process watches the log for Firefox being in front, and hides the   *)
(* wheel or gives it back; the launcher runs others, that hide it once.    *)
(* SIGTERM, SIGINT and the alarm end such a process in bail().  What the   *)
(* kernel does with ptrace requests, signals and masks is external.        *)
(***************************************************************************)
EXTENDS Integers

CONSTANTS
    NumFds,             \* the compositor's descriptors of the wheel's device
    Watcher,            \* mask-wheel --watch
    Appliers,           \* runs of mask-wheel by geckotv
    NoTracer,
    AbsentPolls,        \* polls without Firefox before the wheel goes back: 8
    MaxDeaths,          \* bound: ends of surface-manager by itself
    MaxSignals          \* bound: signals the compositor gets while it is traced

Processes == {Watcher} \cup Appliers
Fds == 1..NumFds

ASSUME MaskConstants ==
    /\ NumFds \in Nat \ {0}
    /\ Watcher \notin Appliers
    /\ NoTracer \notin Processes
    /\ AbsentPolls \in Nat \ {0}
    /\ MaxDeaths \in Nat /\ MaxSignals \in Nat

VARIABLES
    sm,         \* surface-manager
    hidden,     \* what its descriptors hide from it
    proc,       \* the mask-wheel processes
    watch,      \* the watcher's masked and absent, and what its runs left behind
    log,        \* whom the log says to be in front
    signals     \* signals so far

vars == <<sm, hidden, proc, watch, log, signals>>

\* The compositor as it starts for the n-th time.  A SIGSTOP of ATTACH may be
\* pending; at_hole: its last stop was the fault after a call.  let_go, for a property,
\* says how its last tracer left: after a whole run or one that failed, cut short with
\* the registers given back, or cut short in a call ("adrift": nobody has them).
Started(n) ==
    [pid |-> n, task |-> "running", regs |-> "own", tracer |-> NoTracer,
     sigstop |-> FALSE, at_hole |-> FALSE, let_go |-> "whole"]

NoneHidden == [fd \in Fds |-> {}]

Resting(pc) ==
    [pc |-> pc, mode |-> "hide", tid |-> 0, dirty |-> FALSE, saved |-> "own", fd |-> 1,
     step |-> "name", failed |-> FALSE, touched |-> FALSE]

\* of and spoilt are no variables of the code: the compositor masked is about, and
\* the last one on which a run of the watcher got stuck halfway, by the run's mode.
Init ==
    /\ sm = Started(1)
    /\ hidden = NoneHidden
    /\ proc = [t \in Processes |-> Resting(IF t = Watcher THEN "idle" ELSE "new")]
    /\ watch = [masked |-> FALSE, absent |-> 0, of |-> 0,
                spoilt |-> [hide |-> 0, pass |-> 0]]
    /\ log \in {"gecko", "other"}
    /\ signals = 0

-----------------------------------------------------------------------------
(* surface-manager and the kernel. *)

Traced == sm.tracer # NoTracer

\* What the call of a step does to what the descriptors hide.
Effect(p) ==
    CASE p.step = "hide"      -> [hidden EXCEPT ![p.fd] = @ \cup {"wheel"}]
      [] p.step = "probe_set" -> [hidden EXCEPT ![p.fd] = @ \cup {"cursor_show"}]
      [] p.step = "pass"      -> [hidden EXCEPT ![p.fd] = @ \ {"wheel"}]
      [] OTHER                -> hidden

\* A signal sent to the traced compositor stops it for its tracer.
StoppedBySignal == [sm EXCEPT !.task = "stopped", !.at_hole = FALSE]

\* The lent registers run, unless a SIGSTOP comes first: the call, and the fault
\* behind it, which is the tracer's, or nobody's and kills the compositor.
RunCall ==
    /\ sm.task = "running" /\ sm.regs = "call" /\ ~sm.sigstop
    /\ IF Traced
       THEN /\ sm' = [sm EXCEPT !.task = "stopped", !.at_hole = TRUE]
            /\ hidden' = Effect(proc[sm.tracer])
       ELSE /\ sm' = [sm EXCEPT !.task = "dead"]
            /\ UNCHANGED hidden
    /\ UNCHANGED <<proc, watch, log, signals>>

\* The SIGSTOP of ATTACH arrives: it stops for the tracer, or, when that has gone,
\* freezes the compositor.
TakeSigstop ==
    /\ sm.task = "running" /\ sm.sigstop
    /\ sm' = [(IF Traced THEN StoppedBySignal ELSE [sm EXCEPT !.task = "frozen"])
                EXCEPT !.sigstop = FALSE]
    /\ UNCHANGED <<hidden, proc, watch, log, signals>>

\* Any other signal, before a call under way has had its effect or after.
TakeSignal ==
    /\ signals < MaxSignals
    /\ sm.task = "running" /\ Traced
    /\ signals' = signals + 1
    /\ sm' = StoppedBySignal
    /\ hidden' \in {hidden} \cup (IF sm.regs = "call" THEN {Effect(proc[sm.tracer])} ELSE {})
    /\ UNCHANGED <<proc, watch, log>>

\* surface-manager ends by itself, traced or not ...
Die ==
    /\ sm.pid <= MaxDeaths
    /\ sm.task # "dead"
    /\ sm' = [sm EXCEPT !.task = "dead"]
    /\ UNCHANGED <<hidden, proc, watch, log, signals>>

\* ... and is started again, with descriptors of its own.
Restart ==
    /\ sm.task = "dead"
    /\ sm' = Started(sm.pid + 1)
    /\ hidden' = NoneHidden
    /\ UNCHANGED <<proc, watch, log, signals>>

\* Someone else is in front, or so much is logged that the last 8 KB do not say.
LogMoves ==
    /\ log' \in {"gecko", "other"}
    /\ UNCHANGED <<sm, hidden, proc, watch, signals>>

-----------------------------------------------------------------------------
(* A run on the compositor: run_on_compositor, for_each_wheel_fd. *)

\* t traces this very compositor.
Holds(t) == sm.tracer = t /\ sm.pid = proc[t].tid /\ sm.task # "dead"

\* pidof, task_state and ATTACH.
Attach(t) ==
    /\ proc[t].pc = "attach"
    /\ IF sm.task = "running" /\ ~Traced
       THEN /\ sm' = [sm EXCEPT !.tracer = t, !.sigstop = TRUE]
            /\ proc' = [proc EXCEPT ![t] = [Resting("waiting") EXCEPT !.mode = proc[t].mode,
                                                                      !.tid = sm.pid]]
       ELSE /\ proc' = [proc EXCEPT ![t] = [Resting("report") EXCEPT !.mode = proc[t].mode]]
            /\ UNCHANGED sm
    /\ UNCHANGED <<hidden, watch, log, signals>>

\* attach_tid's wait ends, whatever signal stopped the compositor.
Attached(t) ==
    /\ proc[t].pc = "waiting" /\ Holds(t) /\ sm.task = "stopped"
    /\ proc' = [proc EXCEPT ![t].pc = "calls"]
    /\ UNCHANGED <<sm, hidden, watch, log, signals>>

\* remote_ioctl: the thread's registers, whatever they are, are saved and lent out ...
Borrow(t) ==
    /\ proc[t].pc = "calls" /\ Holds(t) /\ proc[t].fd \in Fds
    /\ sm' = [sm EXCEPT !.regs = "call"]
    /\ proc' = [proc EXCEPT ![t].pc = "borrowed", ![t].dirty = TRUE, ![t].saved = sm.regs]
    /\ UNCHANGED <<hidden, watch, log, signals>>

\* ... and it runs.
Continue(t) ==
    /\ proc[t].pc = "borrowed" /\ Holds(t)
    /\ sm' = [sm EXCEPT !.task = "running"]
    /\ proc' = [proc EXCEPT ![t].pc = "called"]
    /\ UNCHANGED <<hidden, watch, log, signals>>

\* The order of the calls on a descriptor.
Following(p) ==
    CASE p.step = "name"      -> p.mode
      [] p.step = "hide"      -> "probe_set"
      [] p.step = "probe_set" -> "probe_get"
      [] OTHER                -> "check"

NextFd(p) == [p EXCEPT !.fd = @ + 1, !.step = "name"]

\* wheel_bit_set finds what the mode is to do done.
Stuck(p) == ("wheel" \in hidden[p.fd]) = (p.mode = "hide")

\* The loop's body after a call that came back from the hole, or did not (-1):
\* another call, or the next descriptor.
Advance(p, ok) ==
    IF p.step = "check"
    THEN [NextFd(p) EXCEPT !.touched = @ \/ (ok /\ Stuck(p)),
                           !.failed = @ \/ (p.mode = "hide" /\ ~(ok /\ Stuck(p)))]
    ELSE IF ok \/ p.step \in {"probe_set", "probe_get"}
    THEN [p EXCEPT !.step = Following(p)]
    ELSE [NextFd(p) EXCEPT !.failed = TRUE]

\* The wait ends: the registers are given back, the signal is dropped.
Return(t) ==
    /\ proc[t].pc = "called" /\ Holds(t) /\ sm.task = "stopped"
    /\ sm' = [sm EXCEPT !.regs = proc[t].saved]
    /\ proc' = [proc EXCEPT ![t] = [Advance(@, sm.at_hole) EXCEPT !.pc = "calls",
                                                                  !.dirty = FALSE]]
    /\ UNCHANGED <<hidden, watch, log, signals>>

\* Registers that nobody has stay lost.
LetGo(how) == IF sm.let_go = "adrift" THEN "adrift" ELSE how

\* Mutant: the registers stay lent.
DetachOnly(t, how) == [sm EXCEPT !.tracer = NoTracer, !.task = "running", !.let_go = LetGo(how)]

\* The stopped compositor is let go, with its registers if they are lent.
Released(t, how) ==
    [sm EXCEPT !.tracer = NoTracer, !.task = "running", !.let_go = LetGo(how),
               !.regs = IF proc[t].dirty THEN proc[t].saved ELSE @]

\* detach_tid after the last descriptor.
Leave(t) ==
    /\ proc[t].pc = "calls" /\ Holds(t) /\ proc[t].fd \notin Fds
    /\ sm' = Released(t, IF proc[t].failed THEN "failed" ELSE "whole")
    /\ proc' = [proc EXCEPT ![t].pc = "report", ![t].dirty = FALSE]
    /\ UNCHANGED <<hidden, watch, log, signals>>

\* The compositor has ended: whatever is asked of it fails (-2), and so does the run.
Lost(t) ==
    /\ proc[t].pc \in {"waiting", "calls", "borrowed", "called"} /\ ~Holds(t)
    /\ proc' = [proc EXCEPT ![t].pc = "report", ![t].dirty = FALSE, ![t].failed = TRUE]
    /\ UNCHANGED <<sm, hidden, watch, log, signals>>

\* Mutant: a run's result is not looked at.
AnyRun(t) == TRUE

\* The run succeeded, and on the compositor that is still there.
Succeeded(t) ==
    ~proc[t].failed /\ proc[t].touched /\ sm.task # "dead" /\ sm.pid = proc[t].tid

\* It reached the compositor, and came back without having done its work there.
Halfway(t) == proc[t].tid # 0 /\ (proc[t].failed \/ ~proc[t].touched)

\* run_on_compositor returns: to the watcher, or to the launcher that waits.
Report(t) ==
    /\ proc[t].pc = "report"
    /\ proc' = [proc EXCEPT ![t] = Resting(IF t = Watcher THEN "idle" ELSE "gone")]
    /\ IF t # Watcher THEN UNCHANGED watch
       ELSE watch' = [watch EXCEPT
                !.masked = IF Succeeded(t) THEN proc[t].mode = "hide" ELSE @,
                !.of     = IF Succeeded(t) THEN proc[t].tid ELSE @,
                !.spoilt[proc[t].mode] = IF Halfway(t) THEN proc[t].tid ELSE @]
    /\ UNCHANGED <<sm, hidden, log, signals>>

\* bail(), on a signal or the alarm: requests fail while the compositor runs, it is
\* untraced when mask-wheel exits, and keeps the registers it has.
Bail(t) ==
    /\ proc[t].pc \notin {"new", "gone"}
    /\ sm' = IF ~Holds(t) THEN sm
             ELSE IF sm.task = "stopped" THEN Released(t, "cut")
             ELSE [sm EXCEPT !.tracer = NoTracer,
                             !.let_go = LetGo(IF proc[t].dirty THEN "adrift" ELSE "cut")]
    /\ proc' = [proc EXCEPT ![t] = Resting("gone")]
    /\ UNCHANGED <<hidden, watch, log, signals>>

-----------------------------------------------------------------------------
(* Who starts runs. *)

StartRun(t, mode) == proc' = [proc EXCEPT ![t].pc = "attach", ![t].mode = mode]

\* geckotv, as root, before it becomes Firefox.
Launch(t) ==
    /\ proc[t].pc = "new"
    /\ StartRun(t, "hide")
    /\ UNCHANGED <<sm, hidden, watch, log, signals>>

\* Firefox has been away for long enough.
LongAbsent == watch.absent + 1 >= AbsentPolls

\* watch_compositor looks four times a second.
Poll ==
    /\ proc[Watcher].pc = "idle"
    /\ IF log = "gecko"
       THEN /\ watch' = [watch EXCEPT !.absent = 0]
            /\ IF watch.masked THEN UNCHANGED proc ELSE StartRun(Watcher, "hide")
       ELSE /\ watch.masked
            /\ watch' = [watch EXCEPT !.absent = IF LongAbsent THEN 0 ELSE @ + 1]
            /\ IF LongAbsent THEN StartRun(Watcher, "pass") ELSE UNCHANGED proc
    /\ UNCHANGED <<sm, hidden, log, signals>>

-----------------------------------------------------------------------------

Step(t) ==
    \/ Attach(t) \/ Attached(t) \/ Borrow(t) \/ Continue(t) \/ Return(t)
    \/ Leave(t) \/ Lost(t) \/ Report(t)

Compositor == RunCall \/ TakeSigstop

Next ==
    \/ Compositor \/ TakeSignal \/ Die \/ Restart \/ LogMoves \/ Poll
    \/ \E t \in Processes : Step(t) \/ Bail(t)
    \/ \E t \in Appliers : Launch(t)

\* A runnable process runs, init starts surface-manager again.
Fairness ==
    /\ \A t \in Processes : WF_vars(Step(t))
    /\ WF_vars(Poll) /\ WF_vars(Compositor) /\ WF_vars(Restart)

Safe == Init /\ [][Next]_vars

Spec == Safe /\ Fairness

-----------------------------------------------------------------------------
(* Properties. *)

Compositors ==
    [pid : Nat \ {0}, task : {"running", "stopped", "frozen", "dead"},
     regs : {"own", "call"}, tracer : Processes \cup {NoTracer},
     sigstop : BOOLEAN, at_hole : BOOLEAN, let_go : {"whole", "failed", "cut", "adrift"}]

Runs ==
    [pc : {"idle", "new", "attach", "waiting", "calls", "borrowed", "called", "report", "gone"},
     mode : {"hide", "pass"}, tid : Nat, dirty : BOOLEAN, saved : {"own", "call"},
     fd : 1..NumFds + 1,
     step : {"name", "hide", "pass", "probe_set", "probe_get", "check"},
     failed : BOOLEAN, touched : BOOLEAN]

Watches ==
    [masked : BOOLEAN, absent : 0..AbsentPolls - 1, of : Nat, spoilt : [hide : Nat, pass : Nat]]

\* The values the variables take.
TypeOK ==
    /\ sm \in Compositors
    /\ hidden \in [Fds -> SUBSET {"wheel", "cursor_show"}]
    /\ proc \in [Processes -> Runs]
    /\ watch \in Watches
    /\ log \in {"gecko", "other"}
    /\ signals \in Nat

\* mask-wheel may be ended by a signal or its alarm at any place, signals may cut its
\* calls short, runs follow each other: when nobody traces the compositor it is not in
\* a ptrace stop; it has its own registers, unless a run was cut short while it ran a
\* call; and the SIGSTOP of an ATTACH does not freeze it behind a run that went well.
HandsOff ==
    sm.task # "dead" /\ ~Traced =>
        /\ sm.task # "stopped"
        /\ sm.regs = "call" => sm.let_go = "adrift"
        /\ sm.task = "frozen" => sm.let_go # "whole"

\* What the comment above the code has: a detach that leaves the hijacked pc in place
\* kills surface-manager, so every path restores the registers first.
EveryPathRestores == sm.task # "dead" /\ ~Traced => sm.regs = "own"

\* Nothing keeps the watcher from being right: it lives, surface-manager is not
\* frozen, and has not been started again behind the watcher's back.
Trustworthy ==
    /\ proc[Watcher].pc # "gone"
    /\ sm.task # "frozen"
    /\ watch.masked => watch.of = sm.pid

AllHide == \A fd \in Fds : "wheel" \in hidden[fd]
NoneHides == \A fd \in Fds : "wheel" \notin hidden[fd]

\* When Firefox stays in front, the wheel is hidden from the compositor for good:
\* a run that found the compositor traced, or got stuck halfway, is followed by another.
\* (A run to give the wheel back that gets stuck is not made good: masked stays set.)
WheelHidden ==
    <>[](log = "gecko" /\ Trustworthy /\ watch.spoilt.pass # sm.pid) => <>[]AllHide

\* When another app stays in front, the wheel goes back to the compositor, if only
\* the watcher has hidden it, and not in a run that got stuck halfway.
WheelGoesBack ==
    <>[](/\ log = "other" /\ Trustworthy /\ watch.spoilt.hide # sm.pid
         /\ \A t \in Appliers : proc[t].pc = "new")
        => <>[]NoneHides

\* scripts/mask-mrcu-wheel.sh: the CursorShow key, which turns the pointer on, is not
\* to be filtered.
CursorShowKept == \A fd \in Fds : "cursor_show" \notin hidden[fd]

=============================================================================
