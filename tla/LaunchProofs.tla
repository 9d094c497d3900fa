----------------------------- MODULE LaunchProofs -----------------------------
(***************************************************************************)
(* What the programs beside Firefox promise: mask-wheel, of the            *)
(* compositor's registers, for any number of descriptors and processes,    *)
(* deaths and signals, and the launcher, of the rendering Firefox runs     *)
(* with and of the user's lines in user.js, for any number of launches     *)
(* and lines.                                                              *)
(*                                                                         *)
(* HandsOff speaks of an untraced compositor; it follows from what is true *)
(* of a traced one: its tracer is in the middle of a run on this very      *)
(* process (TracerAtWork), and its registers are lent exactly as long as   *)
(* that tracer's dirty says so (LentIsDirty), so whoever lets it go knows  *)
(* what to give back.                                                      *)
(*                                                                         *)
(* The launcher copies user.js line by line, so that the induction over    *)
(* the lines is one over steps.  Between them the new file has as many of  *)
(* the user's lines as are read and not behind a mark (Copying), and no    *)
(* mark before its own is added; only a whole new file replaces user.js    *)
(* (Renaming).                                                             *)
(***************************************************************************)
EXTENDS MaskWheel, Launcher, FiniteSetTheorems, SequenceTheorems, TLAPS


OnTheRun == {"waiting", "calls", "borrowed", "called"}

\* Registers are lent between Borrow and Return, for a descriptor there is.
DirtyInCall ==
    \A t \in Processes :
        /\ proc[t].dirty => proc[t].pc \in {"borrowed", "called"}
        /\ proc[t].pc \in {"borrowed", "called"} => proc[t].dirty /\ proc[t].fd \in Fds

TracerAtWork ==
    sm.task # "dead" /\ Traced =>
        /\ sm.task # "frozen"
        /\ proc[sm.tracer].tid = sm.pid
        /\ proc[sm.tracer].pc \in OnTheRun

\* Lent registers are a tracer's to give back, or adrift, and so are the ones it saved.
LentIsDirty ==
    sm.task # "dead" /\ sm.let_go # "adrift" =>
        /\ sm.regs = "call" => Traced /\ proc[sm.tracer].dirty
        /\ Traced /\ proc[sm.tracer].dirty => proc[sm.tracer].saved = "own"

StoppedIsTraced == sm.task = "stopped" => Traced

\* A SIGSTOP outlives only calls that signals have cut short, and freezes only behind a
\* run that did not go well.
StopPending ==
    sm.task # "dead" =>
        /\ sm.task = "frozen" => sm.let_go # "whole"
        /\ sm.sigstop /\ ~Traced => sm.let_go # "whole"
        /\ sm.sigstop /\ Traced =>
             /\ proc[sm.tracer].step = "name"
             /\ proc[sm.tracer].failed \/ proc[sm.tracer].fd = 1
             /\ proc[sm.tracer].pc = "called" /\ sm.task = "stopped" => ~sm.at_hole

IInv ==
    TypeOK /\ DirtyInCall /\ TracerAtWork /\ LentIsDirty /\ StoppedIsTraced /\ StopPending

-----------------------------------------------------------------------------

\* The loop's body keeps to the descriptors, and to the fields it does not write.
LEMMA AdvanceType ==
    ASSUME NEW p \in Runs, NEW ok \in BOOLEAN, p.fd \in Fds
    PROVE  Advance(p, ok) \in Runs
<1>1. p.fd + 1 \in 1..NumFds + 1
    BY MaskConstants DEF Fds
<1>2. NextFd(p) \in Runs
    BY <1>1 DEF NextFd, Runs
<1>3. Following(p) \in {"name", "hide", "pass", "probe_set", "probe_get", "check"}
    BY DEF Following, Runs
<1>4. Stuck(p) \in BOOLEAN
    BY DEF Stuck
<1> QED
    BY <1>2, <1>3, <1>4 DEF Advance, Runs

\* A call hides and shows on the descriptors there are.
LEMMA EffectType ==
    ASSUME TypeOK, NEW p \in Runs
    PROVE  Effect(p) \in [Fds -> SUBSET {"wheel", "cursor_show"}]
    BY DEF Effect, TypeOK

\* What a process at rest looks like.
LEMMA RestingType ==
    ASSUME NEW pc \in {"idle", "new", "attach", "waiting", "calls", "report", "gone"}
    PROVE  /\ Resting(pc) \in Runs /\ ~Resting(pc).dirty /\ Resting(pc).pc = pc
           /\ Resting(pc).fd \in Fds /\ Resting(pc).fd = 1 /\ Resting(pc).step = "name"
    BY MaskConstants DEF Resting, Runs, Fds

\* The compositor and the kernel keep the invariant.
LEMMA KernelStep ==
    ASSUME IInv, RunCall \/ TakeSigstop \/ TakeSignal \/ Die \/ Restart \/ LogMoves
    PROVE  IInv'
<1>0. \A t \in Processes : proc[t] \in Runs
    BY DEF IInv, TypeOK
<1>1. CASE RunCall
    <2>1. CASE Traced
        <3>1. sm.tracer \in Processes
            BY <2>1 DEF IInv, TypeOK, Compositors, Traced
        <3>2. Effect(proc[sm.tracer]) \in [Fds -> SUBSET {"wheel", "cursor_show"}]
            BY <1>0, <3>1, EffectType DEF IInv
        <3>3. /\ sm' = [sm EXCEPT !.task = "stopped", !.at_hole = TRUE] /\ ~sm.sigstop
              /\ hidden' = Effect(proc[sm.tracer])
              /\ UNCHANGED <<proc, watch, log, signals>>
            BY <1>1, <2>1 DEF RunCall
        <3>4. TypeOK'
            BY <3>2, <3>3 DEF IInv, TypeOK, Compositors
        <3> QED
            BY <1>1, <2>1, <3>1, <3>3, <3>4
            DEF RunCall, IInv, TypeOK, Compositors, DirtyInCall, TracerAtWork, LentIsDirty,
                StoppedIsTraced, StopPending, Traced
    <2>2. CASE ~Traced
        <3>1. sm' = [sm EXCEPT !.task = "dead"] /\ UNCHANGED <<hidden, proc, watch, log, signals>>
            BY <1>1, <2>2 DEF RunCall
        <3> QED
            BY <3>1
            DEF IInv, TypeOK, Compositors, DirtyInCall, TracerAtWork, LentIsDirty,
                StoppedIsTraced, StopPending, Traced
    <2> QED
        BY <2>1, <2>2
<1>2. CASE TakeSigstop
    <2>1. TypeOK'
        BY <1>2 DEF TakeSigstop, StoppedBySignal, IInv, TypeOK, Compositors
    <2> QED
        BY <1>2, <2>1
        DEF TakeSigstop, StoppedBySignal, IInv, TypeOK, Compositors, DirtyInCall, TracerAtWork,
            LentIsDirty, StoppedIsTraced, StopPending, Traced
<1>3. CASE TakeSignal
    <2>1. Traced /\ sm.tracer \in Processes
        BY <1>3 DEF TakeSignal, IInv, TypeOK, Compositors, Traced
    <2>2. Effect(proc[sm.tracer]) \in [Fds -> SUBSET {"wheel", "cursor_show"}]
        BY <1>0, <2>1, EffectType DEF IInv
    <2>3. hidden' = hidden \/ hidden' = Effect(proc[sm.tracer])
        BY <1>3 DEF TakeSignal
    <2>4. hidden' \in [Fds -> SUBSET {"wheel", "cursor_show"}]
        BY <2>2, <2>3 DEF IInv, TypeOK
    <2>5. /\ sm' = [sm EXCEPT !.task = "stopped", !.at_hole = FALSE] /\ sm.task = "running"
          /\ signals' = signals + 1
          /\ UNCHANGED <<proc, watch, log>>
        BY <1>3 DEF TakeSignal, StoppedBySignal
    <2>6. TypeOK'
        <3>1. sm' \in Compositors
            BY <2>5 DEF IInv, TypeOK, Compositors
        <3> QED
            BY <2>4, <2>5, <3>1 DEF IInv, TypeOK
    <2> QED
        BY <2>1, <2>5, <2>6
        DEF IInv, TypeOK, Compositors, DirtyInCall, TracerAtWork, LentIsDirty, StoppedIsTraced,
            StopPending, Traced
<1>4. CASE Die
    BY <1>4
    DEF Die, IInv, TypeOK, Compositors, DirtyInCall, TracerAtWork, LentIsDirty, StoppedIsTraced,
        StopPending, Traced
<1>5. CASE Restart
    <2>1. /\ sm' \in Compositors /\ sm'.tracer = NoTracer /\ sm'.task = "running"
          /\ sm'.regs = "own" /\ ~sm'.sigstop
          /\ hidden' \in [Fds -> SUBSET {"wheel", "cursor_show"}]
          /\ UNCHANGED <<proc, watch, log, signals>>
        BY <1>5 DEF Restart, Started, NoneHidden, IInv, TypeOK, Compositors
    <2> QED
        BY <2>1
        DEF IInv, TypeOK, DirtyInCall, TracerAtWork, LentIsDirty, StoppedIsTraced, StopPending, Traced
<1>6. CASE LogMoves
    BY <1>6 DEF LogMoves, IInv, TypeOK, DirtyInCall, TracerAtWork, LentIsDirty, StoppedIsTraced,
        StopPending, Traced
<1> QED
    BY <1>1, <1>2, <1>3, <1>4, <1>5, <1>6

\* A process that is at no call changes by itself, and the compositor's tracer stays
\* in its run.
LEMMA AsideStep ==
    ASSUME IInv, NEW t \in Processes, NEW q \in Runs,
           ~q.dirty, q.pc \notin {"borrowed", "called"},
           sm.task # "dead" /\ sm.tracer = t =>
               /\ q.pc \in OnTheRun /\ q.tid = proc[t].tid
               /\ ~proc[t].dirty
               /\ q.pc # "called" /\ q.step = proc[t].step /\ q.failed = proc[t].failed
               /\ q.fd = proc[t].fd,
           proc' = [proc EXCEPT ![t] = q], watch' \in Watches,
           UNCHANGED <<sm, hidden, log, signals>>
    PROVE  IInv'
<1>1. /\ proc' \in [Processes -> Runs]
      /\ proc'[t] = q /\ \A u \in Processes : u # t => proc'[u] = proc[u]
    BY DEF IInv, TypeOK
<1>2. TypeOK' /\ StoppedIsTraced' /\ DirtyInCall'
    BY <1>1 DEF IInv, TypeOK, StoppedIsTraced, Traced, DirtyInCall
<1>3. sm.tracer \in Processes \cup {NoTracer}
    BY DEF IInv, TypeOK, Compositors
<1>4. TracerAtWork' /\ LentIsDirty'
    BY <1>1, <1>3 DEF IInv, TracerAtWork, LentIsDirty, Traced
<1>5. StopPending'
    BY <1>1, <1>3 DEF IInv, StopPending, Traced
<1> QED
    BY <1>2, <1>4, <1>5 DEF IInv

\* A process and the compositor it traces, or begins or ceases to, change together.
LEMMA JointStep ==
    ASSUME IInv, NEW t \in Processes, NEW q \in Runs, NEW c \in Compositors,
           q.dirty => q.pc \in {"borrowed", "called"},
           q.pc \in {"borrowed", "called"} => q.dirty /\ q.fd \in Fds,
           c.tracer = t \/ (c.tracer = NoTracer /\ c.task = "running"),
           c.tracer = t => c.task # "frozen" /\ q.tid = c.pid /\ q.pc \in OnTheRun,
           c.let_go # "adrift" =>
               /\ c.regs = "call" => c.tracer = t /\ q.dirty
               /\ c.tracer = t /\ q.dirty => q.saved = "own",
           c.sigstop /\ c.tracer # t => c.let_go # "whole",
           c.sigstop /\ c.tracer = t =>
               /\ q.step = "name" /\ (q.failed \/ q.fd = 1)
               /\ q.pc = "called" /\ c.task = "stopped" => ~c.at_hole,
           proc' = [proc EXCEPT ![t] = q], sm' = c,
           UNCHANGED <<hidden, watch, log, signals>>
    PROVE  IInv'
<1>1. /\ proc' \in [Processes -> Runs]
      /\ proc'[t] = q /\ \A u \in Processes : u # t => proc'[u] = proc[u]
    BY DEF IInv, TypeOK
<1>2. t # NoTracer
    BY MaskConstants
<1>3. TypeOK' /\ DirtyInCall'
    BY <1>1 DEF IInv, TypeOK, DirtyInCall
<1>4. TracerAtWork' /\ LentIsDirty' /\ StoppedIsTraced'
    BY <1>1, <1>2 DEF TracerAtWork, LentIsDirty, StoppedIsTraced, Traced
<1>5. StopPending'
    BY <1>1, <1>2 DEF StopPending, Traced
<1> QED
    BY <1>3, <1>4, <1>5 DEF IInv

\* What is true of a process that holds the compositor.
LEMMA HoldsFacts ==
    ASSUME IInv, NEW t \in Processes
    PROVE  /\ sm \in Compositors /\ proc[t] \in Runs /\ watch \in Watches
           /\ Holds(t) => /\ sm.tracer = t /\ Traced /\ proc[t].tid = sm.pid
                          /\ sm.task # "dead" /\ sm.task # "frozen"
                          /\ proc[t].pc \in OnTheRun
                          /\ sm.let_go # "adrift" =>
                               /\ sm.regs = "call" => proc[t].dirty
                               /\ proc[t].dirty => proc[t].saved = "own"
                          /\ sm.sigstop =>
                               /\ proc[t].step = "name" /\ (proc[t].failed \/ proc[t].fd = 1)
                               /\ proc[t].pc = "called" /\ sm.task = "stopped" => ~sm.at_hole
           /\ LetGo("cut") # "whole"
           /\ sm.task # "dead" /\ sm.tracer = t => Holds(t)
           /\ proc[t].pc \notin {"borrowed", "called"} => ~proc[t].dirty
<1>1. t # NoTracer
    BY MaskConstants
<1> QED
    BY <1>1 DEF IInv, TypeOK, DirtyInCall, TracerAtWork, LentIsDirty, StopPending, Traced, Holds,
            LetGo

\* The steps of a run, one by one.
LEMMA RunStep ==
    ASSUME IInv, NEW t \in Processes, Step(t)
    PROVE  IInv'
<1> USE HoldsFacts
<1>0. proc[t] \in Runs /\ sm \in Compositors /\ watch \in Watches
    OBVIOUS
<1>1. CASE Attach(t)
    <2>1. CASE sm.task = "running" /\ ~Traced
        <3> DEFINE q == [Resting("waiting") EXCEPT !.mode = proc[t].mode, !.tid = sm.pid]
        <3> DEFINE c == [sm EXCEPT !.tracer = t, !.sigstop = TRUE]
        <3>1. /\ q \in Runs /\ ~q.dirty /\ q.pc = "waiting" /\ q.tid = sm.pid
              /\ q.step = "name" /\ q.fd = 1
            <4>1. /\ Resting("waiting") \in Runs /\ ~Resting("waiting").dirty
                  /\ Resting("waiting").pc = "waiting"
                  /\ Resting("waiting").step = "name" /\ Resting("waiting").fd = 1
                BY RestingType
            <4>2. proc[t].mode \in {"hide", "pass"} /\ sm.pid \in Nat
                BY <1>0 DEF Runs, Compositors
            <4> QED
                BY <4>1, <4>2 DEF Runs
        <3>2. c \in Compositors /\ c.tracer = t /\ c.pid = sm.pid /\ c.task = "running"
            BY <2>1 DEF Compositors
        <3>3. c.let_go # "adrift" => c.regs # "call"
            BY <2>1 DEF IInv, LentIsDirty, Compositors
        <3>4. proc' = [proc EXCEPT ![t] = q] /\ sm' = c /\ UNCHANGED <<hidden, watch, log, signals>>
            BY <1>1, <2>1 DEF Attach
        <3> HIDE DEF q, c
        <3> QED
            BY <3>1, <3>2, <3>3, <3>4, JointStep DEF OnTheRun
    <2>2. CASE ~(sm.task = "running" /\ ~Traced)
        <3> DEFINE q == [Resting("report") EXCEPT !.mode = proc[t].mode]
        <3>1. q \in Runs /\ ~q.dirty /\ q.pc = "report"
            <4>1. Resting("report") \in Runs /\ ~Resting("report").dirty
                  /\ Resting("report").pc = "report"
                BY RestingType
            <4>2. proc[t].mode \in {"hide", "pass"}
                BY <1>0 DEF Runs
            <4> QED
                BY <4>1, <4>2 DEF Runs
        <3>2. proc' = [proc EXCEPT ![t] = q] /\ UNCHANGED <<sm, hidden, watch, log, signals>>
            BY <1>1, <2>2 DEF Attach
        <3>3. ~(sm.task # "dead" /\ sm.tracer = t)
            BY <1>1 DEF Attach, OnTheRun
        <3> HIDE DEF q
        <3> QED
            BY <3>1, <3>2, <3>3, AsideStep
    <2> QED
        BY <2>1, <2>2
<1>2. CASE Attached(t)
    <2> DEFINE q == [proc[t] EXCEPT !.pc = "calls"]
    <2>1. /\ q \in Runs /\ ~q.dirty /\ q.pc = "calls" /\ q.tid = proc[t].tid
          /\ ~proc[t].dirty /\ q.step = proc[t].step /\ q.failed = proc[t].failed
          /\ q.fd = proc[t].fd
        BY <1>2 DEF Attached, Runs
    <2>2. proc' = [proc EXCEPT ![t] = q] /\ UNCHANGED <<sm, hidden, watch, log, signals>>
        BY <1>2 DEF Attached
    <2> HIDE DEF q
    <2> QED
        BY <2>1, <2>2, AsideStep DEF OnTheRun
<1>3. CASE Borrow(t)
    <2> DEFINE q == [proc[t] EXCEPT !.pc = "borrowed", !.dirty = TRUE, !.saved = sm.regs]
    <2> DEFINE c == [sm EXCEPT !.regs = "call"]
    <2>1. /\ q \in Runs /\ q.dirty /\ q.pc = "borrowed" /\ q.tid = sm.pid
          /\ q.fd = proc[t].fd /\ q.fd \in Fds /\ q.saved = sm.regs
          /\ q.step = proc[t].step /\ q.failed = proc[t].failed
        BY <1>0, <1>3 DEF Borrow, Runs, Compositors
    <2>2. /\ c \in Compositors /\ c.tracer = t /\ c.pid = sm.pid /\ c.task # "frozen"
          /\ c.let_go = sm.let_go /\ c.sigstop = sm.sigstop
        BY <1>3 DEF Borrow, Compositors
    <2>4. sm.let_go # "adrift" => sm.regs = "own"
        BY <1>3, <1>0 DEF Borrow, Compositors
    <2>3. proc' = [proc EXCEPT ![t] = q] /\ sm' = c /\ UNCHANGED <<hidden, watch, log, signals>>
        BY <1>3 DEF Borrow
    <2>5. c.sigstop => q.step = "name" /\ (q.failed \/ q.fd = 1)
        <3>1. Holds(t) /\ proc[t] \in Runs
            BY <1>0, <1>3 DEF Borrow
        <3> HIDE DEF q, c
        <3> QED
            BY <2>1, <2>2, <3>1
    <2> HIDE DEF q, c
    <2>6. c.let_go # "adrift" => q.saved = "own"
        BY <2>1, <2>2, <2>4
    <2>7. /\ q.dirty /\ q.pc = "borrowed" /\ q.fd \in Fds /\ q.pc \in OnTheRun
          /\ c.tracer = t /\ c.task # "frozen" /\ q.tid = c.pid
        BY <2>1, <2>2 DEF OnTheRun
    <2> QED
        BY <2>1, <2>2, <2>3, <2>5, <2>6, <2>7, JointStep
<1>4. CASE Continue(t)
    <2> DEFINE q == [proc[t] EXCEPT !.pc = "called"]
    <2> DEFINE c == [sm EXCEPT !.task = "running"]
    <2>1. /\ q \in Runs /\ q.dirty /\ q.pc = "called" /\ q.tid = sm.pid /\ q.fd \in Fds
          /\ q.saved = proc[t].saved /\ q.step = proc[t].step /\ q.failed = proc[t].failed
          /\ q.fd = proc[t].fd /\ proc[t].dirty
        BY <1>4 DEF Continue, Runs, IInv, DirtyInCall
    <2>2. /\ c \in Compositors /\ c.tracer = t /\ c.pid = sm.pid /\ c.task = "running"
          /\ c.let_go = sm.let_go /\ c.sigstop = sm.sigstop /\ c.regs = sm.regs
        BY <1>4 DEF Continue, Compositors
    <2>3. proc' = [proc EXCEPT ![t] = q] /\ sm' = c /\ UNCHANGED <<hidden, watch, log, signals>>
        BY <1>4 DEF Continue
    <2>4. /\ c.sigstop => q.step = "name" /\ (q.failed \/ q.fd = 1)
          /\ c.let_go # "adrift" => q.saved = "own"
        <3>1. Holds(t)
            BY <1>4 DEF Continue
        <3> HIDE DEF q, c
        <3> QED
            BY <2>1, <2>2, <3>1
    <2> HIDE DEF q, c
    <2> QED
        BY <2>1, <2>2, <2>3, <2>4, JointStep DEF OnTheRun
<1>5. CASE Return(t)
    <2> DEFINE a == Advance(proc[t], sm.at_hole)
    <2> DEFINE q == [a EXCEPT !.pc = "calls", !.dirty = FALSE]
    <2> DEFINE c == [sm EXCEPT !.regs = proc[t].saved]
    <2>0. /\ proc[t].pc = "called" /\ Holds(t) /\ sm.task = "stopped"
          /\ proc[t].dirty /\ proc[t].fd \in Fds /\ sm.at_hole \in BOOLEAN
        BY <1>5 DEF Return, Compositors, IInv, DirtyInCall
    <2>1. a \in Runs /\ a.tid = proc[t].tid
        <3>1. a \in Runs
            BY <2>0, AdvanceType
        <3>2. a.tid = proc[t].tid
            BY DEF Advance, NextFd, Runs
        <3> QED
            BY <3>1, <3>2
    <2>5. sm.sigstop => a.step = "name" /\ a.failed
        <3> SUFFICES ASSUME sm.sigstop PROVE a.step = "name" /\ a.failed
            OBVIOUS
        <3>1. proc[t].step = "name" /\ ~sm.at_hole
            BY <2>0
        <3> QED
            BY <3>1 DEF Advance, NextFd, Runs
    <2>2. /\ q \in Runs /\ ~q.dirty /\ q.pc = "calls" /\ q.tid = sm.pid
          /\ q.step = a.step /\ q.failed = a.failed
        <3> HIDE DEF a
        <3> QED
            BY <2>0, <2>1 DEF Runs
    <2>3. /\ c \in Compositors /\ c.tracer = t /\ c.pid = sm.pid /\ c.task = "stopped"
          /\ c.regs = proc[t].saved /\ c.let_go = sm.let_go /\ c.sigstop = sm.sigstop
        BY <2>0 DEF Compositors, Runs
    <2>4. proc' = [proc EXCEPT ![t] = q] /\ sm' = c /\ UNCHANGED <<hidden, watch, log, signals>>
        BY <1>5 DEF Return
    <2>6. c.let_go # "adrift" => c.regs # "call"
        BY <2>0, <2>3
    <2> HIDE DEF q, c, a
    <2> QED
        BY <2>2, <2>3, <2>4, <2>5, <2>6, JointStep DEF OnTheRun
<1>6. CASE Leave(t)
    <2> DEFINE q == [proc[t] EXCEPT !.pc = "report", !.dirty = FALSE]
    <2> DEFINE how == IF proc[t].failed THEN "failed" ELSE "whole"
    <2> DEFINE c == Released(t, how)
    <2>1. q \in Runs /\ ~q.dirty /\ q.pc = "report"
        BY <1>0 DEF Runs
    <2>5. /\ Holds(t) /\ ~proc[t].dirty /\ proc[t].fd \notin Fds
        BY <1>6 DEF Leave
    <2>6. proc[t].fd # 1
        BY <2>5, MaskConstants DEF Fds
    <2>2. /\ c \in Compositors /\ c.tracer = NoTracer /\ c.task = "running"
          /\ c.regs = sm.regs /\ c.let_go = LetGo(how) /\ c.sigstop = sm.sigstop
        BY <2>5 DEF Released, LetGo, Compositors
    <2>7. /\ c.let_go # "adrift" => c.regs # "call"
          /\ c.sigstop => c.let_go # "whole"
        <3> HIDE DEF c
        <3> QED
            BY <2>2, <2>5, <2>6 DEF LetGo
    <2>3. proc' = [proc EXCEPT ![t] = q] /\ sm' = c /\ UNCHANGED <<hidden, watch, log, signals>>
        BY <1>6 DEF Leave
    <2>4. t # NoTracer
        BY MaskConstants
    <2> HIDE DEF q, c
    <2> QED
        BY <2>1, <2>2, <2>3, <2>4, <2>7, JointStep
<1>7. CASE Lost(t)
    <2> DEFINE q == [proc[t] EXCEPT !.pc = "report", !.dirty = FALSE, !.failed = TRUE]
    <2>1. q \in Runs /\ ~q.dirty /\ q.pc = "report"
        BY <1>0 DEF Runs
    <2>2. proc' = [proc EXCEPT ![t] = q] /\ UNCHANGED <<sm, hidden, watch, log, signals>>
        BY <1>7 DEF Lost
    <2>3. ~(sm.task # "dead" /\ sm.tracer = t)
        BY <1>7 DEF Lost
    <2> HIDE DEF q
    <2> QED
        BY <2>1, <2>2, <2>3, AsideStep
<1>8. CASE Report(t)
    <2> DEFINE q == Resting(IF t = Watcher THEN "idle" ELSE "gone")
    <2>1. q \in Runs /\ ~q.dirty /\ q.pc \in {"idle", "gone"}
        BY RestingType
    <2>2. proc' = [proc EXCEPT ![t] = q] /\ UNCHANGED <<sm, hidden, log, signals>>
        BY <1>8 DEF Report
    <2>3. ~(sm.task # "dead" /\ sm.tracer = t)
        BY <1>8 DEF Report, OnTheRun
    <2>4. watch' \in Watches
        <3>1. CASE t # Watcher
            BY <1>0, <1>8, <3>1 DEF Report
        <3>2. CASE t = Watcher
            <4>1. /\ proc[t].mode \in {"hide", "pass"} /\ proc[t].tid \in Nat
                  /\ watch.spoilt \in [hide : Nat, pass : Nat]
                BY <1>0 DEF Runs, Watches
            <4>2. [watch.spoilt EXCEPT ![proc[t].mode] =
                      IF Halfway(t) THEN proc[t].tid ELSE watch.spoilt[proc[t].mode]]
                  \in [hide : Nat, pass : Nat]
                BY <4>1
            <4>3. \A m \in BOOLEAN, o \in Nat, s \in [hide : Nat, pass : Nat] :
                     [watch EXCEPT !.masked = m, !.of = o, !.spoilt = s] \in Watches
                BY <1>0 DEF Watches
            <4>4. watch' = [watch EXCEPT
                     !.masked = IF Succeeded(t) THEN proc[t].mode = "hide" ELSE watch.masked,
                     !.of     = IF Succeeded(t) THEN proc[t].tid ELSE watch.of,
                     !.spoilt = [watch.spoilt EXCEPT ![proc[t].mode] =
                         IF Halfway(t) THEN proc[t].tid ELSE watch.spoilt[proc[t].mode]]]
                BY <1>8, <3>2 DEF Report
            <4>5. watch.masked \in BOOLEAN /\ watch.of \in Nat
                BY <1>0 DEF Watches
            <4> QED
                BY <4>1, <4>2, <4>3, <4>4, <4>5
        <3> QED
            BY <3>1, <3>2
    <2> HIDE DEF q
    <2> QED
        BY <2>1, <2>2, <2>3, <2>4, AsideStep
<1> QED
    BY <1>1, <1>2, <1>3, <1>4, <1>5, <1>6, <1>7, <1>8 DEF Step

\* A run starts.
LEMMA StartStep ==
    ASSUME IInv, NEW t \in Processes, NEW mode \in {"hide", "pass"},
           proc[t].pc \in {"idle", "new"}, StartRun(t, mode), watch' \in Watches,
           UNCHANGED <<sm, hidden, log, signals>>
    PROVE  IInv'
<1> DEFINE q == [proc[t] EXCEPT !.pc = "attach", !.mode = mode]
<1>0. proc[t] \in Runs /\ ~proc[t].dirty
    BY HoldsFacts
<1>1. q \in Runs /\ ~q.dirty /\ q.pc = "attach"
    BY <1>0 DEF Runs
<1>2. proc' = [proc EXCEPT ![t] = q]
    BY DEF StartRun
<1>3. ~(sm.task # "dead" /\ sm.tracer = t)
    BY HoldsFacts DEF OnTheRun
<1> HIDE DEF q
<1> QED
    BY <1>1, <1>2, <1>3, AsideStep

\* A process ends by a signal or its alarm, wherever it is.
LEMMA BailStep ==
    ASSUME IInv, NEW t \in Processes, Bail(t)
    PROVE  IInv'
<1> DEFINE q == Resting("gone")
<1>1. q \in Runs /\ ~q.dirty /\ q.pc = "gone"
    BY RestingType
<1>2. proc' = [proc EXCEPT ![t] = q] /\ UNCHANGED <<hidden, watch, log, signals>>
    BY DEF Bail
<1>3. t # NoTracer
    BY MaskConstants
<1>4. CASE Holds(t) /\ sm.task = "stopped"
    <2> DEFINE c == Released(t, "cut")
    <2>1. /\ c \in Compositors /\ c.tracer = NoTracer /\ c.task = "running"
          /\ c.regs = (IF proc[t].dirty THEN proc[t].saved ELSE sm.regs)
          /\ c.let_go = LetGo("cut")
        BY <1>4, HoldsFacts DEF Released, LetGo, Compositors, Runs
    <2>2. c.let_go # "adrift" => c.regs # "call"
        <3> HIDE DEF c
        <3> QED
            BY <1>4, <2>1, HoldsFacts DEF LetGo
    <2>3. sm' = c
        BY <1>4 DEF Bail
    <2> HIDE DEF q, c
    <2> QED
        BY <1>1, <1>2, <1>3, <2>1, <2>2, <2>3, HoldsFacts, JointStep
<1>5. CASE Holds(t) /\ sm.task # "stopped"
    <2> DEFINE how == IF proc[t].dirty THEN "adrift" ELSE "cut"
    <2> DEFINE c == [sm EXCEPT !.tracer = NoTracer, !.let_go = LetGo(how)]
    <2>1. /\ c \in Compositors /\ c.tracer = NoTracer /\ c.task = "running"
          /\ c.regs = sm.regs /\ c.let_go = LetGo(how)
        BY <1>5, HoldsFacts DEF LetGo, Compositors
    <2>2. c.let_go # "whole" /\ (c.let_go # "adrift" => c.regs # "call")
        <3> HIDE DEF c
        <3> QED
            BY <1>5, <2>1, HoldsFacts DEF LetGo
    <2>3. sm' = c
        BY <1>5 DEF Bail
    <2> HIDE DEF q, c
    <2> QED
        BY <1>1, <1>2, <1>3, <2>1, <2>2, <2>3, JointStep
<1>6. CASE ~Holds(t)
    <2>1. UNCHANGED sm /\ watch' \in Watches
        BY <1>2, <1>6, HoldsFacts DEF Bail
    <2> HIDE DEF q
    <2> QED
        BY <1>1, <1>2, <1>6, <2>1, HoldsFacts, AsideStep
<1> QED
    BY <1>4, <1>5, <1>6

\* Every step keeps the invariant.
LEMMA InvariantStep == IInv /\ [Next]_vars => IInv'
<1> SUFFICES ASSUME IInv, [Next]_vars PROVE IInv'
    OBVIOUS
<1>1. CASE UNCHANGED vars
    BY <1>1 DEF vars, IInv, TypeOK, DirtyInCall, TracerAtWork, LentIsDirty, StoppedIsTraced,
                StopPending, Traced
<1>2. CASE Compositor \/ TakeSignal \/ Die \/ Restart \/ LogMoves
    BY <1>2, KernelStep DEF Compositor
<1>3. CASE Poll
    <2>1. Watcher \in Processes
        BY DEF Processes
    <2>2. watch' \in Watches /\ UNCHANGED <<sm, hidden, log, signals>>
        BY <1>3, <2>1, HoldsFacts, MaskConstants DEF Poll, LongAbsent, Watches
    <2>3. CASE UNCHANGED proc
        BY <2>2, <2>3 DEF IInv, TypeOK, DirtyInCall, TracerAtWork, LentIsDirty, StoppedIsTraced,
                          StopPending, Traced
    <2>4. CASE \E mode \in {"hide", "pass"} : StartRun(Watcher, mode)
        BY <1>3, <2>1, <2>2, <2>4, StartStep DEF Poll
    <2> QED
        BY <1>3, <2>3, <2>4 DEF Poll
<1>4. ASSUME NEW t \in Processes, Step(t) \/ Bail(t) PROVE IInv'
    BY <1>4, RunStep, BailStep
<1>5. ASSUME NEW t \in Appliers, Launch(t) PROVE IInv'
    <2>1. t \in Processes /\ watch' \in Watches
        BY <1>5, HoldsFacts DEF Processes, Launch
    <2> QED
        BY <1>5, <2>1, StartStep DEF Launch
<1> QED
    BY <1>1, <1>2, <1>3, <1>4, <1>5 DEF Next

\* The invariant holds throughout.
LEMMA InvariantHolds == Safe => []IInv
<1>1. Init => IInv
    BY MaskConstants
    DEF Init, Started, NoneHidden, Resting, Fds, IInv, TypeOK, Compositors, Runs, Watches,
        DirtyInCall, TracerAtWork, LentIsDirty, StoppedIsTraced, StopPending, Traced
<1>2. IInv /\ [Next]_vars => IInv'
    BY InvariantStep
<1> QED
    BY <1>1, <1>2, PTL DEF Safe

-----------------------------------------------------------------------------
(* The results. *)

\* The compositor, the processes and what the watcher remembers keep their types.
THEOREM TypeCorrect == Spec => []TypeOK
<1>1. IInv => TypeOK
    BY DEF IInv
<1> QED
    BY <1>1, InvariantHolds, PTL DEF Spec

\* Wherever signals and the alarm end mask-wheel, and however they cut its calls short,
\* a compositor nobody traces is not in a ptrace stop, has lost its registers only if a
\* run was cut short while it ran a call, and is frozen only behind a run that did not go
\* well: through its deaths and restarts, for any number of processes and descriptors.
THEOREM HandsAreOff == Spec => []HandsOff
<1>1. IInv => HandsOff
    BY DEF IInv, TypeOK, Compositors, LentIsDirty, StoppedIsTraced, StopPending, HandsOff
<1> QED
    BY <1>1, InvariantHolds, PTL DEF Spec

-----------------------------------------------------------------------------
(***************************************************************************)
(* Launcher.                                                               *)
(***************************************************************************)

OneMark(lines) == \A i, j \in At(lines, "mark") : i = j

\* The user's lines among the first n that are not behind a mark.
UsersAmong(lines, n) == {i \in 1..n : i \in OfUser(lines) /\ i \notin BehindMark(lines)}

\* Each user.js has one mark at most, and lines only if it is there.
FilesMarked ==
    \A d \in Dirs :
        LET file == profile[d].user_js
        IN  OneMark(file.lines) /\ (file.owner = "none" => file.lines = <<>>)

Js == profile[launch.dir].user_js.lines
New == profile[launch.dir].new.lines

BeforeCopy == {"off", "give", "give_files", "first", "first_write", "choose"}

\* Before the copy: nothing is read, and the first user.js is made of nothing.
NothingRead ==
    /\ launch.pc \in BeforeCopy => launch.line = 0 /\ ~launch.skip_next
    /\ launch.pc = "first_write" => Js = <<>>

\* During the copy the new file has the user's lines that are read; the line that will
\* be skipped is behind a mark.
Copying ==
    launch.pc = "copy" =>
        /\ launch.line <= Len(Js)
        /\ At(New, "mark") = {}
        /\ Cardinality(OfUser(New)) >= Cardinality(UsersAmong(Js, launch.line))
        /\ launch.skip_next => launch.line > 0 /\ Js[launch.line] = "mark"

\* After it, it can take user.js's place, and says what was chosen.
Renaming ==
    launch.pc = "rename" =>
        /\ launch.whole =>
             Cardinality(OfUser(New)) >= Cardinality(OfUser(Js) \ BehindMark(Js))
        /\ OneMark(New)
        /\ Says(New) = launch.choice

NewIsThere ==
    launch.pc \in {"copy", "rename"} =>
        profile[launch.dir].new.owner # "none" /\ launch.choice # "left"

\* Then user.js says so, and then Firefox.
SaysChoice ==
    launch.choice # "left" =>
        /\ launch.pc = "exec" => Says(Js) = launch.choice \/ Barred
        /\ launch.pc = "firefox" => launch.value = launch.choice \/ Barred

LauncherInv ==
    LauncherTypeOK /\ FilesMarked /\ NothingRead /\ Copying /\ Renaming /\ NewIsThere /\ SaysChoice

-----------------------------------------------------------------------------

\* The places of a line can be counted.
LEMMA AtFinite ==
    ASSUME NEW lines \in Seq(Lines), NEW word
    PROVE  /\ At(lines, word) \subseteq 1..Len(lines)
           /\ IsFiniteSet(At(lines, word))
           /\ Cardinality(At(lines, word)) \in Nat
<1>1. At(lines, word) \subseteq 1..Len(lines)
    BY DEF At
<1>2. IsFiniteSet(1..Len(lines))
    BY FS_Interval
<1>3. IsFiniteSet(At(lines, word))
    BY <1>1, <1>2, FS_Subset
<1> QED
    BY <1>1, <1>3, FS_CardinalityType


\* So can those of the user's lines.
LEMMA OfUserFinite ==
    ASSUME NEW lines \in Seq(Lines)
    PROVE  /\ OfUser(lines) \subseteq 1..Len(lines)
           /\ IsFiniteSet(OfUser(lines))
           /\ Cardinality(OfUser(lines)) \in Nat
<1>1. OfUser(lines) \subseteq 1..Len(lines)
    BY DEF OfUser
<1>2. IsFiniteSet(1..Len(lines))
    BY FS_Interval
<1>3. IsFiniteSet(OfUser(lines))
    BY <1>1, <1>2, FS_Subset
<1> QED
    BY <1>1, <1>3, FS_CardinalityType

\* A line that is added is counted.
LEMMA AppendCounts ==
    ASSUME NEW lines \in Seq(Lines), NEW line \in Lines
    PROVE  /\ line # "mark" => At(Append(lines, line), "mark") = At(lines, "mark")
           /\ Cardinality(OfUser(Append(lines, line))) >= Cardinality(OfUser(lines))
           /\ line \in {"user", "open", "glued"} =>
                Cardinality(OfUser(Append(lines, line))) = Cardinality(OfUser(lines)) + 1
<1> DEFINE longer == Append(lines, line)
<1>1. /\ DOMAIN longer = 1..Len(lines) + 1
      /\ longer[Len(lines) + 1] = line
      /\ \A i \in 1..Len(lines) : longer[i] = lines[i]
    OBVIOUS
<1>2. DOMAIN lines = 1..Len(lines) /\ Len(lines) \in Nat
    OBVIOUS
<1> HIDE DEF longer
<1>3. line # "mark" => At(longer, "mark") = At(lines, "mark")
    BY <1>1, <1>2 DEF At
<1>4. CASE line \in {"user", "open", "glued"}
    <2>1. OfUser(longer) = OfUser(lines) \cup {Len(lines) + 1}
        BY <1>1, <1>2, <1>4 DEF OfUser
    <2>2. Len(lines) + 1 \notin OfUser(lines)
        BY <1>2 DEF OfUser
    <2>3. Cardinality(OfUser(longer)) = Cardinality(OfUser(lines)) + 1
        BY <2>1, <2>2, OfUserFinite, FS_AddElement
    <2> QED
        BY <1>3, <2>3, OfUserFinite DEF longer
<1>5. CASE line \notin {"user", "open", "glued"}
    <2>1. OfUser(longer) = OfUser(lines)
        BY <1>1, <1>2, <1>5 DEF OfUser
    <2> QED
        BY <1>3, <1>5, <2>1, OfUserFinite DEF longer
<1> QED
    BY <1>4, <1>5

\* A line glued to what follows is still the user's, and no mark.
LEMMA GluedIsUsers ==
    ASSUME NEW lines \in Seq(Lines)
    PROVE  /\ Glued(lines) \in Seq(Lines) /\ Len(Glued(lines)) = Len(lines)
           /\ OfUser(Glued(lines)) = OfUser(lines)
           /\ At(Glued(lines), "mark") = At(lines, "mark")
<1> DEFINE Line(i) == IF lines[i] = "open" THEN "glued" ELSE lines[i]
<1>1. Len(lines) \in Nat /\ DOMAIN lines = 1..Len(lines)
    OBVIOUS
<1>2. \A i \in 1..Len(lines) : Line(i) \in Lines
    BY DEF Lines
<1>3. Glued(lines) = [i \in 1..Len(lines) |-> Line(i)]
    BY <1>1 DEF Glued
<1>4. Glued(lines) \in [1..Len(lines) -> Lines]
    BY <1>2, <1>3
<1>5. Glued(lines) \in Seq(Lines)
    BY <1>1, <1>4
<1>6. Len(Glued(lines)) = Len(lines)
    BY <1>1, <1>3, <1>5
<1>7. OfUser(Glued(lines)) = OfUser(lines)
    BY <1>1 DEF OfUser, Glued
<1>8. At(Glued(lines), "mark") = At(lines, "mark")
    BY <1>1 DEF At, Glued
<1> QED
    BY <1>5, <1>6, <1>7, <1>8

\* A file without a mark, and what is put at its end.
LEMMA WrittenAtEnd ==
    ASSUME NEW lines \in Seq(Lines), NEW on \in {"true", "false"}, At(lines, "mark") = {}
    PROVE  LET all == lines \o Written(on)
           IN  /\ all \in Seq(Lines)
               /\ OfUser(all) = OfUser(lines)
               /\ OneMark(all)
               /\ Says(all) = on
<1> DEFINE all == lines \o Written(on)
           n == Len(lines)
<1>1. /\ Written(on) \in Seq(Lines) /\ Len(Written(on)) = 2
      /\ Written(on)[1] = "mark" /\ Written(on)[2] = on
    BY DEF Written, Lines
<1>0. n \in Nat
    OBVIOUS
<1>2. all \in Seq(Lines) /\ n \in Nat /\ Len(all) = n + 2 /\ DOMAIN all = 1..n + 2
    <2> HIDE DEF n
    <2>0. all \in Seq(Lines) /\ Len(all) = Len(lines) + Len(Written(on))
        BY <1>1, ConcatProperties
    <2>1. all \in Seq(Lines) /\ Len(all) = n + 2
        BY <1>1, <2>0 DEF n
    <2>2. DOMAIN all = 1..Len(all)
        BY <2>1
    <2> QED
        BY <1>0, <2>1, <2>2
<1>3. /\ \A i \in 1..n : all[i] = lines[i]
      /\ all[n + 1] = "mark" /\ all[n + 2] = on
    <2> DEFINE w == Written(on)
    <2>1. \A i \in 1..n + Len(w) : all[i] = IF i <= n THEN lines[i] ELSE w[i - n]
        BY <1>1, ConcatProperties
    <2> HIDE DEF w, all
    <2>0. n \in Nat
        BY <1>0
    <2> HIDE DEF n
    <2>2. \A i \in 1..n : all[i] = lines[i]
        BY <1>0, <1>1, <2>1 DEF w
    <2>3. n + 1 - n = 1 /\ n + 2 - n = 2 /\ ~(n + 1 <= n) /\ ~(n + 2 <= n)
        BY <1>0
    <2>4. n + 1 \in 1..n + Len(w) /\ n + 2 \in 1..n + Len(w)
        BY <1>0, <1>1 DEF w
    <2>5. all[n + 1] = w[1] /\ all[n + 2] = w[2]
        <3>1. all[n + 1] = w[n + 1 - n]
            BY <2>0, <2>1, <2>3, <2>4
        <3>2. all[n + 2] = w[n + 2 - n]
            BY <2>0, <2>1, <2>3, <2>4
        <3> QED
            BY <2>3, <3>1, <3>2
    <2> QED
        BY <1>1, <2>2, <2>5 DEF w
<1>4. \A i \in 1..n + 2 : i \in 1..n \/ i = n + 1 \/ i = n + 2
    BY <1>2
<1>5. n + 1 \in 1..n + 2 /\ n + 2 \in 1..n + 2
    BY <1>2
<1>6. DOMAIN lines = 1..n /\ 1..n \subseteq 1..n + 2
    BY <1>2
<1>7. OfUser(all) = OfUser(lines)
    BY <1>2, <1>3, <1>4, <1>6 DEF OfUser
<1>8. At(all, "mark") = {n + 1}
    BY <1>2, <1>3, <1>4, <1>5, <1>6 DEF At
<1>9. OneMark(all)
    BY <1>8 DEF OneMark
<1>10. Says(all) = on
    <2> DEFINE words == {i \in DOMAIN all : all[i] \in {"true", "false"}}
    <2>1. n + 2 \in words
        BY <1>2, <1>3, <1>5
    <2>2. \A i \in words : i \in Int /\ n + 2 >= i
        BY <1>2
    <2>3. \E i \in words : \A j \in words : i >= j
        BY <2>1, <2>2
    <2>4. Max(words) \in words /\ \A j \in words : Max(words) >= j
        BY <2>3 DEF Max
    <2> HIDE DEF words, all
    <2>5. Max(words) = n + 2
        <3>1. Max(words) \in Int /\ n + 2 >= Max(words) /\ Max(words) >= n + 2
            BY <2>1, <2>2, <2>4
        <3> QED
            BY <1>0, <3>1
    <2>6. words # {} /\ all[Max(words)] = on
        BY <1>3, <2>1, <2>5
    <2> QED
        BY <2>6 DEF Says, words, all
<1> QED
    BY <1>2, <1>7, <1>9, <1>10


\* One more line of user.js is read.
LEMMA ReadCounts ==
    ASSUME NEW lines \in Seq(Lines), NEW n \in Nat, n < Len(lines)
    PROVE  /\ lines[n + 1] \in Lines
           /\ Cardinality(UsersAmong(lines, n)) \in Nat
           /\ n + 1 \notin OfUser(lines) \/ n + 1 \in BehindMark(lines) =>
                UsersAmong(lines, n + 1) = UsersAmong(lines, n)
           /\ Cardinality(UsersAmong(lines, n + 1)) <= Cardinality(UsersAmong(lines, n)) + 1
<1>1. 1..n + 1 = 1..n \cup {n + 1} /\ n + 1 \notin 1..n /\ n + 1 \in 1..Len(lines)
    OBVIOUS
<1>2. lines[n + 1] \in Lines
    BY <1>1
<1>3. IsFiniteSet(UsersAmong(lines, n))
    <2>1. IsFiniteSet(1..n)
        BY FS_Interval
    <2>2. UsersAmong(lines, n) \subseteq 1..n
        BY DEF UsersAmong
    <2> QED
        BY <2>1, <2>2, FS_Subset
<1>4. Cardinality(UsersAmong(lines, n)) \in Nat
    BY <1>3, FS_CardinalityType
<1>5. CASE n + 1 \notin OfUser(lines) \/ n + 1 \in BehindMark(lines)
    <2>1. UsersAmong(lines, n + 1) = UsersAmong(lines, n)
        BY <1>1, <1>5 DEF UsersAmong
    <2> QED
        BY <1>2, <1>4, <2>1
<1>6. CASE ~(n + 1 \notin OfUser(lines) \/ n + 1 \in BehindMark(lines))
    <2>1. UsersAmong(lines, n + 1) = UsersAmong(lines, n) \cup {n + 1}
        BY <1>1, <1>6 DEF UsersAmong
    <2>2. n + 1 \notin UsersAmong(lines, n)
        BY <1>1 DEF UsersAmong
    <2>3. Cardinality(UsersAmong(lines, n + 1)) = Cardinality(UsersAmong(lines, n)) + 1
        BY <1>3, <2>1, <2>2, FS_AddElement
    <2> QED
        BY <1>2, <1>4, <1>6, <2>3
<1> QED
    BY <1>5, <1>6

\* The user's line leaves the marks as many as they are.
LEMMA InsertedMarks ==
    ASSUME NEW lines \in Seq(Lines), NEW p \in 0..Len(lines), NEW line \in {"user", "open"},
           OneMark(lines)
    PROVE  Inserted(lines, p, line) \in Seq(Lines) /\ OneMark(Inserted(lines, p, line))
<1> DEFINE longer == Inserted(lines, p, line)
           Line(i) == IF i <= p THEN lines[i] ELSE IF i = p + 1 THEN line ELSE lines[i - 1]
<1>1. Len(lines) \in Nat /\ p \in Nat /\ p <= Len(lines) /\ DOMAIN lines = 1..Len(lines)
    OBVIOUS
<1>2. longer = [i \in 1..Len(lines) + 1 |-> Line(i)]
    BY DEF Inserted
<1>3. ASSUME NEW i \in 1..Len(lines) + 1
      PROVE  Line(i) \in Lines
    <2>1. CASE i <= p
        <3>1. i \in 1..Len(lines)
            BY <1>1, <2>1
        <3> QED
            BY <2>1, <3>1
    <2>2. CASE i = p + 1
        BY <1>1, <2>2 DEF Lines
    <2>3. CASE ~(i <= p) /\ i # p + 1
        <3>1. i - 1 \in 1..Len(lines)
            BY <1>1, <2>3
        <3>2. Line(i) = lines[i - 1]
            BY <2>3
        <3> QED
            BY <3>1, <3>2
    <2> QED
        BY <2>1, <2>2, <2>3
<1>4. longer \in [1..Len(lines) + 1 -> Lines]
    BY <1>2, <1>3
<1>5. longer \in Seq(Lines)
    BY <1>1, <1>4
<1>6. ASSUME NEW i \in At(longer, "mark")
      PROVE  /\ i \in Int
             /\ i <= p \/ i > p + 1
             /\ i <= p => i \in At(lines, "mark")
             /\ i > p + 1 => i - 1 \in At(lines, "mark")
    <2>1. i \in 1..Len(lines) + 1 /\ Line(i) = "mark"
        BY <1>2 DEF At
    <2>2. CASE i <= p
        <3>1. i \in 1..Len(lines) /\ lines[i] = "mark"
            BY <1>1, <2>1, <2>2
        <3> QED
            BY <1>1, <2>2, <3>1 DEF At
    <2>3. CASE i = p + 1
        <3>1. ~(i <= p)
            BY <1>1, <2>3
        <3>2. Line(i) = line
            BY <2>3, <3>1
        <3> QED
            BY <2>1, <3>2
    <2>4. CASE i > p + 1
        <3>1. i - 1 \in 1..Len(lines) /\ lines[i - 1] = "mark"
            BY <1>1, <2>1, <2>4
        <3> QED
            BY <1>1, <2>4, <3>1 DEF At
    <2> QED
        BY <1>1, <2>1, <2>2, <2>3, <2>4
<1> HIDE DEF longer, Line
<1>7. OneMark(longer)
    <2> SUFFICES ASSUME NEW i \in At(longer, "mark"), NEW j \in At(longer, "mark")
                 PROVE  i = j
        BY DEF OneMark
    <2>1. \A k, l \in At(lines, "mark") : k = l
        BY DEF OneMark
    <2> QED
        BY <1>1, <1>6, <2>1
<1> QED
    BY <1>5, <1>7 DEF longer

\* Places in a file have a last one.
LEMMA LastPlace ==
    ASSUME NEW n \in Nat, NEW S \in SUBSET (1..n), S # {}
    PROVE  Max(S) \in S /\ \A k \in S : Max(S) >= k
<1> DEFINE Behind == {n - k : k \in S}
           Less == OpToRel(<, Nat)
<1>1. Behind \subseteq Nat /\ Behind # {}
    <2>1. PICK k \in S : TRUE
        OBVIOUS
    <2>2. n - k \in Behind
        BY <2>1
    <2> QED
        BY <2>2
<1>2. IsWellFoundedOn(Less, Nat)
    BY NatLessThanWellFounded
<1> HIDE DEF Less
<1>3. PICK x \in Behind : \A y \in Behind : <<y, x>> \notin Less
    BY <1>1, <1>2, WFMin
<1>4. \A y \in Behind : ~(y < x)
    BY <1>1, <1>3 DEF Less, OpToRel
<1>5. PICK m \in S : x = n - m
    OBVIOUS
<1>6. \A k \in S : m >= k
    BY <1>4, <1>5
<1> QED
    BY <1>6 DEF Max


\* user.js has a last word on the rendering, or none.
LEMMA SaysType ==
    ASSUME NEW lines \in Seq(Lines)
    PROVE  Says(lines) \in Renderings
<1> DEFINE words == {i \in DOMAIN lines : lines[i] \in {"true", "false"}}
<1>1. CASE words = {}
    BY <1>1 DEF Says, Renderings
<1>2. CASE words # {}
    <2>1. words \subseteq 1..Len(lines)
        OBVIOUS
    <2>2. Len(lines) \in Nat
        OBVIOUS
    <2>4. Max(words) \in words
        BY <1>2, <2>1, <2>2, LastPlace
    <2> HIDE DEF words
    <2>5. lines[Max(words)] \in {"true", "false"}
        BY <2>4 DEF words
    <2>6. Says(lines) = lines[Max(words)]
        BY <1>2 DEF Says, words
    <2> QED
        BY <2>5, <2>6 DEF Renderings
<1> QED
    BY <1>1, <1>2

-----------------------------------------------------------------------------

\* The invariant holds when geckotv has never run.
LEMMA LauncherInitInv ==
    ASSUME LauncherInit
    PROVE  LauncherInv
<1> USE DEF LauncherInit, Off, NoFile
<1>1. <<>> \in Seq(Lines)
    OBVIOUS
<1>2. LauncherTypeOK
    BY <1>1 DEF LauncherTypeOK, Profiles, Files, Launches, Renderings, Dirs, Users
<1>3. \A word : At(<<>>, word) = {}
    BY DEF At
<1>4. FilesMarked
    BY <1>3 DEF FilesMarked, OneMark
<1>5. NothingRead /\ Copying /\ Renaming /\ NewIsThere /\ SaysChoice
    BY DEF NothingRead, Copying, Renaming, NewIsThere, SaysChoice
<1> QED
    BY <1>2, <1>4, <1>5 DEF LauncherInv

\* What the types say of the launch's profile, and of every user.js.
LEMMA TypeFacts ==
    ASSUME LauncherTypeOK
    PROVE  /\ launch \in Launches /\ launch.dir \in Dirs /\ launch.uid \in Users
           /\ launch.line \in Nat /\ launch.choice \in {"left", "true", "false"}
           /\ Js \in Seq(Lines) /\ New \in Seq(Lines)
           /\ \A d \in Dirs : /\ profile[d] \in Profiles
                              /\ profile[d].user_js \in Files /\ profile[d].new \in Files
                              /\ profile[d].user_js.lines \in Seq(Lines)
BY DEF LauncherTypeOK, Launches, Profiles, Files, Js, New

\* A step that leaves the lines of every user.js alone, and removes none.
LEMMA FilesKept ==
    ASSUME LauncherInv,
           \A d \in Dirs : /\ profile'[d].user_js.lines = profile[d].user_js.lines
                           /\ \/ profile'[d].user_js.owner # "none"
                              \/ profile'[d].user_js.owner = profile[d].user_js.owner
    PROVE  FilesMarked'
BY DEF LauncherInv, FilesMarked

\* A launch that has not come to the copy yet has nothing to keep but the types, and
\* an empty file for the first user.js.
LEMMA NotYetCopying ==
    ASSUME launch'.pc \in BeforeCopy, launch'.line = 0, ~launch'.skip_next,
           launch'.pc = "first_write" => Js' = <<>>
    PROVE  (NothingRead /\ Copying /\ Renaming /\ NewIsThere /\ SaysChoice)'
BY DEF BeforeCopy, NothingRead, Copying, Renaming, NewIsThere, SaysChoice

LEMMA StartLaunchStep ==
    ASSUME LauncherInv, NEW uid \in Users, Start(uid)
    PROVE  LauncherInv'
<1> DEFINE d == IF Usable("app", uid) THEN "app" ELSE "home"
           pc == IF uid = "root" THEN "give" ELSE "first"
<1>1. /\ d \in Dirs
      /\ launch' = [Off EXCEPT !.pc = pc, !.uid = uid, !.dir = d]
      /\ profile' = [profile EXCEPT ![d].owner = IF @ = "none" THEN uid ELSE @]
      /\ used' = used /\ edits' = edits
      /\ tv' \in [subcompositor : BOOLEAN, foreign : BOOLEAN]
      /\ env' \in [software : {"unset", "0", "1"}, flat : {"unset", "0", "1"},
                   as_webos4 : {FALSE, AsWebos4}]
    BY DEF Start, Dirs
<1>2. pc \in {"give", "first"}
    OBVIOUS
<1> HIDE DEF d, pc
<1>3. LauncherTypeOK
    BY DEF LauncherInv
<1>4. /\ launch' \in Launches /\ launch'.pc = pc /\ launch'.line = 0 /\ ~launch'.skip_next
    BY <1>1, <1>2 DEF Off, Launches, Renderings
<1>5. profile' \in [Dirs -> Profiles]
    BY <1>1, <1>3 DEF LauncherTypeOK, Profiles
<1>6. \A e \in Dirs : profile'[e].user_js = profile[e].user_js
    BY <1>1, <1>3 DEF LauncherTypeOK, Profiles
<1>7. FilesMarked'
    BY <1>6, FilesKept
<1>8. LauncherTypeOK'
    <2>1. {FALSE, AsWebos4} \subseteq BOOLEAN
        BY LauncherConstants
    <2>2. env' \in [software : {"unset", "0", "1"}, flat : {"unset", "0", "1"},
                    as_webos4 : BOOLEAN]
        BY <1>1, <2>1
    <2> QED
        BY <1>1, <1>3, <1>4, <1>5, <2>2 DEF LauncherTypeOK
<1>9. (NothingRead /\ Copying /\ Renaming /\ NewIsThere /\ SaysChoice)'
    BY <1>2, <1>4, NotYetCopying DEF BeforeCopy
<1> QED
    BY <1>7, <1>8, <1>9 DEF LauncherInv

LEMMA GiveStep ==
    ASSUME LauncherInv, Give
    PROVE  LauncherInv'
<1>1. /\ LauncherTypeOK /\ launch.pc = "give" /\ UNCHANGED <<tv, env, used, edits>>
      /\ \/ launch' = [launch EXCEPT !.pc = "first"] /\ profile' = profile
         \/ /\ launch' = [launch EXCEPT !.pc = "give_files"]
            /\ profile' = [profile EXCEPT ![launch.dir]["owner"] = "app"]
    BY DEF LauncherInv, Give, Goes, Set
<1>2. launch.line = 0 /\ ~launch.skip_next
    BY <1>1 DEF LauncherInv, NothingRead, BeforeCopy
<1>3. /\ launch' \in Launches /\ launch'.pc \in {"first", "give_files"} /\ launch'.line = 0
      /\ ~launch'.skip_next
    BY <1>1, <1>2, TypeFacts DEF Launches
<1>4. /\ profile' \in [Dirs -> Profiles]
      /\ \A d \in Dirs : profile'[d].user_js = profile[d].user_js
    BY <1>1 DEF LauncherTypeOK, Profiles, Users
<1>5. LauncherTypeOK'
    BY <1>1, <1>3, <1>4 DEF LauncherTypeOK
<1>6. FilesMarked'
    BY <1>4, FilesKept
<1>7. (NothingRead /\ Copying /\ Renaming /\ NewIsThere /\ SaysChoice)'
    BY <1>3, NotYetCopying DEF BeforeCopy
<1> QED
    BY <1>5, <1>6, <1>7 DEF LauncherInv

LEMMA GiveFilesStep ==
    ASSUME LauncherInv, GiveFiles
    PROVE  LauncherInv'
<1> DEFINE Given(file) == [file EXCEPT !.owner = IF @ = "none" THEN @ ELSE "app"]
           p == profile[launch.dir]
           q == [p EXCEPT !.user_js = Given(p.user_js), !.new = Given(p.new)]
<1>1. /\ LauncherTypeOK /\ launch.pc = "give_files" /\ UNCHANGED <<tv, env, used, edits>>
      /\ launch' = [launch EXCEPT !.pc = "first"]
      /\ profile' = [profile EXCEPT ![launch.dir].user_js = Given(@),
                                    ![launch.dir].new = Given(@)]
    BY DEF LauncherInv, GiveFiles, Goes
<1>2. /\ launch.dir \in Dirs /\ p \in Profiles
      /\ p.user_js \in Files /\ p.new \in Files
    BY <1>1, TypeFacts
<1>3. \A file \in Files : /\ Given(file) \in Files /\ Given(file).lines = file.lines
                          /\ Given(file).owner = "none" <=> file.owner = "none"
    BY DEF Files, Users
<1>4. profile' = [profile EXCEPT ![launch.dir] = q]
    BY <1>1, <1>2 DEF LauncherTypeOK, Profiles
<1> HIDE DEF Given
<1>5. q \in Profiles /\ q.user_js = Given(p.user_js)
    BY <1>2, <1>3 DEF Profiles
<1> HIDE DEF q
<1>6. /\ profile' \in [Dirs -> Profiles]
      /\ profile'[launch.dir].user_js = Given(p.user_js)
      /\ \A d \in Dirs : d # launch.dir => profile'[d].user_js = profile[d].user_js
    BY <1>1, <1>2, <1>4, <1>5 DEF LauncherTypeOK
<1>7. launch.line = 0 /\ ~launch.skip_next
    BY <1>1 DEF LauncherInv, NothingRead, BeforeCopy
<1>8. /\ launch' \in Launches /\ launch'.pc = "first" /\ launch'.line = 0
      /\ ~launch'.skip_next
    BY <1>1, <1>7, TypeFacts DEF Launches
<1>9. LauncherTypeOK'
    BY <1>1, <1>6, <1>8 DEF LauncherTypeOK
<1>10. FilesMarked'
    <2>1. \A d \in Dirs : /\ profile'[d].user_js.lines = profile[d].user_js.lines
                          /\ \/ profile'[d].user_js.owner # "none"
                             \/ profile'[d].user_js.owner = profile[d].user_js.owner
        BY <1>2, <1>3, <1>6
    <2> QED
        BY <2>1, FilesKept
<1>11. (NothingRead /\ Copying /\ Renaming /\ NewIsThere /\ SaysChoice)'
    BY <1>8, NotYetCopying DEF BeforeCopy
<1> QED
    BY <1>9, <1>10, <1>11 DEF LauncherInv

LEMMA FirstRunStep ==
    ASSUME LauncherInv, FirstRun
    PROVE  LauncherInv' /\ \A d \in Dirs : profile'[d].user_js.lines = profile[d].user_js.lines
<1>1. LauncherTypeOK /\ launch.pc = "first" /\ UNCHANGED <<tv, env, used, edits>>
    BY DEF LauncherInv, FirstRun
<1>2. launch.line = 0 /\ ~launch.skip_next
    BY <1>1 DEF LauncherInv, NothingRead, BeforeCopy
<1>3. CASE profile[launch.dir].user_js.owner # "none"
    <2>1. launch' = [launch EXCEPT !.pc = "choose"] /\ profile' = profile
        BY <1>3 DEF FirstRun, Goes
    <2>2. launch' \in Launches /\ launch'.pc = "choose" /\ launch'.line = 0 /\ ~launch'.skip_next
        BY <1>1, <1>2, <2>1, TypeFacts DEF Launches
    <2>3. LauncherTypeOK'
        BY <1>1, <2>1, <2>2 DEF LauncherTypeOK
    <2>4. FilesMarked'
        BY <2>1, FilesKept
    <2>5. (NothingRead /\ Copying /\ Renaming /\ NewIsThere /\ SaysChoice)'
        BY <2>2, NotYetCopying DEF BeforeCopy
    <2> QED
        BY <2>1, <2>3, <2>4, <2>5 DEF LauncherInv
<1>4. CASE profile[launch.dir].user_js.owner = "none"
    <2>1. /\ launch' = [launch EXCEPT !.pc = "first_write"]
          /\ profile' = [profile EXCEPT ![launch.dir]["user_js"] = File(<<>>)]
        BY <1>4 DEF FirstRun, Goes, Set
    <2>2. /\ launch' \in Launches /\ launch'.pc = "first_write" /\ launch'.dir = launch.dir
          /\ launch'.line = 0 /\ ~launch'.skip_next
        BY <1>1, <1>2, <2>1, TypeFacts DEF Launches
    <2>3. File(<<>>) \in Files /\ File(<<>>).lines = <<>> /\ File(<<>>).owner # "none"
        BY <1>1, TypeFacts DEF File, Files, Users
    <2>4. profile' \in [Dirs -> Profiles]
        BY <1>1, <2>1, <2>3 DEF LauncherTypeOK, Profiles
    <2>5. LauncherTypeOK'
        BY <1>1, <2>2, <2>4 DEF LauncherTypeOK
    <2>6. profile[launch.dir].user_js.lines = <<>>
        BY <1>1, <1>4, TypeFacts DEF LauncherInv, FilesMarked
    <2>7. \A e \in Dirs : /\ profile'[e].user_js.lines = profile[e].user_js.lines
                          /\ \/ profile'[e].user_js.owner # "none"
                             \/ profile'[e].user_js.owner = profile[e].user_js.owner
        BY <1>1, <2>1, <2>3, <2>6 DEF LauncherTypeOK, Profiles
    <2>8. FilesMarked'
        BY <2>7, FilesKept
    <2>9. Js' = <<>>
        BY <1>1, <2>2, <2>6, <2>7, TypeFacts DEF Js
    <2>10. (NothingRead /\ Copying /\ Renaming /\ NewIsThere /\ SaysChoice)'
        BY <2>2, <2>9, NotYetCopying DEF BeforeCopy
    <2> QED
        BY <2>5, <2>7, <2>8, <2>10 DEF LauncherInv
<1> QED
    BY <1>3, <1>4

LEMMA FirstWriteStep ==
    ASSUME LauncherInv, FirstWrite
    PROVE  /\ LauncherInv'
           /\ Js = <<>>
           /\ \A d \in Dirs : d # launch.dir => profile'[d] = profile[d]
<1>1. /\ LauncherTypeOK /\ launch.pc = "first_write" /\ UNCHANGED <<tv, env, used, edits>>
      /\ launch' = [launch EXCEPT !.pc = "choose"]
      /\ profile' = [profile EXCEPT ![launch.dir]["user_js"] = File(<<"first">>)]
    BY DEF LauncherInv, FirstWrite, Set, Goes
<1>2. launch.line = 0 /\ ~launch.skip_next /\ Js = <<>>
    BY <1>1 DEF LauncherInv, NothingRead, BeforeCopy
<1>3. launch' \in Launches /\ launch'.pc = "choose" /\ launch'.line = 0 /\ ~launch'.skip_next
    BY <1>1, <1>2, TypeFacts DEF Launches
<1>4. /\ File(<<"first">>) \in Files /\ File(<<"first">>).lines = <<"first">>
      /\ File(<<"first">>).owner # "none"
    BY <1>1, TypeFacts DEF File, Files, Lines, Users
<1>5. /\ profile' \in [Dirs -> Profiles]
      /\ \A d \in Dirs : d # launch.dir => profile'[d] = profile[d]
      /\ \A d \in Dirs : d = launch.dir => profile'[d].user_js = File(<<"first">>)
    BY <1>1, <1>4 DEF LauncherTypeOK, Profiles
<1>6. LauncherTypeOK'
    BY <1>1, <1>3, <1>5 DEF LauncherTypeOK
<1>7. At(<<"first">>, "mark") = {}
    BY DEF At
<1>8. FilesMarked'
    <2>1. OneMark(<<"first">>)
        BY <1>7 DEF OneMark
    <2> QED
        BY <1>4, <1>5, <2>1 DEF LauncherInv, FilesMarked
<1>9. (NothingRead /\ Copying /\ Renaming /\ NewIsThere /\ SaysChoice)'
    BY <1>3, NotYetCopying DEF BeforeCopy
<1> QED
    BY <1>2, <1>5, <1>6, <1>8, <1>9 DEF LauncherInv

\* What Choice chooses, if it chooses.
LEMMA ChoiceType ==
    ASSUME NEW reached \in BOOLEAN
    PROVE  Choice(reached) \in {"left", "true", "false"}
<1>1. CASE env.software # "unset"
    BY <1>1 DEF Choice
<1>2. CASE env.software = "unset" /\ reached
    <2>1. Choice(reached) = IF ProbeFlat THEN "true" ELSE "false"
        BY <1>2 DEF Choice
    <2> QED
        BY <2>1
<1>3. CASE env.software = "unset" /\ ~reached
    BY <1>3 DEF Choice
<1> QED
    BY <1>1, <1>2, <1>3

\* The choice opens the new file, or leaves it, and then because it cannot be opened.
LEMMA ChooseStep ==
    ASSUME LauncherInv, Choose
    PROVE  LauncherInv' /\ \A d \in Dirs : profile'[d].user_js = profile[d].user_js
<1>1. LauncherTypeOK /\ launch.pc = "choose" /\ UNCHANGED <<tv, env, used, edits>>
    BY DEF LauncherInv, Choose
<1>2. launch.line = 0 /\ ~launch.skip_next
    BY <1>1 DEF LauncherInv, NothingRead, BeforeCopy
<1>3. PICK reached \in BOOLEAN :
        LET writes == Choice(reached) # "left" /\ ~Barred
        IN  /\ launch' = [launch EXCEPT !.choice = Choice(reached),
                                        !.pc = IF writes THEN "copy" ELSE "exec"]
            /\ IF writes THEN OpenNew ELSE UNCHANGED profile
    BY DEF Choose
<1> DEFINE choice == Choice(reached)
           writes == choice # "left" /\ ~Barred
<1>4. choice \in {"left", "true", "false"}
    BY ChoiceType
<1>5. /\ launch' = [launch EXCEPT !.choice = choice, !.pc = IF writes THEN "copy" ELSE "exec"]
      /\ IF writes THEN OpenNew ELSE UNCHANGED profile
    BY <1>3
<1> HIDE DEF choice
<1>6. /\ launch' \in Launches /\ launch'.choice = choice /\ launch'.dir = launch.dir
      /\ launch'.uid = launch.uid
      /\ launch'.line = 0 /\ ~launch'.skip_next
      /\ launch'.pc = IF writes THEN "copy" ELSE "exec"
    <2>1. launch \in Launches
        BY <1>1, TypeFacts
    <2> HIDE DEF writes
    <2> QED
        BY <1>2, <1>4, <1>5, <2>1 DEF Launches
<1>7. CASE ~writes
    <2>1. profile' = profile
        BY <1>5, <1>7
    <2>2. LauncherTypeOK'
        BY <1>1, <1>6, <2>1 DEF LauncherTypeOK
    <2>3. FilesMarked'
        BY <2>1, FilesKept
    <2>4. choice # "left" => Barred'
        BY <1>6, <1>7, <2>1 DEF Barred
    <2>5. (NothingRead /\ Copying /\ Renaming /\ NewIsThere /\ SaysChoice)'
        BY <1>6, <1>7, <2>4 DEF NothingRead, Copying, Renaming, NewIsThere, SaysChoice, BeforeCopy
    <2> QED
        BY <2>1, <2>2, <2>3, <2>5 DEF LauncherInv
<1>8. CASE writes
    <2> DEFINE owner == profile[launch.dir].new.owner
               file == [owner |-> IF owner = "none" THEN launch.uid ELSE owner, lines |-> <<>>]
    <2>1. profile' = [profile EXCEPT ![launch.dir].new = file]
        BY <1>1, <1>5, <1>8 DEF OpenNew, LauncherTypeOK, Profiles
    <2>2. file \in Files /\ file.lines = <<>> /\ file.owner # "none"
        BY <1>1, TypeFacts DEF Files, Users
    <2> HIDE DEF file, writes
    <2>3. /\ profile' \in [Dirs -> Profiles]
          /\ profile'[launch.dir].new = file
          /\ \A d \in Dirs : profile'[d].user_js = profile[d].user_js
        BY <1>1, <2>1, <2>2, TypeFacts DEF LauncherTypeOK, Profiles
    <2>4. LauncherTypeOK'
        BY <1>1, <1>6, <2>3 DEF LauncherTypeOK
    <2>5. FilesMarked'
        BY <2>3, FilesKept
    <2>6. New' = <<>> /\ Js' \in Seq(Lines)
        <3>1. New' = <<>>
            BY <1>6, <2>2, <2>3 DEF New
        <3>2. launch'.dir \in Dirs /\ profile'[launch'.dir] \in Profiles
            BY <1>1, <1>6, <2>3, TypeFacts
        <3>3. Js' \in Seq(Lines)
            BY <3>2 DEF Js, Profiles, Files
        <3> QED
            BY <3>1, <3>3
    <2>7. At(<<>>, "mark") = {} /\ OfUser(<<>>) = {}
        BY DEF At, OfUser
    <2>8. UsersAmong(Js', 0) = {}
        BY DEF UsersAmong
    <2>9. Cardinality({}) = 0 /\ 0 <= Len(Js')
        BY <2>6, FS_EmptySet
    <2>10. launch'.pc = "copy"
        BY <1>6, <1>8
    <2>11. Copying'
        <3>1. Cardinality(OfUser(New')) >= Cardinality(UsersAmong(Js', 0))
            <4>1. OfUser(New') = {}
                BY <2>6, <2>7
            <4> QED
                BY <2>8, <2>9, <4>1
        <3>2. At(New', "mark") = {}
            BY <2>6, <2>7
        <3> QED
            BY <1>6, <2>9, <3>1, <3>2 DEF Copying
    <2>12. choice # "left"
        BY <1>8 DEF writes
    <2>13. (NothingRead /\ Renaming /\ NewIsThere /\ SaysChoice)'
        BY <1>6, <2>2, <2>3, <2>10, <2>12
        DEF NothingRead, Renaming, NewIsThere, SaysChoice, BeforeCopy
    <2> QED
        BY <2>3, <2>4, <2>5, <2>11, <2>13 DEF LauncherInv
<1> QED
    BY <1>7, <1>8

\* A line is copied, or skipped: the mark, and what is behind it.
LEMMA CopyLineStep ==
    ASSUME LauncherInv, CopyLine
    PROVE  LauncherInv' /\ \A d \in Dirs : profile'[d].user_js = profile[d].user_js
<1> DEFINE n == launch.line
           line == Js[n + 1]
<1>1. /\ LauncherTypeOK /\ launch.pc = "copy" /\ n < Len(Js)
      /\ UNCHANGED <<tv, env, used, edits>>
      /\ launch' = [launch EXCEPT !.line = @ + 1, !.skip_next = ~@ /\ line = "mark"]
      /\ profile' = IF launch.skip_next \/ line = "mark" THEN profile
                    ELSE [profile EXCEPT ![launch.dir]["new"]["lines"] = Append(@, line)]
    BY DEF LauncherInv, CopyLine, LinesLeft, Js
<1>2. n \in Nat /\ Js \in Seq(Lines) /\ New \in Seq(Lines) /\ launch.dir \in Dirs
    BY <1>1, TypeFacts
<1>3. line \in Lines /\ n + 1 \in 1..Len(Js)
    BY <1>1, <1>2, ReadCounts
<1>4. /\ At(New, "mark") = {}
      /\ Cardinality(OfUser(New)) >= Cardinality(UsersAmong(Js, n))
      /\ launch.skip_next => n > 0 /\ Js[n] = "mark"
    BY <1>1 DEF LauncherInv, Copying
<1>5. profile[launch.dir].new.owner # "none" /\ launch.choice # "left"
    BY <1>1 DEF LauncherInv, NewIsThere
<1>6. /\ launch' \in Launches /\ launch'.pc = "copy" /\ launch'.dir = launch.dir
      /\ launch'.choice = launch.choice /\ launch'.line = n + 1
      /\ launch'.skip_next = (~launch.skip_next /\ line = "mark")
    <2> DEFINE skip == ~launch.skip_next /\ line = "mark"
    <2>1. skip \in BOOLEAN /\ launch' = [launch EXCEPT !.line = @ + 1, !.skip_next = skip]
        BY <1>1
    <2> HIDE DEF skip, line
    <2>2. launch \in Launches /\ launch.pc = "copy" /\ n + 1 \in Nat
        BY <1>1, <1>2, TypeFacts
    <2>3. /\ launch' \in Launches /\ launch'.pc = "copy" /\ launch'.dir = launch.dir
          /\ launch'.choice = launch.choice /\ launch'.line = n + 1 /\ launch'.skip_next = skip
        BY <2>1, <2>2 DEF Launches
    <2> QED
        BY <2>3 DEF skip
<1>7. launch.skip_next \/ line = "mark" =>
        n + 1 \notin OfUser(Js) \/ n + 1 \in BehindMark(Js)
    <2>1. ASSUME launch.skip_next PROVE n + 1 \in BehindMark(Js)
        <3>1. n \in At(Js, "mark")
            BY <1>1, <1>2, <1>4, <2>1 DEF At
        <3> QED
            BY <3>1 DEF BehindMark
    <2>2. ASSUME line = "mark" PROVE n + 1 \notin OfUser(Js)
        BY <2>2 DEF OfUser
    <2> QED
        BY <2>1, <2>2
<1>8. /\ profile' \in [Dirs -> Profiles]
      /\ \A d \in Dirs : profile'[d].user_js = profile[d].user_js
      /\ profile'[launch.dir].new.owner # "none"
      /\ New' = IF launch.skip_next \/ line = "mark" THEN New ELSE Append(New, line)
    <2>1. CASE launch.skip_next \/ line = "mark"
        BY <1>1, <1>5, <1>6, <2>1 DEF LauncherTypeOK, New
    <2>2. CASE ~(launch.skip_next \/ line = "mark")
        <3> DEFINE file == [profile[launch.dir].new EXCEPT !.lines = Append(New, line)]
        <3>1. profile' = [profile EXCEPT ![launch.dir]["new"]["lines"] = Append(@, line)]
            BY <1>1, <2>2
        <3>2. Append(New, line) \in Seq(Lines)
            BY <1>2, <1>3
        <3> HIDE DEF line
        <3>3. \A d \in Dirs : profile[d] \in Profiles /\ profile[d].new \in Files
            BY <1>1, TypeFacts
        <3>4. profile' = [profile EXCEPT ![launch.dir] =
                            [profile[launch.dir] EXCEPT !.new = file]]
            BY <1>1, <1>2, <3>1, <3>3 DEF LauncherTypeOK, Profiles, Files, New
        <3>5. /\ file \in Files /\ file.lines = Append(New, line)
              /\ file.owner = profile[launch.dir].new.owner
            BY <1>2, <3>2, <3>3 DEF Files
        <3> HIDE DEF file
        <3>6. /\ profile' \in [Dirs -> Profiles]
              /\ profile'[launch.dir].new = file
              /\ \A d \in Dirs : profile'[d].user_js = profile[d].user_js
            <4> DEFINE q == [profile[launch.dir] EXCEPT !.new = file]
            <4>1. q \in Profiles /\ q.new = file /\ q.user_js = profile[launch.dir].user_js
                BY <1>2, <3>3, <3>5 DEF Profiles
            <4>2. profile' = [profile EXCEPT ![launch.dir] = q]
                BY <3>4
            <4>3. profile \in [Dirs -> Profiles] /\ launch.dir \in Dirs
                BY <1>1, <1>2 DEF LauncherTypeOK
            <4> HIDE DEF q
            <4>4. /\ profile' \in [Dirs -> Profiles] /\ profile'[launch.dir] = q
                  /\ \A d \in Dirs : d # launch.dir => profile'[d] = profile[d]
                BY <4>1, <4>2, <4>3, Zenon
            <4> QED
                BY <4>1, <4>4
        <3> QED
            BY <1>5, <1>6, <2>2, <3>5, <3>6 DEF New
    <2> QED
        BY <2>1, <2>2
<1>9. LauncherTypeOK'
    BY <1>1, <1>6, <1>8 DEF LauncherTypeOK
<1>10. FilesMarked'
    BY <1>8, FilesKept
<1>11. Js' = Js
    BY <1>2, <1>6, <1>8 DEF Js
<1>12. At(New', "mark") = {}
    BY <1>2, <1>3, <1>4, <1>8, AppendCounts
<1>13. Cardinality(OfUser(New')) >= Cardinality(UsersAmong(Js, n + 1))
    <2> HIDE DEF n, line
    <2>1. /\ Cardinality(UsersAmong(Js, n)) \in Nat
          /\ n + 1 \notin OfUser(Js) \/ n + 1 \in BehindMark(Js) =>
                UsersAmong(Js, n + 1) = UsersAmong(Js, n)
          /\ Cardinality(UsersAmong(Js, n + 1)) <= Cardinality(UsersAmong(Js, n)) + 1
        BY <1>1, <1>2, ReadCounts
    <2>2. Cardinality(UsersAmong(Js, n + 1)) \in Nat
        <3>1. IsFiniteSet(UsersAmong(Js, n + 1))
            <4>1. IsFiniteSet(1..n + 1)
                BY <1>2, FS_Interval
            <4> QED
                BY <4>1, FS_Subset DEF UsersAmong
        <3> QED
            BY <3>1, FS_CardinalityType
    <2>3. Cardinality(OfUser(New)) \in Nat
        BY <1>2, OfUserFinite
    <2>4. CASE n + 1 \notin OfUser(Js) \/ n + 1 \in BehindMark(Js)
        <3>1. Cardinality(OfUser(New')) >= Cardinality(OfUser(New))
            <4>1. New' = New \/ New' = Append(New, line)
                BY <1>8
            <4>2. Cardinality(OfUser(Append(New, line))) >= Cardinality(OfUser(New))
                BY <1>2, <1>3, AppendCounts
            <4>3. CASE New' = New
                <5>1. OfUser(New') = OfUser(New)
                    BY <4>3
                <5> QED
                    BY <2>3, <5>1
            <4>4. CASE New' = Append(New, line)
                <5>1. OfUser(New') = OfUser(Append(New, line))
                    BY <4>4
                <5> QED
                    BY <4>2, <5>1
            <4> QED
                BY <4>1, <4>3, <4>4
        <3>2. Cardinality(OfUser(New')) \in Nat
            <4>1. New' \in Seq(Lines)
                BY <1>2, <1>3, <1>8
            <4> QED
                BY <4>1, OfUserFinite
        <3> QED
            BY <1>4, <2>1, <2>3, <2>4, <3>1, <3>2
    <2>5. CASE ~(n + 1 \notin OfUser(Js) \/ n + 1 \in BehindMark(Js))
        <3>1. New' = Append(New, line)
            BY <1>7, <1>8, <2>5
        <3>2. line \in {"user", "open", "glued"}
            BY <2>5 DEF OfUser, line
        <3>3. Cardinality(OfUser(New')) = Cardinality(OfUser(New)) + 1
            BY <1>2, <1>3, <3>1, <3>2, AppendCounts
        <3> QED
            BY <1>4, <2>1, <2>2, <2>3, <3>3
    <2> QED
        BY <2>4, <2>5
<1>14. Copying'
    <2>1. n + 1 <= Len(Js) /\ n + 1 > 0
        BY <1>2, <1>3
    <2> QED
        BY <1>6, <1>11, <1>12, <1>13, <2>1 DEF Copying
<1>15. (NothingRead /\ Renaming /\ NewIsThere /\ SaysChoice)'
    BY <1>5, <1>6, <1>8 DEF NothingRead, Renaming, NewIsThere, SaysChoice, BeforeCopy
<1> QED
    BY <1>8, <1>9, <1>10, <1>14, <1>15 DEF LauncherInv

\* The choice goes to the end of what was read, be it all or not.
LEMMA AddChoiceStep ==
    ASSUME LauncherInv, AddChoice
    PROVE  LauncherInv' /\ \A d \in Dirs : profile'[d].user_js = profile[d].user_js
<1> DEFINE all == Glued(New) \o Written(launch.choice)
           file == [profile[launch.dir].new EXCEPT !.lines = all]
<1>1. /\ LauncherTypeOK /\ launch.pc = "copy" /\ UNCHANGED <<tv, env, used, edits>>
      /\ launch' = [launch EXCEPT !.pc = "rename", !.whole = ~LinesLeft]
    BY DEF LauncherInv, AddChoice
<1>2. /\ launch.line \in Nat /\ Js \in Seq(Lines) /\ New \in Seq(Lines) /\ launch.dir \in Dirs
      /\ \A d \in Dirs : profile[d] \in Profiles /\ profile[d].new \in Files
    BY <1>1, TypeFacts
<1>3. /\ At(New, "mark") = {} /\ launch.line <= Len(Js)
      /\ Cardinality(OfUser(New)) >= Cardinality(UsersAmong(Js, launch.line))
    BY <1>1 DEF LauncherInv, Copying
<1>4. profile[launch.dir].new.owner # "none" /\ launch.choice \in {"true", "false"}
    BY <1>1, TypeFacts DEF LauncherInv, NewIsThere
<1>5. /\ all \in Seq(Lines) /\ OfUser(all) = OfUser(New)
      /\ OneMark(all) /\ Says(all) = launch.choice
    <2>1. /\ Glued(New) \in Seq(Lines) /\ OfUser(Glued(New)) = OfUser(New)
          /\ At(Glued(New), "mark") = {}
        BY <1>2, <1>3, GluedIsUsers
    <2> QED
        BY <1>4, <2>1, WrittenAtEnd
<1> HIDE DEF all
<1>6. file \in Files /\ file.owner # "none" /\ file.lines = all
    BY <1>2, <1>4, <1>5 DEF Files
<1>7. profile' = [profile EXCEPT ![launch.dir] = [profile[launch.dir] EXCEPT !.new = file]]
    BY <1>1, <1>2 DEF AddChoice, LauncherTypeOK, Profiles, Files, New, all
<1> HIDE DEF file
<1>8. /\ profile' \in [Dirs -> Profiles] /\ profile'[launch.dir].new = file
      /\ \A d \in Dirs : profile'[d].user_js = profile[d].user_js
    BY <1>1, <1>2, <1>6, <1>7 DEF LauncherTypeOK, Profiles
<1>9. /\ launch' \in Launches /\ launch'.pc = "rename" /\ launch'.dir = launch.dir
      /\ launch'.choice = launch.choice /\ launch'.whole = ~LinesLeft
    <2> DEFINE whole == ~LinesLeft
    <2>1. launch' = [launch EXCEPT !.pc = "rename", !.whole = whole] /\ whole \in BOOLEAN
        BY <1>1
    <2> HIDE DEF whole
    <2>2. /\ launch' \in Launches /\ launch'.pc = "rename" /\ launch'.dir = launch.dir
          /\ launch'.choice = launch.choice /\ launch'.whole = whole
        BY <1>1, <2>1, TypeFacts DEF Launches
    <2> QED
        BY <2>2 DEF whole
<1>10. LauncherTypeOK'
    BY <1>1, <1>8, <1>9 DEF LauncherTypeOK
<1>11. FilesMarked'
    BY <1>8, FilesKept
<1>12. New' = all /\ Js' = Js
    BY <1>2, <1>6, <1>8, <1>9 DEF New, Js
<1>13. launch'.whole =>
         Cardinality(OfUser(New')) >= Cardinality(OfUser(Js) \ BehindMark(Js))
    <2> SUFFICES ASSUME ~LinesLeft
                 PROVE  Cardinality(OfUser(New')) >= Cardinality(OfUser(Js) \ BehindMark(Js))
        BY <1>9
    <2>1. launch.line = Len(Js)
        BY <1>2, <1>3 DEF LinesLeft, Js
    <2>2. UsersAmong(Js, Len(Js)) = OfUser(Js) \ BehindMark(Js)
        BY <1>2 DEF UsersAmong, OfUser
    <2> QED
        BY <1>3, <1>5, <1>12, <2>1, <2>2
<1>14. Renaming'
    BY <1>5, <1>9, <1>12, <1>13 DEF Renaming
<1>15. (NothingRead /\ Copying /\ NewIsThere /\ SaysChoice)'
    BY <1>4, <1>6, <1>8, <1>9 DEF NothingRead, Copying, NewIsThere, SaysChoice, BeforeCopy
<1> QED
    BY <1>8, <1>10, <1>11, <1>14, <1>15 DEF LauncherInv

\* The new file takes user.js's place.
LEMMA RenameStep ==
    ASSUME LauncherInv, Rename
    PROVE  /\ LauncherInv'
           /\ launch.dir \in Dirs /\ profile'[launch.dir].user_js.lines = New
           /\ \A d \in Dirs : d # launch.dir => profile'[d].user_js = profile[d].user_js
<1>1. /\ LauncherTypeOK /\ launch.pc = "rename" /\ UNCHANGED <<tv, env, used, edits>>
      /\ launch' = [launch EXCEPT !.pc = "exec"]
    BY DEF LauncherInv, Rename, Goes
<1>2. /\ launch.dir \in Dirs
      /\ \A d \in Dirs : profile[d] \in Profiles /\ profile[d].new \in Files
    BY <1>1, TypeFacts
<1>3. NoFile \in Files
    BY DEF NoFile, Files
<1>4. profile' = [profile EXCEPT ![launch.dir] =
                    [profile[launch.dir] EXCEPT !.user_js = profile[launch.dir].new,
                                                !.new = NoFile]]
    BY <1>1, <1>2 DEF Rename, LauncherTypeOK, Profiles
<1>5. /\ profile' \in [Dirs -> Profiles]
      /\ profile'[launch.dir].user_js = profile[launch.dir].new
      /\ \A d \in Dirs : d # launch.dir => profile'[d].user_js = profile[d].user_js
    BY <1>1, <1>2, <1>3, <1>4 DEF LauncherTypeOK, Profiles
<1>6. /\ launch' \in Launches /\ launch'.pc = "exec" /\ launch'.dir = launch.dir
      /\ launch'.choice = launch.choice
    BY <1>1, TypeFacts DEF Launches
<1>7. LauncherTypeOK'
    BY <1>1, <1>5, <1>6 DEF LauncherTypeOK
<1>8. /\ OneMark(New) /\ Says(New) = launch.choice
      /\ profile[launch.dir].new.owner # "none"
    BY <1>1 DEF LauncherInv, Renaming, NewIsThere
<1>9. FilesMarked'
    <2> SUFFICES ASSUME NEW d \in Dirs
                 PROVE  LET file == profile'[d].user_js
                        IN  OneMark(file.lines) /\ (file.owner = "none" => file.lines = <<>>)
        BY DEF FilesMarked
    <2>1. CASE d # launch.dir
        BY <1>5, <2>1 DEF LauncherInv, FilesMarked
    <2>2. CASE d = launch.dir
        BY <1>5, <1>8, <2>2 DEF New
    <2> QED
        BY <2>1, <2>2
<1>10. Js' = New
    BY <1>5, <1>6 DEF Js, New
<1>11. (NothingRead /\ Copying /\ Renaming /\ NewIsThere /\ SaysChoice)'
    BY <1>6, <1>8, <1>10
    DEF NothingRead, Copying, Renaming, NewIsThere, SaysChoice, BeforeCopy
<1> QED
    BY <1>2, <1>5, <1>7, <1>9, <1>10, <1>11 DEF LauncherInv, New

\* Firefox takes user.js's last word; prefs.js counts only where there is none.
LEMMA ExecStep ==
    ASSUME LauncherInv, Exec
    PROVE  LauncherInv'
<1> DEFINE p == profile[launch.dir]
<1>1. LauncherTypeOK /\ launch.pc = "exec" /\ UNCHANGED <<profile, tv, env, edits>>
    BY DEF LauncherInv, Exec
<1>2. FilesMarked'
    BY <1>1, FilesKept
<1>3. CASE launch.uid = "root" /\ p.owner # "root"
    <2>1. launch' = Off /\ used' = used
        BY <1>3 DEF Exec
    <2>2. /\ launch' \in Launches /\ launch'.pc = "off" /\ launch'.line = 0
          /\ ~launch'.skip_next
        BY <2>1 DEF Off, Launches, Dirs, Users, Renderings
    <2>3. LauncherTypeOK'
        BY <1>1, <2>1, <2>2 DEF LauncherTypeOK
    <2>4. (NothingRead /\ Copying /\ Renaming /\ NewIsThere /\ SaysChoice)'
        BY <2>2, NotYetCopying DEF BeforeCopy
    <2> QED
        BY <1>2, <2>3, <2>4 DEF LauncherInv
<1>4. CASE ~(launch.uid = "root" /\ p.owner # "root")
    <2> DEFINE value == IF Says(Js) = "none" THEN p.prefs_js ELSE Says(Js)
    <2>1. launch' = [launch EXCEPT !.pc = "firefox", !.value = value]
        BY <1>4 DEF Exec, Js
    <2>2. used' \in {used, launch.dir}
        BY <1>4 DEF Exec
    <2>3. /\ launch.dir \in Dirs /\ Js \in Seq(Lines) /\ p \in Profiles
          /\ launch.choice \in {"left", "true", "false"}
        BY <1>1, TypeFacts
    <2>4. Says(Js) \in Renderings
        BY <2>3, SaysType
    <2>5. value \in Renderings
        BY <2>3, <2>4 DEF Profiles
    <2>6. launch.choice # "left" => Says(Js) = launch.choice \/ Barred
        BY <1>1 DEF LauncherInv, SaysChoice
    <2>7. launch.choice # "left" => value = launch.choice \/ Barred
        BY <2>3, <2>6
    <2> HIDE DEF value
    <2>8. /\ launch' \in Launches /\ launch'.pc = "firefox" /\ launch'.value = value
          /\ launch'.choice = launch.choice /\ launch'.uid = launch.uid
          /\ launch'.dir = launch.dir
        BY <1>1, <2>1, <2>5, TypeFacts DEF Launches
    <2>9. LauncherTypeOK'
        BY <1>1, <2>2, <2>3, <2>8 DEF LauncherTypeOK
    <2>10. Barred' = Barred
        BY <1>1, <2>8 DEF Barred
    <2>11. (NothingRead /\ Copying /\ Renaming /\ NewIsThere /\ SaysChoice)'
        BY <2>7, <2>8, <2>10
        DEF NothingRead, Copying, Renaming, NewIsThere, SaysChoice, BeforeCopy
    <2> QED
        BY <1>2, <2>9, <2>11 DEF LauncherInv
<1> QED
    BY <1>3, <1>4

LEMMA EndStep ==
    ASSUME LauncherInv, End
    PROVE  LauncherInv' /\ \A d \in Dirs : profile'[d].user_js = profile[d].user_js
<1>1. /\ LauncherTypeOK /\ UNCHANGED <<tv, env, used, edits>> /\ launch' = Off
      /\ \/ profile' = [profile EXCEPT ![launch.dir]["prefs_js"] = launch.value]
         \/ profile' = profile
    BY DEF LauncherInv, End, Set
<1>2. launch \in Launches /\ launch.dir \in Dirs /\ launch.value \in Renderings
    BY <1>1, TypeFacts DEF Launches
<1>3. /\ profile' \in [Dirs -> Profiles]
      /\ \A d \in Dirs : profile'[d].user_js = profile[d].user_js
    BY <1>1, <1>2 DEF LauncherTypeOK, Profiles
<1>4. FilesMarked'
    BY <1>3, FilesKept
<1>5. launch' \in Launches /\ launch'.pc = "off" /\ launch'.line = 0 /\ ~launch'.skip_next
    BY <1>1 DEF Off, Launches, Dirs, Users, Renderings
<1>6. LauncherTypeOK'
    BY <1>1, <1>3, <1>5 DEF LauncherTypeOK
<1>7. (NothingRead /\ Copying /\ Renaming /\ NewIsThere /\ SaysChoice)'
    BY <1>5, NotYetCopying DEF BeforeCopy
<1> QED
    BY <1>3, <1>4, <1>6, <1>7 DEF LauncherInv

\* The user's line goes anywhere in the file: it is no mark, and no launch is copying.
LEMMA EditStep ==
    ASSUME LauncherInv, NEW d \in Dirs, Edit(d)
    PROVE  LauncherInv'
<1> DEFINE js == profile[d].user_js
<1>1. /\ LauncherTypeOK /\ launch.pc \in {"off", "firefox"} /\ js.owner # "none"
      /\ edits' = edits + 1
      /\ UNCHANGED <<launch, tv, env, used>>
    BY DEF LauncherInv, Edit
<1>2. PICK p \in 0..Len(js.lines), line \in {"user", "open"} :
        profile' = [profile EXCEPT ![d].user_js.lines = Inserted(@, p, line)]
    BY DEF Edit
<1>3. /\ \A e \in Dirs : profile[e] \in Profiles
      /\ js \in Files /\ js.lines \in Seq(Lines)
    BY <1>1, TypeFacts
<1> DEFINE lines == Inserted(js.lines, p, line)
           file == [js EXCEPT !.lines = lines]
<1>4. OneMark(js.lines)
    BY DEF LauncherInv, FilesMarked
<1>5. lines \in Seq(Lines) /\ OneMark(lines)
    BY <1>3, <1>4, InsertedMarks
<1>6. profile' = [profile EXCEPT ![d] = [profile[d] EXCEPT !.user_js = file]]
    BY <1>1, <1>2, <1>3 DEF LauncherTypeOK, Profiles, Files
<1> HIDE DEF lines
<1>7. file \in Files /\ file.owner # "none" /\ file.lines = lines
    BY <1>1, <1>3, <1>5 DEF Files
<1> HIDE DEF file
<1>8. /\ profile' \in [Dirs -> Profiles]
      /\ profile'[d].user_js = file
      /\ \A e \in Dirs : profile'[e].new = profile[e].new
      /\ \A e \in Dirs : e # d => profile'[e] = profile[e]
    BY <1>1, <1>3, <1>6, <1>7 DEF LauncherTypeOK, Profiles
<1>9. LauncherTypeOK'
    BY <1>1, <1>8 DEF LauncherTypeOK
<1>10. FilesMarked'
    BY <1>5, <1>7, <1>8 DEF LauncherInv, FilesMarked
<1>11. Barred' = Barred
    BY <1>1, <1>8, TypeFacts DEF Barred
<1>12. (NothingRead /\ Copying /\ Renaming /\ NewIsThere /\ SaysChoice)'
    BY <1>1, <1>11
    DEF LauncherInv, NothingRead, Copying, Renaming, NewIsThere, SaysChoice, BeforeCopy
<1> QED
    BY <1>9, <1>10, <1>12 DEF LauncherInv

LEMMA LauncherStep ==
    ASSUME LauncherInv, [LauncherNext]_launcherVars
    PROVE  LauncherInv'
<1>1. CASE UNCHANGED launcherVars
    BY <1>1
    DEF launcherVars, LauncherInv, LauncherTypeOK, FilesMarked, NothingRead, Copying, Renaming,
        NewIsThere, SaysChoice, Barred, Js, New
<1>2. ASSUME NEW uid \in Users, Start(uid) PROVE LauncherInv'
    BY <1>2, StartLaunchStep
<1>3. ASSUME NEW d \in Dirs, Edit(d) PROVE LauncherInv'
    BY <1>3, EditStep
<1>4. CASE Give
    BY <1>4, GiveStep
<1>5. CASE GiveFiles
    BY <1>5, GiveFilesStep
<1>6. CASE FirstRun
    BY <1>6, FirstRunStep
<1>7. CASE FirstWrite
    BY <1>7, FirstWriteStep
<1>8. CASE Choose
    BY <1>8, ChooseStep
<1>9. CASE CopyLine
    BY <1>9, CopyLineStep
<1>10. CASE AddChoice
    BY <1>10, AddChoiceStep
<1>11. CASE Rename
    BY <1>11, RenameStep
<1>12. CASE Exec
    BY <1>12, ExecStep
<1>13. CASE End
    BY <1>13, EndStep
<1> QED
    BY <1>1, <1>2, <1>3, <1>4, <1>5, <1>6, <1>7, <1>8, <1>9, <1>10, <1>11, <1>12, <1>13
    DEF LauncherNext

-----------------------------------------------------------------------------

\* The launcher's files and its launch keep their types, ended wherever it may be.
THEOREM LauncherTypeCorrect == LauncherSpec => []LauncherTypeOK
<1>1. LauncherInv => LauncherTypeOK
    BY DEF LauncherInv
<1> QED
    BY <1>1, LauncherInitInv, LauncherStep, PTL DEF LauncherSpec

\* Firefox runs with the rendering this launch has chosen, whatever is left in user.js
\* and prefs.js by launches on other TVs, by launches that were ended on the way and
\* by the user, and however much of user.js could be read, unless a launch from a root
\* shell has left a new file that this one may not write.
THEOREM ChosenRenderingRuns == LauncherSpec => []RenderingAsChosen
<1>1. LauncherInv => RenderingAsChosen
    BY DEF LauncherInv, SaysChoice, RenderingAsChosen
<1> QED
    BY <1>1, LauncherInitInv, LauncherStep, PTL DEF LauncherSpec

\* What EditsSurvive says of a step.
KeepsLines ==
    \A d \in Dirs :
        LET old == profile[d].user_js.lines
            now == profile'[d].user_js.lines
        IN  /\ launch.pc \notin {"off", "firefox"} /\ launch.whole =>
                   Cardinality(OfUser(now)) >= Cardinality(OfUser(old) \ BehindMark(old))
            /\ Cardinality(At(now, "mark")) <= 1

\* A user.js that stays as it is keeps the user's lines.
LEMMA UnchangedKeeps ==
    ASSUME NEW lines \in Seq(Lines)
    PROVE  Cardinality(OfUser(lines)) >= Cardinality(OfUser(lines) \ BehindMark(lines))
<1>1. IsFiniteSet(OfUser(lines)) /\ OfUser(lines) \ BehindMark(lines) \subseteq OfUser(lines)
    BY OfUserFinite
<1> QED
    BY <1>1, FS_Subset

\* Each step keeps them: only Rename puts other lines in their place, those of Renaming.
LEMMA LauncherStepKeeps ==
    ASSUME LauncherInv, [LauncherNext]_launcherVars
    PROVE  KeepsLines
<1> SUFFICES ASSUME NEW d \in Dirs
             PROVE  LET old == profile[d].user_js.lines
                        now == profile'[d].user_js.lines
                    IN  /\ launch.pc \notin {"off", "firefox"} /\ launch.whole =>
                               Cardinality(OfUser(now)) >= Cardinality(OfUser(old) \ BehindMark(old))
                        /\ Cardinality(At(now, "mark")) <= 1
    BY DEF KeepsLines
<1> DEFINE old == profile[d].user_js.lines
           now == profile'[d].user_js.lines
<1>1. LauncherInv' /\ LauncherTypeOK
    BY LauncherStep DEF LauncherInv
<1>2. old \in Seq(Lines)
    BY <1>1, TypeFacts
<1>3. Cardinality(At(now, "mark")) <= 1
    <2>1. OneMark(now)
        BY <1>1 DEF LauncherInv, FilesMarked
    <2> HIDE DEF now
    <2>2. CASE At(now, "mark") = {}
        BY <2>2, FS_EmptySet
    <2>3. CASE At(now, "mark") # {}
        <3>1. PICK i : i \in At(now, "mark")
            BY <2>3
        <3>2. At(now, "mark") = {i}
            BY <2>1, <3>1 DEF OneMark
        <3>3. Cardinality({i}) = 1
            BY FS_Singleton
        <3> QED
            BY <3>2, <3>3
    <2> QED
        BY <2>2, <2>3
<1>4. ASSUME now = old
      PROVE  Cardinality(OfUser(now)) >= Cardinality(OfUser(old) \ BehindMark(old))
    <2> HIDE DEF now, old
    <2>1. OfUser(now) = OfUser(old)
        BY <1>4
    <2> QED
        BY <1>2, <2>1, UnchangedKeeps
<1>5. \/ now = old
      \/ launch.pc \in {"off", "firefox"}
      \/ FirstWrite /\ d = launch.dir
      \/ Rename /\ d = launch.dir
    <2>1. CASE UNCHANGED launcherVars
        BY <2>1 DEF launcherVars
    <2>2. ASSUME NEW uid \in Users, Start(uid) PROVE launch.pc = "off"
        BY <2>2 DEF Start
    <2>3. ASSUME NEW e \in Dirs, Edit(e) PROVE launch.pc \in {"off", "firefox"}
        BY <2>3 DEF Edit
    <2>4. CASE Give
        BY <1>1, <2>4 DEF Give, Set, LauncherTypeOK, Profiles
    <2>5. CASE GiveFiles
        <3> DEFINE Given(file) == [file EXCEPT !.owner = IF @ = "none" THEN @ ELSE "app"]
        <3>1. profile' = [profile EXCEPT ![launch.dir].user_js = Given(@),
                                         ![launch.dir].new = Given(@)]
            BY <2>5 DEF GiveFiles
        <3>2. \A e \in Dirs : profile[e] \in Profiles /\ profile[e].user_js \in Files
            BY <1>1, TypeFacts
        <3>3. \A file \in Files : Given(file).lines = file.lines
            BY DEF Files
        <3> HIDE DEF Given
        <3>4. profile'[d].user_js \in {profile[d].user_js, Given(profile[d].user_js)}
            BY <1>1, <3>1, <3>2 DEF LauncherTypeOK, Profiles
        <3> QED
            BY <3>2, <3>3, <3>4
    <2>6. CASE FirstRun
        BY <2>6, FirstRunStep
    <2>7. CASE FirstWrite
        BY <2>7, FirstWriteStep
    <2>8. CASE Choose
        BY <2>8, ChooseStep
    <2>9. CASE CopyLine
        BY <2>9, CopyLineStep
    <2>10. CASE AddChoice
        BY <2>10, AddChoiceStep
    <2>11. CASE Rename
        BY <2>11, RenameStep
    <2>12. CASE Exec
        BY <2>12 DEF Exec
    <2>13. CASE End
        BY <2>13, EndStep
    <2> QED
        BY <2>1, <2>2, <2>3, <2>4, <2>5, <2>6, <2>7, <2>8, <2>9, <2>10, <2>11, <2>12, <2>13
        DEF LauncherNext
<1>6. ASSUME FirstWrite, d = launch.dir
      PROVE  Cardinality(OfUser(now)) >= Cardinality(OfUser(old) \ BehindMark(old))
    <2>1. old = <<>>
        BY <1>6, FirstWriteStep DEF Js
    <2>2. OfUser(<<>>) \ BehindMark(<<>>) = {}
        BY DEF OfUser
    <2>3. OfUser(old) \ BehindMark(old) = {}
        BY <2>1, <2>2
    <2>4. Cardinality(OfUser(now)) \in Nat
        BY <1>1, TypeFacts, OfUserFinite DEF LauncherInv, LauncherTypeOK, Profiles, Files
    <2> QED
        BY <2>3, <2>4, FS_EmptySet
<1>7. ASSUME Rename, d = launch.dir, launch.whole
      PROVE  Cardinality(OfUser(now)) >= Cardinality(OfUser(old) \ BehindMark(old))
    <2>1. launch.pc = "rename"
        BY <1>7 DEF Rename
    <2>2. Cardinality(OfUser(New)) >= Cardinality(OfUser(Js) \ BehindMark(Js))
        BY <1>7, <2>1 DEF LauncherInv, Renaming
    <2>3. now = New /\ old = Js
        BY <1>7, RenameStep DEF Js
    <2> HIDE DEF now, old
    <2>4. OfUser(now) = OfUser(New) /\ OfUser(old) \ BehindMark(old) = OfUser(Js) \ BehindMark(Js)
        BY <2>3
    <2> QED
        BY <2>2, <2>4
<1> QED
    BY <1>3, <1>4, <1>5, <1>6, <1>7

\* No launch, ended wherever it may be, takes out of a user.js that it has read to its
\* end a line that the user has added, but the one behind the mark, and no user.js has
\* two marks in it, for any number of launches and lines.
THEOREM UsersLinesSurvive == LauncherSpec => EditsSurvive
<1>1. LauncherInv /\ [LauncherNext]_launcherVars => KeepsLines
    BY LauncherStepKeeps
<1>2. [][KeepsLines]_launcherVars <=> EditsSurvive
    BY DEF KeepsLines, EditsSurvive
<1> QED
    BY <1>1, <1>2, LauncherInitInv, LauncherStep, PTL DEF LauncherSpec

=============================================================================
