------------------------------ MODULE RemoteFifo ------------------------------
(***************************************************************************)
(* What the Magic Remote's events are owed: they are applied one at a time *)
(* and in order, each as often as it was queued.  A queue of Room events   *)
(* drops the next ones.                                                    *)
(***************************************************************************)
EXTENDS Naturals, Sequences

CONSTANTS Events, NoEvent, Room

VARIABLES
    waiting,        \* the events queued
    applying        \* the one being applied, or NoEvent

fifoVars == <<waiting, applying>>

Init == waiting = <<>> /\ applying = NoEvent

Put(e) ==
    /\ Len(waiting) < Room
    /\ waiting' = Append(waiting, e)
    /\ UNCHANGED applying

Get ==
    /\ applying = NoEvent /\ waiting # <<>>
    /\ applying' = Head(waiting)
    /\ waiting' = Tail(waiting)

Done ==
    /\ applying # NoEvent
    /\ applying' = NoEvent
    /\ UNCHANGED waiting

Safe == Init /\ [][Get \/ Done \/ \E e \in Events : Put(e)]_fifoVars

\* An event queued is applied, however many come.
Spec == Safe /\ WF_fifoVars(Get \/ Done)

=============================================================================
