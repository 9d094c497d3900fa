------------------------------ MODULE MCLauncher ------------------------------
(* Launcher for TLC, with a view that leaves out what no later step reads: a new file that
   no launch is writing, preferences where user.js has the last word, how the copying
   went, used, and, of the TV and the env file, all but the choices to be made from them. *)
EXTENDS Launcher

Seen(d) ==
    [profile[d] EXCEPT
        !.new.lines = IF launch.dir = d /\ launch.pc \in {"copy", "rename"} THEN @ ELSE <<>>,
        !.prefs_js = IF Says(profile[d].user_js.lines) = "none" THEN @ ELSE "none"]

Choosing == launch.pc \in {"give", "give_files", "first", "first_write", "choose"}

SeenLaunch ==
    [(IF launch.pc = "copy" THEN launch ELSE [launch EXCEPT !.line = 0, !.skip_next = FALSE])
        EXCEPT !.whole = launch.pc = "rename" => @]

WhatMatters ==
    <<[d \in Dirs |-> Seen(d)], SeenLaunch, edits,
      IF Choosing THEN {Choice(TRUE), Choice(FALSE)} ELSE {}>>

==============================================================================
