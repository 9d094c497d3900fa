------------------------------- MODULE Launcher -------------------------------
(***************************************************************************)
(* geckotv (src/src/geckotv.c), the program that webOS starts and that     *)
(* becomes Firefox: which profile it uses, the profile's user.js, and the  *)
(* choice between the GPU and software rendering that it writes there.     *)
(* Firefox keeps what user.js says in prefs.js, so a preference stays set  *)
(* when user.js no longer mentions it.                                     *)
(*                                                                         *)
(* Between launches the TV gets another webOS, the user adds lines to a    *)
(* user.js or changes the env file, or runs geckotv from a root shell,     *)
(* which leaves files the app's user cannot write.  webOS may end the      *)
(* launch, or Firefox, at any time, and reading user.js may fail.  Of the  *)
(* environment only what decides about the profile and the rendering is    *)
(* here; nobody runs two launches at once, and the disk neither fills up   *)
(* nor loses what was written.                                             *)
(***************************************************************************)
EXTENDS Naturals, Sequences, FiniteSets, FiniteSetsExt

CONSTANTS
    RootInstalled,  \* the app's folder belongs to root, and the app's user cannot write there
    RootShell,      \* geckotv is run from a root shell, too
    AsWebos4,       \* WEBOS_XDG_AS_WEBOS4=1 may be in the env file
    MaxEdits        \* bound: lines the user adds

ASSUME LauncherConstants ==
    /\ {RootInstalled, RootShell, AsWebos4} \subseteq BOOLEAN
    /\ MaxEdits \in Nat

VARIABLES
    profile,    \* the folders a profile may be in
    launch,     \* the launch, or the Firefox it became
    tv,         \* the compositor
    env,        \* the env file
    used,       \* the profile of the user's first Firefox, or "none": for a property
    edits       \* lines the user has added

launcherVars == <<profile, launch, tv, env, used, edits>>

Dirs == {"app", "home"}
Users == {"app", "root"}

\* A file's owner, or "none" where there is no such file.
NoFile == [owner |-> "none", lines |-> <<>>]

\* whole, for a property: user.js has been read to its end.
Off ==
    [pc |-> "off", uid |-> "app", dir |-> "app", choice |-> "left",
     line |-> 0, skip_next |-> FALSE, whole |-> TRUE, value |-> "none"]

LauncherInit ==
    /\ profile = [d \in Dirs |-> [owner |-> "none", user_js |-> NoFile, new |-> NoFile,
                                  prefs_js |-> "none"]]
    /\ launch = Off
    /\ tv \in [subcompositor : BOOLEAN, foreign : BOOLEAN]
    /\ env = [software |-> "unset", flat |-> "unset", as_webos4 |-> FALSE]
    /\ used = "none"
    /\ edits = 0

-----------------------------------------------------------------------------
(* The choice. *)

\* flat_mode_compositor, of a compositor that answers.
ProbeFlat ==
    /\ ~tv.subcompositor
    /\ IF env.flat # "unset" THEN env.flat = "1" ELSE tv.foreign

\* flat_mode in the adapter, which as_webos4 keeps from seeing wl_subcompositor.
AdapterFlat ==
    /\ ~tv.subcompositor \/ env.as_webos4
    /\ IF env.flat # "unset" THEN env.flat = "1" ELSE tv.foreign

\* The rendering to write, or "left" as it is when the compositor is not reached.
Choice(reached) ==
    CASE env.software # "unset" -> IF env.software = "1" THEN "true" ELSE "false"
      [] env.software = "unset" /\ reached -> IF ProbeFlat THEN "true" ELSE "false"
      [] OTHER -> "left"

-----------------------------------------------------------------------------
(* user.js. *)

\* Mutant: only software rendering is written.
DropFalse(on) == IF on = "true" THEN <<"mark", on>> ELSE <<>>

\* What set_software_rendering puts at the new file's end ...
Written(on) == <<"mark", on>>

\* ... and what becomes of a last line that has no newline: the mark is glued to it.
Glued(lines) == [i \in DOMAIN lines |-> IF lines[i] = "open" THEN "glued" ELSE lines[i]]

\* What user.js says of the rendering: its last word.
Says(lines) ==
    LET words == {i \in DOMAIN lines : lines[i] \in {"true", "false"}}
    IN  IF words = {} THEN "none" ELSE lines[Max(words)]

-----------------------------------------------------------------------------
(* A launch. *)

Set(field, value) == profile' = [profile EXCEPT ![launch.dir][field] = value]

File(lines) == [owner |-> launch.uid, lines |-> lines]

Goes(pc) == launch' = [launch EXCEPT !.pc = pc]

\* usable_dir makes the folder if it can.
Usable(d, uid) ==
    \/ uid = "root" \/ d = "home"
    \/ profile[d].owner = "app"
    \/ profile[d].owner = "none" /\ ~RootInstalled

\* On this TV or another, with this env file or another, the profile's folder is chosen,
\* and made.
Start(uid) ==
    /\ launch.pc = "off"
    /\ uid = "app" \/ RootShell
    /\ LET d == IF Usable("app", uid) THEN "app" ELSE "home"
       IN  /\ launch' = [Off EXCEPT !.pc = IF uid = "root" THEN "give" ELSE "first",
                                    !.uid = uid, !.dir = d]
           /\ profile' = [profile EXCEPT ![d].owner = IF @ = "none" THEN uid ELSE @]
    /\ tv' \in [subcompositor : BOOLEAN, foreign : BOOLEAN]
    /\ env' \in [software : {"unset", "0", "1"}, flat : {"unset", "0", "1"},
                 as_webos4 : {FALSE, AsWebos4}]
    /\ UNCHANGED <<used, edits>>

\* give_profile, to the jail's user if there is a jail and it is not root's: the
\* folder, ...
Give ==
    /\ launch.pc = "give"
    /\ \/ Goes("first") /\ UNCHANGED profile
       \/ Goes("give_files") /\ Set("owner", "app")
    /\ UNCHANGED <<tv, env, used, edits>>

\* ... and then what is in it.
GiveFiles ==
    /\ launch.pc = "give_files"
    /\ LET Given(file) == [file EXCEPT !.owner = IF @ = "none" THEN @ ELSE "app"]
       IN  profile' = [profile EXCEPT ![launch.dir].user_js = Given(@),
                                      ![launch.dir].new = Given(@)]
    /\ Goes("first")
    /\ UNCHANGED <<tv, env, used, edits>>

\* No user.js: it is made ...
FirstRun ==
    /\ launch.pc = "first"
    /\ IF profile[launch.dir].user_js.owner # "none"
       THEN Goes("choose") /\ UNCHANGED profile
       ELSE Goes("first_write") /\ Set("user_js", File(<<>>))
    /\ UNCHANGED <<tv, env, used, edits>>

\* ... and written in place.
FirstWrite ==
    /\ launch.pc = "first_write"
    /\ Set("user_js", File(<<"first">>))
    /\ Goes("choose")
    /\ UNCHANGED <<tv, env, used, edits>>

\* Mutant: user.js itself is opened for writing.
OpenInPlace == Set("user_js", File(<<>>))

\* fopen(user.js.geckotv-new, "w"): made, or cut to nothing ...
OpenNew ==
    profile' = [profile EXCEPT
        ![launch.dir].new = [owner |-> IF @.owner = "none" THEN launch.uid ELSE @.owner,
                             lines |-> <<>>]]

\* ... unless one is there that root's launch has left.
Barred == launch.uid = "app" /\ profile[launch.dir].new.owner = "root"

\* The compositor is asked, reached or not; a choice opens the new file, and is
\* dropped without a word if that fails.
Choose ==
    /\ launch.pc = "choose"
    /\ \E reached \in BOOLEAN :
         LET writes == Choice(reached) # "left" /\ ~Barred
         IN  /\ launch' = [launch EXCEPT !.choice = Choice(reached),
                                         !.pc = IF writes THEN "copy" ELSE "exec"]
             /\ IF writes THEN OpenNew ELSE UNCHANGED profile
    /\ UNCHANGED <<tv, env, used, edits>>

\* The loop in set_software_rendering: user.js has lines left, ...
LinesLeft == launch.line < Len(profile[launch.dir].user_js.lines)

\* ... and the next one is copied, but for the mark and the line after it.
CopyLine ==
    /\ launch.pc = "copy" /\ LinesLeft
    /\ LET line == profile[launch.dir].user_js.lines[launch.line + 1]
       IN  /\ launch' = [launch EXCEPT !.line = @ + 1, !.skip_next = ~@ /\ line = "mark"]
           /\ profile' = IF launch.skip_next \/ line = "mark" THEN profile
                         ELSE [profile EXCEPT ![launch.dir].new.lines = Append(@, line)]
    /\ UNCHANGED <<tv, env, used, edits>>

\* fgets gives no more lines, at the end, or because user.js cannot be opened or read:
\* nobody asks which.  The choice is added, the file is closed.
AddChoice ==
    /\ launch.pc = "copy"
    /\ profile' = [profile EXCEPT ![launch.dir].new.lines = Glued(@) \o Written(launch.choice)]
    /\ launch' = [launch EXCEPT !.pc = "rename", !.whole = ~LinesLeft]
    /\ UNCHANGED <<tv, env, used, edits>>

Rename ==
    /\ launch.pc = "rename"
    /\ profile' = [profile EXCEPT ![launch.dir].user_js = profile[launch.dir].new,
                                  ![launch.dir].new = NoFile]
    /\ Goes("exec")
    /\ UNCHANGED <<tv, env, used, edits>>

\* execv.  Firefox applies user.js over prefs.js; as root it refuses a profile of the
\* app's user.
Exec ==
    /\ launch.pc = "exec"
    /\ LET p == profile[launch.dir]
           says == Says(p.user_js.lines)
       IN  IF launch.uid = "root" /\ p.owner # "root"
           THEN launch' = Off /\ UNCHANGED used
           ELSE /\ launch' = [launch EXCEPT !.pc = "firefox",
                                            !.value = IF says = "none" THEN p.prefs_js ELSE says]
                /\ used' = IF used = "none" /\ launch.uid = "app" THEN launch.dir ELSE used
    /\ UNCHANGED <<profile, tv, env, edits>>

\* Firefox ends and has saved its preferences, or has not, or the launch is ended.
End ==
    /\ launch.pc # "off"
    /\ launch' = Off
    /\ \/ launch.pc = "firefox" /\ Set("prefs_js", launch.value)
       \/ UNCHANGED profile
    /\ UNCHANGED <<tv, env, used, edits>>

-----------------------------------------------------------------------------
(* Between launches. *)

\* lines with one more behind the first p.
Inserted(lines, p, line) ==
    [i \in 1..Len(lines) + 1 |->
        IF i <= p THEN lines[i] ELSE IF i = p + 1 THEN line ELSE lines[i - 1]]

\* The user adds a line to a user.js, also while Firefox runs, anywhere, or at the end
\* without a newline.  (Behind such a line he adds no other.)
Edit(d) ==
    /\ launch.pc \in {"off", "firefox"}
    /\ profile[d].user_js.owner # "none" /\ edits < MaxEdits
    /\ edits' = edits + 1
    /\ \E p \in 0..Len(profile[d].user_js.lines), line \in {"user", "open"} :
         LET lines == profile[d].user_js.lines
         IN  /\ line = "open" => p = Len(lines)
             /\ p = Len(lines) /\ p > 0 => lines[p] # "open"
             /\ profile' = [profile EXCEPT ![d].user_js.lines = Inserted(@, p, line)]
    /\ UNCHANGED <<launch, tv, env, used>>

LauncherNext ==
    \/ \E uid \in Users : Start(uid)
    \/ Give \/ GiveFiles \/ FirstRun \/ FirstWrite \/ Choose \/ CopyLine \/ AddChoice \/ Rename \/ Exec \/ End
    \/ \E d \in Dirs : Edit(d)

LauncherSpec == LauncherInit /\ [][LauncherNext]_launcherVars

-----------------------------------------------------------------------------
(* Properties. *)

Lines == {"first", "user", "open", "glued", "mark", "true", "false"}
Files == [owner : Users \cup {"none"}, lines : Seq(Lines)]
Renderings == {"none", "true", "false"}

Profiles ==
    [owner : Users \cup {"none"}, user_js : Files, new : Files, prefs_js : Renderings]

Launches ==
    [pc : {"off", "give", "give_files", "first", "first_write", "choose", "copy", "rename",
           "exec", "firefox"},
     uid : Users, dir : Dirs, choice : {"left", "true", "false"},
     line : Nat, skip_next : BOOLEAN, whole : BOOLEAN, value : Renderings]

\* The values the variables take.
LauncherTypeOK ==
    /\ profile \in [Dirs -> Profiles]
    /\ launch \in Launches
    /\ tv \in [subcompositor : BOOLEAN, foreign : BOOLEAN]
    /\ env \in [software : {"unset", "0", "1"}, flat : {"unset", "0", "1"}, as_webos4 : BOOLEAN]
    /\ used \in Dirs \cup {"none"}
    /\ edits \in Nat

\* The choice of this launch is what Firefox runs with, whatever earlier launches
\* chose on whatever TV, wherever they were ended, and however much of user.js could be
\* read; only a new file that a launch from a root shell has left keeps it unwritten.
RenderingAsChosen ==
    launch.pc = "firefox" /\ launch.choice # "left" /\ launch.value # launch.choice => Barred

\* The same without the exception: the comment above set_software_rendering has the
\* line rewritten at each start.
RewrittenAtEachStart ==
    launch.pc = "firefox" /\ launch.choice # "left" => launch.value = launch.choice

\* Where the adapter composes the window itself Firefox renders in software, as the
\* GPU path never gets a frame out there, if the compositor was asked and no override
\* says otherwise.
FlatInSoftware ==
    launch.pc = "firefox" /\ launch.choice # "left" /\ env.software = "unset" =>
        (launch.value = "true") = AdapterFlat

\* The places of a line in a file, those of the user's lines, and the one that is
\* dropped with the mark before it.
At(lines, line) == {i \in DOMAIN lines : lines[i] = line}
OfUser(lines) == {i \in DOMAIN lines : lines[i] \in {"user", "open", "glued"}}
BehindMark(lines) == {i + 1 : i \in At(lines, "mark")}

\* A launch, ended at any step and however often, leaves in user.js as many lines of
\* the user's as were there, but for one behind the mark, unless user.js could not be
\* read to its end; and there is never more than one mark.
EditsSurvive ==
    [][\A d \in Dirs :
         LET old == profile[d].user_js.lines
             now == profile'[d].user_js.lines
         IN  /\ launch.pc \notin {"off", "firefox"} /\ launch.whole =>
                    Cardinality(OfUser(now)) >= Cardinality(OfUser(old) \ BehindMark(old))
             /\ Cardinality(At(now, "mark")) <= 1]_launcherVars

\* What the comment in user.js's first run has: the user can edit it after.  No launch
\* takes a line of the user's out of it.
UserCanEdit ==
    [][\A d \in Dirs :
         Cardinality(OfUser(profile'[d].user_js.lines))
            >= Cardinality(OfUser(profile[d].user_js.lines))]_launcherVars

\* One choice is in user.js.
OneChoice ==
    \A d \in Dirs :
        LET lines == profile[d].user_js.lines
        IN  Cardinality(At(lines, "true") \cup At(lines, "false")) <= 1

\* The user's Firefox keeps its profile.
ProfileStays == launch.pc = "firefox" /\ launch.uid = "app" => launch.dir = used

=============================================================================
