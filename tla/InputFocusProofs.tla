--------------------------- MODULE InputFocusProofs ---------------------------
(***************************************************************************)
(* What InputFocus guarantees for any number of pop-ups, events and        *)
(* clicks.                                                                 *)
(*                                                                         *)
(* The compositor and GTK disagree while events are on their way, and the  *)
(* properties say nothing of that time.  The invariant therefore follows   *)
(* the wire: from the surface GTK was told of last, through every event    *)
(* that waits, to the surface the compositor means now, each step as that  *)
(* event allows (Leads).  Handling an event takes the first step off,      *)
(* sending one puts a step at the end, and a pop-up that closes disappears *)
(* from every place of the way at once, from the events and from what both *)
(* ends believe, so the way stays whole.  The clicks on their way are      *)
(* counted by the same means.                                              *)
(***************************************************************************)
EXTENDS InputFocus, SequenceTheorems, TLAPS

\* From state a, the elements of w lead to b, each by a step of R.
Leads(S, R, a, w, b) ==
  \E f \in [0..Len(w) -> S] :
    /\ f[0] = a /\ f[Len(w)] = b
    /\ \A i \in 1..Len(w) : <<f[i - 1], w[i], f[i]>> \in R

\* Nothing on the way leads nowhere.
LEMMA LeadsEmpty ==
  ASSUME NEW S, NEW R, NEW a \in S, NEW b
  PROVE  Leads(S, R, a, << >>, b) <=> a = b
<1>1. ASSUME a = b PROVE Leads(S, R, a, << >>, b)
  <2> DEFINE f == [i \in 0..Len(<< >>) |-> a]
  <2>1. f \in [0..Len(<< >>) -> S] /\ f[0] = a /\ f[Len(<< >>)] = b
    BY <1>1
  <2>2. \A i \in 1..Len(<< >>) : <<f[i - 1], << >>[i], f[i]>> \in R
    OBVIOUS
  <2> HIDE DEF f
  <2> QED
    BY <2>1, <2>2 DEF Leads
<1>2. ASSUME Leads(S, R, a, << >>, b) PROVE a = b
  BY <1>2 DEF Leads
<1> QED
  BY <1>1, <1>2

\* One more element, one more step.
LEMMA LeadsAppend ==
  ASSUME NEW S, NEW R, NEW T, NEW w \in Seq(T), NEW e \in T, NEW a, NEW b, NEW c \in S,
         Leads(S, R, a, w, b), <<b, e, c>> \in R
  PROVE  Leads(S, R, a, Append(w, e), c)
<1>1. PICK f \in [0..Len(w) -> S] :
        /\ f[0] = a /\ f[Len(w)] = b
        /\ \A i \in 1..Len(w) : <<f[i - 1], w[i], f[i]>> \in R
  BY DEF Leads
<1> DEFINE v == Append(w, e)
           g == [i \in 0..Len(v) |-> IF i <= Len(w) THEN f[i] ELSE c]
<1>2. Len(w) \in Nat /\ Len(v) = Len(w) + 1 /\ v[Len(w) + 1] = e
      /\ \A i \in 1..Len(w) : v[i] = w[i]
  OBVIOUS
<1>3. g \in [0..Len(v) -> S] /\ g[0] = a /\ g[Len(v)] = c
  BY <1>1, <1>2
<1>4. ASSUME NEW i \in 1..Len(v) PROVE <<g[i - 1], v[i], g[i]>> \in R
  <2>1. CASE i \in 1..Len(w)
    <3>1. g[i - 1] = f[i - 1] /\ g[i] = f[i] /\ v[i] = w[i]
      BY <1>2, <2>1
    <3> QED
      BY <1>1, <2>1, <3>1
  <2>2. CASE i = Len(w) + 1
    <3>1. g[i - 1] = b /\ g[i] = c /\ v[i] = e
      BY <1>1, <1>2, <2>2
    <3> QED
      BY <3>1
  <2>3. i \in 1..Len(w) \/ i = Len(w) + 1
    BY <1>2
  <2> QED
    BY <2>1, <2>2, <2>3, Zenon
<1> HIDE DEF g, v
<1> QED
  BY <1>3, <1>4 DEF Leads, v

\* The first element's step, and the way from there.
LEMMA LeadsTail ==
  ASSUME NEW S, NEW R, NEW T, NEW w \in Seq(T), w # << >>, NEW a, NEW b,
         Leads(S, R, a, w, b)
  PROVE  \E c \in S : <<a, Head(w), c>> \in R /\ Leads(S, R, c, Tail(w), b)
<1>1. PICK f \in [0..Len(w) -> S] :
        /\ f[0] = a /\ f[Len(w)] = b
        /\ \A i \in 1..Len(w) : <<f[i - 1], w[i], f[i]>> \in R
  BY DEF Leads
<1> DEFINE v == Tail(w)
           g == [i \in 0..Len(v) |-> f[i + 1]]
<1>2. Len(w) \in Nat \ {0} /\ Len(v) = Len(w) - 1 /\ Head(w) = w[1]
      /\ \A i \in 1..Len(v) : v[i] = w[i + 1]
  OBVIOUS
<1>3. g \in [0..Len(v) -> S] /\ g[0] = f[1] /\ g[Len(v)] = b
  BY <1>1, <1>2
<1>4. ASSUME NEW i \in 1..Len(v) PROVE <<g[i - 1], v[i], g[i]>> \in R
  <2>1. i + 1 \in 1..Len(w) /\ (i + 1) - 1 = i /\ g[i - 1] = f[i] /\ g[i] = f[i + 1]
    BY <1>2
  <2>2. <<f[(i + 1) - 1], w[i + 1], f[i + 1]>> \in R
    BY <1>1, <2>1
  <2> QED
    BY <1>2, <2>1, <2>2
<1>5. <<a, Head(w), f[1]>> \in R /\ f[1] \in S
  <2>1. 1 \in 1..Len(w) /\ 1 - 1 = 0
    BY <1>2
  <2> QED
    BY <1>1, <1>2, <2>1
<1> HIDE DEF g, v
<1>6. Leads(S, R, f[1], v, b)
  BY <1>3, <1>4 DEF Leads
<1> QED
  BY <1>5, <1>6 DEF v

\* What is done alike to all states and elements leaves the way whole.
LEMMA LeadsMap ==
  ASSUME NEW S, NEW R, NEW T, NEW w \in Seq(T), NEW a \in S, NEW b \in S,
         NEW h \in [S -> S], NEW v \in Seq(T), Len(v) = Len(w),
         \A i \in 1..Len(w), x, y \in S :
             <<x, w[i], y>> \in R => <<h[x], v[i], h[y]>> \in R,
         Leads(S, R, a, w, b)
  PROVE  Leads(S, R, h[a], v, h[b])
<1>1. PICK f \in [0..Len(w) -> S] :
        /\ f[0] = a /\ f[Len(w)] = b
        /\ \A i \in 1..Len(w) : <<f[i - 1], w[i], f[i]>> \in R
  BY DEF Leads
<1> DEFINE g == [i \in 0..Len(w) |-> h[f[i]]]
<1>2. Len(w) \in Nat /\ Len(v) = Len(w)
  OBVIOUS
<1>3. g \in [0..Len(w) -> S] /\ g[0] = h[a] /\ g[Len(w)] = h[b]
  BY <1>1, <1>2
<1>4. ASSUME NEW i \in 1..Len(w) PROVE <<g[i - 1], v[i], g[i]>> \in R
  <2>1. i - 1 \in 0..Len(w) /\ i \in 0..Len(w)
    BY <1>2
  <2> QED
    BY <1>1, <2>1
<1> HIDE DEF g
<1> QED
  BY <1>2, <1>3, <1>4 DEF Leads

-----------------------------------------------------------------------------
(* Types, and what may be named at all. *)

\* The compositor means the window, its layer or overlay, or a pop-up that is there.
Named ==
  IF tv.overlay THEN {Main, Content, Overlay, None} ELSE {Main, None} \cup menus

NamesWhatIs ==
  /\ ~tv.overlay => ~ov_ptr_on /\ ov_ptr_popup = None
  /\ synth_focus \in {Main, None} \cup (IF tv.overlay THEN {} ELSE menus)
  /\ pointer_at \in Named /\ keys_at \in Named
  /\ wire \in Seq([kind : Kinds, on : Named])

Typed == TypeOK /\ NamesWhatIs

\* A sequence over a set is one over each larger set.
LEMMA SeqLarger ==
  ASSUME NEW A, NEW B, A \subseteq B, NEW w \in Seq(A)
  PROVE  w \in Seq(B)
OBVIOUS

\* Sending is appending, or nothing where there is no surface to name.
LEMMA SentIsAppended ==
  ASSUME NEW A, NEW w \in Seq([kind : Kinds, on : A]), NEW k \in Kinds, NEW s \in A
  PROVE  /\ w \o Sent(k, s) \in Seq([kind : Kinds, on : A])
         /\ s = None => w \o Sent(k, s) = w
         /\ s # None => w \o Sent(k, s) = Append(w, [kind |-> k, on |-> s])
<1>1. CASE s = None
  BY <1>1 DEF Sent
<1>2. CASE s # None
  <2> DEFINE e == [kind |-> k, on |-> s]
  <2>1. e \in [kind : Kinds, on : A]
    OBVIOUS
  <2>2. Sent(k, s) = <<e>>
    BY <1>2 DEF Sent
  <2> HIDE DEF e
  <2>3. w \o <<e>> = Append(w, e) /\ Append(w, e) \in Seq([kind : Kinds, on : A])
    BY <2>1
  <2> QED
    BY <1>2, <2>2, <2>3 DEF e
<1> QED
  BY <1>1, <1>2

\* A function of a sequence's indices is a sequence of the same length.
LEMMA SameIndices ==
  ASSUME NEW T, NEW U, NEW w \in Seq(T), NEW v \in [DOMAIN w -> U]
  PROVE  v \in Seq(U) /\ Len(v) = Len(w)
<1>1. Len(w) \in Nat /\ DOMAIN w = 1..Len(w)
  BY LenProperties
<1>2. v \in Seq(U)
  BY <1>1, SeqDef
<1> QED
  BY <1>1, <1>2, LenProperties

\* A pop-up that closes is no longer named on the wire.
LEMMA ForgottenOnWire ==
  ASSUME Typed, NEW m \in menus, CloseMenu(m)
  PROVE  /\ wire' \in Seq([kind : Kinds, on : Named'])
         /\ Len(wire') = Len(wire)
         /\ \A i \in 1..Len(wire) : wire'[i] = [kind |-> wire[i].kind,
                                                on |-> Forgotten(wire[i].on, m)]
<1> DEFINE T == [kind : Kinds, on : Named]
           U == [kind : Kinds, on : Named']
<1>1. Named' = IF tv.overlay THEN Named ELSE Named \ {m}
  <2>1. m \notin {Main, None}
    BY FocusConstants DEF Typed, TypeOK
  <2> QED
    BY <2>1 DEF CloseMenu, Named
<1>2. \A s \in Named : Forgotten(s, m) \in Named'
  <2>1. None \in Named' /\ m # None
    BY <1>1, FocusConstants DEF Named, Typed, TypeOK
  <2>2. tv.overlay => m \notin Named
    BY FocusConstants DEF Named, Typed, TypeOK
  <2> QED
    BY <1>1, <2>1, <2>2 DEF Forgotten
<1>3. wire \in Seq(T) /\ wire' = [i \in DOMAIN wire |-> [wire[i] EXCEPT !.on = Forgotten(@, m)]]
  BY DEF CloseMenu, Typed, NamesWhatIs
<1>4. DOMAIN wire = 1..Len(wire) /\ \A i \in DOMAIN wire : wire[i] \in T
  <2> HIDE DEF T
  <2> QED
    BY <1>3, LenProperties
<1>5. \A i \in DOMAIN wire : wire'[i] = [kind |-> wire[i].kind, on |-> Forgotten(wire[i].on, m)]
  BY <1>3, <1>4
<1>6. wire' \in [DOMAIN wire -> U]
  BY <1>2, <1>3, <1>4
<1>7. wire' \in Seq(U) /\ Len(wire') = Len(wire)
  <2> HIDE DEF T, U
  <2> QED
    BY <1>3, <1>6, SameIndices
<1> QED
  BY <1>4, <1>5, <1>7

\* What a handler of an event has before it, and what it leaves.
LEMMA DispatchTyped ==
  ASSUME Typed, NEW k, Dispatch(k)
  PROVE  /\ wire \in Seq([kind : Kinds, on : Named]) /\ wire # << >>
         /\ Head(wire) \in [kind : Kinds, on : Named] /\ Head(wire).kind = k
         /\ wire' = Tail(wire) /\ wire' \in Seq([kind : Kinds, on : Named])
         /\ Head(wire).on \in Named
<1> DEFINE T == [kind : Kinds, on : Named]
<1>1. wire \in Seq(T) /\ wire # << >> /\ wire' = Tail(wire) /\ Head(wire).kind = k
  BY DEF Typed, NamesWhatIs, Dispatch
<1>2. Head(wire) \in T /\ wire' \in Seq(T)
  <2> HIDE DEF T
  <2> QED
    BY <1>1, HeadTailProperties
<1> QED
  BY <1>1, <1>2

\* The wire's type implies the plainer one of TypeOK.
LEMMA WireTyped ==
  ASSUME NEW A, A \subseteq Surfaces, NEW w \in Seq([kind : Kinds, on : A])
  PROVE  w \in Seq([kind : Kinds, on : Surfaces])
<1> DEFINE T == [kind : Kinds, on : A]
           U == [kind : Kinds, on : Surfaces]
<1>1. T \subseteq U /\ w \in Seq(T)
  OBVIOUS
<1> HIDE DEF T, U
<1>2. w \in Seq(U)
  BY <1>1, SeqMonotonic
<1> QED
  BY <1>2 DEF U

\* GTK is told of surfaces it made, or of none.
Told == [at : {Main, None} \cup Menus, astray : BOOLEAN]

LEMMA ToldTyped ==
  ASSUME NEW g \in Told, NEW s \in {Main, None} \cup Menus
  PROVE  Entered(g, s) \in Told /\ Left(g, s) \in Told
BY DEF Told, Entered, Left

\* Every step keeps the types and the names.
LEMMA TypedStep ==
  ASSUME Typed, [Next]_vars
  PROVE  Typed'
<1> USE FocusConstants DEF Typed, TypeOK, menuVars, ptrVars, keyVars, serverVars, clickVars
<1>1. ASSUME NEW m \in Menus, OpenMenu(m) PROVE Typed'
  <2> DEFINE T == [kind : Kinds, on : Named]
             U == [kind : Kinds, on : Named']
  <2>1. Named \subseteq Named' /\ menus' \subseteq Menus
    BY <1>1 DEF OpenMenu, Named
  <2>2. wire' \in Seq(U)
    <3>1. T \subseteq U /\ wire \in Seq(T) /\ wire' = wire
      BY <1>1, <2>1 DEF OpenMenu, NamesWhatIs
    <3> HIDE DEF T, U
    <3> QED
      BY <3>1, SeqMonotonic
  <2> QED
    BY <1>1, <2>1, <2>2 DEF OpenMenu, NamesWhatIs
<1>2. ASSUME NEW m \in Menus, ShowMenu(m) PROVE Typed'
  BY <1>2 DEF ShowMenu, NamesWhatIs, Named
<1>3. ASSUME NEW m \in Menus, CloseMenu(m) PROVE Typed'
  <2>1. m \in menus /\ menus' \subseteq Menus
    BY <1>3 DEF CloseMenu
  <2>2. wire' \in Seq([kind : Kinds, on : Named'])
    BY <1>3, <2>1, ForgottenOnWire
  <2>3. wire' \in Seq([kind : Kinds, on : Surfaces])
    <3>1. Named' \subseteq Surfaces
      BY <1>3, <2>1 DEF CloseMenu, Named, Surfaces
    <3> HIDE DEF Typed
    <3> QED
      BY <2>2, <3>1, WireTyped
  <2>4. NamesWhatIs'
    BY <1>3, <2>1, <2>2 DEF CloseMenu, FocusForgets, Forgotten, NamesWhatIs, Named
  <2> QED
    BY <1>3, <2>1, <2>3, <2>4 DEF CloseMenu, FocusForgets, Forgotten, NamesWhatIs, Named, Surfaces
<1>4. ASSUME NEW s \in Surfaces, MovePointer(s) PROVE Typed'
  <2> DEFINE v == wire \o Sent("leave", pointer_at)
  <2>1. s \in Named
    BY <1>4 DEF MovePointer, Focusable, Named
  <2>2. v \in Seq([kind : Kinds, on : Named])
    BY SentIsAppended DEF NamesWhatIs, Kinds
  <2>3. v \o Sent("enter", s) \in Seq([kind : Kinds, on : Named])
    BY <2>1, <2>2, SentIsAppended DEF Kinds
  <2>4. wire' = v \o Sent("enter", s) /\ pointer_at' = s /\ Named' = Named
    BY <1>4 DEF MovePointer, Named
  <2>5. wire' \in Seq([kind : Kinds, on : Surfaces])
    BY <2>3, <2>4, WireTyped DEF Named, Surfaces
  <2> QED
    BY <1>4, <2>1, <2>3, <2>4, <2>5 DEF MovePointer, NamesWhatIs
<1>5. ASSUME NEW s \in Surfaces, MoveKeys(s) PROVE Typed'
  <2> DEFINE v == wire \o Sent("keyboard_leave", keys_at)
  <2>1. s \in Named
    BY <1>5 DEF MoveKeys, Focusable, Named
  <2>2. v \in Seq([kind : Kinds, on : Named])
    BY SentIsAppended DEF NamesWhatIs, Kinds
  <2>3. v \o Sent("keyboard_enter", s) \in Seq([kind : Kinds, on : Named])
    BY <2>1, <2>2, SentIsAppended DEF Kinds
  <2>4. wire' = v \o Sent("keyboard_enter", s) /\ keys_at' = s /\ Named' = Named
    BY <1>5 DEF MoveKeys, Named
  <2>5. wire' \in Seq([kind : Kinds, on : Surfaces])
    BY <2>3, <2>4, WireTyped DEF Named, Surfaces
  <2> QED
    BY <1>5, <2>1, <2>3, <2>4, <2>5 DEF MoveKeys, NamesWhatIs
<1>6. ASSUME NEW k \in {"motion", "press"}, wire' = wire \o Sent(k, pointer_at) \/ wire' = wire,
             Named' = Named
      PROVE  /\ wire' \in Seq([kind : Kinds, on : Named'])
             /\ wire' \in Seq([kind : Kinds, on : Surfaces])
  <2>1. wire \o Sent(k, pointer_at) \in Seq([kind : Kinds, on : Named])
    BY SentIsAppended DEF NamesWhatIs, Kinds
  <2>2. wire' \in Seq([kind : Kinds, on : Named])
    BY <1>6, <2>1 DEF NamesWhatIs
  <2> QED
    BY <1>6, <2>2, WireTyped DEF Named, Surfaces
<1>7. CASE Motion
  <2>1. Named' = Named
    BY <1>7 DEF Motion, Named
  <2>2. wire' = wire \o Sent("motion", pointer_at)
    BY <1>7 DEF Motion
  <2> QED
    BY <1>6, <1>7, <2>1, <2>2 DEF Motion, NamesWhatIs
<1>8. CASE Click
  <2>1. Named' = Named
    BY <1>8 DEF Click, Named
  <2>2. wire' = wire \o Sent("press", pointer_at) \/ wire' = wire
    BY <1>8 DEF Click
  <2> QED
    BY <1>6, <1>8, <2>1, <2>2 DEF Click, NamesWhatIs
<1>9. CASE Notch
  BY <1>9 DEF Notch, NamesWhatIs, Named
<1>10. CASE Idle
  BY <1>10 DEF Idle, NamesWhatIs, Named
<1>11. ASSUME NEW k, Dispatch(k)
       PROVE  /\ Named' = Named
              /\ Head(wire).on \in Named
              /\ InputSurface(Head(wire).on) \in
                     {Main, None} \cup (IF tv.overlay THEN {} ELSE menus)
              /\ ~tv.overlay => Head(wire).on # Overlay
              /\ wire' \in Seq([kind : Kinds, on : Named'])
              /\ wire' \in Seq([kind : Kinds, on : Surfaces])
  <2>1. Named' = Named
    BY <1>11 DEF Dispatch, Named
  <2>2. Head(wire).on \in Named /\ wire' \in Seq([kind : Kinds, on : Named])
    BY <1>11, DispatchTyped
  <2>3. wire' \in Seq([kind : Kinds, on : Surfaces])
    BY <2>2, WireTyped DEF Named, Surfaces
  <2> QED
    BY <2>1, <2>2, <2>3 DEF Named, InputSurface, Main, Content, Overlay, None
<1>12. CASE PointerEnter
  <2>1. Dispatch("enter")
    BY <1>12 DEF PointerEnter
  <2>2. /\ Named' = Named
        /\ Head(wire).on \in Named
        /\ InputSurface(Head(wire).on) \in
               {Main, None} \cup (IF tv.overlay THEN {} ELSE menus)
        /\ ~tv.overlay => Head(wire).on # Overlay
        /\ wire' \in Seq([kind : Kinds, on : Named'])
        /\ wire' \in Seq([kind : Kinds, on : Surfaces])
    BY <1>11, <2>1
  <2>3. CASE Head(wire).on = Overlay
    <3>1. gtk' \in Told
      BY <1>12, <2>3, ToldTyped DEF PointerEnter, OvHit, Told
    <3> QED
      BY <1>12, <2>2, <2>3, <3>1 DEF PointerEnter, Dispatch, OvHit, NamesWhatIs, Told
  <2>4. CASE Head(wire).on # Overlay
    <3>1. gtk' \in Told
      BY <1>12, <2>2, <2>4, ToldTyped DEF PointerEnter, Told
    <3> QED
      BY <1>12, <2>2, <2>4, <3>1 DEF PointerEnter, Dispatch, NamesWhatIs, Told
  <2> QED
    BY <2>3, <2>4
<1>13. CASE PointerLeave
  <2>1. Dispatch("leave")
    BY <1>13 DEF PointerLeave
  <2>2. /\ Named' = Named
        /\ Head(wire).on \in Named
        /\ InputSurface(Head(wire).on) \in
               {Main, None} \cup (IF tv.overlay THEN {} ELSE menus)
        /\ ~tv.overlay => Head(wire).on # Overlay
        /\ wire' \in Seq([kind : Kinds, on : Named'])
        /\ wire' \in Seq([kind : Kinds, on : Surfaces])
    BY <1>11, <2>1
  <2>3. CASE Head(wire).on = Overlay
    <3>1. gtk' \in Told
      BY <1>13, <2>3, ToldTyped DEF PointerLeave, Told
    <3> QED
      BY <1>13, <2>2, <2>3, <3>1 DEF PointerLeave, Dispatch, NamesWhatIs, Told
  <2>4. CASE Head(wire).on # Overlay
    <3>1. gtk' \in Told
      BY <1>13, <2>2, <2>4, ToldTyped DEF PointerLeave, Told
    <3> QED
      BY <1>13, <2>2, <2>4, <3>1 DEF PointerLeave, Dispatch, Forgotten, NamesWhatIs, Told
  <2> QED
    BY <2>3, <2>4
<1>14. CASE PointerMotion
  <2>1. Dispatch("motion")
    BY <1>14 DEF PointerMotion
  <2>2. /\ Named' = Named
        /\ Head(wire).on \in Named
        /\ InputSurface(Head(wire).on) \in
               {Main, None} \cup (IF tv.overlay THEN {} ELSE menus)
        /\ ~tv.overlay => Head(wire).on # Overlay
        /\ wire' \in Seq([kind : Kinds, on : Named'])
        /\ wire' \in Seq([kind : Kinds, on : Surfaces])
    BY <1>11, <2>1
  <2>3. CASE ov_ptr_on
    BY <1>14, <2>2, <2>3 DEF PointerMotion, Dispatch, OvHit, Entered, Left, NamesWhatIs
  <2>4. CASE ~ov_ptr_on
    BY <1>14, <2>2, <2>4 DEF PointerMotion, Dispatch, OvHit, Entered, Left, NamesWhatIs
  <2> QED
    BY <2>3, <2>4
<1>15. CASE PointerButton
  <2>1. Dispatch("press")
    BY <1>15 DEF PointerButton
  <2>2. /\ Named' = Named
        /\ Head(wire).on \in Named
        /\ InputSurface(Head(wire).on) \in
               {Main, None} \cup (IF tv.overlay THEN {} ELSE menus)
        /\ ~tv.overlay => Head(wire).on # Overlay
        /\ wire' \in Seq([kind : Kinds, on : Named'])
        /\ wire' \in Seq([kind : Kinds, on : Surfaces])
    BY <1>11, <2>1
  <2> QED
    BY <1>15, <2>2 DEF PointerButton, Dispatch, NamesWhatIs
<1>16. CASE KeyboardEnter
  BY <1>11, <1>16 DEF KeyboardEnter, Dispatch, IsPopupSurface, NamesWhatIs
<1>17. CASE KeyboardLeave
  <2>1. Dispatch("keyboard_leave")
    BY <1>17 DEF KeyboardLeave
  <2>2. /\ Named' = Named
        /\ Head(wire).on \in Named
        /\ InputSurface(Head(wire).on) \in
               {Main, None} \cup (IF tv.overlay THEN {} ELSE menus)
        /\ ~tv.overlay => Head(wire).on # Overlay
        /\ wire' \in Seq([kind : Kinds, on : Named'])
        /\ wire' \in Seq([kind : Kinds, on : Surfaces])
    BY <1>11, <2>1
  <2>3. CASE LeaveSwallowed(InputSurface(Head(wire).on))
    BY <1>17, <2>2, <2>3 DEF KeyboardLeave, Dispatch, NamesWhatIs
  <2>4. CASE ~LeaveSwallowed(InputSurface(Head(wire).on))
    BY <1>17, <2>2, <2>4 DEF KeyboardLeave, Dispatch, NamesWhatIs
  <2> QED
    BY <2>3, <2>4
<1>18. CASE ApplyClick
  <2>1. Named' = Named
    BY <1>18 DEF ApplyClick, Drain, Named
  <2>2. CASE UNCHANGED <<synth_focus, gtk, told>>
    BY <1>18, <2>1, <2>2 DEF ApplyClick, Drain, NamesWhatIs
  <2>3. ASSUME NEW over \in PopupAt, told' = told + 1,
               FocusAndMove(IF over = None THEN Main ELSE over)
        PROVE  Typed'
    <3> DEFINE target == IF over = None THEN Main ELSE over
    <3>1. target \in {Main, None} \cup (IF tv.overlay THEN {} ELSE menus)
      BY DEF PopupAt
    <3> HIDE DEF target
    <3>2. synth_focus' = target /\ gtk' \in Told
      <4>1. Left(gtk, synth_focus) \in Told
        BY ToldTyped DEF Told
      <4>2. Entered(Left(gtk, synth_focus), target) \in Told
        BY <3>1, <4>1, ToldTyped
      <4> QED
        BY <2>3, <4>2 DEF FocusAndMove, Told, target
    <3> QED
      BY <1>18, <2>1, <2>3, <3>1, <3>2 DEF ApplyClick, Drain, NamesWhatIs, Told
  <2> QED
    BY <1>18, <2>2, <2>3 DEF ApplyClick
<1>19. CASE ApplyOther
  <2>1. Named' = Named
    BY <1>19 DEF ApplyOther, Drain, Named
  <2> QED
    BY <1>19, <2>1 DEF ApplyOther, Drain, NamesWhatIs
<1>20. CASE UNCHANGED vars
  BY <1>20 DEF vars, NamesWhatIs, Named
<1> HIDE DEF Typed
<1> QED
  BY <1>1, <1>2, <1>3, <1>4, <1>5, <1>7, <1>8, <1>9, <1>10, <1>12, <1>13, <1>14, <1>15, <1>16,
     <1>17, <1>18, <1>19, <1>20 DEF Next, Gtk, Server, Remote, Handlers, Surfaces

-----------------------------------------------------------------------------
(* The ways of the two focuses. *)

Events == [kind : Kinds, on : Surfaces]

\* Which events carry a focus from where to where: it is entered from nowhere
\* and left for nowhere.
Follows(enter, leave) ==
  {t \in Surfaces \X Events \X Surfaces :
    \/ t[2].kind = enter /\ t[1] = None /\ t[3] = t[2].on
    \/ t[2].kind = leave /\ t[1] = t[2].on /\ t[3] = None
    \/ t[2].kind \notin {enter, leave} /\ t[3] = t[1]}

PointerSteps == Follows("enter", "leave")
KeySteps == Follows("keyboard_enter", "keyboard_leave")

LEMMA FollowsStep ==
  ASSUME NEW enter, NEW leave, NEW x \in Surfaces, NEW y \in Surfaces, NEW e \in Events
  PROVE  <<x, e, y>> \in Follows(enter, leave) <=>
           \/ e.kind = enter /\ x = None /\ y = e.on
           \/ e.kind = leave /\ x = e.on /\ y = None
           \/ e.kind \notin {enter, leave} /\ y = x
<1>1. <<x, e, y>> \in Surfaces \X Events \X Surfaces
  OBVIOUS
<1> HIDE DEF Events
<1> QED
  BY <1>1 DEF Follows

LEMMA SentEvents ==
  ASSUME NEW w \in Seq(Events), NEW k \in Kinds, NEW s \in Surfaces
  PROVE  /\ w \o Sent(k, s) \in Seq(Events)
         /\ s = None => w \o Sent(k, s) = w
         /\ s # None => w \o Sent(k, s) = Append(w, [kind |-> k, on |-> s])
BY SentIsAppended DEF Events

\* A focus moves on, at the end of its way.
LEMMA FollowsMove ==
  ASSUME NEW enter \in Kinds, NEW leave \in Kinds, enter # leave,
         NEW a \in Surfaces, NEW b \in Surfaces, NEW c \in Surfaces, NEW w \in Seq(Events),
         Leads(Surfaces, Follows(enter, leave), a, w, b)
  PROVE  Leads(Surfaces, Follows(enter, leave), a, w \o Sent(leave, b) \o Sent(enter, c), c)
<1> DEFINE R == Follows(enter, leave)
           v == w \o Sent(leave, b)
<1>1. v \in Seq(Events) /\ Leads(Surfaces, R, a, v, None)
  <2> DEFINE e == [kind |-> leave, on |-> b]
  <2>1. /\ v \in Seq(Events)
        /\ b = None => v = w
        /\ b # None => v = Append(w, e)
    BY SentEvents
  <2>2. e \in Events /\ None \in Surfaces
    BY DEF Events, Surfaces
  <2>3. <<b, e, None>> \in R
    BY <2>2, FollowsStep
  <2>4. CASE b = None
    BY <2>1, <2>4
  <2>5. CASE b # None
    <3> HIDE DEF e, v, R
    <3>1. Leads(Surfaces, R, a, Append(w, e), None)
      BY <2>2, <2>3, LeadsAppend DEF R
    <3> QED
      BY <2>1, <2>5, <3>1 DEF v
  <2> QED
    BY <2>1, <2>4, <2>5
<1> HIDE DEF v
<1>2. Leads(Surfaces, R, a, v \o Sent(enter, c), c)
  <2> DEFINE e == [kind |-> enter, on |-> c]
             u == v \o Sent(enter, c)
  <2>1. /\ c = None => u = v
        /\ c # None => u = Append(v, e)
    BY <1>1, SentEvents
  <2>2. e \in Events /\ None \in Surfaces
    BY DEF Events, Surfaces
  <2>3. <<None, e, c>> \in R
    BY <2>2, FollowsStep
  <2>4. CASE c = None
    BY <1>1, <2>1, <2>4
  <2>5. CASE c # None
    <3> HIDE DEF e, u, R
    <3>1. Leads(Surfaces, R, a, Append(v, e), c)
      BY <1>1, <2>2, <2>3, LeadsAppend DEF R
    <3> QED
      BY <2>1, <2>5, <3>1 DEF u
  <2> QED
    BY <2>1, <2>4, <2>5
<1> QED
  BY <1>2 DEF v

\* Events of another kind leave a focus where it is.
LEMMA FollowsOther ==
  ASSUME NEW enter, NEW leave, NEW k \in Kinds \ {enter, leave}, NEW s \in Surfaces,
         NEW a \in Surfaces, NEW b \in Surfaces, NEW w \in Seq(Events),
         Leads(Surfaces, Follows(enter, leave), a, w, b)
  PROVE  /\ Leads(Surfaces, Follows(enter, leave), a, w \o Sent(k, s), b)
         /\ w \o Sent(k, s) \in Seq(Events)
<1> DEFINE R == Follows(enter, leave)
           v == w \o Sent(k, s)
           e == [kind |-> k, on |-> s]
<1>1. /\ v \in Seq(Events)
      /\ s = None => v = w
      /\ s # None => v = Append(w, e)
  BY SentEvents
<1>2. e \in Events
  BY DEF Events
<1>3. <<b, e, b>> \in R
  BY <1>2, FollowsStep
<1>4. Leads(Surfaces, R, a, Append(w, e), b)
  <2> HIDE DEF e, R
  <2> QED
    BY <1>2, <1>3, LeadsAppend DEF R
<1> QED
  BY <1>1, <1>4

\* A pop-up that closes is taken out of the way of each focus.
LEMMA FollowsClose ==
  ASSUME Typed, NEW m \in menus, CloseMenu(m), NEW enter, NEW leave,
         NEW a \in Surfaces, NEW b \in Surfaces,
         Leads(Surfaces, Follows(enter, leave), a, wire, b)
  PROVE  Leads(Surfaces, Follows(enter, leave), Forgotten(a, m), wire', Forgotten(b, m))
<1> DEFINE R == Follows(enter, leave)
           h == [s \in Surfaces |-> Forgotten(s, m)]
<1>1. h \in [Surfaces -> Surfaces] /\ h[a] = Forgotten(a, m) /\ h[b] = Forgotten(b, m)
  BY DEF Forgotten, Surfaces
<1>2. wire \in Seq(Events) /\ wire' \in Seq(Events)
  <2>1. Typed'
    <3>1. [Next]_vars
      BY DEF Typed, TypeOK, Next, Gtk
    <3> QED
      BY <3>1, TypedStep
  <2> QED
    BY <2>1 DEF Typed, TypeOK, Events
<1>3. /\ Len(wire') = Len(wire)
      /\ \A i \in 1..Len(wire) : wire'[i] = [kind |-> wire[i].kind,
                                             on |-> Forgotten(wire[i].on, m)]
  BY ForgottenOnWire
<1>4. ASSUME NEW i \in 1..Len(wire), NEW x \in Surfaces, NEW y \in Surfaces,
             <<x, wire[i], y>> \in R
      PROVE  <<h[x], wire'[i], h[y]>> \in R
  <2>1. wire[i] \in Events /\ wire'[i] \in Events
    BY <1>2, <1>3, ElementOfSeq
  <2>2. \/ wire[i].kind = enter /\ x = None /\ y = wire[i].on
        \/ wire[i].kind = leave /\ x = wire[i].on /\ y = None
        \/ wire[i].kind \notin {enter, leave} /\ y = x
    BY <1>4, <2>1, FollowsStep
  <2>3. wire'[i].kind = wire[i].kind /\ wire'[i].on = Forgotten(wire[i].on, m)
    <3>1. wire'[i] = [kind |-> wire[i].kind, on |-> Forgotten(wire[i].on, m)]
      BY <1>3
    <3> QED
      BY <3>1
  <2>4. h[x] \in Surfaces /\ h[y] \in Surfaces /\ h[x] = Forgotten(x, m) /\ h[y] = Forgotten(y, m)
    BY <1>1
  <2>5. Forgotten(None, m) = None
    BY DEF Forgotten
  <2>6. \/ wire'[i].kind = enter /\ h[x] = None /\ h[y] = wire'[i].on
        \/ wire'[i].kind = leave /\ h[x] = wire'[i].on /\ h[y] = None
        \/ wire'[i].kind \notin {enter, leave} /\ h[y] = h[x]
    BY <2>2, <2>3, <2>4, <2>5
  <2> HIDE DEF h
  <2> QED
    BY <2>1, <2>4, <2>6, FollowsStep
<1> HIDE DEF R, h
<1>5. Leads(Surfaces, R, h[a], wire', h[b])
  BY <1>1, <1>2, <1>3, <1>4, LeadsMap DEF R
<1> QED
  BY <1>1, <1>5 DEF R

\* An event is handled: it was the first step of each focus's way.
LEMMA FollowsDispatch ==
  ASSUME Typed, NEW k, Dispatch(k), NEW enter, NEW leave,
         NEW a \in Surfaces, NEW b \in Surfaces,
         Leads(Surfaces, Follows(enter, leave), a, wire, b)
  PROVE  \E c \in Surfaces :
           /\ Leads(Surfaces, Follows(enter, leave), c, wire', b)
           /\ \/ k = enter /\ a = None /\ c = Head(wire).on
              \/ k = leave /\ a = Head(wire).on /\ c = None
              \/ k \notin {enter, leave} /\ c = a
<1> DEFINE R == Follows(enter, leave)
<1>1. wire \in Seq(Events) /\ wire # << >> /\ wire' = Tail(wire) /\ Head(wire).kind = k
  BY DEF Typed, TypeOK, Dispatch, Events
<1>2. Head(wire) \in Events
  BY <1>1, HeadTailProperties
<1>3. PICK c \in Surfaces : <<a, Head(wire), c>> \in R /\ Leads(Surfaces, R, c, Tail(wire), b)
  <2> HIDE DEF R
  <2> QED
    BY <1>1, LeadsTail DEF R
<1>4. \/ k = enter /\ a = None /\ c = Head(wire).on
      \/ k = leave /\ a = Head(wire).on /\ c = None
      \/ k \notin {enter, leave} /\ c = a
  BY <1>1, <1>2, <1>3, FollowsStep
<1> QED
  BY <1>1, <1>3, <1>4

\* What may be named is a surface.
LEMMA NamedSurfaces ==
  ASSUME Typed
  PROVE  /\ Named \subseteq Surfaces /\ wire \in Seq(Events)
         /\ pointer_at \in Named /\ keys_at \in Named
BY DEF Typed, TypeOK, NamesWhatIs, Named, Surfaces, Events

\* Input on the overlay and the layer is the window's; a pop-up has its own where
\* it is a surface of the compositor's.
LEMMA InputSurfaces ==
  ASSUME Typed, NEW s \in Named
  PROVE  \/ InputSurface(s) = Main /\ s # None
         \/ InputSurface(s) = None /\ s = None
         \/ InputSurface(s) = s /\ s \in menus /\ ~tv.overlay
              /\ s \notin {Main, Content, Overlay, None}
BY FocusConstants DEF Typed, TypeOK, Named, InputSurface, Main, Content, Overlay, None

LEMMA MainIsNotNone == Main # None
BY DEF Main, None

-----------------------------------------------------------------------------
(* The keyboard. *)

\* GTK and the filter know of the keyboard being at K: that it is GTK's window's,
\* or that it is not, unless GTK was spared the news.
KeysKnown(K) ==
  IF InputSurface(K) = Main
  THEN gtk_keys = Main /\ focused_keys
  ELSE gtk_keys = None \/ swallowed

KeysFollow ==
  \E K \in Named : KeysKnown(K) /\ Leads(Surfaces, KeySteps, K, wire, keys_at)

\* The ways of the keyboard's focus go on.
LEMMA KeysStep ==
  ASSUME Typed, KeysFollow, [Next]_vars
  PROVE  KeysFollow'
<1>1. PICK K \in Named : KeysKnown(K) /\ Leads(Surfaces, KeySteps, K, wire, keys_at)
  BY DEF KeysFollow
<1>2. Named \subseteq Surfaces /\ wire \in Seq(Events) /\ pointer_at \in Named /\ keys_at \in Named
  BY NamedSurfaces
<1>3. ASSUME NEW L \in Named', KeysKnown(L)', Leads(Surfaces, KeySteps, L, wire', keys_at')
      PROVE  KeysFollow'
  BY <1>3 DEF KeysFollow
<1> HIDE DEF KeysFollow
\* GTK and the filter are told of nothing.
<1>4. ASSUME UNCHANGED keyVars, Named \subseteq Named',
             Leads(Surfaces, KeySteps, K, wire', keys_at')
      PROVE  KeysFollow'
  <2>1. KeysKnown(K)'
    BY <1>1, <1>4 DEF KeysKnown, keyVars
  <2> QED
    BY <1>3, <1>4, <2>1
<1>5. ASSUME UNCHANGED <<keyVars, wire, keys_at>>, Named \subseteq Named'
      PROVE  KeysFollow'
  <2>1. wire' = wire /\ keys_at' = keys_at /\ UNCHANGED keyVars
    BY <1>5
  <2> QED
    BY <1>1, <1>4, <1>5, <2>1
<1>6. ASSUME NEW m \in Menus, OpenMenu(m) \/ ShowMenu(m) PROVE KeysFollow'
  <2>1. Named \subseteq Named'
    BY <1>6 DEF OpenMenu, ShowMenu, Named
  <2> QED
    BY <1>5, <1>6, <2>1 DEF OpenMenu, ShowMenu, serverVars
<1>7. ASSUME NEW m \in Menus, CloseMenu(m) PROVE KeysFollow'
  <2>1. m \in menus /\ keys_at' = Forgotten(keys_at, m)
    BY <1>7 DEF CloseMenu
  <2>2. Leads(Surfaces, KeySteps, Forgotten(K, m), wire', keys_at')
    BY <1>1, <1>2, <1>7, <2>1, FollowsClose DEF KeySteps
  <2>3. Forgotten(K, m) \in Named' /\ KeysKnown(Forgotten(K, m))'
    <3>1. m \notin {Main, Content, Overlay, None}
      BY <2>1, FocusConstants DEF Typed, TypeOK
    <3>2. Forgotten(K, m) \in Named'
      BY <1>7, <3>1 DEF CloseMenu, Forgotten, Named
    <3>3. KeysKnown(Forgotten(K, m))
      <4>1. InputSurface(m) = m /\ InputSurface(None) = None
        BY <3>1 DEF InputSurface, Overlay, Content, None
      <4> QED
        BY <1>1, <3>1, <4>1, MainIsNotNone DEF Forgotten, KeysKnown
    <3>4. ASSUME NEW L, KeysKnown(L) PROVE KeysKnown(L)'
      BY <1>7, <3>4 DEF CloseMenu, KeysKnown, keyVars
    <3>5. PICK L \in Named' : L = Forgotten(K, m)
      BY <3>2
    <3>6. KeysKnown(L)'
      BY <3>3, <3>4, <3>5
    <3> QED
      BY <3>2, <3>5, <3>6
  <2> QED
    BY <1>3, <2>2, <2>3
<1>8. ASSUME NEW s \in Surfaces, MovePointer(s) PROVE KeysFollow'
  <2>1. wire' = wire \o Sent("leave", pointer_at) \o Sent("enter", s) /\ Named' = Named
        /\ keys_at' = keys_at /\ UNCHANGED keyVars
    BY <1>8 DEF MovePointer, Named, menuVars
  <2>2. /\ Leads(Surfaces, KeySteps, K, wire \o Sent("leave", pointer_at), keys_at)
        /\ wire \o Sent("leave", pointer_at) \in Seq(Events)
    BY <1>1, <1>2, FollowsOther DEF KeySteps, Kinds
  <2>3. Leads(Surfaces, KeySteps, K, wire', keys_at)
    BY <1>2, <2>1, <2>2, FollowsOther DEF KeySteps, Kinds
  <2> QED
    BY <1>4, <2>1, <2>3
<1>9. ASSUME NEW s \in Surfaces, MoveKeys(s) PROVE KeysFollow'
  <2>1. wire' = wire \o Sent("keyboard_leave", keys_at) \o Sent("keyboard_enter", s)
        /\ Named' = Named /\ keys_at' = s /\ UNCHANGED keyVars
    BY <1>9 DEF MoveKeys, Named, menuVars
  <2>2. Leads(Surfaces, KeySteps, K, wire', s)
    BY <1>1, <1>2, <2>1, FollowsMove DEF KeySteps, Kinds
  <2> QED
    BY <1>4, <2>1, <2>2
<1>10. CASE Motion \/ Click
  <2>1. PICK k \in {"motion", "press"} : wire' = wire \o Sent(k, pointer_at) \/ wire' = wire
    BY <1>10 DEF Motion, Click
  <2>2. Named' = Named /\ keys_at' = keys_at /\ UNCHANGED keyVars
    BY <1>10 DEF Motion, Click, Named, menuVars, serverVars
  <2>3. Leads(Surfaces, KeySteps, K, wire \o Sent(k, pointer_at), keys_at)
    BY <1>1, <1>2, FollowsOther DEF KeySteps, Kinds
  <2>4. Leads(Surfaces, KeySteps, K, wire', keys_at')
    BY <1>1, <2>1, <2>2, <2>3
  <2> QED
    BY <1>4, <2>2, <2>4
<1>11. CASE Notch \/ Idle \/ ApplyClick \/ ApplyOther \/ UNCHANGED vars
  <2>1. UNCHANGED <<keyVars, wire, keys_at>> /\ Named' = Named
    BY <1>11 DEF Notch, Idle, ApplyClick, ApplyOther, Drain, vars, menuVars, serverVars, keyVars,
       Named
  <2> QED
    BY <1>5, <2>1
<1>12. ASSUME NEW k, Dispatch(k)
       PROVE  \E c \in Named :
                /\ Named' = Named
                /\ Leads(Surfaces, KeySteps, c, wire', keys_at')
                /\ \/ k = "keyboard_enter" /\ K = None /\ c = Head(wire).on
                   \/ k = "keyboard_leave" /\ K = Head(wire).on /\ c = None
                   \/ k \notin {"keyboard_enter", "keyboard_leave"} /\ c = K
  <2>1. Named' = Named /\ keys_at' = keys_at
    BY <1>12 DEF Dispatch, Named, menuVars, serverVars
  <2>2. Head(wire).on \in Named /\ None \in Named
    BY <1>12, DispatchTyped DEF Named
  <2> QED
    BY <1>1, <1>2, <1>12, <2>1, <2>2, FollowsDispatch DEF KeySteps
<1>13. CASE PointerEnter \/ PointerLeave \/ PointerMotion \/ PointerButton
  <2>1. PICK k \in {"enter", "leave", "motion", "press"} : Dispatch(k) /\ UNCHANGED keyVars
    BY <1>13 DEF PointerEnter, PointerLeave, PointerMotion, PointerButton
  <2> QED
    BY <1>4, <1>12, <2>1
<1>14. CASE KeyboardEnter
  <2>1. PICK c \in Named : /\ Named' = Named
                           /\ Leads(Surfaces, KeySteps, c, wire', keys_at')
                           /\ K = None /\ c = Head(wire).on
    BY <1>12, <1>14 DEF KeyboardEnter
  <2>2. KeysKnown(c)'
    <3>1. IF InputSurface(c) = Main
          THEN gtk_keys' = Main /\ focused_keys'
          ELSE gtk_keys' = None \/ swallowed'
      <4>1. CASE IsPopupSurface(InputSurface(c)) \/ InputSurface(c) = None
        <5>1. InputSurface(c) # Main
          BY <4>1, FocusConstants, MainIsNotNone DEF IsPopupSurface, Typed, TypeOK
        <5>2. InputSurface(None) # Main
          BY MainIsNotNone DEF InputSurface, Overlay, Content, None
        <5>3. gtk_keys' = gtk_keys /\ swallowed' = swallowed
          BY <1>14, <2>1, <4>1 DEF KeyboardEnter
        <5> QED
          BY <1>1, <2>1, <5>1, <5>2, <5>3 DEF KeysKnown
      <4>2. CASE ~(IsPopupSurface(InputSurface(c)) \/ InputSurface(c) = None)
        <5>1. InputSurface(c) = Main
          BY <4>2, InputSurfaces DEF IsPopupSurface
        <5>2. gtk_keys' = Main /\ focused_keys'
          BY <1>14, <2>1, <4>2, <5>1 DEF KeyboardEnter
        <5> QED
          BY <5>1, <5>2
      <4> QED
        BY <4>1, <4>2
    <3> QED
      BY <3>1 DEF KeysKnown, InputSurface
  <2> QED
    BY <1>3, <2>1, <2>2
<1>15. CASE KeyboardLeave
  <2>1. PICK c \in Named : /\ Named' = Named
                           /\ Leads(Surfaces, KeySteps, c, wire', keys_at')
                           /\ K = Head(wire).on /\ c = None
    BY <1>12, <1>15 DEF KeyboardLeave
  <2>2. KeysKnown(c)'
    <3>1. InputSurface(c) # Main
      BY <2>1, MainIsNotNone DEF InputSurface, Overlay, Content, None
    <3>2. gtk_keys' = None \/ swallowed'
      <4>1. CASE LeaveSwallowed(InputSurface(K))
        <5>1. gtk_keys' = gtk_keys
          BY <1>15, <2>1, <4>1 DEF KeyboardLeave
        <5>2. CASE InputSurface(K) = Main
          <6>1. PopupIsOpen
            BY <4>1, <5>2, FocusConstants DEF LeaveSwallowed, IsPopupSurface, Typed, TypeOK
          <6> QED
            BY <1>15, <2>1, <4>1, <5>2, <6>1 DEF KeyboardLeave
        <5>3. CASE InputSurface(K) # Main
          <6>1. swallowed' = swallowed
            BY <1>15, <2>1, <4>1, <5>3 DEF KeyboardLeave, Typed, TypeOK
          <6> QED
            BY <1>1, <5>1, <5>3, <6>1 DEF KeysKnown
        <5> QED
          BY <5>2, <5>3
      <4>2. CASE ~LeaveSwallowed(InputSurface(K))
        <5>1. /\ swallowed' = swallowed
              /\ gtk_keys' = IF InputSurface(K) = None THEN gtk_keys ELSE None
          BY <1>15, <2>1, <4>2 DEF KeyboardLeave
        <5> QED
          BY <1>1, <5>1, MainIsNotNone DEF KeysKnown
      <4> QED
        BY <4>1, <4>2
    <3> QED
      BY <3>1, <3>2 DEF KeysKnown, InputSurface
  <2> QED
    BY <1>3, <2>1, <2>2
<1> QED
  BY <1>6, <1>7, <1>8, <1>9, <1>10, <1>11, <1>13, <1>14, <1>15
     DEF Next, Gtk, Server, Remote, Handlers, Surfaces

\* Types, names and the keyboard's way hold throughout, whatever the clicks do.
LEMMA KeysInvariant == Spec => [](Typed /\ KeysFollow)
<1>1. Init => Typed /\ KeysFollow
  <2> SUFFICES ASSUME Init PROVE Typed /\ KeysFollow
    OBVIOUS
  <2>1. Typed
    <3>1. wire \in Seq([kind : Kinds, on : Surfaces]) /\ wire \in Seq([kind : Kinds, on : Named])
          /\ ptr_q \in Seq({"press", "other"})
      BY EmptySeq DEF Init
    <3>2. gtk \in Told
      BY DEF Init, Told
    <3>3. made \in 0..MaxClicks /\ told \in Nat
      BY FocusConstants DEF Init
    <3>4. /\ focused_keys \in BOOLEAN /\ swallowed \in BOOLEAN /\ recent \in BOOLEAN
          /\ ov_ptr_on \in BOOLEAN
      BY Zenon DEF Init
    <3>5. /\ tv \in [overlay : BOOLEAN, delivers : BOOLEAN]
          /\ shown \subseteq menus /\ menus \subseteq Menus
          /\ synth_focus \in {Main, None} \cup Menus /\ ov_ptr_popup \in {None} \cup shown
          /\ gtk_keys \in {Main, None} /\ pointer_at \in Surfaces /\ keys_at \in Surfaces
      BY Zenon DEF Init, Surfaces
    <3>6. TypeOK
      BY <3>1, <3>2, <3>3, <3>4, <3>5, Zenon DEF TypeOK, Told
    <3> QED
      BY <3>1, <3>6 DEF Init, Typed, NamesWhatIs, Named
  <2>2. Leads(Surfaces, KeySteps, None, wire, keys_at)
    BY LeadsEmpty DEF Init, Surfaces
  <2>3. KeysKnown(None) /\ None \in Named
    BY MainIsNotNone DEF Init, KeysKnown, InputSurface, Overlay, Content, None, Named
  <2> QED
    BY <2>1, <2>2, <2>3 DEF KeysFollow
<1>2. Typed /\ KeysFollow /\ [Next]_vars => (Typed /\ KeysFollow)'
  BY TypedStep, KeysStep
<1> QED
  BY <1>1, <1>2, PTL DEF Spec

\* The variables keep their types.
THEOREM TypeCorrect == Spec => []TypeOK
<1>1. Typed => TypeOK
  BY DEF Typed
<1> QED
  BY <1>1, KeysInvariant, PTL

\* keyboard_enter and keyboard_leave: with the menus closed and everything handled,
\* GTK and focused_keys are right about the keyboard, however many pop-ups came, took
\* the keyboard and closed with its events on their way.
THEOREM KeyboardIsKnown == Spec => []KeyboardBelief
<1>1. Typed /\ KeysFollow => KeyboardBelief
  <2> SUFFICES ASSUME Typed, KeysFollow, wire = << >>
               PROVE  IF InputSurface(keys_at) = Main
                      THEN gtk_keys = Main /\ focused_keys
                      ELSE gtk_keys = None \/ swallowed
    BY DEF KeyboardBelief
  <2>1. PICK K \in Named : KeysKnown(K) /\ Leads(Surfaces, KeySteps, K, wire, keys_at)
    BY DEF KeysFollow
  <2>2. K = keys_at
    BY <2>1, NamedSurfaces, LeadsEmpty
  <2> QED
    BY <2>1, <2>2 DEF KeysKnown
<1> QED
  BY <1>1, KeysInvariant, PTL

-----------------------------------------------------------------------------
(* The pointer, where the compositor delivers its events. *)

\* GTK was told of the surface, or of the pop-up in the overlay, the pointer is at.
PointerKnown(C) ==
  /\ gtk.at = IF C = Overlay THEN ov_ptr_popup ELSE InputSurface(C)
  /\ ov_ptr_on <=> C = Overlay

PointerFollows ==
  \E C \in Named : PointerKnown(C) /\ Leads(Surfaces, PointerSteps, C, wire, pointer_at)

\* The adapter tells GTK of no pointer of its own.
NoInjection == ApplyClick => UNCHANGED <<synth_focus, gtk, told>>

\* The way of the pointer's focus goes on, and GTK is not led astray on it.
LEMMA PointerStep ==
  ASSUME Typed, tv.delivers, NeverAstray, PointerFollows, NoInjection, [Next]_vars
  PROVE  NeverAstray' /\ PointerFollows'
<1>1. PICK C \in Named : PointerKnown(C) /\ Leads(Surfaces, PointerSteps, C, wire, pointer_at)
  BY DEF PointerFollows
<1>2. Named \subseteq Surfaces /\ wire \in Seq(Events) /\ pointer_at \in Named /\ keys_at \in Named
  BY NamedSurfaces
<1>3. gtk \in Told /\ ~gtk.astray
  BY DEF Typed, TypeOK, NeverAstray, Told
<1>4. ASSUME NEW D \in Named', PointerKnown(D)', Leads(Surfaces, PointerSteps, D, wire', pointer_at')
      PROVE  PointerFollows'
  BY <1>4 DEF PointerFollows
<1> HIDE DEF PointerFollows
\* GTK and the adapter learn nothing of the pointer.
<1>5. ASSUME UNCHANGED <<gtk, ov_ptr_on, ov_ptr_popup>>, Named \subseteq Named',
             Leads(Surfaces, PointerSteps, C, wire', pointer_at')
      PROVE  NeverAstray' /\ PointerFollows'
  <2>1. PointerKnown(C)'
    BY <1>1, <1>5 DEF PointerKnown, InputSurface
  <2> QED
    BY <1>3, <1>4, <1>5, <2>1 DEF NeverAstray
<1>6. ASSUME UNCHANGED <<gtk, ov_ptr_on, ov_ptr_popup, wire, pointer_at>>, Named \subseteq Named'
      PROVE  NeverAstray' /\ PointerFollows'
  <2>1. wire' = wire /\ pointer_at' = pointer_at
    BY <1>6
  <2> QED
    BY <1>1, <1>5, <1>6, <2>1
<1>7. ASSUME NEW m \in Menus, OpenMenu(m) \/ ShowMenu(m) PROVE NeverAstray' /\ PointerFollows'
  <2>1. Named \subseteq Named'
    BY <1>7 DEF OpenMenu, ShowMenu, Named
  <2> QED
    BY <1>6, <1>7, <2>1 DEF OpenMenu, ShowMenu, serverVars, ptrVars
<1>8. ASSUME NEW m \in Menus, CloseMenu(m) PROVE NeverAstray' /\ PointerFollows'
  <2>1. m \in menus /\ pointer_at' = Forgotten(pointer_at, m) /\ UNCHANGED <<tv, ov_ptr_on>>
        /\ gtk' = [gtk EXCEPT !.at = Forgotten(@, m)]
    BY <1>8 DEF CloseMenu
  <2>2. Leads(Surfaces, PointerSteps, Forgotten(C, m), wire', pointer_at')
    BY <1>1, <1>2, <1>8, <2>1, FollowsClose DEF PointerSteps
  <2>3. m \notin {Main, Content, Overlay, None}
    BY <2>1, FocusConstants DEF Typed, TypeOK
  <2>4. Forgotten(C, m) \in Named'
    BY <1>8, <2>3 DEF CloseMenu, Forgotten, Named
  <2>5. gtk'.at = Forgotten(gtk.at, m) /\ gtk'.astray = gtk.astray
    BY <1>3, <2>1 DEF Told
  <2>6. gtk'.at = IF Forgotten(C, m) = Overlay THEN ov_ptr_popup' ELSE InputSurface(Forgotten(C, m))
    <3>1. CASE C = Overlay
      <4>1. tv.overlay /\ ov_ptr_popup' = Forgotten(ov_ptr_popup, m)
        BY <1>8, <3>1, FocusConstants DEF CloseMenu, FocusForgets, Named, Typed, TypeOK, Overlay,
           Main, None
      <4> QED
        BY <1>1, <2>3, <2>5, <3>1, <4>1 DEF PointerKnown, Forgotten
    <3>2. CASE C = m
      <4>1. InputSurface(m) = m /\ InputSurface(None) = None /\ None # Overlay
        BY <2>3 DEF InputSurface, Overlay, Content, None
      <4> QED
        BY <1>1, <2>3, <2>5, <3>2, <4>1 DEF PointerKnown, Forgotten
    <3>3. CASE C \notin {Overlay, m}
      <4>1. InputSurface(C) # m
        BY <2>3, <3>3, InputSurfaces
      <4> QED
        BY <1>1, <2>5, <3>3, <4>1 DEF PointerKnown, Forgotten
    <3> QED
      BY <3>1, <3>2, <3>3
  <2>7. ov_ptr_on' <=> Forgotten(C, m) = Overlay
    <3>1. None # Overlay
      BY DEF None, Overlay
    <3> QED
      BY <1>1, <2>1, <2>3, <3>1 DEF PointerKnown, Forgotten
  <2>8. PICK D \in Named' : D = Forgotten(C, m)
    BY <2>4
  <2>9. PointerKnown(D)'
    BY <2>6, <2>7, <2>8 DEF PointerKnown, InputSurface
  <2> QED
    BY <1>3, <1>4, <2>2, <2>5, <2>8, <2>9 DEF NeverAstray
<1>9. ASSUME NEW s \in Surfaces, MovePointer(s) PROVE NeverAstray' /\ PointerFollows'
  <2>1. wire' = wire \o Sent("leave", pointer_at) \o Sent("enter", s) /\ Named' = Named
        /\ pointer_at' = s /\ UNCHANGED <<gtk, ov_ptr_on, ov_ptr_popup>>
    BY <1>9 DEF MovePointer, Named, menuVars, ptrVars
  <2>2. Leads(Surfaces, PointerSteps, C, wire', s)
    BY <1>1, <1>2, <2>1, FollowsMove DEF PointerSteps, Kinds
  <2> QED
    BY <1>5, <2>1, <2>2
<1>10. ASSUME NEW s \in Surfaces, MoveKeys(s) PROVE NeverAstray' /\ PointerFollows'
  <2>1. wire' = wire \o Sent("keyboard_leave", keys_at) \o Sent("keyboard_enter", s)
        /\ Named' = Named /\ pointer_at' = pointer_at
        /\ UNCHANGED <<gtk, ov_ptr_on, ov_ptr_popup>>
    BY <1>10 DEF MoveKeys, Named, menuVars, ptrVars
  <2>2. /\ Leads(Surfaces, PointerSteps, C, wire \o Sent("keyboard_leave", keys_at), pointer_at)
        /\ wire \o Sent("keyboard_leave", keys_at) \in Seq(Events)
    BY <1>1, <1>2, FollowsOther DEF PointerSteps, Kinds
  <2>3. Leads(Surfaces, PointerSteps, C, wire', pointer_at)
    BY <1>2, <2>1, <2>2, FollowsOther DEF PointerSteps, Kinds
  <2> QED
    BY <1>5, <2>1, <2>3
<1>11. CASE Motion \/ Click
  <2>1. PICK k \in {"motion", "press"} : wire' = wire \o Sent(k, pointer_at) \/ wire' = wire
    BY <1>11 DEF Motion, Click
  <2>2. Named' = Named /\ pointer_at' = pointer_at /\ UNCHANGED <<gtk, ov_ptr_on, ov_ptr_popup>>
    BY <1>11 DEF Motion, Click, Named, menuVars, ptrVars, serverVars
  <2>3. Leads(Surfaces, PointerSteps, C, wire \o Sent(k, pointer_at), pointer_at)
    BY <1>1, <1>2, FollowsOther DEF PointerSteps, Kinds
  <2>4. Leads(Surfaces, PointerSteps, C, wire', pointer_at')
    BY <1>1, <2>1, <2>2, <2>3
  <2> QED
    BY <1>5, <2>2, <2>4
<1>12. CASE Notch \/ Idle \/ ApplyClick \/ ApplyOther \/ UNCHANGED vars
  <2>1. UNCHANGED <<gtk, ov_ptr_on, ov_ptr_popup, wire, pointer_at>> /\ Named' = Named
    BY <1>12 DEF Notch, Idle, ApplyClick, ApplyOther, Drain, NoInjection, vars, menuVars, ptrVars,
       serverVars, Named
  <2> QED
    BY <1>6, <2>1
<1>13. ASSUME NEW k, Dispatch(k)
       PROVE  \E c \in Named :
                /\ Named' = Named
                /\ Leads(Surfaces, PointerSteps, c, wire', pointer_at')
                /\ \/ k = "enter" /\ C = None /\ c = Head(wire).on
                   \/ k = "leave" /\ C = Head(wire).on /\ c = None
                   \/ k \notin {"enter", "leave"} /\ c = C
  <2>1. Named' = Named /\ pointer_at' = pointer_at
    BY <1>13 DEF Dispatch, Named, menuVars, serverVars
  <2>2. Head(wire).on \in Named /\ None \in Named
    BY <1>13, DispatchTyped DEF Named
  <2> QED
    BY <1>1, <1>2, <1>13, <2>1, <2>2, FollowsDispatch DEF PointerSteps
<1>14. CASE KeyboardEnter \/ KeyboardLeave \/ PointerButton
  <2>1. PICK k \in {"keyboard_enter", "keyboard_leave", "press"} :
          Dispatch(k) /\ UNCHANGED <<gtk, ov_ptr_on, ov_ptr_popup>>
    BY <1>14 DEF KeyboardEnter, KeyboardLeave, PointerButton, ptrVars
  <2> QED
    BY <1>5, <1>13, <2>1
<1>15. CASE PointerEnter
  <2>1. PICK c \in Named : /\ Named' = Named
                           /\ Leads(Surfaces, PointerSteps, c, wire', pointer_at')
                           /\ C = None /\ c = Head(wire).on
    BY <1>13, <1>15 DEF PointerEnter
  <2>2. gtk.at = None
    BY <1>1, <2>1 DEF PointerKnown, InputSurface, None, Overlay, Content
  <2>3. ASSUME NEW s PROVE Entered(gtk, s).at = s /\ ~Entered(gtk, s).astray
    BY <1>3, <2>2 DEF Entered, Told
  <2>4. /\ gtk'.at = IF c = Overlay THEN ov_ptr_popup' ELSE InputSurface(c)
        /\ ~gtk'.astray
        /\ ov_ptr_on' <=> c = Overlay
    BY <1>15, <2>1, <2>3 DEF PointerEnter
  <2>5. PointerKnown(c)'
    BY <2>4 DEF PointerKnown, InputSurface
  <2> QED
    BY <1>4, <2>1, <2>4, <2>5 DEF NeverAstray
<1>16. CASE PointerLeave
  <2>1. PICK c \in Named : /\ Named' = Named
                           /\ Leads(Surfaces, PointerSteps, c, wire', pointer_at')
                           /\ C = Head(wire).on /\ c = None
    BY <1>13, <1>16 DEF PointerLeave
  <2>2. Left(gtk, gtk.at).at = None /\ ~Left(gtk, gtk.at).astray
    BY <1>3 DEF Left, Told
  <2>3. gtk' = Left(gtk, gtk.at) /\ ~ov_ptr_on'
    <3>1. CASE C = Overlay
      BY <1>1, <1>16, <2>1, <3>1 DEF PointerLeave, PointerKnown
    <3>2. CASE C # Overlay
      BY <1>1, <1>16, <2>1, <3>2 DEF PointerLeave, PointerKnown
    <3> QED
      BY <3>1, <3>2
  <2>4. PointerKnown(c)'
    BY <2>1, <2>2, <2>3 DEF PointerKnown, InputSurface, None, Overlay, Content
  <2> QED
    BY <1>4, <2>1, <2>2, <2>3, <2>4 DEF NeverAstray
<1>17. CASE PointerMotion
  <2>1. PICK c \in Named : /\ Named' = Named
                           /\ Leads(Surfaces, PointerSteps, c, wire', pointer_at')
                           /\ c = C
    BY <1>13, <1>17 DEF PointerMotion
  <2>2. CASE ov_ptr_on
    <3>1. gtk.at = ov_ptr_popup /\ C = Overlay
      BY <1>1, <2>2 DEF PointerKnown
    <3>2. PICK hit \in OvHit :
            /\ ov_ptr_popup' = hit
            /\ gtk' = IF hit = ov_ptr_popup THEN gtk ELSE Entered(Left(gtk, ov_ptr_popup), hit)
      BY <1>17, <2>2 DEF PointerMotion
    <3>3. gtk'.at = hit /\ ~gtk'.astray
      <4>1. Left(gtk, ov_ptr_popup) = [at |-> None, astray |-> FALSE]
        BY <1>3, <3>1 DEF Left, Told
      <4>2. CASE hit = ov_ptr_popup
        BY <1>3, <3>1, <3>2, <4>2
      <4>3. CASE hit # ov_ptr_popup
        <5>1. gtk' = Entered([at |-> None, astray |-> FALSE], hit)
          BY <3>2, <4>1, <4>3
        <5>2. CASE hit = None
          BY <5>1, <5>2 DEF Entered
        <5>3. CASE hit # None
          BY <5>1, <5>3 DEF Entered
        <5> QED
          BY <5>2, <5>3
      <4> QED
        BY <4>2, <4>3
    <3>4. PointerKnown(c)'
      BY <1>17, <2>1, <2>2, <3>1, <3>2, <3>3 DEF PointerMotion, PointerKnown
    <3> QED
      BY <1>4, <2>1, <3>3, <3>4 DEF NeverAstray
  <2>3. CASE ~ov_ptr_on
    BY <1>5, <1>17, <2>1, <2>3 DEF PointerMotion
  <2> QED
    BY <2>2, <2>3
<1> QED
  BY <1>7, <1>8, <1>9, <1>10, <1>11, <1>12, <1>14, <1>15, <1>16, <1>17
     DEF Next, Gtk, Server, Remote, Handlers, Surfaces

\* While clicks come only to a pointer that moved lately, one that waits to be
\* applied finds that it did.
MovedLately == (\E i \in 1..Len(ptr_q) : ptr_q[i] = "press") => recent

LEMMA MovedLatelyStep ==
  ASSUME Typed, ~IdleClicks, tv.delivers, MovedLately, [Next]_vars
  PROVE  MovedLately' /\ NoInjection
<1>1. ptr_q \in Seq({"press", "other"}) /\ recent \in BOOLEAN
  BY DEF Typed, TypeOK
<1>2. ASSUME ptr_q' = ptr_q, recent' = recent \/ recent' = TRUE PROVE MovedLately'
  BY <1>1, <1>2 DEF MovedLately
<1>3. ASSUME NEW k, Drain(k) PROVE MovedLately' /\ (k = "press" => recent)
  <2>1. ptr_q # << >> /\ k = Head(ptr_q) /\ ptr_q' = Tail(ptr_q) /\ recent' = recent
    BY <1>3 DEF Drain
  <2>2. Len(ptr_q) \in Nat \ {0} /\ Head(ptr_q) = ptr_q[1] /\ Len(Tail(ptr_q)) = Len(ptr_q) - 1
        /\ \A i \in 1..Len(Tail(ptr_q)) : Tail(ptr_q)[i] = ptr_q[i + 1]
    BY <1>1, <2>1
  <2>3. k = "press" => recent
    BY <2>1, <2>2 DEF MovedLately
  <2>4. ASSUME NEW i \in 1..Len(ptr_q'), ptr_q'[i] = "press" PROVE recent'
    <3>1. i + 1 \in 1..Len(ptr_q) /\ ptr_q[i + 1] = "press"
      BY <2>1, <2>2, <2>4
    <3> QED
      BY <2>1, <3>1 DEF MovedLately
  <2> QED
    BY <2>3, <2>4 DEF MovedLately
<1>4. NoInjection
  BY <1>3 DEF NoInjection, ApplyClick, Injects
<1>5. MovedLately'
  <2>1. ASSUME NEW m \in Menus, OpenMenu(m) \/ ShowMenu(m) \/ CloseMenu(m) PROVE MovedLately'
    BY <1>2, <2>1 DEF OpenMenu, ShowMenu, CloseMenu, ptrVars
  <2>2. ASSUME NEW s, MovePointer(s) \/ MoveKeys(s) PROVE MovedLately'
    BY <1>2, <2>2 DEF MovePointer, MoveKeys, ptrVars
  <2>3. CASE Motion
    BY <1>2, <2>3 DEF Motion, ptrVars
  <2>4. CASE Click
    BY <2>4 DEF Click, ptrVars, MovedLately
  <2>5. CASE Notch
    <3>1. ptr_q' = <<"other">>
      BY <2>5 DEF Notch
    <3> QED
      BY <3>1 DEF MovedLately
  <2>6. CASE Idle
    <3>1. ptr_q' = << >>
      BY <2>6 DEF Idle
    <3> QED
      BY <3>1 DEF MovedLately
  <2>7. ASSUME NEW k, Dispatch(k), recent' = recent \/ recent' = TRUE PROVE MovedLately'
    BY <1>2, <2>7 DEF Dispatch
  <2>8. CASE PointerEnter \/ PointerLeave \/ PointerMotion \/ PointerButton \/ KeyboardEnter
             \/ KeyboardLeave
    BY <2>7, <2>8 DEF PointerEnter, PointerLeave, PointerMotion, PointerButton, KeyboardEnter,
       KeyboardLeave, ptrVars
  <2>9. CASE ApplyClick \/ ApplyOther
    BY <1>3, <2>9 DEF ApplyClick, ApplyOther
  <2>10. CASE UNCHANGED vars
    BY <1>2, <2>10 DEF vars, ptrVars
  <2> QED
    BY <2>1, <2>2, <2>3, <2>4, <2>5, <2>6, <2>8, <2>9, <2>10 DEF Next, Gtk, Server, Remote, Handlers
<1> QED
  BY <1>4, <1>5

-----------------------------------------------------------------------------
(* The pointer, where the compositor delivers none of its events. *)

KeyEvents == {"keyboard_enter", "keyboard_leave"}

\* All that GTK knows of a pointer is what the adapter told it.
Silent ==
  /\ \A i \in 1..Len(wire) : wire[i].kind \in KeyEvents
  /\ pointer_at = None
  /\ gtk.at = synth_focus

LEMMA SilentStep ==
  ASSUME Typed, ~tv.delivers, NeverAstray, Silent, [Next]_vars
  PROVE  NeverAstray' /\ Silent'
<1>1. gtk \in Told /\ ~gtk.astray /\ wire \in Seq(Events) /\ keys_at \in Surfaces
  BY DEF Typed, TypeOK, NeverAstray, Told, Events
<1>2. ASSUME UNCHANGED <<wire, pointer_at, synth_focus, gtk>> PROVE NeverAstray' /\ Silent'
  BY <1>1, <1>2 DEF NeverAstray, Silent
<1>3. ASSUME NEW m \in Menus, OpenMenu(m) \/ ShowMenu(m) PROVE NeverAstray' /\ Silent'
  BY <1>2, <1>3 DEF OpenMenu, ShowMenu, ptrVars, serverVars
<1>4. ASSUME NEW m \in Menus, CloseMenu(m) PROVE NeverAstray' /\ Silent'
  <2>1. m \in menus /\ m # Main
    BY <1>4, FocusConstants DEF CloseMenu
  <2>2. \A i \in 1..Len(wire') : wire'[i].kind \in KeyEvents
    <3>1. /\ Len(wire') = Len(wire)
          /\ \A i \in 1..Len(wire) : wire'[i] = [kind |-> wire[i].kind,
                                                 on |-> Forgotten(wire[i].on, m)]
      BY <1>4, <2>1, ForgottenOnWire
    <3>2. ASSUME NEW i \in 1..Len(wire) PROVE wire'[i].kind \in KeyEvents
      <4>1. wire'[i] = [kind |-> wire[i].kind, on |-> Forgotten(wire[i].on, m)]
        BY <3>1
      <4>2. wire'[i].kind = wire[i].kind
        BY <4>1
      <4> QED
        BY <4>2 DEF Silent
    <3> QED
      BY <3>1, <3>2
  <2>3. gtk'.at = Forgotten(gtk.at, m) /\ gtk'.astray = gtk.astray
    BY <1>1, <1>4 DEF CloseMenu, Told
  <2>4. synth_focus' = Forgotten(synth_focus, m)
    <3>1. CASE tv.overlay
      <4>1. synth_focus # m
        BY <2>1, <3>1, FocusConstants DEF Typed, TypeOK, NamesWhatIs
      <4> QED
        BY <1>4, <3>1, <4>1 DEF CloseMenu, FocusForgets, Forgotten
    <3>2. CASE ~tv.overlay
      BY <1>4, <3>2 DEF CloseMenu, FocusForgets
    <3> QED
      BY <3>1, <3>2
  <2> QED
    BY <1>1, <1>4, <2>2, <2>3, <2>4 DEF CloseMenu, Silent, NeverAstray, Forgotten
<1>5. ASSUME NEW s \in Surfaces, MovePointer(s) PROVE FALSE
  BY <1>5 DEF MovePointer
<1>6. ASSUME NEW s \in Surfaces, MoveKeys(s) PROVE NeverAstray' /\ Silent'
  <2>1. ASSUME NEW w \in Seq(Events), NEW k \in KeyEvents, NEW r \in Surfaces,
               \A i \in 1..Len(w) : w[i].kind \in KeyEvents
        PROVE  /\ w \o Sent(k, r) \in Seq(Events)
               /\ \A i \in 1..Len(w \o Sent(k, r)) : (w \o Sent(k, r))[i].kind \in KeyEvents
    <3> DEFINE e == [kind |-> k, on |-> r]
               v == w \o Sent(k, r)
    <3>1. v \in Seq(Events) /\ (v = w \/ v = Append(w, e))
      BY SentEvents DEF KeyEvents, Kinds
    <3>2. e \in Events /\ e.kind \in KeyEvents
      BY DEF Events, KeyEvents, Kinds
    <3> HIDE DEF e, v
    <3>3. CASE v = w
      BY <2>1, <3>1, <3>3 DEF v
    <3>4. CASE v = Append(w, e)
      <4>1. Len(w) \in Nat /\ Len(v) = Len(w) + 1 /\ v[Len(w) + 1] = e
            /\ \A i \in 1..Len(w) : v[i] = w[i]
        BY <3>2, <3>4
      <4>2. \A i \in 1..Len(v) : i \in 1..Len(w) \/ i = Len(w) + 1
        BY <4>1
      <4> QED
        BY <2>1, <3>1, <3>2, <4>1, <4>2 DEF v
    <3> QED
      BY <3>1, <3>3, <3>4
  <2>2. wire' = wire \o Sent("keyboard_leave", keys_at) \o Sent("keyboard_enter", s)
    BY <1>6 DEF MoveKeys
  <2> DEFINE v == wire \o Sent("keyboard_leave", keys_at)
  <2>3. v \in Seq(Events) /\ \A i \in 1..Len(v) : v[i].kind \in KeyEvents
    BY <1>1, <2>1 DEF Silent, KeyEvents
  <2>4. wire' = v \o Sent("keyboard_enter", s)
    BY <2>2
  <2> HIDE DEF v
  <2>5. \A i \in 1..Len(wire') : wire'[i].kind \in KeyEvents
    BY <2>1, <2>3, <2>4 DEF KeyEvents
  <2> QED
    BY <1>1, <1>6, <2>5 DEF MoveKeys, Silent, NeverAstray, ptrVars
<1>7. CASE Motion
  BY <1>7 DEF Motion
<1>8. CASE Click \/ Notch \/ Idle \/ ApplyOther \/ UNCHANGED vars
  BY <1>2, <1>8 DEF Click, Notch, Idle, ApplyOther, Drain, vars, ptrVars, serverVars
<1>9. ASSUME NEW k, Dispatch(k)
      PROVE  /\ k \in KeyEvents /\ pointer_at' = None
             /\ \A i \in 1..Len(wire') : wire'[i].kind \in KeyEvents
  <2>1. wire # << >> /\ Head(wire).kind = k /\ wire' = Tail(wire) /\ pointer_at' = pointer_at
    BY <1>9 DEF Dispatch, serverVars
  <2>2. Len(wire) \in Nat \ {0} /\ Head(wire) = wire[1] /\ Len(Tail(wire)) = Len(wire) - 1
        /\ \A i \in 1..Len(Tail(wire)) : Tail(wire)[i] = wire[i + 1]
    BY <1>1, <2>1
  <2>3. \A i \in 1..Len(wire') : i + 1 \in 1..Len(wire)
    BY <2>1, <2>2
  <2> QED
    BY <2>1, <2>2, <2>3 DEF Silent
<1>10. CASE PointerEnter \/ PointerLeave \/ PointerMotion \/ PointerButton
  BY <1>9, <1>10 DEF PointerEnter, PointerLeave, PointerMotion, PointerButton, KeyEvents
<1>11. CASE KeyboardEnter \/ KeyboardLeave
  <2>1. PICK k : Dispatch(k) /\ UNCHANGED <<synth_focus, gtk>>
    BY <1>11 DEF KeyboardEnter, KeyboardLeave, ptrVars
  <2> QED
    BY <1>1, <1>9, <2>1 DEF Silent, NeverAstray
<1>12. CASE ApplyClick
  <2>1. wire' = wire /\ pointer_at' = pointer_at
    BY <1>12 DEF ApplyClick, Drain, serverVars
  <2>2. CASE UNCHANGED <<synth_focus, gtk>>
    BY <1>2, <2>1, <2>2
  <2>3. ASSUME NEW target \in {Main} \cup Menus, FocusAndMove(target)
        PROVE  gtk'.at = synth_focus' /\ ~gtk'.astray
    <3>1. CASE target = synth_focus
      BY <1>1, <2>3, <3>1 DEF FocusAndMove, Silent
    <3>2. CASE target # synth_focus
      <4>1. Left(gtk, synth_focus) = [at |-> None, astray |-> FALSE]
        BY <1>1 DEF Left, Silent, Told
      <4>2. gtk' = Entered([at |-> None, astray |-> FALSE], target) /\ synth_focus' = target
        BY <2>3, <3>2, <4>1 DEF FocusAndMove
      <4>3. target # None
        BY FocusConstants, MainIsNotNone
      <4> QED
        BY <4>2, <4>3 DEF Entered
    <3> QED
      BY <3>1, <3>2
  <2>4. CASE \E over \in PopupAt : FocusAndMove(IF over = None THEN Main ELSE over)
    <3>1. PICK over \in PopupAt : FocusAndMove(IF over = None THEN Main ELSE over)
      BY <2>4
    <3>2. (IF over = None THEN Main ELSE over) \in {Main} \cup Menus
      BY <3>1 DEF PopupAt, Typed, TypeOK
    <3>3. gtk'.at = synth_focus' /\ ~gtk'.astray
      BY <2>3, <3>1, <3>2
    <3> QED
      BY <2>1, <3>3 DEF Silent, NeverAstray
  <2> QED
    BY <1>12, <2>2, <2>4 DEF ApplyClick
<1> QED
  BY <1>3, <1>4, <1>5, <1>6, <1>7, <1>8, <1>10, <1>11, <1>12
     DEF Next, Gtk, Server, Remote, Handlers, Surfaces

-----------------------------------------------------------------------------
(* The clicks. *)

\* Along a way each press counts.
PressSteps ==
  {t \in Nat \X Events \X Nat : t[3] = IF t[2].kind = "press" THEN t[1] + 1 ELSE t[1]}

QueueSteps ==
  {t \in Nat \X {"press", "other"} \X Nat : t[3] = IF t[2] = "press" THEN t[1] + 1 ELSE t[1]}

LEMMA PressStep ==
  ASSUME NEW x \in Nat, NEW y \in Nat, NEW e \in Events
  PROVE  <<x, e, y>> \in PressSteps <=> y = IF e.kind = "press" THEN x + 1 ELSE x
<1>1. <<x, e, y>> \in Nat \X Events \X Nat
  OBVIOUS
<1> HIDE DEF Events
<1> QED
  BY <1>1 DEF PressSteps

LEMMA QueueStep ==
  ASSUME NEW x \in Nat, NEW y \in Nat, NEW e \in {"press", "other"}
  PROVE  <<x, e, y>> \in QueueSteps <=> y = IF e = "press" THEN x + 1 ELSE x
BY DEF QueueSteps

\* The clicks GTK was told of, and those on their way to it, are clicks that were
\* made.
ClicksOnWire ==
  \E c, n \in 0..made : told <= c /\ Leads(0..made, PressSteps, c, wire, n)

ClicksQueued ==
  \E c, n \in 0..made : told <= c /\ Leads(0..made, QueueSteps, c, ptr_q, n)

\* A way through fewer states is one through more.
LEMMA LeadsLarger ==
  ASSUME NEW S, NEW Z, S \subseteq Z, NEW R, NEW w, NEW a, NEW b, Leads(S, R, a, w, b)
  PROVE  Leads(Z, R, a, w, b)
<1>1. PICK f \in [0..Len(w) -> S] :
        /\ f[0] = a /\ f[Len(w)] = b
        /\ \A i \in 1..Len(w) : <<f[i - 1], w[i], f[i]>> \in R
  BY DEF Leads
<1>2. f \in [0..Len(w) -> Z]
  BY <1>1
<1> QED
  BY <1>1, <1>2 DEF Leads

\* Other events do not count.
LEMMA PressesOther ==
  ASSUME NEW k \in Kinds \ {"press"}, NEW s \in Surfaces, NEW N \in Nat, NEW c \in 0..N,
         NEW n \in 0..N, NEW w \in Seq(Events), Leads(0..N, PressSteps, c, w, n)
  PROVE  Leads(0..N, PressSteps, c, w \o Sent(k, s), n) /\ w \o Sent(k, s) \in Seq(Events)
<1> DEFINE v == w \o Sent(k, s)
           e == [kind |-> k, on |-> s]
<1>1. /\ v \in Seq(Events)
      /\ s = None => v = w
      /\ s # None => v = Append(w, e)
  BY SentEvents
<1>2. e \in Events
  BY DEF Events
<1>3. <<n, e, n>> \in PressSteps
  BY <1>2, PressStep
<1>4. Leads(0..N, PressSteps, c, Append(w, e), n)
  <2> HIDE DEF e
  <2> QED
    BY <1>2, <1>3, LeadsAppend
<1> QED
  BY <1>1, <1>4

\* Where the compositor delivers clicks, those on the wire are the ones to come.
LEMMA ClicksOnWireStep ==
  ASSUME Typed, tv.delivers, ClicksOnWire, NoInjection, [Next]_vars
  PROVE  ClicksOnWire'
<1>1. PICK c \in 0..made, n \in 0..made :
        told <= c /\ Leads(0..made, PressSteps, c, wire, n)
  BY DEF ClicksOnWire
<1>2. /\ made \in Nat /\ told \in Nat /\ c \in Nat /\ n \in Nat
      /\ wire \in Seq(Events) /\ pointer_at \in Surfaces /\ keys_at \in Surfaces
  BY <1>1 DEF Typed, TypeOK, Events
<1>3. ASSUME NEW d \in 0..made', NEW l \in 0..made', told' <= d,
             Leads(0..made', PressSteps, d, wire', l)
      PROVE  ClicksOnWire'
  BY <1>3 DEF ClicksOnWire
<1> HIDE DEF ClicksOnWire
<1>4. ASSUME UNCHANGED clickVars, Leads(0..made, PressSteps, c, wire', n) PROVE ClicksOnWire'
  <2>1. made' = made /\ told' = told
    BY <1>4 DEF clickVars
  <2> QED
    BY <1>1, <1>3, <1>4, <2>1
<1>5. ASSUME UNCHANGED clickVars, wire' = wire PROVE ClicksOnWire'
  BY <1>1, <1>4, <1>5
<1>6. ASSUME NEW m \in Menus, OpenMenu(m) \/ ShowMenu(m) PROVE ClicksOnWire'
  BY <1>5, <1>6 DEF OpenMenu, ShowMenu
<1>7. ASSUME NEW m \in Menus, CloseMenu(m) PROVE ClicksOnWire'
  <2>1. m \in menus /\ UNCHANGED clickVars
    BY <1>7 DEF CloseMenu
  <2>2. /\ Len(wire') = Len(wire)
        /\ \A i \in 1..Len(wire) : wire'[i] = [kind |-> wire[i].kind,
                                               on |-> Forgotten(wire[i].on, m)]
    BY <1>7, <2>1, ForgottenOnWire
  <2>3. wire' \in Seq(Events)
    BY TypedStep DEF Typed, TypeOK, Events
  <2> DEFINE h == [x \in 0..made |-> x]
  <2>4. h \in [0..made -> 0..made] /\ h[c] = c /\ h[n] = n
    OBVIOUS
  <2>5. ASSUME NEW i \in 1..Len(wire), NEW x \in 0..made, NEW y \in 0..made,
               <<x, wire[i], y>> \in PressSteps
        PROVE  <<h[x], wire'[i], h[y]>> \in PressSteps
    <3>1. wire[i] \in Events /\ wire'[i] \in Events /\ x \in Nat /\ y \in Nat
      BY <1>2, <2>2, <2>3, ElementOfSeq
    <3>2. wire'[i] = [kind |-> wire[i].kind, on |-> Forgotten(wire[i].on, m)]
      BY <2>2
    <3>3. wire'[i].kind = wire[i].kind
      BY <3>2
    <3>4. y = IF wire[i].kind = "press" THEN x + 1 ELSE x
      BY <2>5, <3>1, PressStep
    <3>5. <<x, wire'[i], y>> \in PressSteps
      BY <3>1, <3>3, <3>4, PressStep
    <3> QED
      BY <3>5
  <2> HIDE DEF h
  <2>6. Leads(0..made, PressSteps, h[c], wire', h[n])
    BY <1>1, <1>2, <2>2, <2>3, <2>4, <2>5, LeadsMap
  <2> QED
    BY <1>4, <2>1, <2>4, <2>6
<1>8. ASSUME NEW j \in Kinds \ {"press"}, NEW k \in Kinds \ {"press"},
             NEW r \in Surfaces, NEW s \in Surfaces,
             wire' = wire \o Sent(j, r) \o Sent(k, s), UNCHANGED clickVars
      PROVE  ClicksOnWire'
  <2>1. /\ Leads(0..made, PressSteps, c, wire \o Sent(j, r), n)
        /\ wire \o Sent(j, r) \in Seq(Events)
    BY <1>1, <1>2, PressesOther
  <2>2. Leads(0..made, PressSteps, c, wire \o Sent(j, r) \o Sent(k, s), n)
    BY <1>1, <1>2, <2>1, PressesOther
  <2> QED
    BY <1>4, <1>8, <2>2
<1>9. ASSUME NEW s \in Surfaces, MovePointer(s) \/ MoveKeys(s) PROVE ClicksOnWire'
  BY <1>2, <1>8, <1>9 DEF MovePointer, MoveKeys, Kinds
<1>10. CASE Motion
  <2>1. Leads(0..made, PressSteps, c, wire \o Sent("motion", pointer_at), n)
    BY <1>1, <1>2, PressesOther DEF Kinds
  <2> QED
    BY <1>4, <1>10, <2>1 DEF Motion
<1>11. CASE Click
  <2> DEFINE e == [kind |-> "press", on |-> pointer_at]
             v == wire \o Sent("press", pointer_at)
  <2>1. made' = made + 1 /\ told' = told /\ wire' = v
    BY <1>11 DEF Click
  <2>2. Leads(0..(made + 1), PressSteps, c, wire, n)
    BY <1>1, <1>2, LeadsLarger
  <2>3. /\ pointer_at = None => v = wire
        /\ pointer_at # None => v = Append(wire, e)
    BY <1>2, SentEvents DEF Kinds
  <2>4. e \in Events /\ c \in 0..(made + 1) /\ n \in 0..(made + 1) /\ n + 1 \in 0..(made + 1)
    BY <1>1, <1>2 DEF Events, Kinds
  <2>5. <<n, e, n + 1>> \in PressSteps
    BY <1>2, <2>4, PressStep
  <2> HIDE DEF e, v
  <2>6. Leads(0..(made + 1), PressSteps, c, Append(wire, e), n + 1)
    BY <1>2, <2>2, <2>4, <2>5, LeadsAppend
  <2>7. CASE pointer_at = None
    BY <1>1, <1>3, <2>1, <2>2, <2>3, <2>4, <2>7
  <2>8. CASE pointer_at # None
    BY <1>1, <1>3, <2>1, <2>3, <2>4, <2>6, <2>8
  <2> QED
    BY <2>7, <2>8
<1>12. CASE Notch \/ Idle \/ ApplyOther \/ UNCHANGED vars
  BY <1>5, <1>12 DEF Notch, Idle, ApplyOther, Drain, clickVars, vars
<1>13. CASE ApplyClick
  BY <1>5, <1>13 DEF ApplyClick, Drain, NoInjection, clickVars
<1>14. ASSUME NEW k, Dispatch(k)
       PROVE  /\ made' = made
              /\ \E d \in 0..made :
                   /\ Leads(0..made, PressSteps, d, wire', n)
                   /\ d = IF k = "press" THEN c + 1 ELSE c
  <2>1. wire # << >> /\ Head(wire).kind = k /\ wire' = Tail(wire) /\ made' = made
    BY <1>14 DEF Dispatch
  <2>2. Head(wire) \in Events
    BY <1>2, <2>1, HeadTailProperties
  <2>3. PICK d \in 0..made :
          <<c, Head(wire), d>> \in PressSteps /\ Leads(0..made, PressSteps, d, Tail(wire), n)
    BY <1>1, <1>2, <2>1, LeadsTail
  <2>4. d = IF k = "press" THEN c + 1 ELSE c
    BY <1>2, <2>1, <2>2, <2>3, PressStep
  <2> QED
    BY <2>1, <2>3, <2>4
<1>15. CASE PointerButton
  <2>1. told' = told + 1
    BY <1>15 DEF PointerButton
  <2>2. PICK d \in 0..made : Leads(0..made, PressSteps, d, wire', n) /\ made' = made /\ d = c + 1
    BY <1>14, <1>15 DEF PointerButton
  <2>3. told' <= d
    BY <1>1, <1>2, <2>1, <2>2
  <2> QED
    BY <1>1, <1>3, <2>2, <2>3
<1>16. CASE PointerEnter \/ PointerLeave \/ PointerMotion \/ KeyboardEnter \/ KeyboardLeave
  <2>1. PICK k \in Kinds \ {"press"} : Dispatch(k) /\ told' = told
    BY <1>16 DEF PointerEnter, PointerLeave, PointerMotion, KeyboardEnter, KeyboardLeave, Kinds
  <2>2. PICK d \in 0..made : Leads(0..made, PressSteps, d, wire', n) /\ made' = made /\ d = c
    BY <1>14, <2>1
  <2> QED
    BY <1>1, <1>3, <2>1, <2>2
<1> QED
  BY <1>6, <1>7, <1>9, <1>10, <1>11, <1>12, <1>13, <1>15, <1>16
     DEF Next, Gtk, Server, Remote, Handlers, Surfaces

\* Where it delivers none, those in the adapter's queue are.
LEMMA ClicksQueuedStep ==
  ASSUME Typed, ~tv.delivers, Silent, ClicksQueued, [Next]_vars
  PROVE  ClicksQueued'
<1>1. PICK c \in 0..made, n \in 0..made :
        told <= c /\ Leads(0..made, QueueSteps, c, ptr_q, n)
  BY DEF ClicksQueued
<1>2. /\ made \in Nat /\ told \in Nat /\ c \in Nat /\ n \in Nat
      /\ ptr_q \in Seq({"press", "other"})
  BY <1>1 DEF Typed, TypeOK
<1>3. ASSUME NEW d \in 0..made', NEW l \in 0..made', told' <= d,
             Leads(0..made', QueueSteps, d, ptr_q', l)
      PROVE  ClicksQueued'
  BY <1>3 DEF ClicksQueued
<1> HIDE DEF ClicksQueued
<1>4. ASSUME UNCHANGED <<ptr_q, made, told>> PROVE ClicksQueued'
  <2>1. made' = made /\ told' = told /\ ptr_q' = ptr_q
    BY <1>4
  <2> QED
    BY <1>1, <1>3, <2>1
<1>5. ASSUME NEW m \in Menus, OpenMenu(m) \/ ShowMenu(m) \/ CloseMenu(m) PROVE ClicksQueued'
  BY <1>4, <1>5 DEF OpenMenu, ShowMenu, CloseMenu, clickVars
<1>6. ASSUME NEW s \in Surfaces, MovePointer(s) \/ MoveKeys(s) PROVE ClicksQueued'
  BY <1>4, <1>6 DEF MovePointer, MoveKeys, clickVars
<1>7. CASE Motion \/ Idle \/ UNCHANGED vars
  BY <1>4, <1>7 DEF Motion, Idle, vars, clickVars
<1>8. CASE Click
  <2>1. made' = made + 1 /\ told' = told /\ ptr_q' = Append(ptr_q, "press")
    BY <1>8 DEF Click
  <2>2. Leads(0..(made + 1), QueueSteps, c, ptr_q, n)
    BY <1>1, <1>2, LeadsLarger
  <2>3. <<n, "press", n + 1>> \in QueueSteps
    <3>1. "press" \in {"press", "other"} /\ n + 1 \in Nat
      BY <1>2
    <3> QED
      BY <1>2, <3>1, QueueStep
  <2>4. c \in 0..(made + 1) /\ n + 1 \in 0..(made + 1)
    BY <1>1, <1>2
  <2>5. Leads(0..(made + 1), QueueSteps, c, Append(ptr_q, "press"), n + 1)
    BY <1>2, <2>2, <2>3, <2>4, LeadsAppend
  <2> QED
    BY <1>1, <1>3, <2>1, <2>4, <2>5
<1>9. CASE Notch
  <2>1. ptr_q = << >> /\ ptr_q' = Append(ptr_q, "other") /\ made' = made /\ told' = told
    BY <1>9 DEF Notch, clickVars
  <2>2. <<n, "other", n>> \in QueueSteps
    <3>1. n = IF "other" = "press" THEN n + 1 ELSE n
      OBVIOUS
    <3>2. "other" \in {"press", "other"}
      OBVIOUS
    <3> QED
      BY <1>2, <3>1, <3>2, QueueStep
  <2>3. Leads(0..made, QueueSteps, c, Append(ptr_q, "other"), n)
    BY <1>1, <1>2, <2>2, LeadsAppend
  <2> QED
    BY <1>1, <1>3, <2>1, <2>3
<1>10. ASSUME NEW k, Drain(k)
       PROVE  /\ made' = made
              /\ \E d \in 0..made :
                   /\ Leads(0..made, QueueSteps, d, ptr_q', n)
                   /\ d = IF k = "press" THEN c + 1 ELSE c
  <2>1. ptr_q # << >> /\ Head(ptr_q) = k /\ ptr_q' = Tail(ptr_q) /\ made' = made
    BY <1>10 DEF Drain
  <2>2. Head(ptr_q) \in {"press", "other"}
    BY <1>2, <2>1, HeadTailProperties
  <2>3. PICK d \in 0..made :
          <<c, Head(ptr_q), d>> \in QueueSteps /\ Leads(0..made, QueueSteps, d, Tail(ptr_q), n)
    BY <1>1, <1>2, <2>1, LeadsTail
  <2>4. d = IF k = "press" THEN c + 1 ELSE c
    <3>1. d \in Nat /\ k \in {"press", "other"} /\ <<c, k, d>> \in QueueSteps
      BY <2>1, <2>2, <2>3
    <3> QED
      BY <1>2, <3>1, QueueStep
  <2> QED
    BY <2>1, <2>3, <2>4
<1>11. CASE ApplyClick
  <2>1. told' \in {told, told + 1}
    BY <1>11 DEF ApplyClick
  <2>2. PICK d \in 0..made : Leads(0..made, QueueSteps, d, ptr_q', n) /\ made' = made /\ d = c + 1
    BY <1>10, <1>11 DEF ApplyClick
  <2>3. told' <= d
    BY <1>1, <1>2, <2>1, <2>2
  <2> QED
    BY <1>1, <1>3, <2>2, <2>3
<1>12. CASE ApplyOther
  <2>1. told' = told
    BY <1>12 DEF ApplyOther
  <2>2. PICK d \in 0..made : Leads(0..made, QueueSteps, d, ptr_q', n) /\ made' = made /\ d = c
    BY <1>10, <1>12 DEF ApplyOther
  <2> QED
    BY <1>1, <1>3, <2>1, <2>2
<1>13. ASSUME NEW k, Dispatch(k) PROVE k \in KeyEvents /\ UNCHANGED <<ptr_q, made>>
  <2>1. wire # << >> /\ wire \in Seq(Events) /\ Head(wire).kind = k
    BY <1>13 DEF Dispatch, Typed, TypeOK, Events
  <2>2. Head(wire) = wire[1] /\ 1 \in 1..Len(wire)
    BY <2>1
  <2> QED
    BY <1>13, <2>1, <2>2 DEF Silent, Dispatch
<1>14. CASE PointerEnter \/ PointerLeave \/ PointerMotion \/ PointerButton
  BY <1>13, <1>14 DEF PointerEnter, PointerLeave, PointerMotion, PointerButton, KeyEvents
<1>15. CASE KeyboardEnter \/ KeyboardLeave
  BY <1>4, <1>13, <1>15 DEF KeyboardEnter, KeyboardLeave
<1> QED
  BY <1>5, <1>6, <1>7, <1>8, <1>9, <1>11, <1>12, <1>14, <1>15
     DEF Next, Gtk, Server, Remote, Handlers, Surfaces

-----------------------------------------------------------------------------
(* Both kinds of TVs. *)

PointerInv ==
  /\ NeverAstray
  /\ tv.delivers => MovedLately /\ PointerFollows /\ ClicksOnWire
  /\ ~tv.delivers => Silent /\ ClicksQueued

LEMMA PointerInvariant ==
  ASSUME ~IdleClicks
  PROVE  Spec => []PointerInv
<1>1. Init => PointerInv
  <2> SUFFICES ASSUME Init PROVE PointerInv
    OBVIOUS
  <2>1. NeverAstray
    BY DEF Init, NeverAstray
  <2>2. MovedLately
    BY DEF Init, MovedLately
  <2>3. PointerFollows
    <3>1. Leads(Surfaces, PointerSteps, None, wire, pointer_at)
      BY LeadsEmpty DEF Init, Surfaces
    <3>2. PointerKnown(None) /\ None \in Named
      BY DEF Init, PointerKnown, InputSurface, Overlay, Content, None, Named
    <3> QED
      BY <3>1, <3>2 DEF PointerFollows
  <2>4. ClicksOnWire
    BY LeadsEmpty DEF Init, ClicksOnWire
  <2>5. Silent
    BY DEF Init, Silent
  <2>6. ClicksQueued
    BY LeadsEmpty DEF Init, ClicksQueued
  <2> QED
    BY <2>1, <2>2, <2>3, <2>4, <2>5, <2>6 DEF PointerInv
<1>2. Typed /\ PointerInv /\ [Next]_vars => PointerInv'
  <2> SUFFICES ASSUME Typed, PointerInv, [Next]_vars PROVE PointerInv'
    OBVIOUS
  <2>1. tv' = tv
    BY DEF Next, Gtk, Server, Remote, Handlers, OpenMenu, ShowMenu, CloseMenu, MovePointer, Motion,
       MoveKeys, Click, Notch, Idle, PointerEnter, PointerLeave, PointerMotion, PointerButton,
       KeyboardEnter, KeyboardLeave, Dispatch, ApplyClick, ApplyOther, Drain, vars
  <2>2. CASE tv.delivers
    <3>1. MovedLately' /\ NoInjection
      BY <2>2, MovedLatelyStep DEF PointerInv
    <3>2. NeverAstray' /\ PointerFollows' /\ ClicksOnWire'
      BY <2>2, <3>1, PointerStep, ClicksOnWireStep DEF PointerInv
    <3> QED
      BY <2>1, <2>2, <3>1, <3>2 DEF PointerInv
  <2>3. CASE ~tv.delivers
    <3>1. NeverAstray' /\ Silent' /\ ClicksQueued'
      BY <2>3, SilentStep, ClicksQueuedStep DEF PointerInv
    <3> QED
      BY <2>1, <2>3, <3>1 DEF PointerInv
  <2> QED
    BY <2>2, <2>3
<1> QED
  BY <1>1, <1>2, KeysInvariant, PTL DEF Spec

\* pointer_enter, pointer_leave, pointer_motion and focus_and_move: GTK enters a
\* surface from none and leaves the one it is in, on all kinds of TVs, whatever
\* pop-ups close while events are on their way.
THEOREM GtkIsLedStraight ==
  ASSUME ~IdleClicks
  PROVE  Spec => []NeverAstray
<1>1. PointerInv => NeverAstray
  BY DEF PointerInv
<1> QED
  BY <1>1, PointerInvariant, PTL

\* apply_remote_event and pointer_button: GTK is told of no more clicks than were
\* made, for one of the two tells it.
THEOREM EachClickOnce ==
  ASSUME ~IdleClicks
  PROVE  Spec => []ClickedOnce
<1>1. Typed /\ PointerInv => ClickedOnce
  BY DEF Typed, TypeOK, PointerInv, ClicksOnWire, ClicksQueued, ClickedOnce
<1> QED
  BY <1>1, PointerInvariant, KeysInvariant, PTL

=============================================================================
