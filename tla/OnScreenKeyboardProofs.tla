------------------------ MODULE OnScreenKeyboardProofs ------------------------
(***************************************************************************)
(* What OnScreenKeyboard guarantees for any number of text_models and of   *)
(* messages on their way.  That no request reaches a text_model that is    *)
(* gone is not inductive: the one in use must have no deactivate on its    *)
(* way, and an id must be told free once only, after the object is gone.   *)
(* That the adapter's belief is right once all has arrived needs where     *)
(* each keyboard is while it has not (InOnePlace, RestIsEnded).            *)
(***************************************************************************)
EXTENDS OnScreenKeyboard, SequenceTheorems, TLAPS

\* The text_model in use is alive, and nothing on its way ends it.
InUseAlive ==
    text_input # NoModel =>
        /\ model[text_input] \in {"made", "active"}
        /\ \A i \in DOMAIN requests : requests[i] # Message("deactivate", text_input)

\* An id is told free once, after its object is gone.
FreedOnce ==
    \A i \in DOMAIN events : events[i].what = "deleted" =>
        /\ model[events[i].model] = "gone"
        /\ \A j \in 1..(i - 1) : events[j] # events[i]

\* GTK's object comes from the manager, and a keyboard from a field or from a click.
ShownBy ==
    /\ v3 # "none" => text_input_bound
    /\ keyboard_up => text_input_bound \/ main_surface

IInv == TypeOK /\ NoRequestOnDeadModel /\ InUseAlive /\ FreedOnce

FieldInv == TypeOK /\ UpForAField /\ ShownBy /\ EnterReachesGtk

\* The keyboard on the screen is an active text_model's; or a leave has made it one that
\* is no longer active, and then there is no other.
PanelActive ==
    /\ panel # NoModel => model[panel] = "active" /\ left_up = NoModel
    /\ left_up # NoModel => model[left_up] = "made"

\* Nothing of a text_model comes after its id is free: the next one with that id
\* is not told what the last one was.
Signal(i, m) == events[i].what \in {"leave", "closed"} /\ events[i].model = m

SignalsBeforeFree ==
    \A i \in DOMAIN events, m \in Models : Signal(i, m) =>
        \/ model[m] \in {"made", "active"}
        \/ \E j \in DOMAIN events : i < j /\ events[j] = Message("deleted", m)

\* Without a manager no keyboard is shown before there is a window to click on.
QuietAtFirst ==
    ~text_input_bound /\ ~main_surface =>
        /\ text_input = NoModel /\ ~keyboard_up /\ panel = NoModel /\ left_up = NoModel
        /\ \A m \in Models : model[m] # "active"
        /\ requests = <<>> /\ events = <<>>

\* What the belief in a keyboard rests on is in one place: the request to show it,
\* which is the last one sent, the panel, or the event that will end the belief.
InOnePlace ==
    text_input # NoModel =>
        /\ requests # <<>> => /\ keyboard_up /\ panel # text_input
                             /\ requests[Len(requests)] = Message("activate", text_input)
                             /\ \A i \in 1..(Len(requests) - 1) :
                                    requests[i] # Message("activate", text_input)
        /\ keyboard_up <=> \/ requests # <<>> \/ panel = text_input
                           \/ \E i \in DOMAIN events : Signal(i, text_input)
        /\ requests # <<>> \/ panel = text_input =>
              \A i \in DOMAIN events : ~Signal(i, text_input)
        /\ \A i, j \in DOMAIN events :
              Signal(i, text_input) /\ Signal(j, text_input) => i = j

\* What was shown before is hidden by a request on its way.
Ends(m, i) == \E j \in DOMAIN requests : i < j /\ requests[j] = Message("deactivate", m)

RestIsEnded ==
    /\ \A i \in DOMAIN requests, m \in Models :
          m # text_input /\ requests[i] = Message("activate", m) => Ends(m, i)
    /\ panel \notin {NoModel, text_input} => Ends(panel, 0)

BeliefInv ==
    /\ IInv /\ FieldInv /\ PanelActive /\ SignalsBeforeFree /\ QuietAtFirst
    /\ text_input_bound /\ ~stray_leave => InOnePlace /\ RestIsEnded

\* Messages are about text_models.
LEMMA MessageModels ==
    ASSUME TypeOK
    PROVE  /\ \A i \in DOMAIN requests : requests[i] \in Requests /\ requests[i].model \in Models
           /\ \A i \in DOMAIN events : events[i] \in Events /\ events[i].model \in Models
<1>1. /\ \A i \in DOMAIN requests : requests[i] \in Requests
      /\ \A i \in DOMAIN events : events[i] \in Events
    BY DEF TypeOK
<1> QED
    BY <1>1 DEF Requests, Events

\* Showing and hiding the keyboard keep their variables' types.
LEMMA ShowTypes ==
    ASSUME TypeOK, ShowKeyboard
    PROVE  /\ text_input' \in Models /\ keyboard_up' \in BOOLEAN
           /\ model' \in [Models -> {"free", "made", "active", "gone"}]
           /\ requests' \in Seq(Requests) /\ events' = events
<1>1. PICK m \in TextModels : /\ text_input' = m
                             /\ model' = [model EXCEPT ![m] = IF @ = "free" THEN "made" ELSE @]
                             /\ requests' = Append(requests, Message("activate", m))
    BY DEF ShowKeyboard
<1>2. m \in Models
    BY DEF TextModels, TypeOK
<1>3. Message("activate", m) \in Requests
    BY <1>2 DEF Message, Requests
<1> QED
    BY <1>1, <1>2, <1>3 DEF ShowKeyboard, TypeOK

\* hide_keyboard keeps the types of what it changes.
LEMMA HideTypes ==
    ASSUME TypeOK, HideKeyboard
    PROVE  /\ text_input' \in Models \cup {NoModel} /\ keyboard_up' \in BOOLEAN
           /\ model' = model /\ requests' \in Seq(Requests) /\ events' = events
<1>1. text_input # NoModel => Message("deactivate", text_input) \in Requests
    BY DEF Message, Requests, TypeOK
<1>2. CASE text_input # NoModel /\ keyboard_up
  <2>1. /\ requests' = Append(requests, Message("deactivate", text_input))
        /\ text_input' = NoModel /\ keyboard_up' = FALSE
        /\ model' = model /\ events' = events
    BY <1>2 DEF HideKeyboard
  <2>2. Append(requests, Message("deactivate", text_input)) \in Seq(Requests)
    BY <1>1, <1>2 DEF TypeOK
  <2> QED
    BY <2>1, <2>2
<1>3. CASE ~(text_input # NoModel /\ keyboard_up)
    BY <1>3 DEF HideKeyboard, TypeOK, keyboardVars, wireVars
<1> QED
    BY <1>2, <1>3

\* Every action keeps the variables' types.
LEMMA TypeStep == TypeOK /\ [Next]_vars => TypeOK'
<1> SUFFICES ASSUME TypeOK, [Next]_vars PROVE TypeOK'
    OBVIOUS
<1> USE DEF TypeOK, gtkVars, fieldVars, keyboardVars, imeVars, wireVars
<1>1. CASE BindManager \/ MapMain \/ GetTextInput \/ ListenerReady \/ DestroyTextInput
    BY <1>1 DEF BindManager, MapMain, GetTextInput, ListenerReady, DestroyTextInput, EnterMain
<1>2. CASE TextInputCommit
  <2>1. CASE UNCHANGED <<keyboardVars, wireVars>>
    BY <1>2, <2>1 DEF TextInputCommit, CommitField
  <2>2. CASE ShowKeyboard
    BY <1>2, <2>2, ShowTypes DEF TextInputCommit, CommitField
  <2>3. CASE HideKeyboard
    BY <1>2, <2>3, HideTypes DEF TextInputCommit, CommitField
  <2> QED
    BY <1>2, <2>1, <2>2, <2>3 DEF TextInputCommit, CommitField
<1>3. CASE \E on \in BOOLEAN : SetPending(on)
    BY <1>3 DEF SetPending
<1>4. CASE ClickFades
    BY <1>4 DEF ClickFades
<1>5. CASE Back
    BY <1>5, HideTypes DEF Back
<1>6. CASE UserCloses
  <2>1. /\ panel # NoModel => Message("closed", panel) \in Events
        /\ left_up # NoModel => Message("closed", left_up) \in Events
    BY DEF Message, Events
  <2>2. /\ left_up' \in {left_up, NoModel} /\ panel' \in {panel, NoModel}
        /\ stray_leave' \in BOOLEAN
    BY <1>6 DEF UserCloses
  <2>3. events' \in Seq(Events)
    BY <1>6, <2>1 DEF UserCloses
  <2> QED
    BY <1>6, <2>2, <2>3 DEF UserCloses
<1>7. CASE \E place \in Places : Click(place)
  <2>1. CASE UNCHANGED <<keyboardVars, wireVars>>
    BY <1>7, <2>1 DEF Click, Guess
  <2>2. CASE ShowKeyboard
    BY <1>7, <2>2, ShowTypes DEF Click, Guess
  <2>3. CASE HideKeyboard
    BY <1>7, <2>3, HideTypes DEF Click, Guess
  <2> QED
    BY <1>7, <2>1, <2>2, <2>3 DEF Click, Guess
<1>8. CASE Dispatch
  <2>0. events # <<>>
    BY <1>8 DEF Dispatch
  <2>1. Head(events) \in Events /\ Tail(events) \in Seq(Events)
    BY <2>0
  <2>3. Head(events).model \in Models
    BY <2>1 DEF Events
  <2>2. keyboard_up' \in BOOLEAN /\ text_input' \in Models \cup {NoModel}
    BY <1>8 DEF Dispatch, KeyboardGone
  <2> QED
    BY <1>8, <2>1, <2>2, <2>3 DEF Dispatch
<1>9. CASE Receive
  <2>0. requests # <<>>
    BY <1>9 DEF Receive
  <2>1. Head(requests) \in Requests /\ Tail(requests) \in Seq(Requests)
    BY <2>0
  <2>2. Head(requests).model \in Models
    BY <2>1 DEF Requests
  <2>3. Message("deleted", Head(requests).model) \in Events
    BY <2>2 DEF Message, Events
  <2>4. events' = events \/ events' = Append(events, Message("deleted", Head(requests).model))
    BY <1>9 DEF Receive
  <2>5. events' \in Seq(Events)
    BY <2>3, <2>4
  <2> QED
    BY <1>9, <2>1, <2>2, <2>5 DEF Receive
<1>10. CASE \E m \in Models : Leave(m)
  <2> PICK m \in Models : Leave(m)
    BY <1>10
  <2>1. Message("leave", m) \in Events
    BY DEF Message, Events
  <2>2. /\ left_up' \in {left_up, NoModel, m} /\ panel' \in {panel, NoModel}
        /\ stray_leave' \in BOOLEAN
    BY DEF Leave
  <2>3. /\ events' \in Seq(Events)
        /\ model' \in [Models -> {"free", "made", "active", "gone"}]
    BY <2>1 DEF Leave
  <2> QED
    BY <2>2, <2>3 DEF Leave
<1>11. CASE UNCHANGED vars
    BY <1>11 DEF vars
<1> QED
    BY <1>1, <1>2, <1>3, <1>4, <1>5, <1>6, <1>7, <1>8, <1>9, <1>10, <1>11 DEF Next, Gtk, User

\* The types at the start.
LEMMA InitTypes == Init => TypeOK
<1> SUFFICES ASSUME Init PROVE TypeOK
    OBVIOUS
<1>1. requests \in Seq(Requests) /\ events \in Seq(Events)
    BY DEF Init
<1>2. model \in [Models -> {"free", "made", "active", "gone"}]
    BY DEF Init
<1> QED
    BY <1>1, <1>2 DEF Init, TypeOK

-----------------------------------------------------------------------------
(* No request reaches a text_model that is gone. *)

\* A request to show the keyboard goes to a text_model that stays.
LEMMA ShowKeepsInv == IInv /\ ShowKeyboard => NoRequestOnDeadModel' /\ InUseAlive' /\ FreedOnce'
<1> SUFFICES ASSUME IInv, ShowKeyboard PROVE NoRequestOnDeadModel' /\ InUseAlive' /\ FreedOnce'
    OBVIOUS
<1> USE DEF IInv
<1>1. PICK m \in TextModels : /\ text_input' = m
                             /\ model' = [model EXCEPT ![m] = IF @ = "free" THEN "made" ELSE @]
                             /\ requests' = Append(requests, Message("activate", m))
                             /\ events' = events
    BY DEF ShowKeyboard
<1>2. /\ m \in Models /\ model[m] \in {"free", "made", "active"}
      /\ \A i \in DOMAIN requests : requests[i] # Message("deactivate", m)
    BY DEF TextModels, TypeOK, InUseAlive, NoRequestOnDeadModel, Message
<1>3. /\ model'[m] \in {"made", "active"}
      /\ \A n \in Models \ {m} : model'[n] = model[n]
      /\ \A n \in Models : model[n] \in {"made", "active", "gone"} => model'[n] = model[n]
    BY <1>1, <1>2 DEF TypeOK
<1>4. /\ DOMAIN requests' = 1..(Len(requests) + 1)
      /\ \A i \in 1..Len(requests) : requests'[i] = requests[i]
      /\ requests'[Len(requests) + 1] = Message("activate", m)
      /\ Len(requests) \in Nat /\ DOMAIN requests = 1..Len(requests)
    BY <1>1 DEF TypeOK
<1>5. NoRequestOnDeadModel'
  <2> SUFFICES ASSUME NEW i \in DOMAIN requests'
               PROVE /\ model'[requests'[i].model] \in {"made", "active"}
                     /\ \A j \in 1..(i - 1) :
                           requests'[j] # Message("deactivate", requests'[i].model)
    BY DEF NoRequestOnDeadModel
  <2>1. CASE i \in 1..Len(requests)
    <3>1. requests'[i] = requests[i] /\ requests[i] \in Requests
        BY <1>4, <2>1 DEF TypeOK
    <3>2. requests[i].model \in Models
        BY <3>1 DEF Requests
    <3> QED
        BY <1>3, <1>4, <2>1, <3>1, <3>2 DEF NoRequestOnDeadModel
  <2>2. CASE i = Len(requests) + 1
    <3>1. requests'[i].model = m
        BY <1>4, <2>2 DEF Message
    <3>2. 1..(i - 1) = 1..Len(requests)
        BY <1>4, <2>2
    <3> QED
        BY <1>2, <1>3, <1>4, <3>1, <3>2
  <2> QED
    BY <1>4, <2>1, <2>2
<1>6. InUseAlive'
    BY <1>1, <1>2, <1>3, <1>4 DEF InUseAlive, Message
<1>7. FreedOnce'
    BY <1>1, <1>3 DEF FreedOnce, TypeOK, Events
<1> QED
    BY <1>5, <1>6, <1>7

\* Hiding the keyboard gives the text_model up with the request that ends it.
LEMMA HideKeepsInv == IInv /\ HideKeyboard => NoRequestOnDeadModel' /\ InUseAlive' /\ FreedOnce'
<1> SUFFICES ASSUME IInv, HideKeyboard PROVE NoRequestOnDeadModel' /\ InUseAlive' /\ FreedOnce'
    OBVIOUS
<1> USE DEF IInv
<1>1. CASE text_input # NoModel /\ keyboard_up
  <2>1. /\ requests' = Append(requests, Message("deactivate", text_input))
        /\ text_input' = NoModel /\ model' = model /\ events' = events
    BY <1>1 DEF HideKeyboard
  <2>2. /\ DOMAIN requests' = 1..(Len(requests) + 1)
        /\ \A i \in 1..Len(requests) : requests'[i] = requests[i]
        /\ requests'[Len(requests) + 1] = Message("deactivate", text_input)
        /\ Len(requests) \in Nat /\ DOMAIN requests = 1..Len(requests)
    BY <2>1 DEF TypeOK
  <2>3. NoRequestOnDeadModel'
    <3> SUFFICES ASSUME NEW i \in DOMAIN requests'
                 PROVE /\ model[requests'[i].model] \in {"made", "active"}
                       /\ \A j \in 1..(i - 1) :
                             requests'[j] # Message("deactivate", requests'[i].model)
        BY <2>1 DEF NoRequestOnDeadModel
    <3>1. CASE i \in 1..Len(requests)
        BY <2>2, <3>1 DEF NoRequestOnDeadModel
    <3>2. CASE i = Len(requests) + 1
      <4>1. requests'[i].model = text_input
        BY <2>2, <3>2 DEF Message
      <4>2. 1..(i - 1) = 1..Len(requests)
        BY <2>2, <3>2
      <4> QED
        BY <1>1, <2>2, <4>1, <4>2 DEF InUseAlive
    <3> QED
        BY <2>2, <3>1, <3>2
  <2> QED
    BY <2>1, <2>3 DEF InUseAlive, FreedOnce
<1>2. CASE ~(text_input # NoModel /\ keyboard_up)
    BY <1>2 DEF HideKeyboard, keyboardVars, wireVars, NoRequestOnDeadModel, InUseAlive, FreedOnce
<1> QED
    BY <1>1, <1>2

\* The end of a text_model: no other request is behind it.
LEMMA ReceiveKeepsInv == IInv /\ Receive => NoRequestOnDeadModel' /\ InUseAlive' /\ FreedOnce'
<1> SUFFICES ASSUME IInv, Receive PROVE NoRequestOnDeadModel' /\ InUseAlive' /\ FreedOnce'
    OBVIOUS
<1> USE DEF IInv
<1> DEFINE r == Head(requests)
<1>1. /\ requests' = Tail(requests) /\ r = requests[1] /\ 1 \in DOMAIN requests
      /\ Len(requests) \in Nat \ {0} /\ DOMAIN requests = 1..Len(requests)
      /\ DOMAIN requests' = 1..(Len(requests) - 1)
      /\ \A i \in DOMAIN requests' : requests'[i] = requests[i + 1]
    BY DEF Receive, TypeOK
<1>2. /\ r \in Requests /\ \A i \in DOMAIN requests : requests[i] \in Requests
      /\ text_input' = text_input
    BY <1>1 DEF Receive, TypeOK, keyboardVars
<1>3. r.model \in Models /\ \A i \in DOMAIN requests : requests[i].model \in Models
    BY <1>2 DEF Requests
<1>4. CASE r.what = "activate"
  <2>1. model' = [model EXCEPT ![r.model] = "active"] /\ events' = events
    BY <1>4 DEF Receive
  <2>2. model[r.model] \in {"made", "active"}
    BY <1>1 DEF NoRequestOnDeadModel
  <2>3. /\ model'[r.model] = "active"
        /\ \A n \in Models \ {r.model} : model'[n] = model[n]
    BY <1>3, <2>1 DEF TypeOK
  <2>4. NoRequestOnDeadModel'
    BY <1>1, <1>3, <2>3 DEF NoRequestOnDeadModel
  <2>5. InUseAlive'
    BY <1>1, <1>2, <2>3 DEF InUseAlive, TypeOK
  <2>6. FreedOnce'
    BY <2>1, <2>2, <2>3 DEF FreedOnce, TypeOK, Events
  <2> QED
    BY <2>4, <2>5, <2>6
<1>5. CASE r.what = "deactivate"
  <2>1. /\ model' = [model EXCEPT ![r.model] = "gone"]
        /\ events' = Append(events, Message("deleted", r.model))
    BY <1>5 DEF Receive
  <2>2. r = Message("deactivate", r.model)
    BY <1>2, <1>5 DEF Message, Requests
  <2>3. /\ model'[r.model] = "gone" /\ model[r.model] \in {"made", "active"}
        /\ \A n \in Models \ {r.model} : model'[n] = model[n]
    BY <1>1, <1>3, <2>1 DEF TypeOK, NoRequestOnDeadModel
  <2>4. ASSUME NEW i \in DOMAIN requests, i # 1 PROVE requests[i].model # r.model
    <3>1. 1 \in 1..(i - 1)
      BY <1>1, <2>4
    <3> QED
      BY <1>1, <2>2, <2>4, <3>1 DEF NoRequestOnDeadModel
  <2>5. NoRequestOnDeadModel'
    <3> SUFFICES ASSUME NEW i \in DOMAIN requests'
                 PROVE /\ model'[requests'[i].model] \in {"made", "active"}
                       /\ \A j \in 1..(i - 1) :
                             requests'[j] # Message("deactivate", requests'[i].model)
      BY DEF NoRequestOnDeadModel
    <3>1. i + 1 \in DOMAIN requests /\ i + 1 # 1 /\ requests'[i] = requests[i + 1]
      BY <1>1
    <3>2. model'[requests'[i].model] \in {"made", "active"}
      BY <1>3, <2>3, <2>4, <3>1 DEF NoRequestOnDeadModel
    <3>3. ASSUME NEW j \in 1..(i - 1)
          PROVE requests'[j] # Message("deactivate", requests'[i].model)
      <4>1. requests'[j] = requests[j + 1] /\ j + 1 \in 1..((i + 1) - 1)
        BY <1>1, <3>3
      <4> QED
        BY <3>1, <4>1 DEF NoRequestOnDeadModel
    <3> QED
      BY <3>2, <3>3
  <2>6. InUseAlive'
    <3>1. text_input # NoModel => text_input # r.model
      BY <1>1, <2>2 DEF InUseAlive
    <3> QED
      BY <1>1, <1>2, <2>3, <3>1 DEF InUseAlive, TypeOK
  <2>7. FreedOnce'
    <3>1. /\ DOMAIN events = 1..Len(events) /\ Len(events) \in Nat
          /\ DOMAIN events' = 1..(Len(events) + 1)
          /\ \A i \in DOMAIN events : events'[i] = events[i] /\ events[i] \in Events
          /\ events'[Len(events) + 1] = Message("deleted", r.model)
      BY <2>1 DEF TypeOK
    <3>2. ASSUME NEW i \in DOMAIN events, events[i].what = "deleted"
          PROVE  events[i].model \in Models /\ events[i].model # r.model
      BY <2>3, <3>1, <3>2 DEF FreedOnce, Events
    <3>3. ASSUME NEW i \in DOMAIN events, events'[i].what = "deleted"
          PROVE  /\ model'[events'[i].model] = "gone"
                 /\ \A j \in 1..(i - 1) : events'[j] # events'[i]
      BY <2>3, <3>1, <3>2, <3>3 DEF FreedOnce
    <3>4. \A j \in DOMAIN events : events'[j] # Message("deleted", r.model)
      BY <3>1, <3>2 DEF Message
    <3>5. events'[Len(events) + 1].model = r.model
      BY <3>1 DEF Message
    <3>6. ASSUME NEW i \in DOMAIN events', events'[i].what = "deleted"
          PROVE  /\ model'[events'[i].model] = "gone"
                 /\ \A j \in 1..(i - 1) : events'[j] # events'[i]
      <4>1. CASE i \in DOMAIN events
        BY <3>3, <3>6, <4>1
      <4>2. CASE i = Len(events) + 1
        BY <2>3, <3>1, <3>4, <3>5, <4>2
      <4> QED
        BY <3>1, <4>1, <4>2
    <3> QED
      BY <3>6 DEF FreedOnce
  <2> QED
    BY <2>5, <2>6, <2>7
<1> QED
    BY <1>2, <1>4, <1>5 DEF Requests

\* An id is free again only when nothing refers to it.
LEMMA DispatchKeepsInv == IInv /\ Dispatch => NoRequestOnDeadModel' /\ InUseAlive' /\ FreedOnce'
<1> SUFFICES ASSUME IInv, Dispatch PROVE NoRequestOnDeadModel' /\ InUseAlive' /\ FreedOnce'
    OBVIOUS
<1> USE DEF IInv
<1> DEFINE e == Head(events)
<1>1. /\ events' = Tail(events) /\ e = events[1] /\ 1 \in DOMAIN events
      /\ Len(events) \in Nat \ {0} /\ DOMAIN events = 1..Len(events)
      /\ DOMAIN events' = 1..(Len(events) - 1)
      /\ \A i \in DOMAIN events' : events'[i] = events[i + 1]
    BY DEF Dispatch, TypeOK
<1>2. /\ e \in Events /\ \A i \in DOMAIN events : events[i] \in Events
      /\ requests' = requests
    BY <1>1 DEF Dispatch, TypeOK
<1>3. e.model \in Models /\ \A i \in DOMAIN events : events[i].model \in Models
    BY <1>2 DEF Events
<1>4. text_input' = text_input
    BY DEF Dispatch, KeyboardGone, keyboardVars
<1>5. \A i \in DOMAIN events' :
        /\ i + 1 \in DOMAIN events
        /\ \A j \in 1..(i - 1) : j + 1 \in 1..((i + 1) - 1) /\ events'[j] = events[j + 1]
    BY <1>1
<1>6. \A i \in DOMAIN events' : events'[i].what = "deleted" =>
        /\ model[events'[i].model] = "gone"
        /\ \A j \in 1..(i - 1) : events'[j] # events'[i]
    BY <1>1, <1>5 DEF FreedOnce
<1>7. CASE e.what \in {"leave", "closed"}
  <2>1. model' = model
    BY <1>7 DEF Dispatch
  <2> QED
    BY <1>2, <1>4, <1>6, <2>1 DEF NoRequestOnDeadModel, InUseAlive, FreedOnce
<1>8. CASE e.what = "deleted"
  <2>1. model' = [model EXCEPT ![e.model] = "free"]
    BY <1>8 DEF Dispatch
  <2>2. /\ model[e.model] = "gone"
        /\ \A n \in Models \ {e.model} : model'[n] = model[n]
    BY <1>1, <1>3, <1>8, <2>1 DEF TypeOK, FreedOnce
  <2>3. \A i \in DOMAIN requests : requests[i].model \in Models
    BY MessageModels
  <2>4. NoRequestOnDeadModel' /\ InUseAlive'
    BY <1>2, <1>4, <2>2, <2>3 DEF NoRequestOnDeadModel, InUseAlive, TypeOK
  <2>5. ASSUME NEW i \in DOMAIN events', events'[i].what = "deleted"
        PROVE  events'[i].model # e.model
    <3>1. i + 1 \in DOMAIN events /\ 1 \in 1..((i + 1) - 1) /\ events'[i] = events[i + 1]
      BY <1>1
    <3>2. events[1] # events[i + 1]
      BY <2>5, <3>1 DEF FreedOnce
    <3> QED
      BY <1>1, <1>2, <1>8, <2>5, <3>1, <3>2 DEF Events
  <2>6. FreedOnce'
    <3>1. \A i \in DOMAIN events' : events'[i].model \in Models
      BY <1>1, <1>3, <1>5
    <3> QED
      BY <1>6, <2>2, <2>5, <3>1 DEF FreedOnce
  <2> QED
    BY <2>4, <2>6
<1> QED
    BY <1>2, <1>7, <1>8 DEF Events

\* An event that ends no text_model.
LEMMA EventKeepsInv ==
    ASSUME IInv, NEW m \in Models, NEW what \in {"leave", "closed"},
           events' = Append(events, Message(what, m)),
           requests' = requests, text_input' = text_input,
           \/ model' = model
           \/ model[m] = "active" /\ model' = [model EXCEPT ![m] = "made"]
    PROVE  NoRequestOnDeadModel' /\ InUseAlive' /\ FreedOnce'
<1> USE DEF IInv
<1>1. /\ \A n \in Models : model'[n] = "gone" <=> model[n] = "gone"
      /\ \A n \in Models : model[n] \in {"made", "active"} => model'[n] \in {"made", "active"}
    BY DEF TypeOK
<1>2. \A i \in DOMAIN requests : requests[i].model \in Models
    BY MessageModels
<1>3. NoRequestOnDeadModel' /\ InUseAlive'
    BY <1>1, <1>2 DEF NoRequestOnDeadModel, InUseAlive, TypeOK
<1>4. /\ DOMAIN events = 1..Len(events) /\ Len(events) \in Nat
      /\ DOMAIN events' = 1..(Len(events) + 1)
      /\ \A i \in DOMAIN events : events'[i] = events[i] /\ events[i].model \in Models
      /\ events'[Len(events) + 1] = Message(what, m)
    BY MessageModels DEF TypeOK
<1>6. events'[Len(events) + 1].what # "deleted"
    BY <1>4 DEF Message
<1>5. FreedOnce'
    BY <1>1, <1>4, <1>6 DEF FreedOnce
<1> QED
    BY <1>3, <1>5

\* Every action keeps the inductive invariant.
LEMMA InvStep == IInv /\ [Next]_vars => IInv'
<1> SUFFICES ASSUME IInv, [Next]_vars PROVE NoRequestOnDeadModel' /\ InUseAlive' /\ FreedOnce'
    BY TypeStep DEF IInv
<1>1. CASE UNCHANGED <<keyboardVars, wireVars>>
    BY <1>1 DEF IInv, NoRequestOnDeadModel, InUseAlive, FreedOnce, keyboardVars, wireVars
<1>2. CASE Gtk
    BY <1>1, <1>2, ShowKeepsInv, HideKeepsInv
    DEF Gtk, BindManager, MapMain, GetTextInput, ListenerReady, DestroyTextInput, SetPending,
        TextInputCommit, CommitField
<1>3. CASE UserCloses
    BY <1>3, EventKeepsInv DEF UserCloses, IInv, TypeOK, keyboardVars
<1>4. CASE ClickFades \/ Back \/ \E place \in Places : Click(place)
    BY <1>1, <1>4, ShowKeepsInv, HideKeepsInv DEF ClickFades, Back, Click, Guess
<1>5. CASE Dispatch
    BY <1>5, DispatchKeepsInv
<1>6. CASE Receive
    BY <1>6, ReceiveKeepsInv
<1>7. CASE \E m \in Models : Leave(m)
  <2> PICK m \in Models : Leave(m)
    BY <1>7
  <2> QED
    BY EventKeepsInv DEF Leave, keyboardVars
<1>8. CASE UNCHANGED vars
    BY <1>1, <1>8 DEF vars
<1> QED
    BY <1>2, <1>3, <1>4, <1>5, <1>6, <1>7, <1>8 DEF Next, User

\* The invariant at the start.
LEMMA InitInv == Init => IInv
<1>1. Init => NoRequestOnDeadModel /\ InUseAlive /\ FreedOnce
    BY DEF Init, NoRequestOnDeadModel, InUseAlive, FreedOnce
<1> QED
    BY <1>1, InitTypes DEF IInv

-----------------------------------------------------------------------------
(* The keyboard is up for a field. *)

\* Every action keeps the field and the belief together.
LEMMA FieldStep == FieldInv /\ [Next]_vars => FieldInv'
<1> SUFFICES ASSUME FieldInv, [Next]_vars PROVE UpForAField' /\ ShownBy' /\ EnterReachesGtk'
    BY TypeStep DEF FieldInv
<1> USE DEF FieldInv, UpForAField, ShownBy, EnterReachesGtk, EnterMain, gtkVars, fieldVars, keyboardVars
<1>1. ShowKeyboard => text_input' \in Models /\ keyboard_up'
    BY ShowTypes DEF ShowKeyboard
<1>2. HideKeyboard => ~keyboard_up'
    BY DEF HideKeyboard
<1>3. CASE BindManager \/ MapMain \/ GetTextInput \/ ListenerReady \/ DestroyTextInput
  <2>1. CASE BindManager
    BY <2>1 DEF BindManager, TypeOK
  <2>2. CASE MapMain
    BY <2>2 DEF MapMain, TypeOK
  <2>3. CASE GetTextInput
    BY <2>3 DEF GetTextInput, TypeOK
  <2>4. CASE ListenerReady
    BY <2>4 DEF ListenerReady, TypeOK
  <2>5. CASE DestroyTextInput
    BY <2>5 DEF DestroyTextInput, TypeOK
  <2> QED
    BY <1>3, <2>1, <2>2, <2>3, <2>4, <2>5
<1>4. CASE TextInputCommit
    BY <1>1, <1>2, <1>4, KeyboardAssumption DEF TextInputCommit, CommitField, TypeOK
<1>5. CASE \E on \in BOOLEAN : SetPending(on)
    BY <1>5 DEF SetPending
<1>6. CASE ClickFades \/ Back
    BY <1>2, <1>6 DEF ClickFades, Back
<1>7. CASE \E place \in Places : Click(place)
  <2>1. UNCHANGED <<gtkVars, fieldVars, main_surface>> /\ main_surface
    BY <1>7 DEF Click, Guess
  <2>2. CASE UNCHANGED keyboardVars
    BY <2>1, <2>2
  <2>3. CASE HideKeyboard
    BY <1>2, <2>1, <2>3
  <2>4. CASE ShowKeyboard /\ ~text_input_bound
    BY <1>1, <2>1, <2>4, KeyboardAssumption
  <2> QED
    BY <1>7, <2>2, <2>3, <2>4 DEF Click, Guess
<1>8. CASE Dispatch
    BY <1>8 DEF Dispatch, KeyboardGone
<1>9. CASE UserCloses \/ Receive \/ \E m \in Models : Leave(m)
    BY <1>9 DEF UserCloses, Receive, Leave
<1>10. CASE UNCHANGED vars
    BY <1>10 DEF vars
<1> QED
    BY <1>3, <1>4, <1>5, <1>6, <1>7, <1>8, <1>9, <1>10 DEF Next, Gtk, User

\* The field's invariant at the start.
LEMMA InitField == Init => FieldInv
    BY InitTypes DEF Init, FieldInv, UpForAField, ShownBy, EnterReachesGtk

-----------------------------------------------------------------------------
(* With nothing on its way the belief is right. *)

\* What Append does to a sequence.
LEMMA Appended ==
    ASSUME NEW S, NEW q \in Seq(S), NEW x \in S
    PROVE  /\ Len(q) \in Nat /\ DOMAIN q = 1..Len(q)
           /\ Len(Append(q, x)) = Len(q) + 1 /\ DOMAIN Append(q, x) = 1..(Len(q) + 1)
           /\ \A i \in 1..Len(q) : Append(q, x)[i] = q[i]
           /\ Append(q, x)[Len(q) + 1] = x
           /\ Append(q, x) # <<>>
    OBVIOUS

\* What Tail does to one that is not empty.
LEMMA Removed ==
    ASSUME NEW S, NEW q \in Seq(S), q # <<>>
    PROVE  /\ Len(q) \in Nat \ {0} /\ DOMAIN q = 1..Len(q) /\ Head(q) = q[1] /\ 1 \in DOMAIN q
           /\ Len(Tail(q)) = Len(q) - 1 /\ DOMAIN Tail(q) = 1..(Len(q) - 1)
           /\ \A i \in 1..(Len(q) - 1) : Tail(q)[i] = q[i + 1] /\ i + 1 \in DOMAIN q
           /\ \A i \in DOMAIN q : i # 1 => i - 1 \in DOMAIN Tail(q) /\ Tail(q)[i - 1] = q[i]
           /\ Tail(q) = <<>> <=> Len(q) = 1
<1>1. /\ Len(q) \in Nat \ {0} /\ DOMAIN q = 1..Len(q) /\ Head(q) = q[1] /\ 1 \in DOMAIN q
      /\ Len(Tail(q)) = Len(q) - 1 /\ DOMAIN Tail(q) = 1..(Len(q) - 1)
      /\ \A i \in 1..(Len(q) - 1) : Tail(q)[i] = q[i + 1] /\ i + 1 \in DOMAIN q
    OBVIOUS
<1>2. \A i \in DOMAIN q : i # 1 => i - 1 \in DOMAIN Tail(q) /\ Tail(q)[i - 1] = q[i]
    BY <1>1
<1>3. Tail(q) \in Seq(S)
    OBVIOUS
<1>4. Tail(q) = <<>> <=> Len(q) = 1
  <2>1. \A t \in Seq(S) : t = <<>> <=> Len(t) = 0
    BY EmptySeq
  <2>2. Tail(q) = <<>> <=> Len(Tail(q)) = 0
    BY <1>3, <2>1
  <2> QED
    BY <1>1, <2>2
<1> QED
    BY <1>1, <1>2, <1>4

\* The panel's text_model stays active while it has the panel.
LEMMA PanelStep == IInv /\ PanelActive /\ [Next]_vars => PanelActive'
<1> SUFFICES ASSUME IInv, PanelActive, [Next]_vars PROVE PanelActive'
    OBVIOUS
<1> USE DEF PanelActive, imeVars, wireVars
<1>0. /\ TypeOK /\ NoModel \notin Models
      /\ panel \in Models \cup {NoModel} /\ left_up \in Models \cup {NoModel}
    BY KeyboardAssumption DEF IInv, TypeOK
<1>1. CASE UNCHANGED <<model, panel, left_up>>
    BY <1>1
<1>2. CASE ShowKeyboard /\ UNCHANGED <<panel, left_up>>
    BY <1>0, <1>2 DEF ShowKeyboard, TypeOK
<1>3. HideKeyboard => UNCHANGED model
    BY DEF HideKeyboard
<1>4. CASE Gtk
    BY <1>1, <1>2, <1>3, <1>4
    DEF Gtk, BindManager, MapMain, GetTextInput, ListenerReady, DestroyTextInput, SetPending,
        TextInputCommit, CommitField
<1>5. CASE UserCloses
    BY <1>5 DEF UserCloses
<1>6. CASE ClickFades \/ Back \/ \E place \in Places : Click(place)
    BY <1>1, <1>2, <1>3, <1>6 DEF ClickFades, Back, Click, Guess
<1>7. CASE Dispatch
  <2>1. CASE model' = model
    BY <1>1, <1>7, <2>1 DEF Dispatch
  <2>2. CASE Head(events).what = "deleted" /\ model' = [model EXCEPT ![Head(events).model] = "free"]
    <3>1. Head(events) = events[1] /\ 1 \in DOMAIN events
      BY <1>0, <1>7, Removed DEF Dispatch, TypeOK
    <3>2. model[Head(events).model] = "gone"
      BY <2>2, <3>1 DEF IInv, FreedOnce
    <3> QED
      BY <1>0, <1>7, <2>2, <3>2 DEF Dispatch, TypeOK
  <2> QED
    BY <1>7, <2>1, <2>2 DEF Dispatch
<1>8. CASE Receive
  <2>1. Head(requests) = requests[1] /\ 1 \in DOMAIN requests
    BY <1>0, <1>8, Removed DEF Receive, TypeOK
  <2>2. Head(requests).model \in Models
    BY <1>0, <2>1, MessageModels
  <2> QED
    BY <1>0, <1>8, <2>2 DEF Receive, TypeOK
<1>9. CASE \E m \in Models : Leave(m)
    BY <1>0, <1>9 DEF Leave, TypeOK
<1>10. CASE UNCHANGED vars
    BY <1>1, <1>10 DEF vars
<1> QED
    BY <1>4, <1>5, <1>6, <1>7, <1>8, <1>9, <1>10 DEF Next, User

\* What a text_model's id refers to stays, or its events are before its end.
LEMMA SignalsStep ==
    IInv /\ PanelActive /\ SignalsBeforeFree /\ [Next]_vars => SignalsBeforeFree'
<1> SUFFICES ASSUME IInv, PanelActive, SignalsBeforeFree, [Next]_vars PROVE SignalsBeforeFree'
    OBVIOUS
<1> USE DEF SignalsBeforeFree, Signal, wireVars
<1>0. TypeOK
    BY DEF IInv
<1>1. ASSUME UNCHANGED events,
             \A m \in Models : model[m] \in {"made", "active"} => model'[m] \in {"made", "active"}
      PROVE  SignalsBeforeFree'
    BY <1>1
<1>2. CASE ShowKeyboard
    BY <1>0, <1>1, <1>2 DEF ShowKeyboard, TypeOK
<1>3. HideKeyboard => UNCHANGED <<model, events>>
    BY DEF HideKeyboard
<1>4. CASE Gtk
    BY <1>1, <1>2, <1>3, <1>4
    DEF Gtk, BindManager, MapMain, GetTextInput, ListenerReady, DestroyTextInput, SetPending,
        TextInputCommit, CommitField
<1>5. ASSUME NEW m \in Models, NEW what, Message(what, m) \in Events,
             events' = Append(events, Message(what, m)),
             \A n \in Models : model[n] \in {"made", "active"} =>
                  model'[n] \in {"made", "active"} \/ (n = m /\ what = "deleted"),
             what = "deleted" \/ model'[m] \in {"made", "active"}
      PROVE  SignalsBeforeFree'
  <2>1. /\ DOMAIN events = 1..Len(events) /\ DOMAIN events' = 1..(Len(events) + 1)
        /\ Len(events) \in Nat
        /\ \A i \in DOMAIN events : events'[i] = events[i]
        /\ events'[Len(events) + 1] = Message(what, m)
    BY <1>0, <1>5, Appended DEF TypeOK
  <2> SUFFICES ASSUME NEW i \in DOMAIN events', NEW n \in Models, Signal(i, n)'
               PROVE  \/ model'[n] \in {"made", "active"}
                      \/ \E j \in DOMAIN events' : i < j /\ events'[j] = Message("deleted", n)
    OBVIOUS
  <2>2. CASE i \in DOMAIN events
    <3>1. Signal(i, n)
      BY <2>1, <2>2
    <3>2. CASE model[n] \in {"made", "active"}
      BY <1>5, <2>1, <2>2, <3>2
    <3>3. CASE \E j \in DOMAIN events : i < j /\ events[j] = Message("deleted", n)
      BY <2>1, <3>3
    <3> QED
      BY <2>2, <3>1, <3>2, <3>3
  <2>3. CASE i = Len(events) + 1
    BY <1>5, <2>1, <2>3 DEF Message
  <2> QED
    BY <2>1, <2>2, <2>3
<1>6. CASE UserCloses
  <2>1. ASSUME NEW m, m \in {panel, left_up}, m # NoModel
        PROVE  m \in Models /\ model[m] \in {"made", "active"} /\ Message("closed", m) \in Events
    BY <1>0, <2>1 DEF PanelActive, TypeOK, Message, Events
  <2>2. PICK m \in {panel, left_up} : m # NoModel /\ events' = Append(events, Message("closed", m))
    BY <1>6 DEF UserCloses
  <2>3. model' = model
    BY <1>6 DEF UserCloses
  <2> QED
    BY <1>5, <2>1, <2>2, <2>3
<1>7. CASE ClickFades \/ Back \/ \E place \in Places : Click(place)
    BY <1>1, <1>2, <1>3, <1>7 DEF ClickFades, Back, Click, Guess
<1>8. CASE Dispatch
  <2>1. /\ DOMAIN events = 1..Len(events) /\ Len(events) \in Nat
        /\ DOMAIN events' = 1..(Len(events) - 1)
        /\ \A i \in DOMAIN events' : events'[i] = events[i + 1] /\ i + 1 \in DOMAIN events
        /\ events[1] = Head(events) /\ 1 \in DOMAIN events
    BY <1>0, <1>8, Removed DEF Dispatch, TypeOK
  <2>2. \A m \in Models : model[m] \in {"made", "active"} => model'[m] = model[m]
    BY <1>0, <1>8, <2>1, MessageModels DEF Dispatch, IInv, FreedOnce, TypeOK
  <2> SUFFICES ASSUME NEW i \in DOMAIN events', NEW n \in Models, Signal(i, n)'
               PROVE  \/ model'[n] \in {"made", "active"}
                      \/ \E j \in DOMAIN events' : i < j /\ events'[j] = Message("deleted", n)
    OBVIOUS
  <2>3. Signal(i + 1, n) /\ i + 1 \in DOMAIN events
    BY <2>1
  <2>4. CASE \E j \in DOMAIN events : i + 1 < j /\ events[j] = Message("deleted", n)
    <3>1. PICK j \in DOMAIN events : i + 1 < j /\ events[j] = Message("deleted", n)
      BY <2>4
    <3>2. j - 1 \in DOMAIN events' /\ i < j - 1 /\ events'[j - 1] = events[j]
      BY <2>1, <3>1
    <3> QED
      BY <3>1, <3>2
  <2> QED
    BY <2>2, <2>3, <2>4
<1>9. CASE Receive
  <2>1. Head(requests).model \in Models /\ Head(requests) = requests[1] /\ 1 \in DOMAIN requests
    BY <1>0, <1>9, Removed, MessageModels DEF Receive, TypeOK
  <2>2. CASE model' = [model EXCEPT ![Head(requests).model] = "active"] /\ UNCHANGED events
    BY <1>0, <1>1, <2>2 DEF TypeOK
  <2>3. CASE /\ model' = [model EXCEPT ![Head(requests).model] = "gone"]
             /\ events' = Append(events, Message("deleted", Head(requests).model))
    <3>1. Message("deleted", Head(requests).model) \in Events
      BY <2>1 DEF Message, Events
    <3>2. \A n \in Models : n # Head(requests).model => model'[n] = model[n]
      BY <1>0, <2>3 DEF TypeOK
    <3> QED
      BY <1>5, <2>1, <2>3, <3>1, <3>2
  <2> QED
    BY <1>9, <2>2, <2>3 DEF Receive
<1>10. CASE \E m \in Models : Leave(m)
  <2> PICK m \in Models : Leave(m)
    BY <1>10
  <2>1. Message("leave", m) \in Events
    BY DEF Message, Events
  <2>2. events' = Append(events, Message("leave", m)) /\ model' = [model EXCEPT ![m] = "made"]
    BY DEF Leave
  <2> QED
    BY <1>0, <1>5, <2>1, <2>2 DEF TypeOK
<1>11. CASE UNCHANGED vars
    BY <1>1, <1>11 DEF vars
<1> QED
    BY <1>4, <1>6, <1>7, <1>8, <1>9, <1>10, <1>11 DEF Next, User

\* Before there is a manager or a window nothing happens.
LEMMA QuietStep == IInv /\ FieldInv /\ QuietAtFirst /\ [Next]_vars => QuietAtFirst'
<1> SUFFICES ASSUME IInv, FieldInv, QuietAtFirst, [Next]_vars,
                    ~text_input_bound', ~main_surface'
             PROVE  /\ text_input' = NoModel /\ ~keyboard_up' /\ panel' = NoModel
                    /\ left_up' = NoModel
                    /\ \A m \in Models : model'[m] # "active"
                    /\ requests' = <<>> /\ events' = <<>>
    BY DEF QuietAtFirst
<1> USE DEF gtkVars, fieldVars, keyboardVars, imeVars, wireVars
<1>1. CASE Gtk
  <2>1. CASE BindManager
    BY <2>1 DEF BindManager
  <2>2. CASE MapMain
    BY <2>2 DEF MapMain
  <2>3. CASE GetTextInput \/ ListenerReady \/ DestroyTextInput \/ TextInputCommit
             \/ \E on \in BOOLEAN : SetPending(on)
    BY <2>3 DEF GetTextInput, ListenerReady, DestroyTextInput, TextInputCommit, SetPending,
                FieldInv, ShownBy
  <2> QED
    BY <1>1, <2>1, <2>2, <2>3 DEF Gtk
<1>2. CASE User
  <2>1. CASE ClickFades
    BY <2>1 DEF ClickFades, QuietAtFirst
  <2>2. CASE Back
    BY <2>2 DEF Back, HideKeyboard, QuietAtFirst
  <2>3. CASE UserCloses
    BY <2>3 DEF UserCloses, QuietAtFirst
  <2>4. CASE \E place \in Places : Click(place)
    <3>1. main_surface /\ UNCHANGED main_surface
      BY <2>4 DEF Click, Guess
    <3> QED
      BY <3>1
  <2> QED
    BY <1>2, <2>1, <2>2, <2>3, <2>4 DEF User
<1>3. CASE Dispatch \/ Receive \/ \E m \in Models : Leave(m)
    BY <1>3 DEF Dispatch, Receive, Leave, QuietAtFirst
<1>4. CASE UNCHANGED vars
    BY <1>4 DEF vars, QuietAtFirst
<1> QED
    BY <1>1, <1>2, <1>3, <1>4 DEF Next

\* A keyboard is shown when none is believed up: its text_model has shown none, or
\* has lost it and the adapter knows.
LEMMA ShowInOnePlace ==
    ASSUME BeliefInv, InOnePlace, RestIsEnded, ~keyboard_up, ShowKeyboard, UNCHANGED panel
    PROVE  InOnePlace' /\ RestIsEnded'
<1>0. TypeOK /\ NoModel \notin Models
    BY KeyboardAssumption DEF BeliefInv, IInv
<1>1. PICK m \in TextModels : /\ text_input' = m
                             /\ requests' = Append(requests, Message("activate", m))
                             /\ events' = events /\ keyboard_up' = TRUE
    BY DEF ShowKeyboard
<1>2. m \in Models /\ Message("activate", m) \in Requests
    BY <1>0 DEF TextModels, TypeOK, Message, Requests
<1>3. /\ DOMAIN requests = 1..Len(requests) /\ Len(requests) \in Nat
      /\ Len(requests') = Len(requests) + 1 /\ DOMAIN requests' = 1..(Len(requests) + 1)
      /\ \A i \in DOMAIN requests : requests'[i] = requests[i]
      /\ requests'[Len(requests) + 1] = Message("activate", m) /\ requests' # <<>>
    BY <1>0, <1>1, <1>2, Appended DEF TypeOK
<1>4. /\ panel # m /\ \A i \in DOMAIN events : ~Signal(i, m)
      /\ \A i \in DOMAIN requests : requests[i] # Message("activate", m)
  <2>1. CASE text_input # NoModel
    <3>1. m = text_input /\ requests = <<>> /\ DOMAIN requests = {}
      BY <2>1 DEF TextModels, InOnePlace
    <3> QED
      BY <2>1, <3>1 DEF InOnePlace
  <2>2. CASE text_input = NoModel
    <3>1. model[m] = "free"
      BY <2>2 DEF TextModels
    <3>2. panel # m
      BY <1>0, <1>2, <3>1 DEF BeliefInv, PanelActive
    <3>3. ASSUME NEW i \in DOMAIN events, Signal(i, m) PROVE FALSE
      <4>1. PICK j \in DOMAIN events : events[j] = Message("deleted", m)
        BY <1>2, <3>1, <3>3 DEF BeliefInv, SignalsBeforeFree
      <4> QED
        BY <3>1, <4>1 DEF BeliefInv, IInv, FreedOnce, Message
    <3>4. \A i \in DOMAIN requests : requests[i] # Message("activate", m)
      <4> SUFFICES ASSUME NEW i \in DOMAIN requests, requests[i] = Message("activate", m)
                   PROVE  FALSE
        OBVIOUS
      <4>1. requests[i].model = m
        BY DEF Message
      <4> QED
        BY <3>1, <4>1 DEF BeliefInv, IInv, NoRequestOnDeadModel
    <3> QED
      BY <3>2, <3>3, <3>4
  <2> QED
    BY <2>1, <2>2
<1>5. InOnePlace'
  <2>1. \A i \in DOMAIN events : ~Signal(i, m)'
    BY <1>1, <1>4 DEF Signal
  <2>2. 1..(Len(requests') - 1) = DOMAIN requests
    BY <1>3
  <2> QED
    BY <1>1, <1>3, <1>4, <2>1, <2>2 DEF InOnePlace
<1>6. \A n, i : Ends(n, i) => Ends(n, i)'
    BY <1>3 DEF Ends
<1>7. RestIsEnded'
  <2>1. ASSUME NEW i \in DOMAIN requests', NEW n \in Models, n # m,
               requests'[i] = Message("activate", n)
        PROVE  Ends(n, i)'
    <3>1. i \in DOMAIN requests
      BY <1>3, <2>1 DEF Message
    <3>2. n # text_input
      BY <1>0, <2>1 DEF TextModels
    <3> QED
      BY <1>3, <1>6, <2>1, <3>1, <3>2 DEF RestIsEnded
  <2>2. panel \notin {NoModel, m} => Ends(panel, 0)
    BY DEF TextModels, RestIsEnded
  <2>3. panel \notin {NoModel, m} => Ends(panel, 0)'
    BY <1>6, <2>2 DEF Ends
  <2> QED
    BY <1>1, <2>1, <2>3 DEF RestIsEnded
<1> QED
    BY <1>5, <1>7

\* Hiding gives up the text_model with the request that ends its keyboard.
LEMMA HideInOnePlace ==
    ASSUME BeliefInv, InOnePlace, RestIsEnded, HideKeyboard, UNCHANGED panel
    PROVE  InOnePlace' /\ RestIsEnded'
<1>0. TypeOK
    BY DEF BeliefInv, IInv
<1>1. CASE text_input # NoModel /\ keyboard_up
  <2>1. /\ requests' = Append(requests, Message("deactivate", text_input))
        /\ text_input' = NoModel /\ Message("deactivate", text_input) \in Requests
    BY <1>0, <1>1 DEF HideKeyboard, TypeOK, Message, Requests
  <2>2. /\ DOMAIN requests = 1..Len(requests) /\ Len(requests) \in Nat
        /\ DOMAIN requests' = 1..(Len(requests) + 1)
        /\ \A i \in DOMAIN requests : requests'[i] = requests[i]
        /\ requests'[Len(requests) + 1] = Message("deactivate", text_input)
    BY <1>0, <2>1, Appended DEF TypeOK
  <2>3. \A n, i : Ends(n, i) => Ends(n, i)'
    BY <2>2 DEF Ends
  <2>5. ASSUME NEW i \in DOMAIN requests', NEW n \in Models, requests'[i] = Message("activate", n)
        PROVE  Ends(n, i)'
    <3>1. i \in DOMAIN requests
      BY <2>2, <2>5 DEF Message
    <3>2. CASE n = text_input
      BY <2>2, <3>1, <3>2 DEF Ends
    <3>3. CASE n # text_input
      BY <2>2, <2>3, <2>5, <3>1, <3>3 DEF RestIsEnded
    <3> QED
      BY <3>2, <3>3
  <2>6. ASSUME NEW p, p = panel, p # NoModel PROVE Ends(p, 0)'
    <3>1. CASE p = text_input
      BY <2>2, <3>1 DEF Ends
    <3>2. CASE p # text_input
      BY <2>3, <2>6, <3>2 DEF RestIsEnded
    <3> QED
      BY <3>1, <3>2
  <2> QED
    BY <2>1, <2>5, <2>6 DEF InOnePlace, RestIsEnded, Ends
<1>2. CASE ~(text_input # NoModel /\ keyboard_up)
    BY <1>2 DEF HideKeyboard, keyboardVars, wireVars, InOnePlace, RestIsEnded, Ends, Signal
<1> QED
    BY <1>1, <1>2

\* The panel is gone and the event that says so is on its way.
LEMMA GoneInOnePlace ==
    ASSUME BeliefInv, InOnePlace, RestIsEnded, panel # NoModel, panel' = NoModel,
           NEW what \in {"leave", "closed"}, events' = Append(events, Message(what, panel)),
           UNCHANGED <<keyboardVars, requests>>
    PROVE  InOnePlace' /\ RestIsEnded'
<1>0. TypeOK
    BY DEF BeliefInv, IInv
<1>1. /\ DOMAIN events = 1..Len(events) /\ Len(events) \in Nat
      /\ DOMAIN events' = 1..(Len(events) + 1)
      /\ \A i \in DOMAIN events : events'[i] = events[i]
      /\ events'[Len(events) + 1] = Message(what, panel)
  <2>1. Message(what, panel) \in Events
    BY <1>0 DEF TypeOK, Message, Events
  <2> QED
    BY <1>0, <2>1, Appended DEF TypeOK
<1>2. /\ text_input' = text_input /\ keyboard_up' = keyboard_up /\ requests' = requests
    BY DEF keyboardVars
<1>3. RestIsEnded'
    BY <1>2 DEF RestIsEnded, Ends
<1>4. ASSUME NEW m, m = text_input, m # NoModel
      PROVE  InOnePlace'
  <2> DEFINE k == Len(events) + 1
  <2>0. PICK last : last = k
    OBVIOUS
  <2>1. /\ \A i \in DOMAIN events : Signal(i, m)' <=> Signal(i, m)
        /\ Signal(last, m)' <=> panel = m
        /\ \A i \in DOMAIN events' : i \in DOMAIN events \/ i = last
        /\ \A i \in DOMAIN events : i \in DOMAIN events' /\ i # last
        /\ last \in DOMAIN events'
    BY <1>1, <2>0 DEF Signal, Message
  <2> HIDE DEF k
  <2>2. CASE panel = m
    <3>1. requests = <<>> /\ keyboard_up /\ \A i \in DOMAIN events : ~Signal(i, m)
      BY <1>4, <2>2 DEF InOnePlace
    <3> QED
      BY <1>2, <1>4, <2>1, <2>2, <3>1 DEF InOnePlace
  <2>3. CASE panel # m
    <3>1. \A i \in DOMAIN events' : Signal(i, m)' => i \in DOMAIN events /\ Signal(i, m)
      BY <2>1, <2>3
    <3>2. (\E i \in DOMAIN events' : Signal(i, m)') <=> \E i \in DOMAIN events : Signal(i, m)
      BY <2>1, <3>1
    <3>3. panel # m /\ panel' # m
      BY <1>4, <2>3
    <3>4. keyboard_up' <=> \/ requests' # <<>> \/ panel' = m
                          \/ \E i \in DOMAIN events' : Signal(i, m)'
      BY <1>2, <1>4, <3>2, <3>3 DEF InOnePlace
    <3>5. \A i, j \in DOMAIN events' : Signal(i, m)' /\ Signal(j, m)' => i = j
      BY <1>4, <3>1 DEF InOnePlace
    <3>6. requests' # <<>> => \A i \in DOMAIN events' : ~Signal(i, m)'
      BY <1>2, <1>4, <3>1 DEF InOnePlace
    <3>7. requests' # <<>> => /\ keyboard_up' /\ requests'[Len(requests')] = Message("activate", m)
                             /\ \A i \in 1..(Len(requests') - 1) :
                                    requests'[i] # Message("activate", m)
      BY <1>2, <1>4 DEF InOnePlace
    <3> QED
      BY <1>2, <1>4, <3>3, <3>4, <3>5, <3>6, <3>7 DEF InOnePlace
  <2> QED
    BY <2>2, <2>3
<1> QED
    BY <1>2, <1>3, <1>4 DEF InOnePlace

\* An event is dispatched: the last of what the belief rests on, or none of it.
LEMMA DispatchInOnePlace ==
    ASSUME BeliefInv, InOnePlace, RestIsEnded, Dispatch
    PROVE  InOnePlace' /\ RestIsEnded'
<1>0. TypeOK
    BY DEF BeliefInv, IInv
<1>1. /\ DOMAIN events = 1..Len(events) /\ Len(events) \in Nat \ {0}
      /\ DOMAIN events' = 1..(Len(events) - 1) /\ Head(events) = events[1] /\ 1 \in DOMAIN events
      /\ \A i \in DOMAIN events' : events'[i] = events[i + 1] /\ i + 1 \in DOMAIN events
      /\ \A i \in DOMAIN events : i # 1 => i - 1 \in DOMAIN events' /\ events'[i - 1] = events[i]
    BY <1>0, Removed DEF Dispatch, TypeOK
<1>2. text_input' = text_input /\ requests' = requests /\ panel' = panel
    BY DEF Dispatch, KeyboardGone, keyboardVars, imeVars
<1>3. RestIsEnded'
    BY <1>2 DEF RestIsEnded, Ends
<1>4. ASSUME NEW m, m = text_input, m # NoModel
      PROVE  InOnePlace'
  <2>1. \A i \in DOMAIN events' : Signal(i, m)' <=> Signal(i + 1, m)
    BY <1>1 DEF Signal
  <2>2. \A i \in DOMAIN events : i # 1 => (Signal(i - 1, m)' <=> Signal(i, m))
    BY <1>1 DEF Signal
  <2>3. CASE Signal(1, m)
    <3>1. keyboard_up' = FALSE
      BY <1>1, <1>4, <2>3 DEF Dispatch, KeyboardGone, Signal
    <3>2. \A i \in DOMAIN events' : ~Signal(i, m)'
      BY <1>1, <1>4, <2>1, <2>3 DEF InOnePlace
    <3>3. requests = <<>> /\ panel # m
      BY <1>1, <1>4, <2>3 DEF InOnePlace
    <3> QED
      BY <1>2, <1>4, <3>1, <3>2, <3>3 DEF InOnePlace
  <2>4. CASE ~Signal(1, m)
    <3>1. keyboard_up' = keyboard_up
      BY <1>1, <1>4, <2>4 DEF Dispatch, Signal, keyboardVars
    <3>2. (\E i \in DOMAIN events' : Signal(i, m)') <=> \E i \in DOMAIN events : Signal(i, m)
      BY <1>1, <2>1, <2>2, <2>4
    <3>3. (\A i, j \in DOMAIN events : Signal(i, m) /\ Signal(j, m) => i = j)
          => \A i, j \in DOMAIN events' : Signal(i, m)' /\ Signal(j, m)' => i = j
      BY <1>1, <2>1
    <3> QED
      BY <1>2, <1>4, <3>1, <3>2, <3>3 DEF InOnePlace
  <2> QED
    BY <2>3, <2>4
<1> QED
    BY <1>2, <1>3, <1>4 DEF InOnePlace

\* A request is received: the one the belief rests on is the last.
LEMMA ReceiveInOnePlace ==
    ASSUME BeliefInv, InOnePlace, RestIsEnded, Receive
    PROVE  InOnePlace' /\ RestIsEnded'
<1>0. TypeOK /\ NoModel \notin Models
    BY KeyboardAssumption DEF BeliefInv, IInv
<1> DEFINE L == Len(requests)
<1>1. /\ DOMAIN requests = 1..L /\ L \in Nat \ {0} /\ requests # <<>>
      /\ Len(requests') = L - 1
      /\ DOMAIN requests' = 1..(L - 1) /\ Head(requests) = requests[1] /\ 1 \in DOMAIN requests
      /\ \A i \in DOMAIN requests' : requests'[i] = requests[i + 1] /\ i + 1 \in DOMAIN requests
      /\ \A i \in DOMAIN requests : i # 1 =>
            i - 1 \in DOMAIN requests' /\ requests'[i - 1] = requests[i]
      /\ requests' = <<>> <=> L = 1
    BY <1>0, Removed DEF Receive, TypeOK
<1>2. text_input' = text_input /\ keyboard_up' = keyboard_up
    BY DEF Receive, keyboardVars
<1> HIDE DEF L
<1>3. PICK n \in Models : n = Head(requests).model
    BY <1>0, <1>1, MessageModels
<1>4. \A m, i : Ends(m, i) /\ i \in Nat \ {0} => Ends(m, i - 1)'
    BY <1>1 DEF Ends
<1>5. \A m : Ends(m, 0) /\ requests[1] # Message("deactivate", m) => Ends(m, 0)'
  <2> SUFFICES ASSUME NEW m, NEW j \in DOMAIN requests, requests[j] = Message("deactivate", m),
                      j # 1
               PROVE  Ends(m, 0)'
    BY DEF Ends
  <2>1. j - 1 \in DOMAIN requests' /\ 0 < j - 1 /\ requests'[j - 1] = Message("deactivate", m)
    BY <1>1
  <2> QED
    BY <2>1 DEF Ends
<1>6. \A i \in DOMAIN requests', m \in Models :
          m # text_input /\ requests'[i] = Message("activate", m) => Ends(m, i)'
  <2> SUFFICES ASSUME NEW i \in DOMAIN requests', NEW m \in Models, m # text_input,
                      requests'[i] = Message("activate", m)
               PROVE  Ends(m, i)'
    OBVIOUS
  <2>1. Ends(m, i + 1) /\ i + 1 \in Nat \ {0} /\ (i + 1) - 1 = i
    BY <1>1 DEF RestIsEnded
  <2> QED
    BY <1>4, <2>1
<1>7. ASSUME NEW m, m = text_input, m # NoModel, L # 1, panel' # m,
             \A i \in DOMAIN events' : Signal(i, m)' => i \in DOMAIN events /\ Signal(i, m)
      PROVE  InOnePlace'
  <2>1. /\ keyboard_up /\ requests[L] = Message("activate", m)
        /\ \A i \in 1..(L - 1) : requests[i] # Message("activate", m)
        /\ \A i \in DOMAIN events : ~Signal(i, m)
    BY <1>1, <1>7 DEF InOnePlace, L
  <2>2. /\ requests' # <<>> /\ requests'[Len(requests')] = requests[L]
    BY <1>1, <1>7
  <2>3. \A i \in 1..(Len(requests') - 1) : requests'[i] # Message("activate", m)
    BY <1>1, <2>1
  <2>4. \A i \in DOMAIN events' : ~Signal(i, m)'
    BY <1>7, <2>1
  <2> QED
    BY <1>2, <1>7, <2>1, <2>2, <2>3, <2>4 DEF InOnePlace
<1>8. text_input = NoModel => InOnePlace'
    BY <1>2 DEF InOnePlace
<1>9. CASE Head(requests).what = "activate"
  <2>1. panel' = n /\ events' = events /\ requests[1] = Message("activate", n)
    BY <1>0, <1>1, <1>3, <1>9, MessageModels DEF Receive, Message, Requests
  <2>2. CASE n = text_input
    <3>1. L = 1 /\ requests' = <<>>
      BY <1>0, <1>1, <2>1, <2>2 DEF InOnePlace, L
    <3>2. InOnePlace'
      BY <1>0, <1>1, <1>2, <2>1, <2>2, <3>1 DEF InOnePlace, Signal
    <3> QED
      BY <1>2, <1>6, <2>1, <2>2, <3>2 DEF RestIsEnded
  <2>3. CASE n # text_input
    <3>1. Ends(n, 0)'
      BY <1>1, <1>4, <2>1, <2>3 DEF RestIsEnded
    <3>2. RestIsEnded'
      BY <1>2, <1>6, <2>1, <3>1 DEF RestIsEnded, Ends
    <3>3. text_input # NoModel => L # 1
      BY <1>0, <1>1, <2>1, <2>3 DEF InOnePlace, L, Message
    <3>4. InOnePlace'
      BY <1>7, <1>8, <2>1, <2>3, <3>3 DEF Signal
    <3> QED
      BY <3>2, <3>4
  <2> QED
    BY <2>2, <2>3
<1>10. CASE Head(requests).what = "deactivate"
  <2>1. /\ requests[1] = Message("deactivate", n)
        /\ panel' = IF panel = n THEN NoModel ELSE panel
        /\ events' = Append(events, Message("deleted", n))
    BY <1>0, <1>1, <1>3, <1>10, MessageModels DEF Receive, Message, Requests
  <2>2. n # text_input
    BY <1>0, <1>1, <2>1 DEF BeliefInv, IInv, InUseAlive
  <2>3. RestIsEnded'
    <3>1. ASSUME NEW p, p = panel, p # NoModel, p # text_input, p # n PROVE Ends(p, 0)'
      <4>1. requests[1] # Message("deactivate", p)
        BY <2>1, <3>1 DEF Message
      <4>2. Ends(p, 0)
        BY <3>1 DEF RestIsEnded
      <4> QED
        BY <1>5, <4>1, <4>2
    <3> QED
      BY <1>2, <1>6, <2>1, <3>1 DEF RestIsEnded, Ends
  <2>4. /\ \A i \in DOMAIN events : i \in DOMAIN events' /\ events'[i] = events[i]
        /\ \A i \in DOMAIN events' : i \in DOMAIN events \/ events'[i] = Message("deleted", n)
    <3>1. Message("deleted", n) \in Events
      BY DEF Message, Events
    <3> QED
      BY <1>0, <2>1, <3>1, Appended DEF TypeOK
  <2>5. \A i, m : i \in DOMAIN events' /\ Signal(i, m)' <=> i \in DOMAIN events /\ Signal(i, m)
    BY <2>4 DEF Signal, Message
  <2>6. text_input # NoModel => L # 1
    BY <1>0, <1>1, <2>1, <2>2 DEF InOnePlace, L, Message
  <2>7. InOnePlace'
    <3>1. CASE text_input # NoModel
      <4>1. panel # text_input
        BY <1>1, <3>1 DEF InOnePlace
      <4>2. panel' # text_input
        BY <2>1, <3>1, <4>1
      <4> QED
        BY <1>7, <2>5, <2>6, <3>1, <4>2
    <3> QED
      BY <1>8, <3>1
  <2> QED
    BY <2>3, <2>7
<1> QED
    BY <1>0, <1>1, <1>9, <1>10, MessageModels DEF Requests

\* Every action keeps what the belief rests on in one place.
LEMMA PlaceStep ==
    ASSUME BeliefInv, [Next]_vars, text_input_bound', ~stray_leave'
    PROVE  InOnePlace' /\ RestIsEnded'
<1> USE DEF gtkVars, fieldVars, keyboardVars, imeVars, wireVars
<1>0. TypeOK /\ ShownBy /\ UpForAField
    BY DEF BeliefInv, IInv, FieldInv
<1>1. CASE ~text_input_bound
  <2>1. BindManager
    BY <1>1 DEF Next, Gtk, User, BindManager, MapMain, GetTextInput, ListenerReady,
                DestroyTextInput, SetPending, TextInputCommit, ClickFades, Back, UserCloses, Click,
                Dispatch, Receive, Leave, vars
  <2>2. text_input' = NoModel /\ panel' = NoModel /\ requests' = <<>>
    BY <1>1, <2>1 DEF BindManager, BeliefInv, QuietAtFirst
  <2> QED
    BY <2>2 DEF InOnePlace, RestIsEnded
<1>2. CASE text_input_bound
  <2>1. ~stray_leave
    BY DEF Next, Gtk, User, BindManager, MapMain, GetTextInput, ListenerReady,
           DestroyTextInput, SetPending, TextInputCommit, ClickFades, Back, UserCloses, Click,
           Dispatch, Receive, Leave, vars
  <2>2. InOnePlace /\ RestIsEnded
    BY <1>2, <2>1 DEF BeliefInv
  <2>3. CASE UNCHANGED <<keyboardVars, panel, requests, events>>
    BY <2>2, <2>3 DEF InOnePlace, RestIsEnded, Ends, Signal
  <2>4. CASE BindManager \/ MapMain \/ GetTextInput \/ ListenerReady \/ DestroyTextInput
             \/ \E on \in BOOLEAN : SetPending(on)
    BY <2>3, <2>4 DEF BindManager, MapMain, GetTextInput, ListenerReady, DestroyTextInput, SetPending
  <2>5. CASE TextInputCommit
    <3>1. CASE ShowKeyboard /\ ~keyboard_up
      BY <2>2, <2>5, <3>1, ShowInOnePlace DEF TextInputCommit
    <3>2. CASE HideKeyboard
      BY <2>2, <2>5, <3>2, HideInOnePlace DEF TextInputCommit
    <3>3. CASE UNCHANGED <<keyboardVars, wireVars>>
      BY <2>3, <2>5, <3>3 DEF TextInputCommit
    <3> QED
      BY <1>0, <1>2, <2>5, <3>1, <3>2, <3>3 DEF TextInputCommit, CommitField, UpForAField, TypeOK
  <2>6. CASE ClickFades \/ \E place \in Places : Click(place)
    BY <1>2, <2>3, <2>6 DEF ClickFades, Click, Guess
  <2>7. CASE Back
    BY <2>2, <2>7, HideInOnePlace DEF Back
  <2>8. CASE UserCloses
    BY <2>2, <2>8, GoneInOnePlace DEF UserCloses
  <2>9. CASE Dispatch
    BY <2>2, <2>9, DispatchInOnePlace
  <2>10. CASE Receive
    BY <2>2, <2>10, ReceiveInOnePlace
  <2>11. CASE \E m \in Models : Leave(m)
    <3>1. PICK m \in Models : Leave(m)
      BY <2>11
    <3>2. panel = m /\ panel # NoModel
      BY <3>1, KeyboardAssumption DEF Leave
    <3>3. panel' = NoModel /\ events' = Append(events, Message("leave", panel))
      BY <3>1, <3>2 DEF Leave
    <3> QED
      BY <2>2, <3>1, <3>2, <3>3, GoneInOnePlace DEF Leave
  <2>12. CASE UNCHANGED vars
    BY <2>3, <2>12 DEF vars
  <2> QED
    BY <2>4, <2>5, <2>6, <2>7, <2>8, <2>9, <2>10, <2>11, <2>12 DEF Next, Gtk, User
<1> QED
    BY <1>1, <1>2

\* Every action keeps the belief's invariant.
LEMMA BeliefStep == BeliefInv /\ [Next]_vars => BeliefInv'
    BY InvStep, FieldStep, PanelStep, SignalsStep, QuietStep, PlaceStep DEF BeliefInv

\* The belief's invariant at the start.
LEMMA InitBelief == Init => BeliefInv
<1> SUFFICES ASSUME Init PROVE BeliefInv
    OBVIOUS
<1>1. IInv /\ FieldInv
    BY InitInv, InitField
<1>2. PanelActive /\ QuietAtFirst /\ ~text_input_bound
    BY DEF Init, PanelActive, QuietAtFirst
<1>3. SignalsBeforeFree
    BY DEF Init, SignalsBeforeFree
<1> QED
    BY <1>1, <1>2, <1>3 DEF BeliefInv

-----------------------------------------------------------------------------

\* The adapter's keyboard state, the compositor's and what is on its way keep their
\* types in every behaviour of the code.
THEOREM TypeCorrect == Spec => []TypeOK
<1> QED
    BY InitTypes, TypeStep, PTL DEF Spec, Safe

\* However hides, shows, leaves and deleted ids cross, hide_keyboard and
\* ensure_text_model never have a request on its way to a text_model that is gone.
THEOREM NoRequestIsFatal == Spec => []NoRequestOnDeadModel
<1>1. IInv => NoRequestOnDeadModel
    BY DEF IInv
<1> QED
    BY <1>1, InitInv, InvStep, PTL DEF Spec, Safe

\* text_input_commit, clicks, Back and the panel's events leave keyboard_up true only
\* with a text_model to hide it by and, with text-input-v3, a field that has the focus.
THEOREM UpOnlyForAField == Spec => []UpForAField
<1>1. Init => FieldInv
    BY InitField
<1>2. FieldInv => UpForAField
    BY DEF FieldInv
<1> QED
    BY <1>1, <1>2, FieldStep, PTL DEF Spec, Safe

\* text_input_enter_main is called wherever either half comes true: GTK's listener is told
\* of its window, in whatever order manager, object, listener and window come and go.
THEOREM EnterAlwaysReachesGtk == Spec => []EnterReachesGtk
<1>1. FieldInv => EnterReachesGtk
    BY DEF FieldInv
<1> QED
    BY <1>1, InitField, FieldStep, PTL DEF Spec, Safe

\* keyboard_up agrees with the screen whenever nothing is on its way: shows, hides, the
\* keyboard's own button and leaves may cross in any number, and a leave may take the
\* keyboard down or leave it up, when the adapter believes it down.  It needs
\* text-input-v3, and no event that may have crossed a new activation.
THEOREM BeliefSettles == Spec => []BeliefIsRight
<1>1. BeliefInv => BeliefIsRight
  <2> SUFFICES ASSUME BeliefInv, text_input_bound, ~stray_leave, requests = <<>>, events = <<>>
               PROVE  keyboard_up <=> OnScreen /\ left_up = NoModel
    BY DEF BeliefIsRight
  <2>0. panel # NoModel => left_up = NoModel
    BY DEF BeliefInv, PanelActive
  <2> SUFFICES keyboard_up <=> panel # NoModel
    BY <2>0 DEF OnScreen
  <2>1. InOnePlace /\ RestIsEnded /\ NoModel \notin Models /\ TypeOK /\ UpForAField
    BY KeyboardAssumption DEF BeliefInv, IInv, FieldInv
  <2>2. DOMAIN requests = {} /\ DOMAIN events = {}
    OBVIOUS
  <2>3. panel \in {NoModel, text_input}
    BY <2>1, <2>2 DEF RestIsEnded, Ends
  <2>4. text_input # NoModel => (keyboard_up <=> panel = text_input)
    BY <2>1, <2>2 DEF InOnePlace
  <2>5. text_input = NoModel => ~keyboard_up
    BY <2>1 DEF UpForAField
  <2> QED
    BY <2>3, <2>4, <2>5
<1> QED
    BY <1>1, InitBelief, BeliefStep, PTL DEF Spec, Safe

=============================================================================
