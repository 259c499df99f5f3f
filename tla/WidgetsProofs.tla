--------------------------- MODULE WidgetsProofs ---------------------------
(***************************************************************************)
(* What is proved about the buttons and popups, wherever the mouse may go  *)
(* and whatever the sizes of a code and an id.                             *)
(***************************************************************************)
EXTENDS Widgets, TLAPS

Headers == Codes \cup {"002", "004", "005", "008"}

(* What Order is: thirteen buttons, the three that confirm are the last.   *)
LEMMA OrderOfButtons ==
  /\ 1 .. Len(Order) = 1 .. 13
  /\ \A n \in 1 .. 13 : Order[n] \in Buttons
  /\ \A n \in 1 .. 13 : Order[n] \in Confirms => n >= 11
  /\ \A n \in 1 .. 13 : n >= 11 => Order[n] \in Confirms
  /\ Popups \cap Confirms = {}
<1>1. Len(Order) = 13  BY DEF Order
<1>2. \A n \in 1 .. 13 : Order[n] \in Buttons  BY <1>1 DEF Buttons
<1>3. \A n \in 1 .. 13 : Order[n] \in Confirms => n >= 11  BY DEF Order, Confirms
<1>4. \A n \in 1 .. 13 : n >= 11 => Order[n] \in Confirms  BY DEF Order, Confirms
<1> QED  BY <1>1, <1>2, <1>3, <1>4 DEF Popups, Confirms

(* What is under the mouse after the next button, when it is a Confirm.    *)
LEMMA ConfirmsComeLast ==
  ASSUME todo \subseteq Buttons, NEW n \in 1 .. 13, IsNext(n), Order[n] \in Confirms
  PROVE  todo \subseteq Confirms
<1> SUFFICES ASSUME NEW b \in todo PROVE b \in Confirms  OBVIOUS
<1>1. PICK m \in 1 .. 13 : b = Order[m]  BY OrderOfButtons DEF Buttons
<1>2. m \notin 1 .. (n - 1)  BY <1>1 DEF IsNext
<1> QED  BY <1>1, <1>2, OrderOfButtons

(* The sizes of codes and ids are numbers. *)
LEMMA SizesAreNumbers == \A p \in Popups : SizeOf(p) \in Nat
BY WidgetsAssumption DEF SizeOf

-----------------------------------------------------------------------------
(* What the function of a button may do: nothing to popups and requests,   *)
(* open one popup and nothing else, send a request that is not a code, or  *)
(* confirm a popup that is drawn, which closes it.                         *)
Effect(b) ==
  \/ UNCHANGED <<drawn, requests>>
  \/ b \in Popups /\ drawn' = {b} /\ requests' = requests
  \/ \E h \in {"002", "004", "005", "008"} :
       requests' = Append(requests, h) /\ drawn' = drawn
  \/ \E p \in drawn, h \in Codes :
       b \in Confirms /\ drawn' = drawn \ {p} /\ requests' = Append(requests, h)

LEMMA FunctionsOfButtons ==
  ASSUME NEW b \in Buttons, OnPressFunction(b)
  PROVE  Effect(b)
<1>1. CASE b \in Popups
  BY <1>1 DEF OnPressFunction, OpenPopup, Effect, Popups, Confirms
<1>2. CASE b \in Confirms
  <2>1. Confirm  BY <1>2 DEF OnPressFunction, Popups, Confirms
  <2> DEFINE Full(p) == p \in drawn /\ typed[p] = SizeOf(p)
             Done(p, h) == drawn' = drawn \ {p} /\ requests' = Append(requests, h)
  <2>2. \/ Full("Join") /\ Done("Join", "003")
        \/ Full("Open") /\ Done("Open", "011")
        \/ Full("Delete") /\ Done("Delete", "010")
        \/ UNCHANGED <<drawn, requests>>
    BY <2>1 DEF Confirm
  <2> QED  BY <2>2, <1>2 DEF Effect, Codes
<1>3. CASE b \notin Popups /\ b \notin Confirms
  BY <1>3 DEF OnPressFunction, Request, Effect
<1> QED  BY <1>1, <1>2, <1>3

(* One step of the loops: what it does to the flag, and to the rest. *)
LEMMA StepsOfButtons ==
  ASSUME NEW b \in Buttons, Process(b)
  PROVE  \/ /\ ~left
            /\ hasBeenPressed' = hasBeenPressed \ {b}
            /\ UNCHANGED <<drawn, requests, presses>>
         \/ /\ left
            /\ b \in hasBeenPressed
            /\ hasBeenPressed' = hasBeenPressed
            /\ UNCHANGED <<drawn, requests, presses>>
         \/ /\ left
            /\ b \notin hasBeenPressed
            /\ hasBeenPressed' = hasBeenPressed \cup {b}
            /\ presses' = [presses EXCEPT ![b] = @ + 1]
            /\ Effect(b)
<1>1. CASE ~left  BY <1>1 DEF Process
<1>2. CASE left /\ b \in hasBeenPressed  BY <1>2 DEF Process, OnPress
<1>3. CASE left /\ b \notin hasBeenPressed
  <2>1. /\ hasBeenPressed' = hasBeenPressed \cup {b}
        /\ presses' = [presses EXCEPT ![b] = @ + 1]
        /\ OnPressFunction(b)
    BY <1>3 DEF Process, OnPress
  <2> QED  BY <1>3, <2>1, FunctionsOfButtons
<1> QED  BY <1>1, <1>2, <1>3

-----------------------------------------------------------------------------
(***************************************************************************)
(* The state of the window stays well formed; with it, a popup's string    *)
(* never outgrows what its Confirm looks for, however keys and Backspace   *)
(* alternate (the TextEntered event).                                      *)
(***************************************************************************)
THEOREM TypedStaysInBounds == Spec => []TypeOK
<1>1. Init => TypeOK
  <2> SUFFICES ASSUME Init PROVE TypeOK  OBVIOUS
  <2>1. \A p \in Popups : typed[p] \in 0 .. SizeOf(p)
    BY SizesAreNumbers DEF Init
  <2>2. presses \in [Buttons -> Nat]  BY DEF Init
  <2>3. requests \in Seq(Codes \cup {"002", "004", "005", "008"})  BY DEF Init
  <2>4. left \in BOOLEAN  BY DEF Init
  <2>5. phase \in {"events", "buttons"} /\ todo \subseteq Buttons
        /\ hasBeenPressed \subseteq Buttons /\ drawn \subseteq Popups
    BY DEF Init
  <2> QED  BY <2>1, <2>2, <2>3, <2>4, <2>5 DEF TypeOK
<1>2. TypeOK /\ [Next]_vars => TypeOK'
  <2> SUFFICES ASSUME TypeOK, [Next]_vars PROVE TypeOK'  OBVIOUS
  <2>1. CASE PressLeft  BY <2>1 DEF PressLeft, TypeOK
  <2>2. CASE ReleaseLeft  BY <2>2 DEF ReleaseLeft, TypeOK
  <2>3. CASE NewFrame  BY <2>3 DEF NewFrame, UnderMouse, TypeOK
  <2>4. CASE EndEvents  BY <2>4 DEF EndEvents, TypeOK
  <2>5. CASE ProcessNext
    <3>1. PICK n \in 1 .. 13 : Process(Order[n]) /\ todo' = todo \ {Order[n]}
      BY <2>5, OrderOfButtons DEF ProcessNext
    <3> DEFINE b == Order[n]
    <3>2. b \in Buttons  BY OrderOfButtons
    <3>3. UNCHANGED <<left, phase, typed>>  BY <2>5 DEF ProcessNext
    <3>4. hasBeenPressed' \subseteq Buttons
      BY <3>1, <3>2, StepsOfButtons DEF TypeOK
    <3>5. presses' \in [Buttons -> Nat]
      BY <3>1, <3>2, StepsOfButtons DEF TypeOK
    <3> HIDE DEF b
    <3>6. UNCHANGED <<drawn, requests>> \/ Effect(b)
      BY <3>1, <3>2, StepsOfButtons DEF b
    <3>7. drawn' \subseteq Popups  BY <3>6 DEF Effect, TypeOK
    <3>8. requests' \in Seq(Headers)
      <4>1. requests \in Seq(Headers)  BY DEF TypeOK, Headers
      <4>2. requests' = requests \/ \E h \in Headers : requests' = Append(requests, h)
        BY <3>6 DEF Effect, Headers
      <4> QED  BY <4>1, <4>2
    <3> QED  BY <3>1, <3>3, <3>4, <3>5, <3>7, <3>8 DEF TypeOK, Headers
  <2>6. ASSUME NEW p \in Popups, TextEntered(p) PROVE TypeOK'
    BY <2>6, SizesAreNumbers DEF TextEntered, TypedKey, TypedBackspace, TypeOK
  <2>7. CASE UNCHANGED vars  BY <2>7 DEF vars, TypeOK
  <2> QED  BY <2>1, <2>2, <2>3, <2>4, <2>5, <2>6, <2>7 DEF Next
<1> QED  BY <1>1, <1>2, PTL DEF Spec

-----------------------------------------------------------------------------
(* While left is held, a button that has acted has its flag: nothing but a *)
(* button that is read as up resets it.                                    *)
PressInv ==
  \A b \in Buttons :
    presses[b] <= 1 /\ (left /\ presses[b] = 1 => b \in hasBeenPressed)

LEMMA PressInvariant == Spec => []PressInv
<1>1. Init => PressInv
  BY DEF Init, PressInv
<1>2. TypeOK /\ PressInv /\ [Next]_vars => PressInv'
  <2> SUFFICES ASSUME TypeOK, PressInv, [Next]_vars PROVE PressInv'  OBVIOUS
  <2>1. CASE PressLeft  BY <2>1 DEF PressLeft, PressInv
  <2>2. CASE ProcessNext
    <3>1. PICK n \in 1 .. 13 : Process(Order[n])
      BY <2>2, OrderOfButtons DEF ProcessNext
    <3>2. Order[n] \in Buttons  BY OrderOfButtons
    <3>3. left' = left  BY <2>2 DEF ProcessNext
    <3> QED  BY <3>1, <3>2, <3>3, StepsOfButtons DEF PressInv, TypeOK
  <2>3. CASE UNCHANGED <<hasBeenPressed, presses>> /\ (left' => left)
    BY <2>3 DEF PressInv
  <2> QED
    BY <2>1, <2>2, <2>3 DEF Next, ReleaseLeft, NewFrame, EndEvents, TextEntered, vars
<1> QED  BY <1>1, <1>2, TypedStaysInBounds, PTL DEF Spec

(***************************************************************************)
(* However often the mouse leaves a button and comes back while left is    *)
(* held, in however many frames: button::on_press acts once.               *)
(***************************************************************************)
THEOREM ButtonsActOnce == Spec => []OncePerPress
<1>1. PressInv => OncePerPress  BY DEF PressInv, OncePerPress
<1> QED  BY <1>1, PressInvariant, PTL

-----------------------------------------------------------------------------
(* At most one popup is drawn; once a code was sent in a frame none is,    *)
(* and no button that could open one is still to come.                     *)
CodeInv ==
  /\ \A p, q \in drawn : p = q
  /\ \A n \in DOMAIN requests :
       requests[n] \in Codes => drawn = {} /\ todo \subseteq Confirms
  /\ OneCodeAtATime

(* The effects of a button on popups and requests. *)
LEMMA EffectKeepsCodes ==
  ASSUME TypeOK, CodeInv, NEW n \in 1 .. 13, IsNext(n),
         todo' = todo \ {Order[n]}, Effect(Order[n])
  PROVE  CodeInv'
<1> DEFINE b == Order[n]
<1>1. b \in todo /\ b \in Buttons  BY OrderOfButtons DEF IsNext
<1>2. todo' \subseteq todo /\ requests \in Seq(Headers)  BY DEF TypeOK, Headers
<1>3. Effect(b)  OBVIOUS
<1>4. b \in Confirms => todo \subseteq Confirms
  BY ConfirmsComeLast DEF TypeOK
<1>5. b \in Popups => b \notin Confirms  BY OrderOfButtons
<1> HIDE DEF b
<1>6. CASE UNCHANGED <<drawn, requests>>
  BY <1>2, <1>6 DEF CodeInv, OneCodeAtATime
<1>7. CASE b \in Popups /\ drawn' = {b} /\ requests' = requests
  <2>1. \A k \in DOMAIN requests : requests[k] \notin Codes
    BY <1>1, <1>5, <1>7 DEF CodeInv
  <2> QED  BY <2>1, <1>7 DEF CodeInv, OneCodeAtATime
<1>8. ASSUME NEW h \in {"002", "004", "005", "008"},
             requests' = Append(requests, h), drawn' = drawn
      PROVE CodeInv'
  <2>1. h \notin Codes  BY DEF Codes
  <2>2. h \in Headers  BY DEF Headers
  <2>3. /\ DOMAIN requests' = 1 .. Len(requests) + 1
        /\ DOMAIN requests = 1 .. Len(requests)
        /\ requests'[Len(requests) + 1] = h
        /\ \A k \in 1 .. Len(requests) : requests'[k] = requests[k]
    BY <1>2, <1>8, <2>2
  <2>4. \A k \in DOMAIN requests' :
          requests'[k] \in Codes => k \in DOMAIN requests /\ requests'[k] = requests[k]
    BY <2>1, <2>3
  <2> QED  BY <1>2, <1>8, <2>4 DEF CodeInv, OneCodeAtATime
<1>9. ASSUME NEW p \in drawn, NEW h \in Codes, b \in Confirms,
             drawn' = drawn \ {p}, requests' = Append(requests, h)
      PROVE CodeInv'
  <2>1. drawn' = {}  BY <1>9 DEF CodeInv
  <2>2. \A k \in DOMAIN requests : requests[k] \notin Codes  BY DEF CodeInv
  <2>3. /\ DOMAIN requests' = 1 .. Len(requests) + 1
        /\ DOMAIN requests = 1 .. Len(requests)
        /\ \A k \in 1 .. Len(requests) : requests'[k] = requests[k]
    BY <1>2, <1>9 DEF Headers
  <2>4. \A k \in DOMAIN requests' : requests'[k] \in Codes => k = Len(requests) + 1
    BY <2>2, <2>3
  <2>5. todo' \subseteq Confirms  BY <1>2, <1>4, <1>9
  <2> QED  BY <2>1, <2>4, <2>5 DEF CodeInv, OneCodeAtATime
<1> QED  BY <1>3, <1>6, <1>7, <1>8, <1>9 DEF Effect

LEMMA CodeInvariant == Spec => []CodeInv
<1>1. Init => CodeInv
  BY DEF Init, CodeInv, OneCodeAtATime
<1>2. TypeOK /\ CodeInv /\ [Next]_vars => CodeInv'
  <2> SUFFICES ASSUME TypeOK, CodeInv, [Next]_vars PROVE CodeInv'  OBVIOUS
  <2>1. CASE NewFrame
    BY <2>1 DEF NewFrame, CodeInv, OneCodeAtATime
  <2>2. CASE ProcessNext
    <3>1. PICK n \in 1 .. 13 : IsNext(n) /\ Process(Order[n]) /\ todo' = todo \ {Order[n]}
      BY <2>2, OrderOfButtons DEF ProcessNext
    <3>2. UNCHANGED <<drawn, requests>> \/ Effect(Order[n])
      BY <3>1, StepsOfButtons, OrderOfButtons
    <3>3. Effect(Order[n])  BY <3>2 DEF Effect
    <3> QED  BY <3>1, <3>3, EffectKeepsCodes
  <2>3. CASE UNCHANGED <<drawn, requests, todo>>
    BY <2>3 DEF CodeInv, OneCodeAtATime
  <2> QED
    BY <2>1, <2>2, <2>3 DEF Next, PressLeft, ReleaseLeft, EndEvents, TextEntered, vars
<1> QED  BY <1>1, <1>2, TypedStaysInBounds, PTL DEF Spec

(***************************************************************************)
(* The click that presses all three Confirm buttons in one frame sends one *)
(* code, whatever the three popups hold (confirm_button_press_function).   *)
(***************************************************************************)
THEOREM OneClickSendsOneCode == Spec => []OneCodeAtATime
<1>1. CodeInv => OneCodeAtATime  BY DEF CodeInv
<1> QED  BY <1>1, CodeInvariant, PTL
=============================================================================
