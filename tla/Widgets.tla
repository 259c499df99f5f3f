------------------------------ MODULE Widgets ------------------------------
(***************************************************************************)
(* The buttons and popups of the client's window: how the mouse and the    *)
(* keyboard become the presses that module Notepad starts from.            *)
(*                                                                         *)
(* A frame reads the mouse's position once, polls the events, and then     *)
(* goes through every button, reading the state of the left mouse button   *)
(* at each.  A button works whether it is drawn or not.  Lengths are in    *)
(* units of 20 pixels across and 5 down.                                   *)
(***************************************************************************)
EXTENDS Naturals, Sequences

CONSTANTS
  Columns, Rows,  \* where the mouse may be
  CodeSize,       \* the size of a room's code, 5 in the code
  IdSize          \* the size of a document's id, 6 in the code

ASSUME WidgetsAssumption ==
  Columns \subseteq Nat /\ Rows \subseteq Nat /\ {CodeSize, IdSize} \subseteq Nat

VARIABLES
  left,              \* the left button of the mouse is down
  phase,             \* what the frame is at: "events" or "buttons"
  todo,              \* the buttons under cursor_position that are still to come
  hasBeenPressed,    \* the buttons with that flag
  drawn,             \* the popups with their draw_popup flag
  typed,             \* the size of each popup's string
  requests,          \* the headers sent in this frame
  presses            \* history: how often each button acted since left went down

vars == <<left, phase, todo, hasBeenPressed, drawn, typed, requests, presses>>

-----------------------------------------------------------------------------
(* The buttons in the order of the loops; every popup has its Confirm. *)
Confirms == {"ConfirmJoin", "ConfirmOpen", "ConfirmDelete"}
Order == <<"File", "Clear", "Room", "Create", "Join", "Leave", "Save",
           "Download", "Open", "Delete", "ConfirmJoin", "ConfirmOpen",
           "ConfirmDelete">>
Buttons == {Order[n] : n \in 1 .. Len(Order)}

(* The upper left corners: the three popups are at one place. *)
Corner(b) ==
  CASE b = "File" -> <<0, 0>>     [] b = "Clear" -> <<4, 0>>
    [] b = "Room" -> <<8, 0>>     [] b = "Create" -> <<8, 4>>
    [] b = "Join" -> <<8, 8>>     [] b = "Leave" -> <<8, 12>>
    [] b = "Save" -> <<0, 4>>     [] b = "Download" -> <<0, 8>>
    [] b = "Open" -> <<0, 12>>    [] b = "Delete" -> <<0, 16>>
    [] b \in Confirms -> <<21, 45>>

(* Both borders belong to a button: a row between two belongs to both. *)
IsUnder(b, point) == \A i \in 1 .. 2 : point[i] \in Corner(b)[i] .. (Corner(b)[i] + 4)

Points == Columns \X Rows
Popups == {"Join", "Open", "Delete"}
SizeOf(p) == IF p = "Join" THEN CodeSize ELSE IdSize

Init ==
  /\ left = FALSE
  /\ phase = "buttons" /\ todo = {}
  /\ hasBeenPressed = {} /\ drawn = {}
  /\ typed = [p \in Popups |-> 0]
  /\ requests = <<>> /\ presses = [b \in Buttons |-> 0]

-----------------------------------------------------------------------------
(* The user's hand, between any two reads. *)

PressLeft ==
  /\ ~left /\ left' = TRUE
  /\ presses' = [b \in Buttons |-> 0]
  /\ UNCHANGED <<phase, todo, hasBeenPressed, drawn, typed, requests>>

ReleaseLeft ==
  /\ left /\ left' = FALSE
  /\ UNCHANGED <<phase, todo, hasBeenPressed, drawn, typed, requests, presses>>

-----------------------------------------------------------------------------
(* The frame. *)

UnderMouse(point) == {b \in Buttons : IsUnder(b, point)}

(* Mutant: on_unhover resets the flag, too. *)
NewFrame_Unhovers ==
  /\ phase = "buttons" /\ todo = {}
  /\ phase' = "events"
  /\ \E point \in Points : todo' = UnderMouse(point)
  /\ requests' = <<>>
  /\ hasBeenPressed' = hasBeenPressed \cap todo'
  /\ UNCHANGED <<left, drawn, typed, presses>>

(* cursor_position is wherever the mouse is by now. *)
NewFrame ==
  /\ phase = "buttons" /\ todo = {}
  /\ phase' = "events"
  /\ \E point \in Points : todo' = UnderMouse(point)
  /\ requests' = <<>>
  /\ UNCHANGED <<left, hasBeenPressed, drawn, typed, presses>>

(* The popup the keys go to, of those that are drawn. *)
Typing(p) ==
  CASE p = "Join" -> p \in drawn
    [] p = "Open" -> p \in drawn /\ "Join" \notin drawn
    [] p = "Delete" -> drawn = {p}

(* Mutant: one character too many. *)
TypedKey_OneMore(p) == IF typed[p] <= SizeOf(p) THEN typed[p] + 1 ELSE typed[p]

TypedKey(p) == IF typed[p] < SizeOf(p) THEN typed[p] + 1 ELSE typed[p]
TypedBackspace(p) == IF typed[p] > 0 THEN typed[p] - 1 ELSE 0

TextEntered(p) ==
  /\ phase = "events" /\ Typing(p)
  /\ \E n \in {TypedKey(p), TypedBackspace(p)} : typed' = [typed EXCEPT ![p] = n]
  /\ UNCHANGED <<left, phase, todo, hasBeenPressed, drawn, requests, presses>>

EndEvents ==
  /\ phase = "events" /\ phase' = "buttons"
  /\ UNCHANGED <<left, todo, hasBeenPressed, drawn, typed, requests, presses>>

(* Mutant: the other popups stay. *)
OpenPopup_KeepsOthers(p) == drawn' = drawn \cup {p} /\ UNCHANGED requests

OpenPopup(p) == drawn' = {p} /\ UNCHANGED requests

(* The function of all three Confirm buttons: the first popup that is      *)
(* drawn and has a string of the right size.                               *)
Confirm ==
  LET Full(p) == p \in drawn /\ typed[p] = SizeOf(p)
      Done(p, h) == drawn' = drawn \ {p} /\ requests' = Append(requests, h)
  IN CASE Full("Join")   -> Done("Join", "003")
       [] ~Full("Join") /\ Full("Open") -> Done("Open", "011")
       [] ~Full("Join") /\ ~Full("Open") /\ Full("Delete") -> Done("Delete", "010")
       [] OTHER -> UNCHANGED <<drawn, requests>>

Request(h) == requests' = Append(requests, h) /\ UNCHANGED drawn

OnPressFunction(b) ==
  CASE b \in Popups   -> OpenPopup(b)
    [] b \in Confirms -> Confirm
    [] b = "Create"   -> Request("002")
    [] b = "Leave"    -> Request("004")
    [] b = "Clear"    -> Request("005")
    [] b = "Save"     -> Request("008")
    [] OTHER          -> UNCHANGED <<drawn, requests>>

(* button::on_press *)
OnPress(b) ==
  /\ hasBeenPressed' = hasBeenPressed \cup {b}
  /\ IF b \in hasBeenPressed THEN UNCHANGED <<drawn, requests, presses>>
     ELSE OnPressFunction(b) /\ presses' = [presses EXCEPT ![b] = @ + 1]

Process(b) ==
  IF left THEN OnPress(b)
  ELSE hasBeenPressed' = hasBeenPressed \ {b} /\ UNCHANGED <<drawn, requests, presses>>

(* The button that is next in the order of the loops. *)
IsNext(n) == Order[n] \in todo /\ \A m \in 1 .. (n - 1) : Order[m] \notin todo

ProcessNext ==
  /\ phase = "buttons"
  /\ \E n \in 1 .. Len(Order) :
       /\ IsNext(n)
       /\ Process(Order[n])
       /\ todo' = todo \ {Order[n]}
  /\ UNCHANGED <<left, phase, typed>>

-----------------------------------------------------------------------------
Next ==
  \/ PressLeft \/ ReleaseLeft
  \/ NewFrame \/ EndEvents \/ ProcessNext
  \/ \E p \in Popups : TextEntered(p)

Spec == Init /\ [][Next]_vars

-----------------------------------------------------------------------------
(* The requests that carry a code or an id. *)
Codes == {"003", "010", "011"}

TypeOK ==
  /\ left \in BOOLEAN
  /\ phase \in {"events", "buttons"}
  /\ todo \subseteq Buttons /\ hasBeenPressed \subseteq Buttons
  /\ drawn \subseteq Popups
  /\ \A p \in Popups : typed[p] \in 0 .. SizeOf(p)
  /\ requests \in Seq(Codes \cup {"002", "004", "005", "008"})
  /\ presses \in [Buttons -> Nat]

(***************************************************************************)
(* However long the left button is held and wherever the mouse is dragged, *)
(* a button acts once for a press: no request is sent twice                *)
(* (hasBeenPressed, which is not touched when the mouse leaves).           *)
(***************************************************************************)
OncePerPress == \A b \in Buttons : presses[b] <= 1

(***************************************************************************)
(* One click presses all three Confirm buttons, which lie on one another   *)
(* and have one function: only one code is sent, since no other popup is   *)
(* drawn behind the one that is confirmed.                                 *)
(***************************************************************************)
OneCodeAtATime ==
  \A m, n \in DOMAIN requests : {requests[m], requests[n]} \subseteq Codes => m = n

=============================================================================
