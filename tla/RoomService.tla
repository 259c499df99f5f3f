----------------------------- MODULE RoomService -----------------------------
(***************************************************************************)
(* What the rooms promise, without the program counters, the locks and the *)
(* copies of Rooms.  A room is a text and two seats.  An edit changes the  *)
(* text and owes it to both seats; until the debt of both is paid, or a    *)
(* seat is found empty, nobody edits the room again.  So everything a      *)
(* client is shown by an update is the text of its room at that moment.    *)
(* The process may end between any two steps.                              *)
(***************************************************************************)
EXTENDS Naturals, Sequences

CONSTANTS Fds, undefined, Torn, NoText, Rooms, Slots, Texts, Messages

VARIABLES
  up,      \* the server runs
  made,    \* how many rooms there are
  gone,    \* the clients that vanished
  member,  \* the room of each client, 0 for none
  seat,    \* who sits in the two slots of each room
  rising,  \* the slot each client is about to vacate, 0 for none
  text,    \* the notepad of each room
  owed,    \* the slots that have not been shown the last edit
  view,    \* the text a client that joined is about to be shown
  shown    \* what each client was sent, in order

vars == <<up, made, gone, member, seat, rising, text, owed, view, shown>>

Init ==
  /\ up = TRUE /\ made = 0 /\ gone = {}
  /\ member = [c \in Fds |-> 0]
  /\ seat = [r \in Rooms |-> [s \in Slots |-> undefined]]
  /\ rising = [c \in Fds |-> 0]
  /\ text = [r \in Rooms |-> NoText]
  /\ owed = {}
  /\ view = [c \in Fds |-> NoText]
  /\ shown = [c \in Fds |-> <<>>]

(* What is sent to a client that vanished is lost, or ends the process. *)
Deliver(c, h, r, x) ==
  IF c \in gone THEN UNCHANGED shown
  ELSE shown' = [shown EXCEPT ![c] = Append(@, [header |-> h, room |-> r, body |-> x])]

(* Answers, and the cursors of the client's room, show nobody a text. *)
Notices(c) == {m \in Messages : /\ m.header \notin {"112", "204"}
                                /\ m.header = "113" => m.room = member[c]}
Tell(c) ==
  /\ c \notin gone /\ shown'[c] # shown[c]
  /\ \E m \in Notices(c) : shown' = [shown EXCEPT ![c] = Append(@, m)]
  /\ UNCHANGED <<made, gone, member, seat, rising, text, owed, view>>

Make ==
  /\ made' = made + 1 /\ made' \in Rooms
  /\ UNCHANGED <<gone, member, seat, rising, text, owed, view, shown>>

(* Two that enter at once may take the same slot. *)
Enter(c) ==
  /\ member[c] = 0
  /\ \E r \in 1 .. made, s \in Slots :
       /\ member' = [member EXCEPT ![c] = r]
       /\ seat' = [seat EXCEPT ![r][s] = c]
  /\ UNCHANGED <<made, gone, rising, text, owed, view, shown>>

(* The creator's text, before anybody was told of the room. *)
Open(c) ==
  LET r == member[c] IN
  /\ r # 0
  /\ \A d \in Fds \ {c} : member[d] # r
  /\ \A d \in Fds : \A i \in DOMAIN shown[d] : shown[d][i].room # r
  /\ \E x \in Texts : text' = [text EXCEPT ![r] = x]
  /\ UNCHANGED <<made, gone, member, seat, rising, owed, view, shown>>

Edit(c) ==
  LET r == member[c] IN
  /\ r # 0
  /\ {r} \X Slots \cap owed = {}
  /\ \E x \in Texts : text' = [text EXCEPT ![r] = x]
  /\ owed' = owed \cup {r} \X Slots
  /\ UNCHANGED <<made, gone, member, seat, rising, view, shown>>

Show(r, s) ==
  /\ <<r, s>> \in owed
  /\ owed' = owed \ {<<r, s>>}
  /\ IF seat[r][s] = undefined THEN UNCHANGED shown
     ELSE Deliver(seat[r][s], "112", r, text[r])
  /\ UNCHANGED <<made, gone, member, seat, rising, text, view>>

(* Whoever joined is shown the text it found, or what it read of one that  *)
(* was being changed; another edit may have come before it is shown.       *)
Look(c) ==
  /\ member[c] # 0
  /\ \E x \in {text[member[c]], Torn} : view' = [view EXCEPT ![c] = x]
  /\ UNCHANGED <<made, gone, member, seat, rising, text, owed, shown>>

CatchUp(c) ==
  /\ member[c] # 0
  /\ Deliver(c, "204", member[c], view[c])
  /\ view' = [view EXCEPT ![c] = NoText]
  /\ UNCHANGED <<made, gone, member, seat, rising, text, owed>>

(* A client gives up its own slot only.  Between the two steps another may *)
(* enter the slot, and is put out of it.                                   *)
Rise(c) ==
  /\ member[c] # 0
  /\ \E s \in Slots : /\ seat[member[c]][s] = c
                      /\ rising' = [rising EXCEPT ![c] = s]
  /\ UNCHANGED <<made, gone, member, seat, text, owed, view, shown>>

Vacate(c) ==
  /\ rising[c] # 0
  /\ seat' = [seat EXCEPT ![member[c]][rising[c]] = undefined]
  /\ rising' = [rising EXCEPT ![c] = 0]
  /\ UNCHANGED <<made, gone, member, text, owed, view, shown>>

Leave(c) ==
  /\ member[c] # 0
  /\ rising[c] = 0
  /\ \A r \in Rooms, s \in Slots : seat[r][s] # c
  /\ member' = [member EXCEPT ![c] = 0]
  /\ Deliver(c, "110", 0, NoText)
  /\ UNCHANGED <<made, gone, seat, rising, text, owed, view>>

(* A client that vanished keeps its slot when it is forgotten. *)
Vanish(c) ==
  /\ gone' = gone \cup {c}
  /\ UNCHANGED <<made, member, seat, rising, text, owed, view, shown>>

Forget(c) ==
  /\ c \in gone
  /\ member' = [member EXCEPT ![c] = 0]
  /\ UNCHANGED <<made, gone, seat, rising, text, owed, view, shown>>

(* All but what was shown dies with the process. *)
Halt == up' = FALSE /\ UNCHANGED shown

Next ==
  /\ up
  /\ \/ /\ UNCHANGED up
        /\ \/ Make
           \/ \E c \in Fds :
                \/ Enter(c) \/ Open(c) \/ Edit(c) \/ Look(c) \/ CatchUp(c)
                \/ Rise(c) \/ Vacate(c) \/ Leave(c) \/ Vanish(c) \/ Forget(c)
                \/ Tell(c)
           \/ \E r \in Rooms, s \in Slots : Show(r, s)
     \/ Halt

Spec == Init /\ [][Next]_vars

=============================================================================
