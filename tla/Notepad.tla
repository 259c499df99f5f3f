------------------------------ MODULE Notepad ------------------------------
(***************************************************************************)
(* One client: the thread of the window (SFML_logic), the thread that      *)
(* listens to the server, and the variables the two share without a mutex. *)
(*                                                                         *)
(* The server appears as the handlers of this client's requests, one step  *)
(* each (module Rooms has their steps), and the other member of a room as  *)
(* the updates it causes.  A text is the sequence of its characters: every *)
(* key the user types is a character of its own.  What the user types into *)
(* a popup, and how the mouse presses a button, is in module Widgets.      *)
(***************************************************************************)
EXTENDS Integers, Sequences, SequencesExt

CONSTANTS
  Events,      \* what the window reports: "key", "backspace", "left", "right", "close"
  Buttons,     \* what the user presses, of AllButtons
  ServerEnds,  \* the ways the connection may end: "fin", "rst"
  MaxRooms,    \* bound: the rooms ever created
  MaxEvents,   \* bound: the events of the window, Clear included
  MaxPresses,  \* bound: the other buttons pressed
  MaxChanges   \* bound: the updates of the other member

Popups == {"join", "open", "delete"}
AllButtons == Popups \cup {"create", "leave", "clear", "save", "download"}

ASSUME NotepadAssumption ==
  /\ Events \subseteq {"key", "backspace", "left", "right", "close"}
  /\ Buttons \subseteq AllButtons
  /\ ServerEnds \subseteq {"fin", "rst"}
  /\ {MaxRooms, MaxEvents, MaxPresses, MaxChanges} \subseteq Nat

VARIABLES
  ended,                       \* "no", or how the client process ended
  client_text_input_string,    \* the text being edited
  text_input_string,           \* the text being shown
  current_status,
  text_input_cursor_position,
  has_updated_notepad,
  window,                      \* window.isOpen()
  popup,                       \* the popup window that is drawn
  gpc,                         \* where the thread of the window is
  client_input_cursor_position,
  current_room_id,             \* 0 for the empty string
  received,                    \* the message in received_string
  lpc,                         \* where the listener is
  link,                        \* the state of the connection
  to_server, to_client,        \* the messages on the wire
  client_joined_room,          \* the server's: the client's room, 0 for nullptr
  notepad_collab,              \* the server's: the text of each room
  created,                     \* the server's: how many rooms there are
  member_cursor,               \* the server's: the other member's cursor in each
  budget,                      \* how much of each bound is used
  erased                       \* history: somebody took characters away

text_vars     == <<client_text_input_string, text_input_string>>
shared_vars   == <<ended, text_vars, current_status>>
window_vars   == <<text_input_cursor_position, has_updated_notepad, window,
                   popup, gpc>>
listener_vars == <<client_input_cursor_position, current_room_id, received, lpc>>
server_vars   == <<client_joined_room, notepad_collab, created, member_cursor>>
vars == <<shared_vars, window_vars, listener_vars, link, to_server, to_client,
          server_vars, budget, erased>>

(* What the actions of each actor, below, leave alone. *)
ByWindow   == UNCHANGED <<listener_vars, link, to_client, server_vars>>
ByListener == UNCHANGED <<window_vars, to_server, server_vars, budget, erased>>
ByServer   == UNCHANGED <<shared_vars, window_vars, listener_vars>>

-----------------------------------------------------------------------------
(* Characters: 1 .. MaxEvents for the user's keys, and one each for what   *)
(* the other member types and for a text caught in the middle of an        *)
(* assignment.                                                             *)
TheirChar == 0
TornChar == MaxEvents + 1
Chars == 0 .. TornChar

Rooms == 1 .. MaxRooms
NoCursor == -1
UInt16 == 65536   \* how many values a uint16_t has
NoMessage == [header |-> "none", room |-> 0, body |-> <<>>, pos |-> 0]
Message(h, r, x, p) == [header |-> h, room |-> r, body |-> x, pos |-> p]
Plain(h) == Message(h, 0, <<>>, 0)

Init ==
  /\ ended = "no" /\ current_status = "NOT_CONNECTED"
  /\ client_text_input_string = <<>> /\ text_input_string = <<>>
  /\ text_input_cursor_position = 0 /\ client_input_cursor_position = 0
  /\ has_updated_notepad = FALSE
  /\ window = TRUE /\ popup = "none"
  /\ gpc = "poll" /\ lpc = "recv"
  /\ current_room_id = 0 /\ received = NoMessage
  /\ link = "open" /\ to_server = <<>> /\ to_client = <<>>
  /\ client_joined_room = 0 /\ created = 0
  /\ notepad_collab = [r \in Rooms |-> <<>>]
  /\ member_cursor = [r \in Rooms |-> NoCursor]
  /\ budget = [events |-> 0, presses |-> 0, changes |-> 0, rooms |-> 0]
  /\ erased = FALSE

Running == ended = "no"
AtGui(p) == Running /\ gpc = p
AtListener(p) == Running /\ lpc = p

(* send_message_to_server: on a connection the server has ended the first  *)
(* message is lost, a later one raises SIGPIPE or makes the client exit.   *)
Send(m) ==
  \/ link = "open" /\ to_server' = Append(to_server, m) /\ UNCHANGED ended
  \/ link # "open" /\ ended' \in {ended, "exit"} /\ UNCHANGED to_server

-----------------------------------------------------------------------------
(* The events of the window. *)

Clamped == IF text_input_cursor_position > Len(client_text_input_string)
           THEN Len(client_text_input_string) ELSE text_input_cursor_position

(* pollEvent, and the test that keeps the cursor inside the text.  While a *)
(* popup is drawn keys go to the popup.                                    *)
PollEvent(e) ==
  /\ AtGui("poll") /\ window
  /\ budget.events < MaxEvents
  /\ e # "close" => popup = "none"
  /\ budget' = [budget EXCEPT !.events = @ + 1]
  /\ text_input_cursor_position' = Clamped
  /\ IF e = "close" THEN window' = FALSE /\ UNCHANGED gpc
     ELSE gpc' = e /\ UNCHANGED window
  /\ UNCHANGED <<shared_vars, has_updated_notepad, popup, to_server, erased>>

(* insert and erase throw when the text has become shorter than the cursor *)
(* since it was clamped.                                                   *)
Throw ==
  /\ ended' = "crash"
  /\ UNCHANGED <<text_vars, current_status, window_vars, to_server, budget,
                 erased>>

EditThrows ==
  LET size == Len(client_text_input_string) IN
  /\ Running /\ gpc \in {"key", "backspace"}
  /\ gpc = "backspace" => size > 0
  /\ text_input_cursor_position > size + (IF gpc = "key" THEN 0 ELSE 1)
  /\ Throw

(* What editing leaves alone. *)
unedited == <<ended, current_status, window, popup, to_server, budget>>

InsertKey ==
  /\ AtGui("key")
  /\ text_input_cursor_position <= Len(client_text_input_string)
  /\ client_text_input_string' =
       InsertAt(client_text_input_string, text_input_cursor_position + 1,
                budget.events)
  /\ gpc' = "inserted"
  /\ UNCHANGED <<unedited, text_input_string, text_input_cursor_position,
                 has_updated_notepad, erased>>

(* A backspace at the start of the text changes nothing, and is sent. *)
EraseKey ==
  LET pos == text_input_cursor_position
      size == Len(client_text_input_string)
  IN
  /\ AtGui("backspace")
  /\ IF size = 0 \/ pos = 0
     THEN /\ has_updated_notepad' = TRUE /\ gpc' = "poll"
          /\ UNCHANGED <<client_text_input_string, erased>>
     ELSE /\ pos <= size + 1
          /\ client_text_input_string' =
               IF pos > size THEN client_text_input_string
               ELSE RemoveAt(client_text_input_string, pos)
          /\ gpc' = "erased" /\ erased' = TRUE
          /\ UNCHANGED has_updated_notepad
  /\ UNCHANGED <<unedited, text_input_string, text_input_cursor_position>>

(* setString of what the text is by now, and the cursor moves on. *)
ShowEdit ==
  /\ AtGui("inserted") \/ AtGui("erased")
  /\ text_input_string' = client_text_input_string
  /\ text_input_cursor_position' =
       IF gpc = "inserted" THEN text_input_cursor_position + 1
       ELSE text_input_cursor_position - 1
  /\ has_updated_notepad' = TRUE /\ gpc' = "poll"
  /\ UNCHANGED <<unedited, client_text_input_string, erased>>

(* Mutant: left at the start of the text. *)
Moved_Unguarded(pos) ==
  CASE gpc = "left" -> pos - 1
    [] gpc = "right" /\ pos < Len(client_text_input_string) -> pos + 1
    [] OTHER -> pos

Moved(pos) ==
  CASE gpc = "left" /\ pos > 0 -> pos - 1
    [] gpc = "right" /\ pos < Len(client_text_input_string) -> pos + 1
    [] OTHER -> pos

MoveCursor ==
  /\ AtGui("left") \/ AtGui("right")
  /\ text_input_cursor_position' = Moved(text_input_cursor_position)
  /\ has_updated_notepad' = TRUE /\ gpc' = "poll"
  /\ UNCHANGED <<unedited, text_vars, erased>>

-----------------------------------------------------------------------------
(* The rest of a frame: the button under the mouse, and the update.        *)

(* A text, or what a copy of it is while the listener assigns it. *)
Copies(text, assigning) ==
  {text} \cup (IF lpc = assigning THEN {<<TornChar>>} ELSE {})
TextCopies == Copies(client_text_input_string, "assign")
ShownCopies == Copies(text_input_string, "show")

EndEvents ==
  /\ AtGui("poll")
  /\ gpc' = "update"
  /\ UNCHANGED <<unedited, text_vars, text_input_cursor_position,
                 has_updated_notepad, erased>>

(* A button works whether its menu is drawn or not. *)
Pressing(b) ==
  /\ AtGui("poll") /\ b \in Buttons
  /\ IF b = "clear" THEN budget.events < MaxEvents
     ELSE budget.presses < MaxPresses
  /\ budget' = IF b = "clear" THEN [budget EXCEPT !.events = @ + 1]
               ELSE [budget EXCEPT !.presses = @ + 1,
                                   !.rooms = IF b = "create" THEN @ + 1 ELSE @]
  /\ UNCHANGED <<current_status, text_input_cursor_position,
                 has_updated_notepad, window>>

PressCreate ==
  /\ Pressing("create") /\ budget.rooms < MaxRooms
  /\ \E x \in TextCopies : Send(Message("002", 0, x, 0))
  /\ gpc' = "update"
  /\ UNCHANGED <<text_vars, popup, erased>>

(* Save sends the text that is shown. *)
PressSave ==
  /\ Pressing("save")
  /\ \E x \in ShownCopies : Send(Message("008", 0, x, 0))
  /\ gpc' = "update"
  /\ UNCHANGED <<text_vars, popup, erased>>

(* Download writes the text that is edited to a file of the client's. *)
PressDownload ==
  /\ Pressing("download")
  /\ gpc' = "update"
  /\ UNCHANGED <<ended, text_vars, popup, to_server, erased>>

(* Each of the three opens its popup and closes the others. *)
PressPopup(b) ==
  /\ Pressing(b)
  /\ popup' = b
  /\ gpc' = "update"
  /\ UNCHANGED <<ended, text_vars, to_server, erased>>

(* The confirm button, once a code of the right size has been typed; 0 is  *)
(* the code of no room.                                                    *)
PressConfirm ==
  /\ AtGui("poll")
  /\ \/ popup = "join" /\ \E r \in 0 .. created : Send(Message("003", r, <<>>, 0))
     \/ popup = "open" /\ Send(Plain("011"))
     \/ popup = "delete" /\ Send(Plain("010"))
  /\ popup' = "none"
  /\ gpc' = "update"
  /\ UNCHANGED <<text_vars, current_status, text_input_cursor_position,
                 has_updated_notepad, window, budget, erased>>

PressLeave ==
  /\ Pressing("leave")
  /\ Send(Plain("004"))
  /\ gpc' = "leave"
  /\ UNCHANGED <<text_vars, popup, erased>>

(* The status changes after the message has gone. *)
LeaveStatus ==
  /\ AtGui("leave")
  /\ current_status' = "CONNECTED_TO_SERVER"
  /\ gpc' = "update"
  /\ UNCHANGED <<ended, text_vars, text_input_cursor_position,
                 has_updated_notepad, window, popup, to_server, budget, erased>>

PressClear ==
  /\ Pressing("clear")
  /\ client_text_input_string' = <<>>
  /\ gpc' = "cleared" /\ erased' = TRUE
  /\ UNCHANGED <<ended, text_input_string, popup, to_server>>

ClearShown ==
  /\ AtGui("cleared")
  /\ text_input_string' = client_text_input_string
  /\ text_input_cursor_position' = 0
  /\ gpc' = "clear"
  /\ UNCHANGED <<unedited, client_text_input_string, has_updated_notepad, erased>>

(* What sending leaves alone. *)
unsent == <<text_vars, current_status, text_input_cursor_position, window,
            popup, budget, erased>>

ClearSend ==
  /\ AtGui("clear")
  /\ \E x \in TextCopies : Send(Message("005", 0, x, 0))
  /\ gpc' = "update"
  /\ UNCHANGED <<unsent, has_updated_notepad>>

NextFrame == gpc' = IF window THEN "poll" ELSE "closed"

(* Mutant: the flag is reset whether or not the update was sent. *)
SendUpdate_Resets ==
  /\ AtGui("update")
  /\ IF has_updated_notepad /\ current_status = "CONNECTED_TO_ROOM"
     THEN /\ Send(Message("005", 0, client_text_input_string, 0))
          /\ gpc' = "cursor"
     ELSE NextFrame /\ UNCHANGED <<ended, to_server>>
  /\ has_updated_notepad' = FALSE
  /\ UNCHANGED unsent

SendUpdate ==
  /\ AtGui("update")
  /\ IF has_updated_notepad /\ current_status = "CONNECTED_TO_ROOM"
     THEN /\ \E x \in TextCopies : Send(Message("005", 0, x, 0))
          /\ gpc' = "cursor"
     ELSE NextFrame /\ UNCHANGED <<ended, to_server>>
  /\ UNCHANGED <<unsent, has_updated_notepad>>

SendCursor ==
  /\ AtGui("cursor")
  /\ Send(Message("006", 0, <<>>, text_input_cursor_position))
  /\ has_updated_notepad' = FALSE
  /\ NextFrame
  /\ UNCHANGED unsent

-----------------------------------------------------------------------------
(* listening_to_server_thread *)

(* 115 to 118 only show an alert, 102, 108, 109 and 111 nothing at all. *)
Handler(h) ==
  CASE h \in {"101", "104"} -> "room"
    [] h = "110" -> "left"
    [] h \in {"112", "204"} -> "assign"
    [] h = "113" -> "cursor"
    [] OTHER -> "recv"

Receive ==
  /\ AtListener("recv") /\ to_client # <<>>
  /\ received' = Head(to_client)
  /\ to_client' = Tail(to_client)
  /\ lpc' = Handler(received'.header)
  /\ UNCHANGED <<shared_vars, client_input_cursor_position, current_room_id, link>>

(* Mutant: recv returned 0 and the loop goes on. *)
ReceiveEnd_GoesOn ==
  /\ AtListener("recv") /\ to_client = <<>> /\ link = "fin"
  /\ UNCHANGED <<shared_vars, listener_vars, link, to_client>>

ReceiveEnd ==
  /\ AtListener("recv") /\ to_client = <<>> /\ link = "fin"
  /\ ended' = "exit"
  /\ UNCHANGED <<text_vars, current_status, listener_vars, link, to_client>>

(* recv returns -1, which the uint16_t makes 65535: the last message is    *)
(* handled once more, and the next recv returns 0.  When there was none    *)
(* the buffer is uninitialised and substr(3) may throw.                    *)
ReceiveError ==
  /\ AtListener("recv") /\ link = "rst"
  /\ link' = "fin"
  /\ lpc' = Handler(received.header)
  /\ ended' \in IF received = NoMessage THEN {"no", "crash"} ELSE {"no"}
  /\ UNCHANGED <<text_vars, current_status, client_input_cursor_position,
                 current_room_id, received, to_client>>

(* What a branch of the loop leaves alone; behind it is the next recv. *)
unread == <<ended, received, link, to_client>>
ListenerDone == lpc' = "recv"

SetRoom ==
  /\ AtListener("room")
  /\ current_room_id' = received.room
  /\ lpc' = "joined"
  /\ UNCHANGED <<unread, text_vars, current_status, client_input_cursor_position>>

(* Mutant: 110 is left to the Leave button. *)
StatusAfter_JoinedOnly(point) ==
  IF point = "joined" THEN "CONNECTED_TO_ROOM" ELSE current_status

StatusAfter(point) ==
  IF point = "joined" THEN "CONNECTED_TO_ROOM" ELSE "CONNECTED_TO_SERVER"

SetStatus ==
  /\ AtListener("joined") \/ AtListener("left")
  /\ current_status' = StatusAfter(lpc)
  /\ ListenerDone
  /\ UNCHANGED <<unread, text_vars, client_input_cursor_position, current_room_id>>

(* The position is an int on the wire and a uint16_t here. *)
SetOtherCursor ==
  /\ AtListener("cursor")
  /\ client_input_cursor_position' = received.pos % UInt16
  /\ ListenerDone
  /\ UNCHANGED <<unread, text_vars, current_status, current_room_id>>

(* update_notepad: the text, whatever the user did to it, then its image. *)
AssignText ==
  /\ AtListener("assign")
  /\ client_text_input_string' = received.body
  /\ lpc' = "show"
  /\ UNCHANGED <<unread, text_input_string, current_status,
                 client_input_cursor_position, current_room_id>>

ShowText ==
  /\ AtListener("show")
  /\ text_input_string' = received.body
  /\ ListenerDone
  /\ UNCHANGED <<unread, client_text_input_string, current_status,
                 client_input_cursor_position, current_room_id>>

(* Both threads are inside the same string: the process may crash. *)
RaceCrash ==
  /\ Running
  /\ \/ lpc = "assign" /\ gpc \in {"key", "backspace", "inserted", "erased",
                                    "cleared", "clear", "update"}
     \/ lpc = "show" /\ gpc \in {"poll", "inserted", "erased", "cleared"}
  /\ Throw

-----------------------------------------------------------------------------
(* ClientThread::operator() at the other end, one request a step.          *)

Reply(ms) == to_client' = to_client \o ms

ServerCreate(m) ==
  \/ /\ client_joined_room # 0 /\ Reply(<<Plain("102")>>)
     /\ UNCHANGED server_vars
  \/ /\ client_joined_room = 0
     /\ created' = created + 1
     /\ client_joined_room' = created + 1
     /\ notepad_collab' = [notepad_collab EXCEPT ![created + 1] = m.body]
     /\ Reply(<<Message("101", created + 1, <<>>, 0)>>)
     /\ UNCHANGED member_cursor

(* Mutant: join_room without the 204. *)
Joined_NoText(r) == <<Message("104", r, <<>>, 0)>>

Joined(r) == <<Message("104", r, <<>>, 0), Message("204", r, notepad_collab[r], 0)>>

(* 109 also answers for a room that two others are in. *)
ServerJoin(m) ==
  \/ /\ client_joined_room # 0 /\ Reply(<<Plain("108")>>)
     /\ UNCHANGED server_vars
  \/ /\ client_joined_room = 0 /\ Reply(<<Plain("109")>>)
     /\ UNCHANGED server_vars
  \/ /\ client_joined_room = 0 /\ m.room # 0
     /\ client_joined_room' = m.room
     /\ Reply(Joined(m.room))
     /\ UNCHANGED <<notepad_collab, created, member_cursor>>

ServerLeave ==
  /\ client_joined_room' = 0
  /\ Reply(<<Plain(IF client_joined_room # 0 THEN "110" ELSE "111")>>)
  /\ UNCHANGED <<notepad_collab, created, member_cursor>>

ServerUpdate(m) ==
  LET r == client_joined_room IN
  \/ r = 0 /\ UNCHANGED <<to_client, server_vars>>
  \/ /\ r # 0
     /\ notepad_collab' = [notepad_collab EXCEPT ![r] = m.body]
     /\ Reply(<<Message("112", r, m.body, 0)>>)
     /\ UNCHANGED <<client_joined_room, created, member_cursor>>

ServerCursor ==
  LET r == client_joined_room IN
  /\ UNCHANGED server_vars
  /\ \/ r = 0 /\ UNCHANGED to_client
     \/ r # 0 /\ Reply(<<Message("113", r, <<>>, member_cursor[r])>>)

(* The documents that may be found: none, or one of the other member's. *)
ServerDocument(m) ==
  /\ \/ m.header = "008" /\ \E h \in {"115", "116"} : Reply(<<Plain(h)>>)
     \/ m.header = "010" /\ \E h \in {"117", "118"} : Reply(<<Plain(h)>>)
     \/ /\ m.header = "011"
        /\ \E x \in {<<>>, <<TheirChar>>} : Reply(<<Message("204", 0, x, 0)>>)
  /\ UNCHANGED server_vars

ServerHandle ==
  /\ link = "open" /\ to_server # <<>>
  /\ to_server' = Tail(to_server)
  /\ LET m == Head(to_server) IN
     \/ m.header = "002" /\ ServerCreate(m)
     \/ m.header = "003" /\ ServerJoin(m)
     \/ m.header = "004" /\ ServerLeave
     \/ m.header = "005" /\ ServerUpdate(m)
     \/ m.header = "006" /\ ServerCursor
     \/ ServerDocument(m)
  /\ UNCHANGED <<link, budget, erased>>

(* Somebody else creates a room, with its text, that this client may join. *)
OtherCreates ==
  /\ link = "open" /\ budget.rooms < MaxRooms
  /\ created' = created + 1
  /\ \E x \in {<<>>, <<TheirChar>>} :
       notepad_collab' = [notepad_collab EXCEPT ![created + 1] = x]
  /\ budget' = [budget EXCEPT !.rooms = @ + 1]
  /\ UNCHANGED <<link, to_server, to_client, client_joined_room, member_cursor,
                 erased>>

(* The other member of room r types a character or clears the text; its    *)
(* client sends 005 and 006.                                               *)
OtherUpdates(r) ==
  /\ link = "open" /\ r <= created
  /\ budget.changes < MaxChanges
  /\ budget' = [budget EXCEPT !.changes = @ + 1]
  /\ \E x \in {Append(notepad_collab[r], TheirChar), <<>>} :
       /\ notepad_collab' = [notepad_collab EXCEPT ![r] = x]
       /\ member_cursor' = [member_cursor EXCEPT ![r] = Len(x)]
       /\ IF client_joined_room = r
          THEN Reply(<<Message("112", r, x, 0), Message("113", r, <<>>, Len(x))>>)
          ELSE UNCHANGED to_client
  /\ erased' = TRUE
  /\ UNCHANGED <<link, to_server, client_joined_room, created>>

(* The server process ends; with unread requests the connection is reset   *)
(* and what was on its way to the client is lost.                          *)
LinkEnds ==
  /\ link = "open"
  /\ link' \in ServerEnds
  /\ link' = "rst" => to_server # <<>>
  /\ to_client' = IF link' = "rst" THEN <<>> ELSE to_client
  /\ UNCHANGED <<to_server, server_vars, budget, erased>>

-----------------------------------------------------------------------------
User ==
  /\ ByWindow
  /\ \/ \E e \in Events : PollEvent(e)
     \/ PressCreate \/ PressSave \/ PressDownload \/ PressConfirm
     \/ PressLeave \/ PressClear
     \/ \E b \in Popups : PressPopup(b)

Frame ==
  /\ ByWindow
  /\ \/ EditThrows \/ InsertKey \/ EraseKey \/ ShowEdit \/ MoveCursor
     \/ LeaveStatus \/ ClearShown \/ ClearSend
     \/ EndEvents \/ SendUpdate \/ SendCursor

Listen ==
  /\ ByListener
  /\ \/ Receive \/ ReceiveEnd \/ ReceiveError
     \/ SetRoom \/ SetStatus \/ SetOtherCursor \/ AssignText \/ ShowText

Serve == ServerHandle /\ ByServer

Others ==
  /\ ByServer
  /\ OtherCreates \/ LinkEnds \/ \E r \in Rooms : OtherUpdates(r)

Next ==
  \/ User \/ Frame \/ Listen \/ Serve \/ Others
  \/ RaceCrash /\ ByWindow

Spec == Init /\ [][Next]_vars

(* The window keeps drawing frames, the listener and the server's thread   *)
(* are scheduled; nobody makes the user do anything.                       *)
FairSpec == Spec /\ WF_vars(Frame) /\ WF_vars(Listen) /\ WF_vars(Serve)

-----------------------------------------------------------------------------
Texts == Seq(Chars)
Headers == {"002", "003", "004", "005", "006", "008", "010", "011", "101",
            "102", "104", "108", "109", "110", "111", "112", "113", "115",
            "116", "117", "118", "204", "none"}
Messages == [header : Headers, room : 0 .. MaxRooms, body : Texts, pos : Int]

SharedTypes ==
  /\ ended \in {"no", "exit", "crash"}
  /\ client_text_input_string \in Texts /\ text_input_string \in Texts
  /\ current_status \in {"NOT_CONNECTED", "CONNECTED_TO_SERVER",
                         "CONNECTED_TO_ROOM"}

WindowTypes ==
  /\ text_input_cursor_position \in Nat
  /\ has_updated_notepad \in BOOLEAN /\ window \in BOOLEAN
  /\ popup \in Popups \cup {"none"}
  /\ gpc \in {"poll", "key", "backspace", "left", "right", "inserted",
               "erased", "leave", "cleared", "clear", "update", "cursor",
               "closed"}

ListenerTypes ==
  /\ client_input_cursor_position \in 0 .. UInt16 - 1
  /\ current_room_id \in 0 .. MaxRooms
  /\ received \in Messages
  /\ lpc \in {"recv", "room", "joined", "left", "assign", "show", "cursor"}

WireTypes ==
  /\ link \in {"open", "fin", "rst"}
  /\ to_server \in Seq(Messages) /\ to_client \in Seq(Messages)

ServerTypes ==
  /\ client_joined_room \in 0 .. created /\ created \in 0 .. MaxRooms
  /\ notepad_collab \in [Rooms -> Texts]
  /\ member_cursor \in [Rooms -> Int]

CountTypes ==
  /\ budget \in [events : 0 .. MaxEvents, presses : 0 .. MaxPresses,
                 changes : 0 .. MaxChanges, rooms : 0 .. MaxRooms]
  /\ erased \in BOOLEAN

TypeOK == /\ SharedTypes /\ WindowTypes /\ ListenerTypes
          /\ WireTypes /\ ServerTypes /\ CountTypes

(* Nothing is on the wire and neither thread of the client is at work. *)
Delivered == /\ Running /\ link = "open" /\ lpc = "recv"
             /\ to_server = <<>> /\ to_client = <<>>
Settled == Delivered /\ gpc = "poll" /\ ~has_updated_notepad

(***************************************************************************)
(* Once everything the client and the server sent has arrived and nothing  *)
(* typed is waiting, a client in a room edits and shows the room's notepad *)
(* (update_notepad of the listener, the 005 at the end of a frame).  With  *)
(* the Open button, or the Create button after Leave, it is not so.        *)
(***************************************************************************)
Converged ==
  Settled /\ client_joined_room # 0 =>
    /\ client_text_input_string = notepad_collab[client_joined_room]
    /\ text_input_string = client_text_input_string

(***************************************************************************)
(* Once everything has arrived the client says it is in a room exactly     *)
(* when the server has it in one, and names that room (101, 104, 110 and   *)
(* the Leave button, which sets the status on its own).                    *)
(***************************************************************************)
StatusAgrees ==
  Delivered /\ gpc # "leave" =>
    /\ current_status = "CONNECTED_TO_ROOM" <=> client_joined_room # 0
    /\ client_joined_room # 0 => current_room_id = client_joined_room

(***************************************************************************)
(* Whatever the two threads and the messages on their way do, a client     *)
(* that stays in a room comes to have its notepad.                         *)
(***************************************************************************)
EventuallyCurrent ==
  []<>(\/ ~Running \/ link # "open" \/ gpc = "closed"
       \/ client_joined_room # 0 =>
            client_text_input_string = notepad_collab[client_joined_room])

(***************************************************************************)
(* The client does not outlive its connection: the listener ends it.       *)
(***************************************************************************)
ClientFollowsServer == link # "open" ~> ~Running

-----------------------------------------------------------------------------
(* What the documentation says of the client and the code does not do.     *)

(* tema2.tex: the client exchanges data with the server without            *)
(* interruption.                                                           *)
ClientKeepsRunning == ended # "crash"

(* README.md: simultaneous editing.  While nobody takes a character away,  *)
(* every key typed is in the notepad once all has settled.                 *)
KeystrokesSurvive ==
  Settled /\ client_joined_room # 0 /\ ~erased =>
    1 .. budget.events \subseteq ToSet(client_text_input_string)

(* README.md: simultaneous editing.  The text of a room is not replaced by *)
(* a client that has joined it and has not yet been shown it.              *)
JoinerSawTheRoom ==
  ~ /\ gpc = "cursor"
    /\ \/ \E i \in DOMAIN to_client : to_client[i].header = "204"
       \/ lpc = "assign" /\ received.header = "204"

=============================================================================
