------------------------------- MODULE Rooms -------------------------------
(***************************************************************************)
(* The rooms of the server and the client threads that work on them:       *)
(* ClientThread::operator() for the requests 002 to 006, the               *)
(* Server::CreateRoom, Server::JoinRoom and Server::SendToClient it calls, *)
(* and ClientRoom::UpdateClients.                                          *)
(*                                                                         *)
(* Every accepted connection has a thread, named here by its descriptor.   *)
(* A step of the model is what a thread does between two accesses to what  *)
(* the threads share: the vector of rooms, the fields of a room, the       *)
(* sockets.  Only two pieces of the code take a mutex: CreateRoom          *)
(* (client_rooms_i) and the handler of 005 (notepad_collab_i).             *)
(***************************************************************************)
EXTENDS Naturals, Sequences

CONSTANTS
  Fds,           \* descriptors of the accepted connections
  undefined,     \* the -1 of a free slot
  Codes,         \* what random_string(5) may return
  NoRoomCode,    \* a code of five characters that is the code of no room
  BadCode,       \* a code that has not five characters
  NoText,        \* the empty notepad, and a cursor never reported
  Torn,          \* what a read of a string that is being assigned may return
  MaxRooms,      \* bound: how many rooms may be created
  MaxRequests,   \* bound: how many requests each client sends
  Headers,       \* the requests the clients send
  Losses,        \* the ways a client may vanish: "fin", "rst"
  CodesUnique    \* codes are fresh, and users type only codes they were told

ASSUME RoomsAssumption ==
  /\ undefined \notin Fds
  /\ MaxRooms \in Nat /\ MaxRequests \in Nat
  /\ Headers \subseteq {"002", "003", "004", "005", "006"}
  /\ Losses \subseteq {"fin", "rst"}
  /\ CodesUnique \in BOOLEAN
  /\ {NoRoomCode, BadCode} \cap Codes = {}
  /\ NoRoomCode # BadCode
  /\ {NoText, Torn} \cap (Fds \X (0 .. MaxRequests)) = {}

VARIABLES
  up,                 \* the server process runs
  created,            \* client_rooms holds the rooms 1 .. created, in this order
  code,               \* ClientRoom::room_number
  client_fd,          \* ClientRoom::client1_fd and client2_fd
  cursor_pos,         \* ClientRoom::client1_cursor_pos and client2_cursor_pos
  notepad_collab,     \* ClientRoom::notepad_collab
  notepad_collab_i,   \* the holder of ClientRoom::notepad_collab_i
  pc,                 \* where each thread is
  arg,                \* internal_buffer of each thread: the last request read
  client_joined_room, \* ClientThread::client_joined_room, 0 for nullptr
  loc,                \* the local variables of the handler a thread is in
  conn,               \* the state of each connection
  sent                \* the messages handed to each client's socket, in order

vector  == <<created, code>>
room    == <<client_fd, cursor_pos, notepad_collab, notepad_collab_i>>
net     == <<up, conn, sent>>
vars    == <<vector, room, pc, arg, client_joined_room, loc, net>>

-----------------------------------------------------------------------------

Rooms == 1 .. MaxRooms
Slots == 1 .. 2

(* The text or the cursor position that the n-th request of t carries. *)
Texts == (Fds \X (0 .. MaxRequests)) \cup {NoText, Torn}
Text(t) == <<t, arg[t].n>>

Requests == [header : {"none", "002", "003", "004", "005", "006"},
             code : Codes \cup {NoRoomCode, BadCode},
             n : 0 .. MaxRequests]

(* room is not on the wire: it names the room a message is about. *)
Messages == [header : {"100", "101", "102", "104", "107", "108", "109", "110",
                       "111", "112", "113", "204"},
             room : 0 .. MaxRooms, body : Texts]

(* made is create_room_object, found is found_room_object, slot the slot   *)
(* being looked at, copy a string built from a field of the room, seen the *)
(* size of client_rooms when JoinRoom took begin().                        *)
Locals == [made : 0 .. MaxRooms, found : 0 .. MaxRooms, slot : Slots,
           copy : Texts, seen : 0 .. MaxRooms]
NoLocals == [made |-> 0, found |-> 0, slot |-> 1, copy |-> NoText, seen |-> 0]

Points == {"recv", "again", "CreateRoom", "scan", "check", "set", "init",
           "101", "104", "copy", "204", "leave", "clear", "110", "lock",
           "write", "check112", "send112", "cursor", "check113", "send113",
           "ended"}

(* The accept loop has started a thread for every connection. *)
Init ==
  /\ up = TRUE
  /\ created = 0
  /\ code = [r \in Rooms |-> NoRoomCode]
  /\ client_fd = [r \in Rooms |-> [s \in Slots |-> undefined]]
  /\ cursor_pos = [r \in Rooms |-> [s \in Slots |-> NoText]]
  /\ notepad_collab = [r \in Rooms |-> NoText]
  /\ notepad_collab_i = [r \in Rooms |-> undefined]
  /\ pc = [t \in Fds |-> "recv"]
  /\ arg = [t \in Fds |-> [header |-> "none", code |-> NoRoomCode, n |-> 0]]
  /\ client_joined_room = [t \in Fds |-> 0]
  /\ loc = [t \in Fds |-> NoLocals]
  /\ conn = [t \in Fds |-> "open"]
  /\ sent = [t \in Fds |-> <<>>]

-----------------------------------------------------------------------------
(* Moving from one step to the next. *)

At(t, p) == up /\ pc[t] = p
Goto(t, p) == pc' = [pc EXCEPT ![t] = p]

(* continue: back to recv, the handler's locals are gone. *)
Return(t) == Goto(t, "recv") /\ loc' = [loc EXCEPT ![t] = NoLocals]

(* exit(0), an uncaught exception or a signal: it ends every thread. *)
Crash == up' = FALSE /\ UNCHANGED <<vector, room, pc, arg, client_joined_room,
                                    loc, conn, sent>>

(***************************************************************************)
(* send() on descriptor c.  A client that closed its end ("fin") answers   *)
(* the bytes with a reset, sooner or later; a send on a connection that    *)
(* was reset raises SIGPIPE or returns -1, and so does a send on the       *)
(* descriptor -1: both end the process.                                    *)
(***************************************************************************)
SendTo(c, m) ==
  \/ /\ c # undefined /\ conn[c] = "open"
     /\ sent' = [sent EXCEPT ![c] = Append(@, m)]
     /\ UNCHANGED <<up, conn>>
  \/ /\ c # undefined /\ conn[c] = "fin"
     /\ conn' \in {conn, [conn EXCEPT ![c] = "dead"]}
     /\ UNCHANGED <<up, sent>>
  \/ /\ c # undefined => conn[c] \in {"rst", "dead"}
     /\ up' = FALSE
     /\ UNCHANGED <<conn, sent>>

Reply(t, h, r) == SendTo(t, [header |-> h, room |-> r, body |-> NoText])

(* The handler of t answers h and goes back to recv. *)
Answer(t, h, r) == Reply(t, h, r) /\ Return(t)

-----------------------------------------------------------------------------
(* The loop of a client thread: recv and the choice of a handler. *)

(* Mutant: 003 without the nullptr test. *)
Refusal_JoinsTwice(inRoom, req) ==
  CASE req.header = "002" /\ inRoom -> "102"
    [] req.header = "003" /\ req.code = BadCode -> "107"
    [] req.header = "004" /\ ~inRoom -> "111"
    [] OTHER -> "none"

Refusal(inRoom, req) ==
  CASE req.header = "002" /\ inRoom -> "102"
    [] req.header = "003" /\ inRoom -> "108"
    [] req.header = "003" /\ ~inRoom /\ req.code = BadCode -> "107"
    [] req.header = "004" /\ ~inRoom -> "111"
    [] OTHER -> "none"

Handle(t, req) ==
  LET inRoom == client_joined_room[t] # 0
      refusal == Refusal(inRoom, req)
  IN
  /\ UNCHANGED <<vector, room, client_joined_room>>
  /\ \/ refusal # "none" /\ Answer(t, refusal, 0)
     \/ /\ refusal = "none" /\ UNCHANGED net
        /\ \/ /\ req.header = "002" /\ Goto(t, "CreateRoom") /\ UNCHANGED loc
           \/ /\ req.header = "003" /\ Goto(t, "scan")
              /\ loc' = [loc EXCEPT ![t].seen = created]
           \/ /\ req.header = "004" /\ Goto(t, "leave") /\ UNCHANGED loc
           \/ /\ req.header = "005" /\ inRoom /\ Goto(t, "lock")
              /\ UNCHANGED loc
           \/ /\ req.header = "006" /\ inRoom /\ Goto(t, "cursor")
              /\ UNCHANGED loc
           \/ /\ req.header \in {"005", "006"} /\ ~inRoom /\ Return(t)

Announced == {r \in Rooms : \E c \in Fds : \E i \in DOMAIN sent[c] :
                 sent[c][i].header = "101" /\ sent[c][i].room = r}

(* What a user may type into the join window. *)
TypedCodes ==
  {NoRoomCode, BadCode} \cup
  (IF CodesUnique THEN {code[r] : r \in Announced} ELSE Codes)

(* recv returns a request that the client of t has sent, perhaps before it *)
(* vanished.  Only 003 carries a code.                                     *)
Receive(t) ==
  /\ At(t, "recv")
  /\ conn[t] # "dead"
  /\ arg[t].n < MaxRequests
  /\ \E h \in Headers :
     \E k \in IF h = "003" THEN TypedCodes ELSE {NoRoomCode} :
       LET req == [header |-> h, code |-> k, n |-> arg[t].n + 1]
       IN  arg' = [arg EXCEPT ![t] = req] /\ Handle(t, req)

(* Mutant: the loop goes on after recv returned 0. *)
EndOfStream_GoesOn(t) ==
  /\ At(t, "recv")
  /\ conn[t] \in {"fin", "dead"}
  /\ client_joined_room' = [client_joined_room EXCEPT ![t] = 0]
  /\ UNCHANGED <<vector, room, pc, arg, loc, net>>

(* recv returns 0: the thread ends and its ClientThread object with it. *)
EndOfStream(t) ==
  /\ At(t, "recv")
  /\ conn[t] \in {"fin", "dead"}
  /\ Goto(t, "ended")
  /\ client_joined_room' = [client_joined_room EXCEPT ![t] = 0]
  /\ UNCHANGED <<vector, room, arg, loc, net>>

(* recv returns -1, which the uint16_t read_bytes turns into 65535: neither *)
(* test sees it and the loop goes on with the buffer of the last request,   *)
(* or, when there was none, with an uninitialised one: that one names no    *)
(* handler, or is too short for substr(3), which throws.                    *)
ReceiveError(t) ==
  /\ At(t, "recv")
  /\ conn[t] = "rst"
  /\ \/ /\ conn' = [conn EXCEPT ![t] = "dead"]
        /\ Goto(t, IF arg[t].header = "none" THEN "recv" ELSE "again")
        /\ UNCHANGED <<vector, room, arg, client_joined_room, loc, up, sent>>
     \/ arg[t].header = "none" /\ Crash

HandleAgain(t) == At(t, "again") /\ UNCHANGED arg /\ Handle(t, arg[t])

-----------------------------------------------------------------------------
(* 002 and 003: Server::CreateRoom and Server::JoinRoom. *)

(* The whole of CreateRoom is under client_rooms_i. *)
CreateRoom(t) ==
  /\ At(t, "CreateRoom")
  /\ created < MaxRooms
  /\ \E k \in Codes :
       /\ CodesUnique => \A r \in 1 .. created : code[r] # k
       /\ code' = [code EXCEPT ![created + 1] = k]
  /\ created' = created + 1
  /\ Goto(t, "scan")
  /\ loc' = [loc EXCEPT ![t].made = created + 1, ![t].seen = created + 1]
  /\ UNCHANGED <<room, arg, client_joined_room, net>>

Creating(t) == arg[t].header = "002"
SearchedCode(t) == IF Creating(t) THEN code[loc[t].made] ELSE arg[t].code

(* The loop does not stop at the first match: the last one counts. *)
Matches(t) == {r \in 1 .. created : code[r] = SearchedCode(t)}

(* Mutant: the newest room, client_rooms.back(), for the one found. *)
LastMatch_Newest(t) == IF Matches(t) = {} THEN {} ELSE {created}

LastMatch(t) == {r \in Matches(t) : \A q \in Matches(t) : q <= r}

(* A vector of 0, 1, 2, 4, ... rooms has no spare place: the next push_back *)
(* moves it.                                                                *)
Moved(from, to) == \E n \in from .. (to - 1) : n \in {0, 1, 2, 4, 8, 16}

JoinRefused(t) == Answer(t, IF Creating(t) THEN "100" ELSE "109", 0)

(* The search reads client_rooms without client_rooms_i: a push_back that   *)
(* moves the vector meanwhile leaves it with an iterator into freed memory. *)
JoinScan(t) ==
  /\ At(t, "scan")
  /\ \/ /\ \E r \in LastMatch(t) :
             loc' = [loc EXCEPT ![t].found = r, ![t].seen = 0]
        /\ Goto(t, "check")
        /\ UNCHANGED <<vector, room, arg, client_joined_room, net>>
     \/ /\ Matches(t) = {}
        /\ JoinRefused(t)
        /\ UNCHANGED <<vector, room, arg, client_joined_room>>
     \/ Moved(loc[t].seen, created) /\ Crash

JoinCheck(t) ==
  LET taken == client_fd[loc[t].found][loc[t].slot] # undefined IN
  /\ At(t, "check")
  /\ UNCHANGED <<vector, room, arg, client_joined_room>>
  /\ \/ ~taken /\ Goto(t, "set") /\ UNCHANGED <<loc, net>>
     \/ /\ taken /\ loc[t].slot = 1
        /\ loc' = [loc EXCEPT ![t].slot = 2]
        /\ UNCHANGED <<pc, net>>
     \/ taken /\ loc[t].slot = 2 /\ JoinRefused(t)

(* The slot is written in a later step than the one that read it free. *)
JoinSet(t) ==
  /\ At(t, "set")
  /\ client_fd' = [client_fd EXCEPT ![loc[t].found][loc[t].slot] = t]
  /\ client_joined_room' = [client_joined_room EXCEPT ![t] = loc[t].found]
  /\ Goto(t, IF Creating(t) THEN "init" ELSE "104")
  /\ UNCHANGED <<vector, cursor_pos, notepad_collab, notepad_collab_i, arg,
                 loc, net>>

(* Another thread is inside an assignment to the notepad of room r. *)
BeingWritten(r, t) ==
  \E u \in Fds \ {t} : pc[u] \in {"init", "write"} /\ client_joined_room[u] = r

(* The creator's text becomes the notepad, without notepad_collab_i. *)
SetInitialText(t) ==
  LET r == client_joined_room[t] IN
  /\ At(t, "init")
  /\ \/ /\ notepad_collab' = [notepad_collab EXCEPT ![r] = Text(t)]
        /\ Goto(t, "101")
        /\ UNCHANGED <<vector, client_fd, cursor_pos, notepad_collab_i, arg,
                       client_joined_room, loc, net>>
     \/ BeingWritten(r, t) /\ Crash

ReplyCreated(t) ==
  /\ At(t, "101")
  /\ Answer(t, "101", client_joined_room[t])
  /\ UNCHANGED <<vector, room, arg, client_joined_room>>

ReplyJoined(t) ==
  /\ At(t, "104")
  /\ Reply(t, "104", client_joined_room[t])
  /\ Goto(t, "copy")
  /\ UNCHANGED <<vector, room, arg, client_joined_room, loc>>

(* The string of a message is built from the notepad: for the 112 of       *)
(* UpdateClients with notepad_collab_i, for the 204 without it.            *)
CopyNotepad(t) ==
  LET r == client_joined_room[t] IN
  /\ At(t, "copy")
  /\ \/ /\ \E x \in {notepad_collab[r]} \cup
                    (IF BeingWritten(r, t) THEN {Torn} ELSE {}) :
             loc' = [loc EXCEPT ![t].copy = x]
        /\ Goto(t, IF arg[t].header = "005" THEN "check112" ELSE "204")
        /\ UNCHANGED <<vector, room, arg, client_joined_room, net>>
     \/ BeingWritten(r, t) /\ Crash

SendNotepad(t) ==
  /\ At(t, "204")
  /\ SendTo(t, [header |-> "204", room |-> client_joined_room[t],
                body |-> loc[t].copy])
  /\ Return(t)
  /\ UNCHANGED <<vector, room, arg, client_joined_room>>

-----------------------------------------------------------------------------
(* 004: leave_room, without any mutex. *)

(* Mutant: one slot too many. *)
NextSlot_OneMore(t, again, done) ==
  IF loc[t].slot <= 2
  THEN loc' = [loc EXCEPT ![t].slot = @ + 1] /\ Goto(t, again)
  ELSE loc' = [loc EXCEPT ![t] = NoLocals] /\ Goto(t, done)

NextSlot(t, again, done) ==
  IF loc[t].slot = 1
  THEN loc' = [loc EXCEPT ![t].slot = 2] /\ Goto(t, again)
  ELSE loc' = [loc EXCEPT ![t] = NoLocals] /\ Goto(t, done)

(* Mutant: else if, so the second slot is not looked at. *)
LeaveCheck_FirstSlot(t) ==
  /\ At(t, "leave")
  /\ IF client_fd[client_joined_room[t]][1] = t
     THEN Goto(t, "clear") /\ UNCHANGED loc
     ELSE Goto(t, "110") /\ UNCHANGED loc
  /\ UNCHANGED <<vector, room, arg, client_joined_room, net>>

LeaveCheck(t) ==
  /\ At(t, "leave")
  /\ IF client_fd[client_joined_room[t]][loc[t].slot] = t
     THEN Goto(t, "clear") /\ UNCHANGED loc
     ELSE NextSlot(t, "leave", "110")
  /\ UNCHANGED <<vector, room, arg, client_joined_room, net>>

LeaveClear(t) ==
  /\ At(t, "clear")
  /\ client_fd' = [client_fd EXCEPT
                     ![client_joined_room[t]][loc[t].slot] = undefined]
  /\ NextSlot(t, "leave", "110")
  /\ UNCHANGED <<vector, cursor_pos, notepad_collab, notepad_collab_i, arg,
                 client_joined_room, net>>

LeaveReply(t) ==
  /\ At(t, "110")
  /\ client_joined_room' = [client_joined_room EXCEPT ![t] = 0]
  /\ Answer(t, "110", 0)
  /\ UNCHANGED <<vector, room, arg>>

-----------------------------------------------------------------------------
(* 005: update_notepad, under notepad_collab_i, and UpdateClients. *)

(* Mutant: no lock_guard. *)
LockNotepad_NoGuard(t) ==
  LET r == client_joined_room[t] IN
  /\ At(t, "lock")
  /\ notepad_collab_i' = [notepad_collab_i EXCEPT ![r] = t]
  /\ Goto(t, "write")
  /\ UNCHANGED <<vector, client_fd, cursor_pos, notepad_collab, arg,
                 client_joined_room, loc, net>>

LockNotepad(t) ==
  LET r == client_joined_room[t] IN
  /\ At(t, "lock")
  /\ notepad_collab_i[r] = undefined
  /\ notepad_collab_i' = [notepad_collab_i EXCEPT ![r] = t]
  /\ Goto(t, "write")
  /\ UNCHANGED <<vector, client_fd, cursor_pos, notepad_collab, arg,
                 client_joined_room, loc, net>>

(* Mutant: the scope of the lock_guard ends with the assignment. *)
WriteNotepad_Unlocks(t) ==
  LET r == client_joined_room[t] IN
  /\ At(t, "write")
  /\ notepad_collab' = [notepad_collab EXCEPT ![r] = Text(t)]
  /\ notepad_collab_i' = [notepad_collab_i EXCEPT ![r] = undefined]
  /\ Goto(t, "copy")
  /\ UNCHANGED <<vector, client_fd, cursor_pos, arg, client_joined_room, loc,
                 net>>

WriteNotepad(t) ==
  LET r == client_joined_room[t] IN
  /\ At(t, "write")
  /\ \/ /\ notepad_collab' = [notepad_collab EXCEPT ![r] = Text(t)]
        /\ Goto(t, "copy")
        /\ UNCHANGED <<vector, client_fd, cursor_pos, notepad_collab_i, arg,
                       client_joined_room, loc, net>>
     \/ BeingWritten(r, t) /\ Crash

(* Mutant: lock without unlock. *)
NextUpdate_KeepsLock(t) ==
  NextSlot(t, "check112", "recv") /\ UNCHANGED notepad_collab_i

(* On to the second slot, or out of the scope of the lock_guard. *)
NextUpdate(t) ==
  /\ NextSlot(t, "check112", "recv")
  /\ notepad_collab_i' =
       IF loc[t].slot = 1 THEN notepad_collab_i
       ELSE [notepad_collab_i EXCEPT ![client_joined_room[t]] = undefined]

(* Mutant: the sender is not told its own update. *)
UpdateCheck_NotTheSender(t) ==
  LET r == client_joined_room[t] IN
  /\ At(t, "check112")
  /\ IF client_fd[r][loc[t].slot] \notin {undefined, t}
     THEN Goto(t, "send112") /\ UNCHANGED <<loc, notepad_collab_i>>
     ELSE NextUpdate(t)
  /\ UNCHANGED <<vector, client_fd, cursor_pos, notepad_collab, arg,
                 client_joined_room, net>>

(* if(client1_fd > 0), read apart from the argument of send. *)
UpdateCheck(t) ==
  LET r == client_joined_room[t] IN
  /\ At(t, "check112")
  /\ IF client_fd[r][loc[t].slot] # undefined
     THEN Goto(t, "send112") /\ UNCHANGED <<loc, notepad_collab_i>>
     ELSE NextUpdate(t)
  /\ UNCHANGED <<vector, client_fd, cursor_pos, notepad_collab, arg,
                 client_joined_room, net>>

UpdateSend(t) ==
  LET r == client_joined_room[t] IN
  /\ At(t, "send112")
  /\ SendTo(client_fd[r][loc[t].slot],
            [header |-> "112", room |-> r, body |-> loc[t].copy])
  /\ NextUpdate(t)
  /\ UNCHANGED <<vector, client_fd, cursor_pos, notepad_collab, arg,
                 client_joined_room>>

-----------------------------------------------------------------------------
(* 006: update_cursor, without any mutex. *)

SetCursor(t) ==
  LET r == client_joined_room[t]
      mine == {s \in Slots : client_fd[r][s] = t}
  IN
  /\ At(t, "cursor")
  /\ cursor_pos' =
       IF mine = {} THEN cursor_pos
       ELSE [cursor_pos EXCEPT ![r][IF 1 \in mine THEN 1 ELSE 2] = Text(t)]
  /\ Goto(t, "check113")
  /\ UNCHANGED <<vector, client_fd, notepad_collab, notepad_collab_i, arg,
                 client_joined_room, loc, net>>

Other(s) == 3 - s

(* The message is built from the other slot's cursor before the check. *)
CursorCheck(t) ==
  LET r == client_joined_room[t]
      s == loc[t].slot
  IN
  /\ At(t, "check113")
  /\ IF client_fd[r][s] # undefined
     THEN /\ loc' = [loc EXCEPT ![t].copy = cursor_pos[r][Other(s)]]
          /\ Goto(t, "send113")
     ELSE NextSlot(t, "check113", "recv")
  /\ UNCHANGED <<vector, room, arg, client_joined_room, net>>

(* SendToClient has the descriptor by reference and reads it again. *)
CursorSend(t) ==
  LET r == client_joined_room[t]
      s == loc[t].slot
  IN
  /\ At(t, "send113")
  /\ SendTo(client_fd[r][s],
            [header |-> "113", room |-> r, body |-> loc[t].copy])
  /\ IF s = 1
     THEN /\ loc' = [loc EXCEPT ![t].slot = 2, ![t].copy = NoText]
          /\ Goto(t, "check113")
     ELSE Return(t)
  /\ UNCHANGED <<vector, room, arg, client_joined_room>>

-----------------------------------------------------------------------------
(* The client of t is killed: with everything read its end is closed in    *)
(* order, with messages unread the connection is reset.                    *)
PeerVanishes(t) ==
  /\ up /\ conn[t] = "open"
  /\ \E how \in Losses :
       /\ how = "rst" => sent[t] # <<>>
       /\ conn' = [conn EXCEPT ![t] = how]
  /\ UNCHANGED <<vector, room, pc, arg, client_joined_room, loc, up, sent>>

(* What the thread of t does once a request has been read. *)
Work(t) ==
  \/ HandleAgain(t) \/ CreateRoom(t) \/ JoinScan(t) \/ JoinCheck(t)
  \/ JoinSet(t) \/ SetInitialText(t) \/ ReplyCreated(t) \/ ReplyJoined(t)
  \/ CopyNotepad(t) \/ SendNotepad(t) \/ LeaveCheck(t) \/ LeaveClear(t)
  \/ LeaveReply(t) \/ LockNotepad(t) \/ WriteNotepad(t) \/ UpdateCheck(t)
  \/ UpdateSend(t) \/ SetCursor(t) \/ CursorCheck(t) \/ CursorSend(t)

Next == \E t \in Fds :
  \/ Receive(t) \/ EndOfStream(t) \/ ReceiveError(t) \/ PeerVanishes(t)
  \/ Work(t)

Spec == Init /\ [][Next]_vars

(* The system schedules every thread, and recv returns once a connection   *)
(* is closed or broken; nothing makes a client send or vanish.             *)
FairSpec ==
  Spec /\ \A t \in Fds : WF_vars(Work(t) \/ EndOfStream(t) \/ ReceiveError(t))

-----------------------------------------------------------------------------
TypeOK ==
  /\ up \in BOOLEAN
  /\ created \in 0 .. MaxRooms
  /\ code \in [Rooms -> Codes \cup {NoRoomCode}]
  /\ client_fd \in [Rooms -> [Slots -> Fds \cup {undefined}]]
  /\ cursor_pos \in [Rooms -> [Slots -> Texts]]
  /\ notepad_collab \in [Rooms -> Texts]
  /\ notepad_collab_i \in [Rooms -> Fds \cup {undefined}]
  /\ pc \in [Fds -> Points]
  /\ arg \in [Fds -> Requests]
  /\ client_joined_room \in [Fds -> 0 .. MaxRooms]
  /\ loc \in [Fds -> Locals]
  /\ conn \in [Fds -> {"open", "fin", "rst", "dead"}]
  /\ sent \in [Fds -> Seq(Messages)]

(***************************************************************************)
(* A descriptor stands in a slot of a room only while its own thread takes *)
(* that room for the one it has joined, or after that thread has ended:    *)
(* leaving clears every slot that names the leaver, and nobody is entered  *)
(* into a room on behalf of somebody else (JoinRoom, leave_room).          *)
(***************************************************************************)
SlotOwnership ==
  \A r \in Rooms, s \in Slots :
    LET c == client_fd[r][s] IN
    c # undefined => client_joined_room[c] = r \/ pc[c] = "ended"

(***************************************************************************)
(* A client holds at most one slot of all the rooms together, so no update *)
(* is sent to it twice and no second room writes to its notepad            *)
(* (the nullptr tests of 002 and 003, JoinRoom, leave_room).               *)
(***************************************************************************)
OneSlotEach ==
  \A r, q \in Rooms : \A s, z \in Slots :
    client_fd[r][s] # undefined /\ client_fd[r][s] = client_fd[q][z]
      => r = q /\ s = z

InUpdate(t) == \/ pc[t] \in {"write", "check112", "send112"}
               \/ pc[t] = "copy" /\ arg[t].header = "005"

(***************************************************************************)
(* At most one thread at a time is between the assignment to a room's      *)
(* notepad and the end of UpdateClients, and it is the one that holds the  *)
(* room's notepad_collab_i (the handler of 005).                           *)
(***************************************************************************)
OneUpdateAtATime ==
  up => \A t \in Fds : InUpdate(t) =>
          notepad_collab_i[client_joined_room[t]] = t

NewMessage(c) == IF Len(sent'[c]) > Len(sent[c])
                 THEN {sent'[c][Len(sent'[c])]} ELSE {}

(***************************************************************************)
(* UpdateClients never sends a text that is not the notepad of the room at *)
(* that moment: what a client is shown last by a 112 is never older than   *)
(* what it was shown before.                                               *)
(***************************************************************************)
UpdatesAreCurrent ==
  [][\A c \in Fds : \A m \in NewMessage(c) :
       m.header = "112" => m.body = notepad_collab[m.room]]_vars

SentToMembers ==
  \A c \in Fds : \A m \in NewMessage(c) :
    m.header \in {"112", "113", "204"} => client_joined_room[c] = m.room

(***************************************************************************)
(* The text and the cursors of a room are sent only to clients whose       *)
(* threads take that room for theirs (UpdateClients, the 204 of join_room, *)
(* the 113 of update_cursor).                                              *)
(***************************************************************************)
RoomIsolation == [][SentToMembers]_vars

(* Where the updates are among the messages of c. *)
Updates(c) == {i \in DOMAIN sent[c] : sent[c][i].header = "112"}

(***************************************************************************)
(* Two clients of the same room are shown its updates in the same order,   *)
(* and nobody is shown an update again after a later one (UpdateClients).  *)
(***************************************************************************)
SameOrder ==
  \A c, d \in Fds : \A i, j \in Updates(c), k, l \in Updates(d) :
    /\ i < j /\ sent[c][i].room = sent[c][j].room
    /\ k < l /\ sent[d][k] = sent[c][j] /\ sent[d][l] = sent[c][i]
    => sent[c][i] = sent[c][j]

Quiet == up /\ \A t \in Fds : pc[t] \in {"recv", "ended"}
TextMessages(c) ==
  {i \in DOMAIN sent[c] : sent[c][i].header \in {"112", "204"}}
LastText(c) ==
  sent[c][CHOOSE i \in TextMessages(c) : \A j \in TextMessages(c) : j <= i]
Sees(c, r) == TextMessages(c) # {} /\ LastText(c).room = r
Seated(c, r) ==
  conn[c] = "open" /\ \E s \in Slots : client_fd[r][s] = c

(***************************************************************************)
(* When no thread is at work, every client that sits in a slot and that    *)
(* was last shown the room by an update has the room's notepad: no update  *)
(* passed it over (UpdateClients under notepad_collab_i).                  *)
(***************************************************************************)
UpdatesReachEverySeat ==
  Quiet => \A c \in Fds, r \in Rooms :
    Seated(c, r) /\ Sees(c, r) /\ LastText(c).header = "112"
      => LastText(c).body = notepad_collab[r]

(***************************************************************************)
(* The creator of a room is the one who joins it first, and the code it is *)
(* told is the code of the room its text went to (create_room).            *)
(***************************************************************************)
CreatorJoinsItsRoom ==
  \A t \in Fds : pc[t] \in {"init", "101"} =>
    client_joined_room[t] = loc[t].made

(***************************************************************************)
(* Every request that was read is dealt with, unless the process ends:     *)
(* no thread waits for notepad_collab_i for ever.                          *)
(***************************************************************************)
RequestsAreServed ==
  \A t \in Fds : up /\ pc[t] # "recv" ~> ~up \/ pc[t] \in {"recv", "ended"}

(***************************************************************************)
(* A client that vanished is noticed: its thread ends, or the process.     *)
(***************************************************************************)
VanishedThreadsEnd ==
  \A t \in Fds : conn[t] # "open" ~> ~up \/ pc[t] = "ended"

-----------------------------------------------------------------------------
(* What the documentation says of the program and the code does not do.    *)

(* README.md: "rooms" to which at most two clients can connect. *)
AtMostTwoMembers ==
  \A r \in Rooms : \A a, b, c \in Fds :
    a # b /\ b # c /\ a # c =>
      ~(\A t \in {a, b, c} : client_joined_room[t] = r)

(* tema2.tex: the clients exchange data with the server without            *)
(* interruption.                                                           *)
ServerKeepsRunning == up

(* tema2.tex: every variable the threads share has its mutex.  Nobody      *)
(* reads a notepad while another thread assigns it.                        *)
NotepadIsGuarded ==
  \A t \in Fds : pc[t] = "copy" => ~BeingWritten(client_joined_room[t], t)

(* tema2.tex: the client_room passes data between the users connected to   *)
(* the room only; what belongs to a client is deleted when it disconnects. *)
SlotsAreConnected ==
  \A r \in Rooms, s \in Slots :
    client_fd[r][s] # undefined => pc[client_fd[r][s]] # "ended"

(* tema2.tex: the notepad is kept up to date in real time.  Once all is    *)
(* quiet, every client that sits in the room sees the room's notepad.      *)
SeatsSeeTheNotepad ==
  Quiet => \A c \in Fds, r \in Rooms :
    Seated(c, r) /\ Sees(c, r) => LastText(c).body = notepad_collab[r]

=============================================================================
