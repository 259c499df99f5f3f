---------------------------- MODULE ServerProofs ----------------------------
(* What holds of the client threads holds of the whole server.              *)
EXTENDS Server, ServiceProofs

-----------------------------------------------------------------------------
(* A step of t touches the connection of a client that is not t only when  *)
(* the client sits in a slot.                                              *)
LEMMA SendToOnly ==
  ASSUME TypeOK, NEW c, NEW m, SendTo(c, m), NEW d \in Fds, d # c
  PROVE  conn'[d] = conn[d] /\ sent'[d] = sent[d]
  BY DEF SendTo, TypeOK

LEMMA StrangersUntouched ==
  ASSUME TypeInv, NEW t \in Fds, Step(t), NEW d \in Fds \ {t},
         \A r \in Rooms, s \in Slots : client_fd[r][s] # d
  PROVE  conn'[d] = conn[d] /\ sent'[d] = sent[d]
<1>0. /\ TypeOK /\ Place(t) /\ conn \in [Fds -> {"open", "fin", "rst", "dead"}]
  BY DEF TypeInv, TypeOK
<1>1. \A h, r : Reply(t, h, r) => conn'[d] = conn[d] /\ sent'[d] = sent[d]
  BY <1>0, SendToOnly DEF Reply
<1>2. CASE Receive(t) \/ HandleAgain(t)
  <2>1. PICK req : Handle(t, req)
    BY <1>2 DEF Receive, HandleAgain
  <2> QED BY <1>1, <2>1 DEF Handle, Answer, net
<1>3. CASE EndOfStream(t) \/ ReceiveError(t) \/ PeerVanishes(t)
  BY <1>0, <1>3 DEF EndOfStream, ReceiveError, PeerVanishes, Crash, net
<1>4. CASE CreateRoom(t) \/ JoinScan(t) \/ JoinCheck(t) \/ JoinSet(t)
  BY <1>1, <1>4 DEF CreateRoom, JoinScan, JoinCheck, JoinSet, JoinRefused, Answer,
                    Crash, net
<1>5. CASE SetInitialText(t) \/ ReplyCreated(t) \/ ReplyJoined(t)
           \/ CopyNotepad(t) \/ LeaveReply(t)
  BY <1>1, <1>5 DEF SetInitialText, ReplyCreated, ReplyJoined, CopyNotepad,
                    LeaveReply, Answer, Crash, net
<1>6. CASE SendNotepad(t)
  BY <1>0, <1>6, SendToOnly DEF SendNotepad
<1>7. CASE LeaveCheck(t) \/ LeaveClear(t) \/ LockNotepad(t) \/ WriteNotepad(t)
           \/ UpdateCheck(t) \/ SetCursor(t) \/ CursorCheck(t)
  BY <1>7 DEF LeaveCheck, LeaveClear, LockNotepad, WriteNotepad, UpdateCheck,
              SetCursor, CursorCheck, Crash, net
<1>8. CASE UpdateSend(t) \/ CursorSend(t)
  <2>1. client_joined_room[t] \in Rooms /\ loc[t].slot \in Slots
    BY <1>0, <1>8 DEF UpdateSend, CursorSend, At, Place, Roomed, TypeOK, Locals
  <2>2. client_fd[client_joined_room[t]][loc[t].slot] # d
    BY <2>1
  <2> QED BY <1>0, <1>8, <2>2, SendToOnly DEF UpdateSend, CursorSend
<1> QED BY <1>2, <1>3, <1>4, <1>5, <1>6, <1>7, <1>8 DEF Step, Work

-----------------------------------------------------------------------------
(***************************************************************************)
(* A descriptor that accept has not returned has had no traffic, and one   *)
(* whose thread has not been started is nowhere: so what Accept and        *)
(* StartThread put in place is what Rooms began with.                      *)
(***************************************************************************)
Unopened(c) == conn[c] = "open" /\ sent[c] = <<>>

Unstarted(c) ==
  /\ pc[c] = "recv" /\ client_joined_room[c] = 0 /\ loc[c] = NoLocals
  /\ arg[c] = [header |-> "none", code |-> NoRoomCode, n |-> 0]

DescriptorInv ==
  /\ open_fds \subseteq Fds /\ started \subseteq open_fds
  /\ main \in {"accept", "thread", "record"}
  /\ main = "thread" => connected_client_descriptor \in open_fds \ started
  /\ main = "record" => connected_client_descriptor \in started
  /\ \A c \in Fds \ open_fds : Unopened(c)
  /\ \A c \in Fds \ started : Unstarted(c)

SeatedInv == SeatInv /\ EndedInv /\ UpdateInv

(* A step of the server is a step of a thread, the end of the process, or  *)
(* nothing that the threads can see.                                       *)
ThreadStep ==
  \E t \in Fds : /\ Step(t) /\ UNCHANGED main_vars
                 /\ t \in open_fds /\ (t \in started \/ PeerVanishes(t))

LEMMA ServerCases ==
  ASSUME SeatedInv, DescriptorInv, ServerNext
  PROVE  ThreadStep \/ (up /\ Crash) \/ UNCHANGED vars
<1>1. TypeOK
  BY DEF SeatedInv, SeatInv, TypeInv
<1>2. CASE Accept
  <2>1. PICK fd \in FreeFds : /\ conn' = [conn EXCEPT ![fd] = "open"]
                              /\ sent' = [sent EXCEPT ![fd] = <<>>]
    BY <1>2 DEF Accept
  <2>2. conn' = conn /\ sent' = sent
    BY <1>1, <2>1 DEF FreeFds, DescriptorInv, Unopened, TypeOK
  <2> QED BY <1>2, <2>2 DEF Accept, vars, net
<1>3. CASE StartThread
  <2> DEFINE fd == connected_client_descriptor
  <2>1. Unstarted(fd) /\ fd \in Fds
    BY <1>3 DEF StartThread, DescriptorInv
  <2>2. pc' = pc /\ arg' = arg /\ client_joined_room' = client_joined_room /\ loc' = loc
    BY <1>1, <1>3, <2>1 DEF StartThread, Unstarted, TypeOK
  <2> QED BY <1>3, <2>2 DEF StartThread, vars
<1>4. CASE AcceptFails \/ Record
  BY <1>4 DEF AcceptFails, Record
<1>5. CASE \E t \in Fds : Serve(t) \/ ThreadEnds(t) \/ ClientVanishes(t)
  BY <1>5 DEF Serve, ThreadEnds, ClientVanishes, ThreadStep, Step, DescriptorInv
<1> QED BY <1>2, <1>3, <1>4, <1>5 DEF ServerNext

LEMMA DescriptorStep ==
  ASSUME SeatedInv, DescriptorInv, ServerNext
  PROVE  DescriptorInv'
<1>1. TypeOK /\ TypeInv
  BY DEF SeatedInv, SeatInv, TypeInv
<1>2. CASE Accept
  <2>1. PICK fd \in FreeFds : /\ connected_client_descriptor' = fd
                              /\ open_fds' = open_fds \cup {fd}
    BY <1>2 DEF Accept
  <2>2. UNCHANGED vars /\ started' = started /\ main' = "thread"
    <3>1. conn' = conn /\ sent' = sent
      BY <1>1, <1>2 DEF Accept, FreeFds, DescriptorInv, Unopened, TypeOK
    <3> QED BY <1>2, <3>1 DEF Accept, vars, net
  <2> QED BY <2>1, <2>2 DEF FreeFds, DescriptorInv, Unopened, Unstarted, vars, net
<1>3. CASE StartThread
  <2> DEFINE fd == connected_client_descriptor
  <2>1. Unstarted(fd) /\ fd \in open_fds \ started /\ open_fds \subseteq Fds
    BY <1>3 DEF StartThread, DescriptorInv
  <2>2. /\ pc' = pc /\ arg' = arg /\ client_joined_room' = client_joined_room
        /\ loc' = loc /\ UNCHANGED net
    BY <1>1, <1>3, <2>1 DEF StartThread, Unstarted, TypeOK
  <2> QED BY <1>3, <2>1, <2>2 DEF StartThread, DescriptorInv, Unopened, Unstarted, net
<1>4. CASE AcceptFails \/ Record
  <2>1. /\ UNCHANGED <<open_fds, started, connected_client_descriptor, pc, arg,
                       client_joined_room, loc, conn, sent>>
        /\ main' \in {"accept", main}
    BY <1>4 DEF AcceptFails, Record, Crash, main_vars, fd_vars, vars, net
  <2> QED BY <2>1 DEF DescriptorInv, Unopened, Unstarted
<1>5. CASE ThreadStep
  <2>1. PICK t \in Fds : /\ Step(t) /\ UNCHANGED main_vars
                         /\ t \in open_fds /\ (t \in started \/ PeerVanishes(t))
    BY <1>5 DEF ThreadStep
  <2>2. OthersWait(t)
    BY <2>1, OthersStay DEF SeatedInv
  <2>3. ASSUME NEW c \in Fds \ open_fds PROVE Unopened(c)'
    <3>1. Unopened(c) /\ Unstarted(c) /\ c # t
      BY <2>1 DEF DescriptorInv
    <3>2. \A r \in Rooms, s \in Slots : client_fd[r][s] # c
      BY <3>1, RoomsAssumption
         DEF SeatedInv, SeatInv, SlotOwnership, Unstarted, Rooms
    <3> QED BY <1>1, <2>1, <3>1, <3>2, StrangersUntouched DEF Unopened
  <2>4. ASSUME NEW c \in Fds \ started PROVE Unstarted(c)'
    <3>1. CASE c = t
      BY <2>1, <3>1 DEF PeerVanishes, DescriptorInv, Unstarted
    <3>2. CASE c # t
      BY <2>2, <3>2 DEF OthersWait, DescriptorInv, Unstarted
    <3> QED BY <3>1, <3>2
  <2> QED BY <2>1, <2>3, <2>4 DEF DescriptorInv, main_vars, fd_vars
<1> QED BY <1>2, <1>3, <1>4, <1>5
        DEF ServerNext, Serve, ThreadEnds, ClientVanishes, ThreadStep, Step,
            DescriptorInv

(* The end of the process leaves everything where it was. *)
LEMMA CrashKeepsSeats ==
  ASSUME SeatedInv, Crash
  PROVE  SeatedInv'
<1>1. UNCHANGED <<created, code, client_fd, cursor_pos, notepad_collab,
                  notepad_collab_i, pc, arg, client_joined_room, loc, conn, sent>>
      /\ up' \in BOOLEAN
  BY DEF Crash, vector, room
<1>2. TypeInv'
  BY <1>1 DEF SeatedInv, SeatInv, TypeInv, TypeOK, Place, Creating
<1> QED BY <1>1, <1>2 DEF SeatedInv, SeatInv, SlotOwnership, OneSlotEach, Leaving,
                          EndedInv, UpdateInv, InUpdate

LEMMA SeatedStep ==
  ASSUME SeatedInv, NEW t \in Fds, Step(t)
  PROVE  SeatedInv'
<1>1. TypeInv'
  BY TypeInvStep DEF SeatedInv, SeatInv, Next, Step
<1> QED BY <1>1, SeatStep, EndedStep, UpdateStep DEF SeatedInv

LEMMA ServerSeated == ServerSpec => [](SeatedInv /\ DescriptorInv)
<1>1. ServerInit => SeatedInv /\ DescriptorInv
  <2> SUFFICES ASSUME ServerInit PROVE SeatedInv /\ DescriptorInv
    OBVIOUS
  <2>1. SeatedInv
    BY InitTypeInv, RoomsAssumption
       DEF ServerInit, Init, SeatedInv, SeatInv, SlotOwnership, OneSlotEach, Leaving,
           EndedInv, UpdateInv, InUpdate, Entering
  <2>2. DescriptorInv
    BY DEF ServerInit, Init, DescriptorInv, Unopened, Unstarted
  <2> QED BY <2>1, <2>2
<1>2. SeatedInv /\ UNCHANGED vars => SeatedInv'
  BY TypeInvStep
     DEF SeatedInv, SeatInv, SlotOwnership, OneSlotEach, Leaving, EndedInv, UpdateInv,
         InUpdate, vars, room, net
<1>3. DescriptorInv /\ UNCHANGED <<vars, main_vars>> => DescriptorInv'
  BY DEF DescriptorInv, Unopened, Unstarted, vars, net, main_vars, fd_vars
<1>4. SeatedInv /\ DescriptorInv /\ ServerNext => (SeatedInv /\ DescriptorInv)'
  BY <1>2, ServerCases, DescriptorStep, CrashKeepsSeats, SeatedStep DEF ThreadStep
<1>5. SeatedInv /\ UNCHANGED <<vars, main_vars>> => SeatedInv'
  BY <1>2
<1> QED BY <1>1, <1>3, <1>4, <1>5, PTL DEF ServerSpec

(***************************************************************************)
(* A descriptor stands only in the room its thread has joined, although    *)
(* descriptors are named by accept, and threads started, one after the     *)
(* other.                                                                  *)
(***************************************************************************)
THEOREM ServerSlotsAreOwned == ServerSpec => []SlotOwnership
<1>1. SeatedInv => SlotOwnership
  BY DEF SeatedInv, SeatInv
<1> QED BY <1>1, ServerSeated, PTL

(***************************************************************************)
(* No client of the server is sent the text or a cursor of a room it has   *)
(* not joined, by UpdateClients, SendToClient or the 204.                  *)
(***************************************************************************)
THEOREM ServerIsolatesRooms == ServerSpec => RoomIsolation
<1>1. TypeOK /\ sent' = sent => SentToMembers
  BY DEF SentToMembers, NewMessage, TypeOK
<1>2. SeatedInv /\ DescriptorInv /\ ServerNext => [SentToMembers]_vars
  <2> SUFFICES ASSUME SeatedInv, DescriptorInv, ServerNext, ~UNCHANGED vars
               PROVE  SentToMembers
    OBVIOUS
  <2>1. CASE ThreadStep
    BY <2>1, MemberStep DEF ThreadStep, SeatedInv
  <2>2. CASE Crash
    BY <1>1, <2>2 DEF Crash, SeatedInv, SeatInv, TypeInv
  <2> QED BY <2>1, <2>2, ServerCases
<1>3. UNCHANGED <<vars, main_vars>> => [SentToMembers]_vars
  OBVIOUS
<1> QED BY <1>2, <1>3, ServerSeated, PTL DEF ServerSpec, RoomIsolation

(***************************************************************************)
(* In the whole server, too, updates of a room exclude each other (005)    *)
(* and nobody holds two slots (JoinRoom).                                  *)
(***************************************************************************)
THEOREM ServerRoomsAreSafe == ServerSpec => [](OneSlotEach /\ OneUpdateAtATime)
<1>1. SeatedInv => OneSlotEach /\ OneUpdateAtATime
  BY DEF SeatedInv, SeatInv, UpdateInv, OneUpdateAtATime
<1> QED BY <1>1, ServerSeated, PTL

-----------------------------------------------------------------------------
(* What needs fresh codes. *)
LEMMA CrashRefines ==
  ASSUME TypeOK, up, Crash
  PROVE  Refined
  BY DEF Crash, Refined, Service!Next, Service!Halt

TextsInv == FreshInv /\ CurrentInv /\ ReachInv

LEMMA CrashKeepsTexts ==
  ASSUME TextsInv, Crash
  PROVE  TextsInv'
<1>1. UNCHANGED <<created, code, client_fd, notepad_collab, pc, arg,
                  client_joined_room, loc, conn, sent>>
  BY DEF Crash, vector, room
<1> QED BY <1>1, FreshSame, CurrentSame, ReachSame DEF TextsInv

LEMMA ServerTexts ==
  ASSUME CodesUnique
  PROVE  ServerSpec => []TextsInv
<1>1. ServerInit => TextsInv
  BY RoomsAssumption
     DEF ServerInit, Init, TextsInv, FreshInv, CodesInv, Known, Private, Making,
         Creating, CurrentInv, Current, ReachInv, HasLast, Starting, Reached, Sees,
         TextMessages
<1>2. TextsInv /\ UNCHANGED vars => TextsInv'
  BY FreshSame, CurrentSame, ReachSame DEF TextsInv, vars, vector, room, net
<1>3. TextsInv /\ UNCHANGED <<vars, main_vars>> => TextsInv'
  BY <1>2
<1>4. SeatedInv /\ TextsInv /\ DescriptorInv /\ ServerNext => TextsInv'
  <2> SUFFICES ASSUME SeatedInv, TextsInv, DescriptorInv, ServerNext PROVE TextsInv'
    OBVIOUS
  <2>1. CASE ThreadStep
    BY <2>1, FreshStep, CurrentStep, ReachStep DEF ThreadStep, SeatedInv, TextsInv
  <2> QED BY <1>2, <2>1, ServerCases, CrashKeepsTexts
<1> QED BY <1>1, <1>3, <1>4, ServerSeated, PTL DEF ServerSpec

(***************************************************************************)
(* No update of the server passes over a client that sits in the room      *)
(* (UpdateClients).                                                        *)
(***************************************************************************)
THEOREM ServerUpdatesReachTheSeats ==
  CodesUnique => (ServerSpec => []UpdatesReachEverySeat)
<1> SUFFICES ASSUME CodesUnique PROVE ServerSpec => []UpdatesReachEverySeat
  OBVIOUS
<1>1. TextsInv => UpdatesReachEverySeat
  BY DEF TextsInv, ReachInv, Reached, UpdatesReachEverySeat, Quiet, Seated, Owes,
         InUpdate, Arriving
<1> QED BY <1>1, ServerTexts, PTL

(***************************************************************************)
(* All clients of the server are shown the updates of a room in one        *)
(* order, and none is shown again after a later one (UpdateClients).       *)
(***************************************************************************)
THEOREM ServerUpdatesComeInOneOrder ==
  CodesUnique /\ "rst" \notin Losses => (ServerSpec => []SameOrder)
<1> SUFFICES ASSUME CodesUnique, "rst" \notin Losses PROVE ServerSpec => []SameOrder
  OBVIOUS
<1>1. ServerInit => OrderInv
  <2> SUFFICES ASSUME ServerInit PROVE OrderInv
    OBVIOUS
  <2>1. Init
    BY DEF ServerInit
  <2> QED BY <2>1, OrderInit
<1>2. OrderInv /\ UNCHANGED <<vars, main_vars>> => OrderInv'
  BY OrderSame DEF vars, room, net
<1>3. SeatedInv /\ TextsInv /\ DescriptorInv /\ OrderInv /\ ServerNext => OrderInv'
  <2> SUFFICES ASSUME SeatedInv, TextsInv, DescriptorInv, OrderInv, ServerNext
               PROVE  OrderInv'
    OBVIOUS
  <2>1. CASE ThreadStep
    BY <2>1, OrderStep DEF ThreadStep, SeatedInv, TextsInv
  <2>2. CASE Crash \/ UNCHANGED vars
    BY <2>2, OrderSame DEF Crash, vars, room, net
  <2> QED BY <2>1, <2>2, ServerCases
<1>4. OrderInv => SameOrder
  BY DEF OrderInv
<1> QED BY <1>1, <1>2, <1>3, <1>4, ServerSeated, ServerTexts, PTL DEF ServerSpec

(***************************************************************************)
(* The whole server, from accept on, implements the service of             *)
(* RoomService: accepting, starting a thread and recording it change       *)
(* nothing of the rooms, and the end in the accept loop is the service's   *)
(* Halt.                                                                   *)
(***************************************************************************)
THEOREM ServerImplementsService == CodesUnique => (ServerSpec => ServiceSpec)
<1> SUFFICES ASSUME CodesUnique PROVE ServerSpec => ServiceSpec
  OBVIOUS
<1>1. ServerInit => Service!Init
  BY RefinedInit DEF ServerInit
<1>2. UNCHANGED vars => UNCHANGED Service!vars
  BY DEF vars, vector, room, net, Service!vars, Gone, Rising, View, Owed, Owes,
         InUpdate
<1>3. UNCHANGED <<vars, main_vars>> => UNCHANGED Service!vars
  BY <1>2
<1>4. SeatedInv /\ TextsInv /\ DescriptorInv /\ ServerNext
        => [Service!Next]_(Service!vars)
  <2> SUFFICES ASSUME SeatedInv, TextsInv, DescriptorInv, ServerNext PROVE Refined
    BY DEF Refined
  <2>1. CASE ThreadStep
    BY <2>1, RefinedStep DEF ThreadStep, SeatedInv, TextsInv, RefinementInv
  <2>2. CASE up /\ Crash
    BY <2>2, CrashRefines DEF SeatedInv, SeatInv, TypeInv
  <2>3. CASE UNCHANGED vars
    BY <1>2, <2>3 DEF Refined
  <2> QED BY <2>1, <2>2, <2>3, ServerCases
<1> QED BY <1>1, <1>3, <1>4, ServerSeated, ServerTexts, PTL
        DEF ServerSpec, ServiceSpec, Service!Spec

-----------------------------------------------------------------------------
(***************************************************************************)
(* The table.  Until it is full the counter is the number of clients that  *)
(* arrived, less the one whose thread runs and is not yet recorded.        *)
(***************************************************************************)
Recorded == {connected_clients_fds[p] : p \in 1 .. connected_clients_count}

TableUsed ==
  /\ connected_clients_count \in Nat
  /\ arrived = connected_clients_count + IF main = "accept" THEN 0 ELSE 1
  /\ connected_clients_fds \in [Places -> Fds \cup {undefined}]
  /\ Recorded = IF main = "record" THEN started \ {connected_client_descriptor}
                ELSE started
  /\ \A p, q \in 1 .. connected_clients_count :
       connected_clients_fds[p] = connected_clients_fds[q] => p = q

TableInv == arrived \in Nat /\ (arrived < TableSize => TableUsed)

LEMMA TableStep ==
  ASSUME DescriptorInv, TableInv, ServerNext
  PROVE  TableInv'
<1>1. CASE UNCHANGED main_vars
  BY <1>1 DEF main_vars, table_vars, fd_vars, TableInv, TableUsed, Recorded
<1>2. CASE Accept
  BY <1>2, ServerAssumption
     DEF Accept, table_vars, TableInv, TableUsed, Recorded, DescriptorInv
<1>3. CASE StartThread
  <2>1. /\ main = "thread" /\ main' = "record"
        /\ started' = started \cup {connected_client_descriptor}
        /\ UNCHANGED <<connected_client_descriptor, connected_clients_fds,
                       connected_clients_count, arrived>>
        /\ connected_client_descriptor \notin started
    BY <1>3 DEF StartThread, table_vars, DescriptorInv
  <2> QED BY <2>1 DEF TableInv, TableUsed, Recorded
<1>4. CASE Record
  <2> SUFFICES ASSUME arrived < TableSize PROVE TableUsed'
    BY <1>4 DEF Record, TableInv, fd_vars
  <2> DEFINE fd == connected_client_descriptor
             n == connected_clients_count
  <2>1. /\ main = "record" /\ n \in Nat /\ n + 1 = arrived /\ n + 1 \in Places
        /\ fd \in started /\ fd \in Fds
    <3>1. main = "record" /\ fd \in started /\ fd \in Fds
      BY <1>4 DEF Record, DescriptorInv
    <3>2. n \in Nat /\ arrived = n + 1
      BY <3>1 DEF TableInv, TableUsed
    <3>3. n + 1 \in Places
      BY <3>2, ServerAssumption DEF Places
    <3> QED BY <3>1, <3>2, <3>3
  <2>2. /\ connected_clients_fds' = [connected_clients_fds EXCEPT ![n + 1] = fd]
        /\ connected_clients_count' = n + 1 /\ main' = "accept"
        /\ UNCHANGED <<fd_vars, connected_client_descriptor>>
    BY <1>4, <2>1 DEF Record
  <2>3. /\ connected_clients_fds' \in [Places -> Fds \cup {undefined}]
        /\ connected_clients_fds'[n + 1] = fd
        /\ \A p \in 1 .. n : connected_clients_fds'[p] = connected_clients_fds[p]
        /\ \A p \in 1 .. (n + 1) : p \in 1 .. n \/ p = n + 1
    BY <2>1, <2>2, ServerAssumption DEF TableInv, TableUsed, Places
  <2>4. \A p \in 1 .. n : connected_clients_fds[p] # fd
    BY <2>1 DEF TableInv, TableUsed, Recorded
  <2>5. Recorded' = started
    <3>1. Recorded' = Recorded \cup {fd}
      BY <2>1, <2>2, <2>3 DEF Recorded
    <3> QED BY <2>1, <3>1 DEF TableInv, TableUsed
  <2>6. \A p, q \in 1 .. (n + 1) :
          connected_clients_fds'[p] = connected_clients_fds'[q] => p = q
    BY <2>3, <2>4 DEF TableInv, TableUsed
  <2> QED BY <2>1, <2>2, <2>3, <2>5, <2>6 DEF TableUsed, fd_vars
<1> QED BY <1>1, <1>2, <1>3, <1>4
        DEF ServerNext, AcceptFails, Serve, ThreadEnds, ClientVanishes

(***************************************************************************)
(* Until connected_clients_fds is full every thread but the one just       *)
(* started has a place of its own in it (the loop of main_app.cpp).        *)
(***************************************************************************)
THEOREM ThreadsArePlaced == ServerSpec => []ThreadsHavePlaces
<1>1. ServerInit => TableInv
  BY ServerAssumption DEF ServerInit, TableInv, TableUsed, Recorded, Places
<1>2. TableInv /\ UNCHANGED <<vars, main_vars>> => TableInv'
  BY DEF main_vars, table_vars, fd_vars, TableInv, TableUsed, Recorded
<1>3. DescriptorInv /\ TableInv /\ ServerNext => TableInv'
  BY TableStep
<1>4. TableInv => ThreadsHavePlaces
  BY ServerAssumption DEF TableInv, TableUsed, Recorded, ThreadsHavePlaces, Places
<1> QED BY <1>1, <1>2, <1>3, <1>4, ServerSeated, PTL DEF ServerSpec

=============================================================================
