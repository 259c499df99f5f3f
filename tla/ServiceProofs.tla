---------------------------- MODULE ServiceProofs ----------------------------
(* Rooms implements RoomService: every step of a thread is a step of the     *)
(* service, or changes nothing that the service speaks of.                   *)
EXTENDS UpdatesProofs

RefinementInv ==
  SeatInv /\ EndedInv /\ UpdateInv /\ FreshInv /\ CurrentInv /\ ReachInv

Refined == Service!Next \/ UNCHANGED Service!vars

-----------------------------------------------------------------------------
(* The steps that touch neither the text of a room nor who sits where. *)
Frame == UNCHANGED <<created, client_joined_room, client_fd, notepad_collab>>

(* What t is about to do is nothing the service speaks of. *)
Plain(t) == /\ pc[t] \notin {"clear", "204", "check112", "send112"}
            /\ ~(pc[t] = "copy" /\ arg[t].header = "005")

LEMMA OwesSame ==
  ASSUME NEW t \in Fds, OthersWait(t),
         \A r \in Rooms, s \in Slots : Owes(t, r, s)' = Owes(t, r, s)
  PROVE  Owed' = Owed
<1>1. \A u \in Fds : \A r \in Rooms, s \in Slots : Owes(u, r, s)' = Owes(u, r, s)
  BY DEF OthersWait, Owes, InUpdate
<1>2. ASSUME NEW o \in Rooms \X Slots
      PROVE  (\E u \in Fds : Owes(u, o[1], o[2]))' = (\E u \in Fds : Owes(u, o[1], o[2]))
  <2>1. PICK r \in Rooms, s \in Slots : o = <<r, s>>
    OBVIOUS
  <2>2. (\E u \in Fds : Owes(u, r, s))' = (\E u \in Fds : Owes(u, r, s))
    BY <1>1
  <2> QED BY <2>1, <2>2
<1> QED BY <1>2 DEF Owed

LEMMA PlainStep ==
  ASSUME NEW t \in Fds, OthersWait(t), Plain(t), Plain(t)'
  PROVE  Rising' = Rising /\ View' = View /\ Owed' = Owed
<1>1. \A r \in Rooms, s \in Slots : Owes(t, r, s)' = Owes(t, r, s)
  BY DEF Plain, Owes, InUpdate
<1>2. Owed' = Owed
  BY <1>1, OwesSame
<1>3. Rising' = Rising /\ View' = View
  BY DEF Plain, OthersWait, Rising, View
<1> QED BY <1>2, <1>3

LEMMA UpCases ==
  ASSUME TypeInv, NEW t \in Fds, Step(t)
  PROVE  up = TRUE /\ (up' = TRUE \/ (up' = FALSE /\ sent' = sent))
<1>0. up \in BOOLEAN
  BY DEF TypeInv, TypeOK
<1>1. \A c, m : up /\ SendTo(c, m) => up' = TRUE \/ (up' = FALSE /\ sent' = sent)
  BY <1>0 DEF SendTo
<1>2. CASE Receive(t) \/ HandleAgain(t)
  <2>1. PICK req : Handle(t, req)
    BY <1>2 DEF Receive, HandleAgain
  <2> QED BY <1>0, <1>1, <1>2, <2>1
          DEF Receive, HandleAgain, Handle, Answer, Reply, At, net
<1>3. CASE EndOfStream(t) \/ ReceiveError(t) \/ PeerVanishes(t)
  BY <1>0, <1>3 DEF EndOfStream, ReceiveError, PeerVanishes, Crash, At, net
<1>4. CASE CreateRoom(t) \/ JoinScan(t) \/ JoinCheck(t) \/ JoinSet(t)
  BY <1>0, <1>1, <1>4 DEF CreateRoom, JoinScan, JoinCheck, JoinSet, JoinRefused,
                          Answer, Reply, Crash, At, net
<1>5. CASE SetInitialText(t) \/ ReplyCreated(t) \/ ReplyJoined(t)
           \/ CopyNotepad(t) \/ SendNotepad(t)
  BY <1>0, <1>1, <1>5 DEF SetInitialText, ReplyCreated, ReplyJoined, CopyNotepad,
                          SendNotepad, Answer, Reply, Crash, At, net
<1>6. CASE LeaveCheck(t) \/ LeaveClear(t) \/ LeaveReply(t)
           \/ LockNotepad(t) \/ WriteNotepad(t)
  BY <1>0, <1>1, <1>6 DEF LeaveCheck, LeaveClear, LeaveReply, LockNotepad,
                          WriteNotepad, Answer, Reply, Crash, At, net
<1>7. CASE UpdateCheck(t) \/ UpdateSend(t) \/ SetCursor(t) \/ CursorCheck(t)
           \/ CursorSend(t)
  BY <1>0, <1>1, <1>7 DEF UpdateCheck, UpdateSend, SetCursor, CursorCheck,
                          CursorSend, At, net
<1> QED BY <1>2, <1>3, <1>4, <1>5, <1>6, <1>7 DEF Step, Work

-----------------------------------------------------------------------------
(* A send to a client that is there appends to its log; what is sent to    *)
(* one that is gone changes nothing, or the process ends.                  *)
LEMMA SendGone ==
  ASSUME TypeOK, up, up', NEW c \in Fds \cup {undefined}, NEW m, SendTo(c, m)
  PROVE  /\ c \in Fds /\ Gone' = Gone
         /\ IF c \in Gone THEN UNCHANGED sent
            ELSE /\ conn[c] = "open"
                 /\ sent' = [sent EXCEPT ![c] = Append(@, m)]
<1>1. c # undefined
  BY DEF SendTo
<1>2. CASE conn[c] = "open"
  BY <1>1, <1>2 DEF SendTo, Gone
<1>3. CASE conn[c] = "fin"
  BY <1>1, <1>3 DEF SendTo, Gone, TypeOK
<1> QED BY <1>1, <1>2, <1>3 DEF SendTo

LEMMA TellStep ==
  ASSUME TypeOK, up, up', NEW c \in Fds \cup {undefined}, NEW m \in Messages,
         SendTo(c, m), m.header \notin {"112", "204"},
         m.header = "113" /\ c \in Fds /\ conn[c] = "open" =>
           m.room = client_joined_room[c],
         Frame, UNCHANGED <<Rising, View, Owed>>
  PROVE  Refined
<1>1. CASE c \in Gone
  BY <1>1, SendGone DEF Refined, Service!vars, Frame, TypeOK
<1>2. CASE c \notin Gone
  <2>1. /\ c \in Fds /\ conn[c] = "open" /\ sent[c] \in Seq(Messages)
        /\ sent' = [sent EXCEPT ![c] = Append(@, m)] /\ Gone' = Gone
    BY <1>2, SendGone DEF TypeOK
  <2>2. sent'[c] = Append(sent[c], m) /\ sent'[c] # sent[c]
    BY <2>1 DEF TypeOK
  <2>3. Service!Tell(c)
    BY <1>2, <2>1, <2>2 DEF Service!Tell, Service!Notices, Frame
  <2> QED BY <2>1, <2>3 DEF Refined, Service!Next, TypeOK
<1> QED BY <1>1, <1>2

LEMMA ReplyTells ==
  ASSUME TypeOK, up, up', NEW t \in Fds, NEW r \in 0 .. MaxRooms,
         NEW h \in {"100", "101", "102", "104", "107", "108", "109", "110", "111"},
         Reply(t, h, r), Frame, UNCHANGED <<Rising, View, Owed>>
  PROVE  Refined
<1>1. [header |-> h, room |-> r, body |-> NoText] \in Messages
  BY DEF Messages, Texts
<1> QED BY <1>1, TellStep DEF Reply

LEMMA IdleStep ==
  ASSUME Frame, UNCHANGED <<up, sent, Gone, Rising, View, Owed>>
  PROVE  Refined
  BY DEF Refined, Service!vars, Frame

-----------------------------------------------------------------------------
(* The loop, the creation of a room and the way into one. *)
LEMMA HandleRefines ==
  ASSUME TypeInv, up, up', NEW t \in Fds, OthersWait(t),
         pc[t] \in {"recv", "again"}, Handle(t, arg'[t])
  PROVE  Refined
<1> DEFINE refusal == Refusal(client_joined_room[t] # 0, arg'[t])
<1>1. TypeOK /\ pc \in [Fds -> Points] /\ 0 \in 0 .. MaxRooms /\ Frame
  BY RoomsAssumption DEF TypeInv, TypeOK, Handle, Frame, vector, room
<1>2. \E p \in {"recv", "CreateRoom", "scan", "leave", "lock", "cursor"} : Goto(t, p)
  BY DEF Handle, Answer, Return
<1>3. UNCHANGED <<Rising, View, Owed>>
  BY <1>1, <1>2, PlainStep DEF Plain, Goto
<1>4. CASE refusal # "none"
  <2>1. refusal \in {"102", "107", "108", "111"} /\ Reply(t, refusal, 0)
    BY <1>4 DEF Refusal, Handle, Answer
  <2> QED BY <1>1, <1>3, <2>1, ReplyTells
<1>5. CASE refusal = "none"
  <2>1. UNCHANGED net
    BY <1>5 DEF Handle
  <2> QED BY <1>1, <1>3, <2>1, IdleStep DEF net, Gone
<1> QED BY <1>4, <1>5

LEMMA ConnectionRefines ==
  ASSUME TypeInv, up, up', NEW t \in Fds, OthersWait(t),
         EndOfStream(t) \/ ReceiveError(t) \/ PeerVanishes(t)
  PROVE  Refined
<1>1. TypeOK /\ pc \in [Fds -> Points]
  BY DEF TypeInv, TypeOK
<1>2. CASE EndOfStream(t)
  <2>1. UNCHANGED <<Rising, View, Owed>>
    BY <1>1, <1>2, PlainStep DEF EndOfStream, At, Goto, Plain
  <2>2. Service!Forget(t) /\ UNCHANGED up
    BY <1>1, <1>2, <2>1
       DEF EndOfStream, Service!Forget, Gone, vector, room, net, TypeOK
  <2> QED BY <2>2 DEF Refined, Service!Next
<1>3. CASE ReceiveError(t)
  <2>1. /\ pc[t] = "recv" /\ conn[t] = "rst" /\ conn' = [conn EXCEPT ![t] = "dead"]
        /\ \E p \in {"recv", "again"} : Goto(t, p)
        /\ UNCHANGED <<vector, room, arg, client_joined_room, loc, up, sent>>
    BY <1>3 DEF ReceiveError, At, Crash
  <2>2. UNCHANGED <<Rising, View, Owed>>
    BY <1>1, <2>1, PlainStep DEF Goto, Plain
  <2>3. Gone' = Gone
    BY <1>1, <2>1 DEF Gone, TypeOK
  <2> QED BY <2>1, <2>2, <2>3, IdleStep DEF Frame, vector, room
<1>4. CASE PeerVanishes(t)
  <2>1. UNCHANGED <<Rising, View, Owed>>
    BY <1>4 DEF PeerVanishes, Rising, View, Owed, Owes, InUpdate
  <2>2. Gone' = Gone \cup {t}
    BY <1>1, <1>4, RoomsAssumption DEF PeerVanishes, Gone, TypeOK
  <2>3. Service!Vanish(t) /\ UNCHANGED up
    BY <1>4, <2>1, <2>2 DEF PeerVanishes, Service!Vanish, vector, room
  <2> QED BY <2>3 DEF Refined, Service!Next
<1> QED BY <1>2, <1>3, <1>4

LEMMA JoinRefines ==
  ASSUME TypeInv, FreshInv, up, up', NEW t \in Fds, OthersWait(t),
         CreateRoom(t) \/ JoinScan(t) \/ JoinCheck(t) \/ JoinSet(t)
  PROVE  Refined
<1>1. TypeOK /\ pc \in [Fds -> Points] /\ 0 \in 0 .. MaxRooms
  BY RoomsAssumption DEF TypeInv, TypeOK
<1>2. pc[t] \in {"CreateRoom", "scan", "check", "set"}
  BY DEF CreateRoom, JoinScan, JoinCheck, JoinSet, At
<1>3. pc'[t] \in {"recv", "scan", "check", "set", "init", "104"}
  <2>1. JoinRefused(t) => pc'[t] = "recv"
    BY <1>1 DEF JoinRefused, Answer, Return, Goto
  <2>2. CASE CreateRoom(t) \/ JoinSet(t)
    BY <1>1, <2>2 DEF CreateRoom, JoinSet, Goto
  <2>3. CASE JoinScan(t)
    BY <1>1, <2>1, <2>3 DEF JoinScan, Goto, Crash
  <2>4. CASE JoinCheck(t)
    BY <1>1, <2>1, <2>4 DEF JoinCheck, Goto, At
  <2> QED BY <2>2, <2>3, <2>4
<1>4. UNCHANGED <<Rising, View, Owed>>
  BY <1>2, <1>3, PlainStep DEF Plain
<1>5. CASE CreateRoom(t)
  <2>1. created' \in Rooms
    BY <1>1, <1>5, RoomsAssumption DEF CreateRoom, TypeOK, Rooms
  <2>2. Service!Make /\ UNCHANGED up
    BY <1>4, <1>5, <2>1 DEF CreateRoom, Service!Make, room, net, Gone
  <2> QED BY <2>2 DEF Refined, Service!Next
<1>6. CASE JoinScan(t) \/ JoinCheck(t)
  <2>1. Frame
    BY <1>6 DEF JoinScan, JoinCheck, Crash, Frame, vector, room
  <2>2. CASE UNCHANGED net
    BY <1>4, <2>1, <2>2, IdleStep DEF net, Gone
  <2>3. CASE JoinRefused(t)
    BY <1>1, <1>4, <2>1, <2>3, ReplyTells DEF JoinRefused, Answer
  <2> QED BY <1>6, <2>2, <2>3 DEF JoinScan, JoinCheck, Crash
<1>7. CASE JoinSet(t)
  <2> DEFINE r == loc[t].found
             s == loc[t].slot
  <2>1. /\ client_joined_room[t] = 0 /\ r \in Rooms /\ s \in Slots /\ pc[t] = "set"
        /\ created \in Nat
    BY <1>7 DEF JoinSet, At, TypeInv, TypeOK, Place, Roomless, Locals
  <2>2. r \in 1 .. created
    <3>1. CASE Creating(t)
      BY <2>1, <3>1 DEF FreshInv, Private, Making
    <3>2. CASE ~Creating(t)
      BY <2>1, <3>2, NamedKnown DEF FreshInv, Private, Rooms
    <3> QED BY <3>1, <3>2
  <2>3. Service!Enter(t) /\ UNCHANGED up
    BY <1>4, <1>7, <2>1, <2>2 DEF JoinSet, Service!Enter, vector, net, Gone
  <2> QED BY <2>3 DEF Refined, Service!Next
<1> QED BY <1>5, <1>6, <1>7

-----------------------------------------------------------------------------
(* The first text, the answers to those who entered, and their notepad. *)
LEMMA OpenRefines ==
  ASSUME TypeInv, FreshInv, up, up', NEW t \in Fds, OthersWait(t), SetInitialText(t)
  PROVE  Refined
<1> DEFINE r == client_joined_room[t]
<1>1. /\ pc[t] = "init" /\ pc'[t] = "101" /\ r \in Rooms /\ r # 0
      /\ notepad_collab' = [notepad_collab EXCEPT ![r] = Text(t)]
      /\ UNCHANGED <<up, vector, client_fd, client_joined_room, net>>
  BY DEF SetInitialText, At, Goto, Crash, TypeInv, TypeOK, Place, Roomed, Rooms, net
<1>2. UNCHANGED <<Rising, View, Owed>>
  BY <1>1, PlainStep DEF Plain
<1>3. /\ \A d \in Fds \ {t} : client_joined_room[d] # r
      /\ \A d \in Fds : \A i \in DOMAIN sent[d] : sent[d][i].room # r
  BY <1>1 DEF FreshInv, Private, Making, Named
<1>4. Text(t) \in Texts
  BY DEF Text, Texts, TypeInv, TypeOK, Requests
<1>5. Service!Open(t)
  BY <1>1, <1>2, <1>3, <1>4 DEF Service!Open, vector, net, Gone
<1> QED BY <1>1, <1>5 DEF Refined, Service!Next

LEMMA ReplyRefines ==
  ASSUME TypeInv, UpdateInv, up, up', NEW t \in Fds, OthersWait(t),
         ReplyCreated(t) \/ ReplyJoined(t)
  PROVE  Refined
<1>1. /\ TypeOK /\ pc \in [Fds -> Points] /\ client_joined_room[t] \in 0 .. MaxRooms
      /\ UNCHANGED <<vector, room, arg, client_joined_room>>
  BY DEF TypeInv, TypeOK, ReplyCreated, ReplyJoined
<1>2. /\ pc[t] \in {"101", "104"} /\ pc'[t] \in {"recv", "copy"}
      /\ pc'[t] = "copy" => arg'[t].header # "005"
  BY <1>1 DEF ReplyCreated, ReplyJoined, Answer, Return, Goto, At, UpdateInv,
              Entering
<1>3. UNCHANGED <<Rising, View, Owed>>
  BY <1>2, PlainStep DEF Plain
<1>4. \E h \in {"101", "104"} : Reply(t, h, client_joined_room[t])
  BY DEF ReplyCreated, ReplyJoined, Answer
<1> QED BY <1>1, <1>3, <1>4, ReplyTells DEF Frame, vector, room

LEMMA LookRefines ==
  ASSUME TypeInv, up, up', NEW t \in Fds, OthersWait(t), CopyNotepad(t)
  PROVE  Refined
<1> DEFINE r == client_joined_room[t]
<1>1. /\ pc \in [Fds -> Points] /\ loc \in [Fds -> Locals] /\ loc[t] \in Locals
      /\ pc[t] = "copy" /\ r \in Rooms /\ r # 0
      /\ UNCHANGED <<vector, room, arg, client_joined_room, net>>
  BY DEF CopyNotepad, At, Crash, TypeInv, TypeOK, Place, Roomed, Rooms, net
<1>2. PICK x \in {notepad_collab[r], Torn} : loc' = [loc EXCEPT ![t].copy = x]
  BY DEF CopyNotepad, Crash
<1>3. loc'[t].copy = x /\ loc'[t].slot = loc[t].slot
  BY <1>1, <1>2 DEF Locals
<1>4. pc' = [pc EXCEPT ![t] = IF arg[t].header = "005" THEN "check112" ELSE "204"]
  BY DEF CopyNotepad, Crash, Goto
<1>5. Rising' = Rising
  BY <1>1, <1>4 DEF OthersWait, Rising
<1>6. Owed' = Owed
  <2>1. \A q \in Rooms, s \in Slots : Owes(t, q, s)' = Owes(t, q, s)
    BY <1>1, <1>3, <1>4 DEF Owes, InUpdate
  <2> QED BY <2>1, OwesSame
<1>7. CASE arg[t].header = "005"
  <2>1. View' = View
    BY <1>1, <1>4, <1>7 DEF OthersWait, View
  <2> QED BY <1>1, <1>5, <1>6, <2>1, IdleStep DEF Frame, vector, room, net, Gone
<1>8. CASE arg[t].header # "005"
  <2>1. View' = [View EXCEPT ![t] = x]
    BY <1>1, <1>3, <1>4, <1>8 DEF OthersWait, View
  <2>2. Service!Look(t) /\ UNCHANGED up
    BY <1>1, <1>2, <1>5, <1>6, <2>1 DEF Service!Look, vector, room, net, Gone
  <2> QED BY <2>2 DEF Refined, Service!Next
<1> QED BY <1>7, <1>8

LEMMA CatchUpRefines ==
  ASSUME TypeInv, up, up', NEW t \in Fds, OthersWait(t), SendNotepad(t)
  PROVE  Refined
<1> DEFINE r == client_joined_room[t]
<1>1. /\ TypeOK /\ pc \in [Fds -> Points] /\ loc \in [Fds -> Locals]
      /\ pc[t] = "204" /\ pc'[t] = "recv" /\ r \in Rooms /\ r # 0
      /\ t \in Fds \cup {undefined} /\ up \in BOOLEAN
      /\ UNCHANGED <<vector, room, arg, client_joined_room>>
  BY DEF SendNotepad, At, Return, Goto, TypeInv, TypeOK, Place, Roomed, Rooms
<1>2. /\ View[t] = loc[t].copy /\ View' = [View EXCEPT ![t] = NoText]
      /\ Rising' = Rising
  BY <1>1 DEF OthersWait, View, Rising
<1>3. Owed' = Owed
  <2>1. \A q \in Rooms, s \in Slots : Owes(t, q, s)' = Owes(t, q, s)
    BY <1>1 DEF Owes, InUpdate
  <2> QED BY <2>1, OwesSame
<1>4. /\ Gone' = Gone
      /\ IF t \in Gone THEN UNCHANGED sent
         ELSE sent' = [sent EXCEPT ![t] =
                Append(@, [header |-> "204", room |-> r, body |-> loc[t].copy])]
  BY <1>1, SendGone DEF SendNotepad
<1>5. Service!CatchUp(t)
  BY <1>1, <1>2, <1>3, <1>4 DEF Service!CatchUp, Service!Deliver, vector, room
<1> QED BY <1>1, <1>5 DEF Refined, Service!Next, TypeOK

-----------------------------------------------------------------------------
(* leave_room: a client rises from its own slot, and leaves when it has none. *)
LEMMA LeaveRefines ==
  ASSUME SeatInv, up, up', NEW t \in Fds, OthersWait(t),
         LeaveCheck(t) \/ LeaveClear(t) \/ LeaveReply(t)
  PROVE  Refined
<1> DEFINE r == client_joined_room[t]
           s == loc[t].slot
<1>1. /\ TypeOK /\ pc \in [Fds -> Points] /\ loc \in [Fds -> Locals] /\ s \in Slots
      /\ pc[t] \in {"leave", "clear", "110"} /\ r \in Rooms /\ r # 0 /\ s # 0
      /\ s \in {1, 2} /\ t \in Fds \cup {undefined} /\ 0 \in 0 .. MaxRooms
  <2>1. TypeOK /\ Place(t) /\ pc[t] \in {"leave", "clear", "110"}
    BY DEF LeaveCheck, LeaveClear, LeaveReply, At, SeatInv, TypeInv
  <2>2. pc \in [Fds -> Points] /\ loc \in [Fds -> Locals] /\ s \in Slots
    BY <2>1 DEF TypeOK, Locals
  <2>3. r \in Rooms /\ r # 0
    BY <2>1 DEF Place, Roomed, Rooms
  <2> QED BY <2>1, <2>2, <2>3, RoomsAssumption DEF Slots
<1>2. pc'[t] \in {"leave", "clear", "110", "recv"}
  BY <1>1 DEF LeaveCheck, LeaveClear, LeaveReply, NextSlot, Answer, Return, Goto
<1>3. Owed' = Owed
  <2>1. \A q \in Rooms, z \in Slots : Owes(t, q, z)' = Owes(t, q, z)
    BY <1>1, <1>2 DEF Owes, InUpdate
  <2> QED BY <2>1, OwesSame
<1>4. View' = View
  BY <1>1, <1>2 DEF OthersWait, View
<1>5. CASE LeaveCheck(t)
  <2>1. /\ pc[t] = "leave" /\ UNCHANGED <<vector, room, client_joined_room, net>>
    BY <1>5 DEF LeaveCheck, At
  <2>2. CASE client_fd[r][s] = t
    <3>1. pc'[t] = "clear" /\ loc' = loc
      BY <1>1, <1>5, <2>2 DEF LeaveCheck, Goto
    <3>2. Rising' = [Rising EXCEPT ![t] = s]
      BY <3>1 DEF OthersWait, Rising
    <3>3. Service!Rise(t) /\ UNCHANGED up
      BY <1>1, <1>3, <1>4, <2>1, <2>2, <3>2
         DEF Service!Rise, vector, room, net, Gone
    <3> QED BY <3>3 DEF Refined, Service!Next
  <2>3. CASE client_fd[r][s] # t
    <3>1. pc'[t] \in {"leave", "110"}
      BY <1>1, <1>5, <2>3 DEF LeaveCheck, NextSlot, Goto
    <3>2. UNCHANGED <<Rising, View, Owed>>
      BY <2>1, <3>1, PlainStep DEF Plain
    <3> QED BY <2>1, <3>2, IdleStep DEF Frame, vector, room, net, Gone
  <2> QED BY <2>2, <2>3
<1>6. CASE LeaveClear(t)
  <2>1. pc[t] = "clear" /\ pc'[t] \in {"leave", "110"}
    BY <1>1, <1>6 DEF LeaveClear, At, NextSlot, Goto
  <2>2. Rising[t] = s /\ Rising' = [Rising EXCEPT ![t] = 0]
    BY <2>1 DEF OthersWait, Rising
  <2>3. Service!Vacate(t) /\ UNCHANGED up
    BY <1>1, <1>3, <1>4, <1>6, <2>2 DEF LeaveClear, Service!Vacate, vector, net, Gone
  <2> QED BY <2>3 DEF Refined, Service!Next
<1>7. CASE LeaveReply(t)
  <2> DEFINE m == [header |-> "110", room |-> 0, body |-> NoText]
  <2>1. /\ pc[t] = "110" /\ pc'[t] = "recv" /\ SendTo(t, m)
        /\ UNCHANGED <<vector, room>>
        /\ client_joined_room' = [client_joined_room EXCEPT ![t] = 0]
    BY <1>1, <1>7 DEF LeaveReply, At, Answer, Reply, Return, Goto
  <2>2. \A q \in Rooms, z \in Slots : client_fd[q][z] # t
    BY <1>1, <2>1, RoomsAssumption DEF SeatInv, SlotOwnership, Leaving
  <2>3. Rising[t] = 0 /\ Rising' = Rising
    BY <2>1 DEF OthersWait, Rising
  <2>4. /\ Gone' = Gone
        /\ IF t \in Gone THEN UNCHANGED sent
           ELSE sent' = [sent EXCEPT ![t] = Append(@, m)]
    BY <1>1, <2>1, SendGone
  <2>5. Service!Leave(t)
    BY <1>1, <1>3, <1>4, <2>1, <2>2, <2>3, <2>4
       DEF Service!Leave, Service!Deliver, vector, room
  <2> QED BY <1>1, <2>5 DEF Refined, Service!Next, TypeOK
<1> QED BY <1>5, <1>6, <1>7

-----------------------------------------------------------------------------
(* 005: nobody else owes anything to the slots of a room in an update. *)
LEMMA OnlyDebtor ==
  ASSUME UpdateInv, NEW t \in Fds, InUpdate(t)
  PROVE  \A u \in Fds, s \in Slots : Owes(u, client_joined_room[t], s) => u = t
  BY DEF UpdateInv, Owes

LEMMA EditRefines ==
  ASSUME UpdateInv, up, up', NEW t \in Fds, OthersWait(t), Starting(t),
         LockNotepad(t) \/ WriteNotepad(t)
  PROVE  Refined
<1> DEFINE r == client_joined_room[t]
<1>1. /\ TypeOK /\ pc \in [Fds -> Points] /\ r \in Rooms /\ r # 0
      /\ pc[t] \in {"lock", "write"}
  BY DEF LockNotepad, WriteNotepad, At, UpdateInv, TypeInv, TypeOK, Place, Roomed,
         Rooms
<1>2. CASE LockNotepad(t)
  <2>1. pc'[t] = "write" /\ UNCHANGED <<vector, client_fd, notepad_collab,
                                        client_joined_room, net>>
    BY <1>1, <1>2 DEF LockNotepad, Goto
  <2>2. UNCHANGED <<Rising, View, Owed>>
    BY <1>1, <2>1, PlainStep DEF Plain
  <2> QED BY <2>1, <2>2, IdleStep DEF Frame, vector, net, Gone
<1>3. CASE WriteNotepad(t)
  <2>1. /\ pc[t] = "write" /\ pc'[t] = "copy" /\ arg' = arg /\ loc' = loc
        /\ notepad_collab' = [notepad_collab EXCEPT ![r] = Text(t)]
        /\ UNCHANGED <<vector, client_fd, client_joined_room, net>>
    BY <1>1, <1>3 DEF WriteNotepad, At, Goto, Crash
  <2>2. Rising' = Rising /\ View' = View
    BY <2>1 DEF OthersWait, Rising, View
  <2>3. \A u \in Fds, s \in Slots : ~Owes(u, r, s)
    <3>1. InUpdate(t)
      BY <2>1 DEF InUpdate
    <3>2. \A s \in Slots : ~Owes(t, r, s)
      BY <2>1 DEF Owes
    <3> QED BY <3>1, <3>2, OnlyDebtor
  <2>4. \A q \in Rooms, s \in Slots : Owes(t, q, s)' <=> q = r
    BY <2>1 DEF Starting, Owes, InUpdate, Slots
  <2>5. \A u \in Fds \ {t}, q \in Rooms, s \in Slots : Owes(u, q, s)' = Owes(u, q, s)
    BY DEF OthersWait, Owes, InUpdate
  <2>6. \A q \in Rooms, s \in Slots : ~Owes(t, q, s)
    BY <2>1 DEF Owes
  <2>7. {r} \X Slots \cap Owed = {}
    BY <2>3 DEF Owed
  <2>8. Owed' = Owed \cup {r} \X Slots
    BY <1>1, <2>4, <2>5, <2>6 DEF Owed
  <2>9. Text(t) \in Texts
    BY <1>1 DEF Text, Texts, TypeOK, Requests
  <2>10. Service!Edit(t) /\ UNCHANGED up
    BY <1>1, <2>1, <2>2, <2>7, <2>8, <2>9 DEF Service!Edit, vector, net, Gone
  <2> QED BY <2>10 DEF Refined, Service!Next
<1> QED BY <1>2, <1>3

(* A slot is shown the text, or found empty, and is owed nothing more. *)
LEMMA NextUpdatePays ==
  ASSUME UpdateInv, NEW t \in Fds, OthersWait(t), pc[t] \in {"check112", "send112"},
         NextUpdate(t), UNCHANGED client_joined_room
  PROVE  /\ <<client_joined_room[t], loc[t].slot>> \in Owed
         /\ Owed' = Owed \ {<<client_joined_room[t], loc[t].slot>>}
         /\ UNCHANGED <<Rising, View>>
<1> DEFINE r == client_joined_room[t]
           n == loc[t].slot
<1>1. /\ pc \in [Fds -> Points] /\ loc \in [Fds -> Locals] /\ loc[t] \in Locals
      /\ r \in Rooms /\ n \in {1, 2} /\ InUpdate(t)
  BY DEF UpdateInv, TypeInv, TypeOK, Place, Roomed, Locals, Slots, InUpdate
<1>2. \/ n = 1 /\ pc'[t] = "check112" /\ loc'[t].slot = 2
      \/ n = 2 /\ pc'[t] = "recv"
  BY <1>1 DEF NextUpdate, NextSlot, Goto, Locals
<1>3. \A q \in Rooms, s \in Slots : Owes(t, q, s) <=> q = r /\ n <= s
  BY DEF Owes, InUpdate
<1>4. \A q \in Rooms, s \in Slots : Owes(t, q, s)' <=> q = r /\ n <= s /\ s # n
  BY <1>1, <1>2 DEF Owes, InUpdate, Slots
<1>5. \A u \in Fds \ {t}, q \in Rooms, s \in Slots :
        Owes(u, q, s)' = Owes(u, q, s) /\ (Owes(u, q, s) => q # r)
  BY <1>1, OnlyDebtor DEF OthersWait, Owes, InUpdate
<1>6. <<r, n>> \in Owed
  BY <1>1, <1>3 DEF Owed, Slots
<1>7. ASSUME NEW q \in Rooms, NEW s \in Slots
      PROVE  (\E u \in Fds : Owes(u, q, s)') <=>
             (\E u \in Fds : Owes(u, q, s)) /\ <<q, s>> # <<r, n>>
  BY <1>3, <1>4, <1>5
<1>8. Owed' = Owed \ {<<r, n>>}
  BY <1>7 DEF Owed
<1>9. UNCHANGED <<Rising, View>>
  BY <1>1, <1>2 DEF OthersWait, Rising, View
<1> QED BY <1>6, <1>8, <1>9

LEMMA ShowRefines ==
  ASSUME UpdateInv, CurrentInv, up, up', NEW t \in Fds, OthersWait(t),
         UpdateCheck(t) \/ UpdateSend(t)
  PROVE  Refined
<1> DEFINE r == client_joined_room[t]
           s == loc[t].slot
<1>1. /\ TypeOK /\ pc \in [Fds -> Points] /\ loc[t] \in Locals
      /\ r \in Rooms /\ s \in Slots /\ pc[t] \in {"check112", "send112"}
      /\ client_fd[r][s] \in Fds \cup {undefined} /\ up \in BOOLEAN
      /\ UNCHANGED <<vector, client_fd, notepad_collab, client_joined_room>>
  <2>1. TypeOK /\ pc[t] \in {"check112", "send112"} /\ r \in Rooms /\ s \in Slots
    BY DEF UpdateCheck, UpdateSend, At, UpdateInv, TypeInv, TypeOK, Place, Roomed,
           Locals
  <2> QED BY <2>1 DEF UpdateCheck, UpdateSend, TypeOK
<1>2. NextUpdate(t) => /\ <<r, s>> \in Owed /\ Owed' = Owed \ {<<r, s>>}
                       /\ UNCHANGED <<Rising, View>>
  BY <1>1, NextUpdatePays
<1>3. CASE UpdateCheck(t) /\ client_fd[r][s] # undefined
  <2>1. pc[t] = "check112" /\ pc'[t] = "send112" /\ loc' = loc /\ UNCHANGED net
    BY <1>1, <1>3 DEF UpdateCheck, At, Goto
  <2>2. \A q \in Rooms, z \in Slots : Owes(t, q, z)' = Owes(t, q, z)
    BY <1>1, <2>1 DEF Owes, InUpdate
  <2>3. UNCHANGED <<Rising, View, Owed>>
    BY <2>1, <2>2, OwesSame DEF OthersWait, Rising, View
  <2> QED BY <1>1, <2>1, <2>3, IdleStep DEF Frame, vector, net, Gone
<1>4. CASE UpdateCheck(t) /\ client_fd[r][s] = undefined
  <2>1. NextUpdate(t) /\ UNCHANGED net
    BY <1>4 DEF UpdateCheck
  <2>2. Service!Show(r, s) /\ UNCHANGED up
    BY <1>1, <1>2, <1>4, <2>1 DEF Service!Show, vector, net, Gone
  <2> QED BY <1>1, <2>2 DEF Refined, Service!Next
<1>5. CASE UpdateSend(t)
  <2> DEFINE c == client_fd[r][s]
             m == [header |-> "112", room |-> r, body |-> notepad_collab[r]]
  <2>1. NextUpdate(t) /\ SendTo(c, m)
    BY <1>5 DEF UpdateSend, At, CurrentInv, Current
  <2>2. /\ c \in Fds /\ c # undefined /\ Gone' = Gone
        /\ IF c \in Gone THEN UNCHANGED sent
           ELSE sent' = [sent EXCEPT ![c] = Append(@, m)]
    <3>1. c # undefined
      BY <2>1 DEF SendTo
    <3> HIDE DEF m
    <3> QED BY <1>1, <2>1, <3>1, SendGone
  <2>3. Service!Show(r, s)
    BY <1>1, <1>2, <2>1, <2>2 DEF Service!Show, Service!Deliver, vector
  <2> QED BY <1>1, <2>3 DEF Refined, Service!Next, TypeOK
<1> QED BY <1>3, <1>4, <1>5

(* 006: the cursors go to the members of the room. *)
LEMMA CursorRefines ==
  ASSUME SeatInv, EndedInv, up, up', NEW t \in Fds, OthersWait(t),
         SetCursor(t) \/ CursorCheck(t) \/ CursorSend(t)
  PROVE  Refined
<1> DEFINE r == client_joined_room[t]
           s == loc[t].slot
           c == client_fd[r][s]
<1>1. /\ TypeOK /\ pc \in [Fds -> Points] /\ loc[t] \in Locals
      /\ r \in Rooms /\ s \in Slots /\ pc[t] \in {"cursor", "check113", "send113"}
      /\ c \in Fds \cup {undefined} /\ Frame
  <2>1. /\ TypeOK /\ pc[t] \in {"cursor", "check113", "send113"} /\ r \in Rooms
        /\ s \in Slots /\ Frame
    BY DEF SetCursor, CursorCheck, CursorSend, At, SeatInv, TypeInv, TypeOK, Place,
           Roomed, Locals, Frame, vector, room
  <2> QED BY <2>1 DEF TypeOK
<1>2. pc'[t] \in {"check113", "send113", "recv"}
  BY <1>1 DEF SetCursor, CursorCheck, CursorSend, NextSlot, Return, Goto
<1>3. UNCHANGED <<Rising, View, Owed>>
  BY <1>1, <1>2, PlainStep DEF Plain
<1>4. CASE UNCHANGED net
  BY <1>1, <1>3, <1>4, IdleStep DEF net, Gone
<1>5. CASE CursorSend(t)
  <2> DEFINE m == [header |-> "113", room |-> r, body |-> loc[t].copy]
  <2>1. SendTo(c, m)
    BY <1>5 DEF CursorSend
  <2>2. m \in Messages
    BY <1>1 DEF Messages, Locals, Rooms
  <2>3. c \in Fds /\ conn[c] = "open" => client_joined_room[c] = r
    BY <1>1, RoomsAssumption DEF SeatInv, SlotOwnership, EndedInv
  <2> QED BY <1>1, <1>3, <2>1, <2>2, <2>3, TellStep
<1> QED BY <1>4, <1>5 DEF SetCursor, CursorCheck

-----------------------------------------------------------------------------
LEMMA RefinedStep ==
  ASSUME RefinementInv, NEW t \in Fds, Step(t)
  PROVE  Refined
<1>1. /\ SeatInv /\ EndedInv /\ UpdateInv /\ FreshInv /\ CurrentInv /\ Starting(t)
      /\ TypeInv /\ OthersWait(t) /\ up
  BY OthersStay, UpCases DEF RefinementInv, ReachInv, UpdateInv
<1>2. CASE up' = FALSE
  <2>1. sent' = sent
    BY <1>1, <1>2, UpCases
  <2> QED BY <1>1, <1>2, <2>1 DEF Refined, Service!Next, Service!Halt
<1>3. CASE up'
  <2>1. CASE Receive(t) \/ HandleAgain(t)
    <3>1. PICK req : Handle(t, req) /\ arg' = [arg EXCEPT ![t] = req]
      BY <1>1, <2>1 DEF Receive, HandleAgain, TypeInv, TypeOK
    <3>2. pc[t] \in {"recv", "again"} /\ Handle(t, arg'[t])
      BY <1>1, <2>1, <3>1 DEF Receive, HandleAgain, At, TypeInv, TypeOK
    <3> QED BY <1>1, <1>3, <3>2, HandleRefines
  <2>2. CASE EndOfStream(t) \/ ReceiveError(t) \/ PeerVanishes(t)
    BY <1>1, <1>3, <2>2, ConnectionRefines
  <2>3. CASE CreateRoom(t) \/ JoinScan(t) \/ JoinCheck(t) \/ JoinSet(t)
    BY <1>1, <1>3, <2>3, JoinRefines
  <2>4. CASE SetInitialText(t) \/ ReplyCreated(t) \/ ReplyJoined(t)
             \/ CopyNotepad(t) \/ SendNotepad(t)
    BY <1>1, <1>3, <2>4, OpenRefines, ReplyRefines, LookRefines, CatchUpRefines
  <2>5. CASE LeaveCheck(t) \/ LeaveClear(t) \/ LeaveReply(t)
    BY <1>1, <1>3, <2>5, LeaveRefines
  <2>6. CASE LockNotepad(t) \/ WriteNotepad(t)
    BY <1>1, <1>3, <2>6, EditRefines
  <2>7. CASE UpdateCheck(t) \/ UpdateSend(t)
    BY <1>1, <1>3, <2>7, ShowRefines
  <2>8. CASE SetCursor(t) \/ CursorCheck(t) \/ CursorSend(t)
    BY <1>1, <1>3, <2>8, CursorRefines
  <2> QED BY <2>1, <2>2, <2>3, <2>4, <2>5, <2>6, <2>7, <2>8 DEF Step, Work
<1> QED BY <1>1, <1>2, <1>3, UpCases

LEMMA RefinedInit ==
  ASSUME Init
  PROVE  Service!Init
<1>1. Gone = {} /\ Owed = {}
  BY DEF Init, Gone, Owed, Owes, InUpdate
<1>2. Rising = [c \in Fds |-> 0] /\ View = [c \in Fds |-> NoText]
  BY DEF Init, Rising, View
<1> QED BY <1>1, <1>2 DEF Init, Service!Init

(***************************************************************************)
(* The threads implement the service the rooms promise: every step of a    *)
(* handler, be it a test, a copy, a send to somebody gone or the end of    *)
(* the process, is a step of RoomService or changes nothing it speaks of.  *)
(***************************************************************************)
THEOREM RoomsImplementService == CodesUnique => (Spec => ServiceSpec)
<1> SUFFICES ASSUME CodesUnique PROVE Spec => ServiceSpec
  OBVIOUS
<1>1. Init => Service!Init
  BY RefinedInit
<1>2. RefinementInv /\ Next => [Service!Next]_(Service!vars)
  BY RefinedStep DEF Next, Step, Refined
<1>3. UNCHANGED vars => UNCHANGED Service!vars
  BY DEF vars, vector, room, net, Service!vars, Gone, Rising, View, Owed, Owes,
         InUpdate
<1>4. Spec => []RefinementInv
  <2>1. SeatInv /\ EndedInv /\ UpdateInv /\ FreshInv /\ CurrentInv /\ ReachInv
          => RefinementInv
    BY DEF RefinementInv
  <2> QED BY <2>1, SeatInvariant, EndedInvariant, UpdateInvariant, FreshInvariant,
             CurrentInvariant, ReachInvariant, PTL
<1> QED BY <1>1, <1>2, <1>3, <1>4, PTL DEF Spec, ServiceSpec, Service!Spec

=============================================================================
