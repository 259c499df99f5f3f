---------------------------- MODULE UpdatesProofs ----------------------------
(* What the clients of a room are shown, for fresh codes (CodesUnique). *)
EXTENDS RoomsRefinement, RoomsProofs

-----------------------------------------------------------------------------
(***************************************************************************)
(* Everything a thread sends: a refusal that names no room, or, at five    *)
(* points, something about the room it has joined.                         *)
(***************************************************************************)
Speaking == {"101", "104", "204", "send112", "send113"}

Said(t, c, m) ==
  \/ m.room = 0 /\ m.header \notin Shared
  \/ /\ m.room = client_joined_room[t] /\ pc[t] \in Speaking
     /\ m.header = "112" => pc[t] = "send112"
     /\ m.header = "204" => pc[t] = "204"
     /\ pc[t] = "204" => c = t /\ m.header = "204" /\ m.body = loc[t].copy
     /\ pc[t] = "send112" => /\ m.header = "112" /\ m.body = loc[t].copy
                             /\ c = client_fd[client_joined_room[t]][loc[t].slot]

SaysTo(t, c, m) ==
  /\ conn[c] = "open" /\ Said(t, c, m)
  /\ sent' = [sent EXCEPT ![c] = Append(@, m)]

Says(t) == sent' = sent \/ \E c \in Fds, m \in Messages : SaysTo(t, c, m)

LEMMA SendToSays ==
  ASSUME NEW t \in Fds, NEW c \in Fds \cup {undefined}, NEW m \in Messages,
         SendTo(c, m), Said(t, c, m)
  PROVE  Says(t)
  BY DEF SendTo, Says, SaysTo

LEMMA RefusalSays ==
  ASSUME NEW t \in Fds,
         NEW h \in {"100", "102", "107", "108", "109", "110", "111"},
         Reply(t, h, 0)
  PROVE  Says(t)
<1> DEFINE m == [header |-> h, room |-> 0, body |-> NoText]
<1>1. m \in Messages
  BY RoomsAssumption DEF Messages, Texts
<1>2. Said(t, t, m)
  BY DEF Said, Shared
<1> QED BY <1>1, <1>2, SendToSays DEF Reply

LEMMA SaysStep ==
  ASSUME TypeInv, NEW t \in Fds, Step(t)
  PROVE  Says(t)
<1> DEFINE r == client_joined_room[t]
<1>0. /\ TypeOK /\ Place(t) /\ r \in 0 .. MaxRooms
      /\ t \in Fds \cup {undefined} /\ loc[t] \in Locals
  BY DEF TypeInv, TypeOK
<1>1. CASE sent' = sent
  BY <1>1 DEF Says
<1>2. CASE Receive(t) \/ HandleAgain(t)
  <2>1. PICK req : Handle(t, req)
    BY <1>2 DEF Receive, HandleAgain
  <2>2. CASE Answer(t, Refusal(client_joined_room[t] # 0, req), 0)
             /\ Refusal(client_joined_room[t] # 0, req) # "none"
    <3>1. Refusal(client_joined_room[t] # 0, req) \in {"102", "107", "108", "111"}
      BY <2>2 DEF Refusal
    <3> QED BY <2>2, <3>1, RefusalSays DEF Answer
  <2> QED BY <1>1, <2>1, <2>2 DEF Handle, net
<1>3. CASE EndOfStream(t) \/ ReceiveError(t) \/ PeerVanishes(t)
  BY <1>1, <1>3 DEF EndOfStream, ReceiveError, PeerVanishes, Crash, net
<1>4. CASE CreateRoom(t) \/ JoinScan(t) \/ JoinCheck(t) \/ JoinSet(t)
  <2>1. JoinRefused(t) => Says(t)
    BY RefusalSays DEF JoinRefused, Answer
  <2> QED BY <1>1, <1>4, <2>1
          DEF CreateRoom, JoinScan, JoinCheck, JoinSet, Crash, net
<1>5. CASE LeaveReply(t)
  BY <1>5, RefusalSays DEF LeaveReply, Answer
<1>6. CASE ReplyCreated(t) \/ ReplyJoined(t)
  <2>1. PICK h \in {"101", "104"} : Reply(t, h, r) /\ pc[t] = h
    BY <1>6 DEF ReplyCreated, ReplyJoined, Answer, At
  <2> DEFINE m == [header |-> h, room |-> r, body |-> NoText]
  <2>2. m \in Messages /\ Said(t, t, m)
    BY <1>0, <2>1 DEF Messages, Texts, Said, Speaking
  <2> QED BY <1>0, <2>1, <2>2, SendToSays DEF Reply
<1>7. CASE SendNotepad(t)
  <2> DEFINE m == [header |-> "204", room |-> r, body |-> loc[t].copy]
  <2>1. m \in Messages /\ Said(t, t, m)
    BY <1>0, <1>7 DEF Messages, Locals, Said, Speaking, SendNotepad, At
  <2> QED BY <1>0, <1>7, <2>1, SendToSays DEF SendNotepad
<1>8. CASE UpdateSend(t) \/ CursorSend(t)
  <2> DEFINE c == client_fd[r][loc[t].slot]
  <2>1. r \in Rooms /\ loc[t].slot \in Slots
    BY <1>0, <1>8 DEF UpdateSend, CursorSend, At, Place, Roomed, Locals
  <2>2. c \in Fds \cup {undefined}
    BY <1>0, <2>1 DEF TypeOK
  <2>3. PICK h \in {"112", "113"} :
          /\ SendTo(c, [header |-> h, room |-> r, body |-> loc[t].copy])
          /\ h = "112" => pc[t] = "send112"
          /\ h = "113" => pc[t] = "send113"
    BY <1>8 DEF UpdateSend, CursorSend, At
  <2> DEFINE m == [header |-> h, room |-> r, body |-> loc[t].copy]
  <2>4. m \in Messages /\ Said(t, c, m)
    BY <1>0, <2>3 DEF Messages, Locals, Said, Speaking
  <2> QED BY <2>2, <2>3, <2>4, SendToSays
<1>9. CASE SetInitialText(t) \/ CopyNotepad(t) \/ LeaveCheck(t) \/ LeaveClear(t)
           \/ LockNotepad(t) \/ WriteNotepad(t) \/ UpdateCheck(t)
           \/ SetCursor(t) \/ CursorCheck(t)
  BY <1>1, <1>9 DEF SetInitialText, CopyNotepad, LeaveCheck, LeaveClear,
     LockNotepad, WriteNotepad, UpdateCheck, SetCursor, CursorCheck, Crash, net
<1> QED BY <1>2, <1>3, <1>4, <1>5, <1>6, <1>7, <1>8, <1>9 DEF Step, Work

-----------------------------------------------------------------------------
(***************************************************************************)
(* Fresh codes keep a room to its creator until the 101: nobody else can   *)
(* have typed its code.  A room that was named to a client in any message  *)
(* is no longer being made.                                                *)
(***************************************************************************)
Making(t) == Creating(t) /\ pc[t] \in {"scan", "check", "set", "init", "101"}

Named(r) == \E c \in Fds : \E i \in DOMAIN sent[c] : sent[c][i].room = r

CodesInv ==
  /\ \A r \in 1 .. created : code[r] \in Codes
  /\ \A r, q \in 1 .. created : code[r] = code[q] => r = q
  /\ \A t \in Fds : \/ arg[t].code \in {NoRoomCode, BadCode}
                    \/ \E r \in 1 .. created : Named(r) /\ arg[t].code = code[r]

(* The rooms a thread speaks of exist. *)
Known(t) ==
  /\ client_joined_room[t] \in 0 .. created
  /\ \A i \in DOMAIN sent[t] : sent[t][i].room \in 0 .. created

Private(t) ==
  /\ Making(t) =>
       /\ loc[t].made \in 1 .. created /\ ~Named(loc[t].made)
       /\ \A u \in Fds \ {t} :
            /\ client_joined_room[u] # loc[t].made
            /\ Making(u) => loc[u].made # loc[t].made
  /\ pc[t] \in {"check", "set"} =>
       IF Creating(t) THEN loc[t].found = loc[t].made ELSE Named(loc[t].found)
  /\ pc[t] \in {"init", "101"} =>
       Creating(t) /\ client_joined_room[t] = loc[t].made

FreshInv == CodesInv /\ \A t \in Fds : Known(t) /\ Private(t)

LEMMA OthersStay ==
  ASSUME UpdateInv, NEW t \in Fds, Step(t)
  PROVE  OthersWait(t)
<1>1. TypeInv
  BY DEF UpdateInv
<1> QED BY <1>1, StepCases, LockCases DEF OthersWait

(* A message is the only way for a room to be named, and stays. *)
LEMMA NamedStep ==
  ASSUME TypeOK, NEW t \in Fds, Says(t)
  PROVE  /\ \A r : Named(r) => Named(r)'
         /\ \A r : Named(r)' =>
              \/ Named(r) \/ r = 0
              \/ r = client_joined_room[t] /\ pc[t] \in Speaking
         /\ \A c \in Fds : \A i \in DOMAIN sent'[c] :
              \/ i \in DOMAIN sent[c] /\ sent'[c][i].room = sent[c][i].room
              \/ sent'[c][i].room \in {0, client_joined_room[t]}
<1>1. CASE sent' = sent
  BY <1>1 DEF Named
<1>2. ASSUME NEW c \in Fds, NEW m \in Messages, SaysTo(t, c, m)
      PROVE  /\ \A d \in Fds : \A i \in DOMAIN sent[d] :
                   i \in DOMAIN sent'[d] /\ sent'[d][i] = sent[d][i]
             /\ \A d \in Fds : \A i \in DOMAIN sent'[d] :
                   \/ i \in DOMAIN sent[d] /\ sent'[d][i] = sent[d][i]
                   \/ sent'[d][i] = m
  <2>1. sent[c] \in Seq(Messages) /\ sent' = [sent EXCEPT ![c] = Append(sent[c], m)]
    BY <1>2 DEF SaysTo, TypeOK
  <2>2. \A d \in Fds : sent'[d] = IF d = c THEN Append(sent[c], m) ELSE sent[d]
    BY <2>1 DEF TypeOK
  <2>3. /\ \A i \in DOMAIN sent[c] : /\ i \in DOMAIN Append(sent[c], m)
                                     /\ Append(sent[c], m)[i] = sent[c][i]
        /\ \A i \in DOMAIN Append(sent[c], m) :
              \/ i \in DOMAIN sent[c] /\ Append(sent[c], m)[i] = sent[c][i]
              \/ Append(sent[c], m)[i] = m
    BY <2>1
  <2> QED BY <2>2, <2>3
<1>3. ASSUME NEW c \in Fds, NEW m \in Messages, SaysTo(t, c, m)
      PROVE  \/ m.room = 0
             \/ m.room = client_joined_room[t] /\ pc[t] \in Speaking
  BY <1>3 DEF SaysTo, Said
<1>4. CASE \E c \in Fds, m \in Messages : SaysTo(t, c, m)
  <2>1. PICK c \in Fds, m \in Messages : SaysTo(t, c, m)
    BY <1>4
  <2>2. \A r : Named(r) => Named(r)'
    BY <1>2, <2>1 DEF Named
  <2>3. \A r : Named(r)' => Named(r) \/ r = m.room
    BY <1>2, <2>1 DEF Named
  <2> QED BY <1>2, <1>3, <2>1, <2>2, <2>3
<1> QED BY <1>1, <1>4 DEF Says

(* JoinScan, when it finds a room. *)
Finds(t) ==
  /\ At(t, "scan")
  /\ \E r \in LastMatch(t) : loc' = [loc EXCEPT ![t].found = r, ![t].seen = 0]
  /\ Goto(t, "check")
  /\ UNCHANGED <<created, code, arg, client_joined_room, sent>>

Still(t) == UNCHANGED <<created, code, pc, arg, client_joined_room, loc, sent>>

(* The steps that make no room, find none and enter none. *)
Settled(t) ==
  /\ UNCHANGED <<created, code>>
  /\ arg'[t].code = arg[t].code \/ arg'[t].code \in TypedCodes
  /\ client_joined_room'[t] \in {0, client_joined_room[t]}
  /\ pc'[t] # "scan" \/ ~Creating(t)'
  /\ pc'[t] \in {"check", "set"} =>
       /\ pc[t] \in {"check", "set"} /\ arg' = arg
       /\ loc'[t].found = loc[t].found /\ loc'[t].made = loc[t].made
  /\ pc'[t] \in {"init", "101"} =>
       /\ pc[t] = "init" /\ arg' = arg /\ loc' = loc
       /\ client_joined_room' = client_joined_room

LEMMA HandleSettled ==
  ASSUME TypeInv, NEW t \in Fds, Handle(t, arg'[t]),
         arg'[t].code = arg[t].code \/ arg'[t].code \in TypedCodes
  PROVE  Settled(t)
<1>1. UNCHANGED <<created, code, client_joined_room>> /\ pc \in [Fds -> Points]
  BY DEF Handle, vector, TypeInv, TypeOK
<1>2. CASE \E p \in {"CreateRoom", "recv", "leave", "lock", "cursor"} : Goto(t, p)
  BY <1>1, <1>2 DEF Goto, Settled
<1>3. CASE arg'[t].header = "003" /\ Goto(t, "scan")
  BY <1>1, <1>3 DEF Goto, Settled, Creating
<1> QED BY <1>2, <1>3 DEF Handle, Answer, Return

LEMMA FreshCases ==
  ASSUME TypeInv, NEW t \in Fds, Step(t)
  PROVE  CreateRoom(t) \/ Finds(t) \/ JoinSet(t) \/ Still(t) \/ Settled(t)
<1>0. /\ pc \in [Fds -> Points] /\ arg \in [Fds -> Requests]
      /\ loc \in [Fds -> Locals] /\ client_joined_room \in [Fds -> 0 .. MaxRooms]
  BY DEF TypeInv, TypeOK
<1>1. CASE Receive(t)
  <2>1. PICK h \in Headers, k \in TypedCodes \cup {NoRoomCode} :
          LET req == [header |-> h, code |-> k, n |-> arg[t].n + 1]
          IN  arg' = [arg EXCEPT ![t] = req] /\ Handle(t, req)
    BY <1>1 DEF Receive
  <2>2. arg'[t] = [header |-> h, code |-> k, n |-> arg[t].n + 1]
    BY <1>0, <2>1
  <2>3. arg'[t].code \in TypedCodes /\ Handle(t, arg'[t])
    BY <2>1, <2>2 DEF TypedCodes
  <2> QED BY <2>3, HandleSettled
<1>2. CASE HandleAgain(t)
  BY <1>0, <1>2, HandleSettled DEF HandleAgain
<1>3. CASE EndOfStream(t) \/ ReceiveError(t) \/ PeerVanishes(t)
  BY <1>0, <1>3 DEF EndOfStream, ReceiveError, PeerVanishes, Crash, Goto, At,
                    vector, Settled, Still
<1>4. CASE JoinScan(t) \/ JoinCheck(t)
  <2>1. JoinRefused(t) => pc'[t] = "recv"
    BY <1>0 DEF JoinRefused, Answer, Return, Goto
  <2>2. CASE JoinScan(t)
    BY <1>0, <2>1, <2>2 DEF JoinScan, Finds, Crash, vector, net, Settled, Still
  <2>3. CASE JoinCheck(t)
    BY <1>0, <2>1, <2>3 DEF JoinCheck, Goto, At, vector, Locals, Settled
  <2> QED BY <1>4, <2>2, <2>3
<1>5. CASE SetInitialText(t) \/ ReplyCreated(t) \/ ReplyJoined(t)
           \/ CopyNotepad(t) \/ SendNotepad(t)
  BY <1>0, <1>5 DEF SetInitialText, ReplyCreated, ReplyJoined, CopyNotepad,
                    SendNotepad, Answer, Return, Crash, Goto, At, vector, Locals,
                    Settled, Still
<1>6. CASE LeaveCheck(t) \/ LeaveClear(t) \/ LeaveReply(t)
  BY <1>0, <1>6 DEF LeaveCheck, LeaveClear, LeaveReply, NextSlot, Answer,
                    Return, Goto, vector, Settled
<1>7. CASE LockNotepad(t) \/ WriteNotepad(t)
  BY <1>0, <1>7 DEF LockNotepad, WriteNotepad, Crash, Goto, At, vector, Locals,
                    Settled, Still
<1>8. CASE UpdateCheck(t) \/ UpdateSend(t)
  BY <1>0, <1>8 DEF UpdateCheck, UpdateSend, NextUpdate, NextSlot, Goto, vector,
                    Settled
<1>9. CASE SetCursor(t) \/ CursorCheck(t) \/ CursorSend(t)
  BY <1>0, <1>9 DEF SetCursor, CursorCheck, CursorSend, NextSlot, Return, Goto,
                    vector, Settled
<1> QED BY <1>1, <1>2, <1>3, <1>4, <1>5, <1>6, <1>7, <1>8, <1>9 DEF Step, Work

LEMMA NamedKnown ==
  ASSUME FreshInv, NEW r, Named(r)
  PROVE  r \in 0 .. created
  BY DEF FreshInv, Known, Named

(* A fresh room: no client was told of it and no other thread has it. *)
LEMMA FreshCreate ==
  ASSUME CodesUnique, FreshInv, TypeInv, NEW t \in Fds, OthersWait(t),
         CreateRoom(t)
  PROVE  FreshInv'
<1> DEFINE n == created + 1
<1>0. /\ pc \in [Fds -> Points] /\ loc \in [Fds -> Locals] /\ created \in 0 .. MaxRooms
      /\ code \in [Rooms -> Codes \cup {NoRoomCode}] /\ n \in Rooms
      /\ client_joined_room[t] = 0 /\ loc[t] \in Locals
  BY RoomsAssumption DEF TypeInv, TypeOK, Place, Roomless, CreateRoom, At, Rooms
<1>1. PICK k \in Codes : /\ \A r \in 1 .. created : code[r] # k
                         /\ code' = [code EXCEPT ![n] = k]
  BY DEF CreateRoom
<1>2. /\ created' = n /\ UNCHANGED <<arg, client_joined_room, sent>>
      /\ pc' = [pc EXCEPT ![t] = "scan"] /\ loc'[t].made = n
  <2>1. loc'[t] = [loc[t] EXCEPT !.made = n, !.seen = n]
    BY <1>0 DEF CreateRoom
  <2>2. loc'[t].made = n
    BY <1>0, <2>1 DEF Locals
  <2> QED BY <2>2 DEF CreateRoom, Goto, net
<1>3. /\ \A r \in 1 .. created : r \in 1 .. n /\ code'[r] = code[r]
      /\ code'[n] = k /\ \A r \in 1 .. n : r = n \/ r \in 1 .. created
  BY <1>0, <1>1 DEF Rooms
<1>4. \A r : Named(r)' = Named(r)
  BY <1>2 DEF Named
<1>5. ~Named(n) /\ \A u \in Fds : client_joined_room[u] # n
  BY <1>0, NamedKnown DEF FreshInv, Known
<1>6. CodesInv'
  BY <1>1, <1>2, <1>3, <1>4 DEF CodesInv, FreshInv
<1>7. \A u \in Fds : Known(u)'
  BY <1>0, <1>2 DEF FreshInv, Known
<1>8. Private(t)'
  <2>1. \A u \in Fds \ {t} : Making(u)' => loc'[u].made # n
    BY <1>0, <1>2 DEF OthersWait, FreshInv, Private, Making, Creating
  <2> QED BY <1>0, <1>2, <1>4, <1>5, <2>1 DEF Private
<1>9. ASSUME NEW u \in Fds \ {t} PROVE Private(u)'
  <2>1. /\ Private(u) /\ pc'[u] = pc[u] /\ loc'[u] = loc[u] /\ Creating(u)' = Creating(u)
        /\ client_joined_room' = client_joined_room /\ Making(u)' = Making(u)
    BY <1>2 DEF FreshInv, OthersWait, Creating, Making
  <2>2. \A v \in Fds \ {u} : Making(v)' =>
        (loc'[v].made = n \/ (Making(v) /\ loc'[v] = loc[v]))
    BY <1>2 DEF OthersWait, Making, Creating
  <2>3. Making(u) => loc[u].made \in 1 .. n /\ loc[u].made # n
    BY <1>0, <2>1 DEF Private
  <2> QED BY <1>2, <1>4, <2>1, <2>2, <2>3 DEF Private
<1> QED BY <1>6, <1>7, <1>8, <1>9 DEF FreshInv

(* Who looks for a code finds the room that has it, and was told of it or  *)
(* has just made it.                                                       *)
LEMMA FreshFind ==
  ASSUME CodesUnique, FreshInv, TypeInv, NEW t \in Fds, OthersWait(t), Finds(t)
  PROVE  FreshInv'
<1>0. /\ pc \in [Fds -> Points] /\ loc \in [Fds -> Locals] /\ created \in 0 .. MaxRooms
      /\ loc[t] \in Locals /\ pc[t] = "scan" /\ Private(t)
  BY DEF TypeInv, TypeOK, Finds, At, FreshInv
<1>1. PICK r \in LastMatch(t) : loc' = [loc EXCEPT ![t].found = r, ![t].seen = 0]
  BY DEF Finds
<1>2. r \in 1 .. created /\ code[r] = SearchedCode(t)
  BY DEF LastMatch, Matches
<1>3. IF Creating(t) THEN r = loc[t].made ELSE Named(r)
  <2>1. CASE Creating(t)
    BY <1>0, <1>2, <2>1 DEF SearchedCode, Private, Making, FreshInv, CodesInv
  <2>2. CASE ~Creating(t)
    <3>1. arg[t].code = code[r] /\ code[r] \in Codes
      BY <1>2, <2>2 DEF SearchedCode, FreshInv, CodesInv
    <3>2. PICK q \in 1 .. created : Named(q) /\ arg[t].code = code[q]
      BY <3>1, RoomsAssumption DEF FreshInv, CodesInv
    <3> QED BY <1>2, <2>2, <3>1, <3>2 DEF FreshInv, CodesInv
  <2> QED BY <2>1, <2>2
<1>4. /\ loc'[t].found = r /\ loc'[t].made = loc[t].made
      /\ pc' = [pc EXCEPT ![t] = "check"]
      /\ UNCHANGED <<created, code, arg, client_joined_room, sent>>
  BY <1>0, <1>1 DEF Finds, Goto, Locals
<1>5. /\ \A q : Named(q)' = Named(q)
      /\ \A u \in Fds : Creating(u)' = Creating(u)
  BY <1>4 DEF Named, Creating
<1>6. CodesInv' /\ \A u \in Fds : Known(u)'
  BY <1>4, <1>5 DEF FreshInv, CodesInv, Known
<1>7. \A u \in Fds : Making(u)' => Making(u) /\ loc'[u].made = loc[u].made
  BY <1>0, <1>4, <1>5 DEF Making, OthersWait
<1>8. Private(t)'
  BY <1>0, <1>3, <1>4, <1>5, <1>7 DEF Private, FreshInv
<1>9. ASSUME NEW u \in Fds \ {t} PROVE Private(u)'
  <2>1. Private(u) /\ pc'[u] = pc[u] /\ loc'[u] = loc[u]
    BY DEF FreshInv, OthersWait
  <2> QED BY <1>4, <1>5, <1>7, <2>1 DEF Private
<1> QED BY <1>6, <1>8, <1>9 DEF FreshInv

LEMMA FreshEnter ==
  ASSUME FreshInv, TypeInv, NEW t \in Fds, OthersWait(t), JoinSet(t)
  PROVE  FreshInv'
<1> DEFINE r == loc[t].found
<1>0. /\ pc \in [Fds -> Points] /\ client_joined_room \in [Fds -> 0 .. MaxRooms]
      /\ created \in 0 .. MaxRooms
      /\ pc[t] = "set" /\ Private(t) /\ r \in Rooms
  BY DEF TypeInv, TypeOK, JoinSet, At, FreshInv, Place
<1>1. /\ UNCHANGED <<created, code, arg, loc, sent>>
      /\ pc' = [pc EXCEPT ![t] = IF Creating(t) THEN "init" ELSE "104"]
      /\ client_joined_room' = [client_joined_room EXCEPT ![t] = r]
  BY DEF JoinSet, Goto, vector, net
<1>2. /\ \A q : Named(q)' = Named(q)
      /\ \A u \in Fds : Creating(u)' = Creating(u)
      /\ client_joined_room'[t] = r
      /\ \A u \in Fds \ {t} : client_joined_room'[u] = client_joined_room[u]
  BY <1>0, <1>1 DEF Named, Creating
<1>3. r \in 0 .. created
  <2>1. CASE Creating(t)
    BY <1>0, <2>1 DEF Private, Making
  <2>2. CASE ~Creating(t)
    BY <1>0, <2>2, NamedKnown DEF Private
  <2> QED BY <2>1, <2>2
<1>4. CodesInv' /\ \A u \in Fds : Known(u)'
  BY <1>1, <1>2, <1>3 DEF FreshInv, CodesInv, Known
<1>5. \A u \in Fds : Making(u)' => Making(u)
  BY <1>0, <1>1, <1>2 DEF Making, OthersWait
<1>6. Private(t)'
  BY <1>0, <1>1, <1>2, <1>5 DEF Private, FreshInv, Making
<1>7. ASSUME NEW u \in Fds \ {t} PROVE Private(u)'
  <2>1. Private(u) /\ pc'[u] = pc[u]
    BY DEF FreshInv, OthersWait
  <2>2. Making(u) => r # loc[u].made
    <3>1. CASE Creating(t)
      BY <1>0, <2>1, <3>1 DEF Private, Making
    <3>2. CASE ~Creating(t)
      BY <1>0, <2>1, <3>2 DEF Private
    <3> QED BY <3>1, <3>2
  <2> QED BY <1>1, <1>2, <1>5, <2>1, <2>2 DEF Private
<1> QED BY <1>4, <1>6, <1>7 DEF FreshInv

LEMMA FreshSettled ==
  ASSUME CodesUnique, FreshInv, TypeInv, NEW t \in Fds, OthersWait(t), Says(t),
         Settled(t) \/ Still(t)
  PROVE  FreshInv'
<1>0. TypeOK /\ created \in 0 .. MaxRooms /\ Private(t)
  BY DEF TypeInv, TypeOK, FreshInv
<1>1. /\ UNCHANGED <<created, code>>
      /\ arg'[t].code = arg[t].code \/ arg'[t].code \in TypedCodes
      /\ client_joined_room'[t] \in {0, client_joined_room[t]}
  BY DEF Settled, Still
<1>2. /\ \A q : Named(q) => Named(q)'
      /\ \A q : Named(q)' =>
           \/ Named(q) \/ q = 0
           \/ q = client_joined_room[t] /\ pc[t] \in Speaking
      /\ \A c \in Fds : \A i \in DOMAIN sent'[c] :
           \/ i \in DOMAIN sent[c] /\ sent'[c][i].room = sent[c][i].room
           \/ sent'[c][i].room \in {0, client_joined_room[t]}
  BY <1>0, NamedStep
<1>3. CodesInv'
  <2>1. arg'[t].code \in TypedCodes =>
          \/ arg'[t].code \in {NoRoomCode, BadCode}
          \/ \E r \in 1 .. created : Named(r) /\ arg'[t].code = code[r]
    <3>1. \A r \in Announced : Named(r) /\ r \in 1 .. created
      BY <1>0, NamedKnown DEF Announced, Named, Rooms
    <3> QED BY <3>1 DEF TypedCodes
  <2> QED BY <1>1, <1>2, <2>1 DEF CodesInv, FreshInv, OthersWait
<1>4. \A u \in Fds : Known(u)'
  <2>1. 0 \in 0 .. created /\ client_joined_room[t] \in 0 .. created
    BY <1>0 DEF FreshInv, Known
  <2>2. \A u \in Fds : client_joined_room'[u] \in 0 .. created
    BY <1>1, <2>1 DEF FreshInv, Known, OthersWait
  <2> QED BY <1>1, <1>2, <2>1, <2>2 DEF FreshInv, Known
<1>5. \A u \in Fds \ {t} :
        /\ Private(u) /\ pc'[u] = pc[u] /\ loc'[u] = loc[u]
        /\ client_joined_room'[u] = client_joined_room[u]
        /\ Creating(u)' = Creating(u) /\ Making(u)' = Making(u)
  BY DEF FreshInv, OthersWait, Creating, Making
<1>6. Making(t)' => Making(t) /\ loc'[t].made = loc[t].made
  BY DEF Settled, Still, Making, Creating
<1>7. \A u \in Fds : Making(u)' => loc[u].made # 0
  BY <1>0, <1>5, <1>6 DEF Private, FreshInv
<1>8. Private(t)'
  <2>1. Making(t)' => ~Named(loc[t].made)'
    <3>1. CASE Settled(t)
      <4>1. Making(t)' => pc[t] \notin Speaking
        BY <3>1 DEF Settled, Making, Creating, Speaking
      <4> QED BY <1>0, <1>2, <1>6, <1>7, <4>1 DEF Private
    <3>2. CASE Still(t)
      BY <1>0, <1>6, <3>2 DEF Still, Private, Named
    <3> QED BY <3>1, <3>2
  <2>2. Making(t)' => loc'[t].made \in 1 .. created'
    BY <1>0, <1>1, <1>6 DEF Private
  <2>3. Making(t)' => \A u \in Fds \ {t} :
          /\ client_joined_room'[u] # loc'[t].made
          /\ Making(u)' => loc'[u].made # loc'[t].made
    BY <1>0, <1>5, <1>6 DEF Private
  <2>4. /\ pc'[t] \in {"check", "set"} =>
             IF Creating(t)' THEN loc'[t].found = loc'[t].made
             ELSE Named(loc[t].found)'
        /\ pc'[t] \in {"init", "101"} =>
             Creating(t)' /\ client_joined_room'[t] = loc'[t].made
    BY <1>0, <1>2 DEF Settled, Still, Private, Creating
  <2> QED BY <2>1, <2>2, <2>3, <2>4 DEF Private
<1>9. ASSUME NEW u \in Fds \ {t} PROVE Private(u)'
  <2>1. Making(u) => ~Named(loc[u].made)' /\ client_joined_room'[t] # loc[u].made
    BY <1>1, <1>2, <1>5, <1>7 DEF Private
  <2>2. \A v \in Fds \ {u} : Making(v)' => Making(v) /\ loc'[v].made = loc[v].made
    BY <1>5, <1>6
  <2> QED BY <1>1, <1>2, <1>5, <2>1, <2>2 DEF Private
<1> QED BY <1>3, <1>4, <1>8, <1>9 DEF FreshInv

LEMMA FreshStep ==
  ASSUME CodesUnique, FreshInv, UpdateInv, NEW t \in Fds, Step(t)
  PROVE  FreshInv'
<1>1. TypeInv /\ OthersWait(t) /\ Says(t)
  BY OthersStay, SaysStep DEF UpdateInv
<1> QED BY <1>1, FreshCases, FreshCreate, FreshFind, FreshEnter, FreshSettled

LEMMA FreshSame ==
  ASSUME FreshInv, UNCHANGED <<created, code, pc, arg, client_joined_room, loc, sent>>
  PROVE  FreshInv'
  BY DEF FreshInv, CodesInv, Known, Private, Making, Creating, Named

LEMMA FreshInvariant ==
  ASSUME CodesUnique
  PROVE  Spec => []FreshInv
<1>1. Init => FreshInv
  BY RoomsAssumption
     DEF Init, FreshInv, CodesInv, Known, Private, Making, Creating
<1>2. FreshInv /\ UNCHANGED vars => FreshInv'
  BY FreshSame DEF vars, vector, net
<1>3. FreshInv /\ UpdateInv /\ Next => FreshInv'
  BY FreshStep DEF Next, Step
<1> QED BY <1>1, <1>2, <1>3, UpdateInvariant, PTL DEF Spec

(***************************************************************************)
(* The creator of a room joins the room whose code it is told by the 101:  *)
(* between CreateRoom and the JoinRoom that follows nobody else can have   *)
(* typed its code.                                                         *)
(***************************************************************************)
THEOREM CreatorsJoinTheirRooms == CodesUnique => (Spec => []CreatorJoinsItsRoom)
<1> SUFFICES ASSUME CodesUnique PROVE Spec => []CreatorJoinsItsRoom
  OBVIOUS
<1>1. FreshInv => CreatorJoinsItsRoom
  BY DEF FreshInv, Private, CreatorJoinsItsRoom
<1> QED BY <1>1, FreshInvariant, PTL

-----------------------------------------------------------------------------
(***************************************************************************)
(* An update is the notepad from the copy to the last send: nobody else is *)
(* in an update of the room, and no creator is still to give it its first  *)
(* text.  What UpdateClients will send is known from its copy.             *)
(***************************************************************************)
Current(t) ==
  pc[t] \in {"check112", "send112"} =>
    loc[t].copy = notepad_collab[client_joined_room[t]]

CurrentInv == \A t \in Fds : Current(t)

LEMMA NobodyElseWrites ==
  ASSUME FreshInv, UpdateInv, NEW t \in Fds, InUpdate(t)
  PROVE  ~BeingWritten(client_joined_room[t], t)
<1> SUFFICES ASSUME NEW u \in Fds \ {t}, pc[u] \in {"init", "write"},
                    client_joined_room[u] = client_joined_room[t]
             PROVE  FALSE
  BY DEF BeingWritten
<1>1. CASE pc[u] = "init"
  BY <1>1 DEF FreshInv, Private, Making
<1>2. CASE pc[u] = "write"
  BY <1>2 DEF UpdateInv, InUpdate
<1> QED BY <1>1, <1>2

LEMMA NotepadCases ==
  ASSUME TypeInv, NEW t \in Fds, Step(t)
  PROVE  \/ UNCHANGED notepad_collab
         \/ /\ pc[t] \in {"init", "write"}
            /\ notepad_collab' =
                 [notepad_collab EXCEPT ![client_joined_room[t]] = Text(t)]
<1>1. CASE Receive(t) \/ HandleAgain(t)
  BY <1>1 DEF Receive, HandleAgain, Handle, room
<1>2. CASE EndOfStream(t) \/ ReceiveError(t) \/ PeerVanishes(t)
  BY <1>2 DEF EndOfStream, ReceiveError, PeerVanishes, Crash, room
<1>3. CASE CreateRoom(t) \/ JoinScan(t) \/ JoinCheck(t) \/ JoinSet(t)
  BY <1>3 DEF CreateRoom, JoinScan, JoinCheck, JoinSet, Crash, room
<1>4. CASE SetInitialText(t) \/ WriteNotepad(t)
  BY <1>4 DEF SetInitialText, WriteNotepad, Crash, room, At
<1>5. CASE ReplyCreated(t) \/ ReplyJoined(t) \/ CopyNotepad(t) \/ SendNotepad(t)
  BY <1>5 DEF ReplyCreated, ReplyJoined, CopyNotepad, SendNotepad, Crash, room
<1>6. CASE LeaveCheck(t) \/ LeaveClear(t) \/ LeaveReply(t) \/ LockNotepad(t)
  BY <1>6 DEF LeaveCheck, LeaveClear, LeaveReply, LockNotepad, room
<1>7. CASE UpdateCheck(t) \/ UpdateSend(t) \/ SetCursor(t) \/ CursorCheck(t)
           \/ CursorSend(t)
  BY <1>7 DEF UpdateCheck, UpdateSend, SetCursor, CursorCheck, CursorSend, room
<1> QED BY <1>1, <1>2, <1>3, <1>4, <1>5, <1>6, <1>7 DEF Step, Work

LEMMA CopyCases ==
  ASSUME TypeInv, NEW t \in Fds, Step(t), pc'[t] \in {"check112", "send112"}
  PROVE  /\ client_joined_room' = client_joined_room
         /\ \/ CopyNotepad(t) /\ pc[t] = "copy" /\ arg[t].header = "005"
            \/ /\ pc[t] \in {"check112", "send112"}
               /\ loc'[t].copy = loc[t].copy
<1>0. pc \in [Fds -> Points] /\ loc \in [Fds -> Locals] /\ loc[t] \in Locals
  BY DEF TypeInv, TypeOK
<1>1. CASE Receive(t) \/ HandleAgain(t)
  <2>1. PICK req : Handle(t, req)
    BY <1>1 DEF Receive, HandleAgain
  <2> QED BY <1>0, <2>1 DEF Handle, Answer, Return, Goto
<1>2. CASE EndOfStream(t) \/ ReceiveError(t) \/ PeerVanishes(t)
  BY <1>0, <1>2 DEF EndOfStream, ReceiveError, PeerVanishes, Crash, Goto
<1>3. CASE CreateRoom(t) \/ JoinScan(t) \/ JoinCheck(t) \/ JoinSet(t)
  BY <1>0, <1>3 DEF CreateRoom, JoinScan, JoinCheck, JoinSet, JoinRefused, Answer,
                    Return, Crash, Goto, At
<1>4. CASE SetInitialText(t) \/ ReplyCreated(t) \/ ReplyJoined(t)
           \/ SendNotepad(t) \/ WriteNotepad(t) \/ LockNotepad(t)
  BY <1>0, <1>4 DEF SetInitialText, ReplyCreated, ReplyJoined, SendNotepad,
                    WriteNotepad, LockNotepad, Answer, Return, Crash, Goto, At
<1>5. CASE CopyNotepad(t)
  BY <1>0, <1>5 DEF CopyNotepad, Crash, Goto, At
<1>6. CASE LeaveCheck(t) \/ LeaveClear(t) \/ LeaveReply(t)
  BY <1>0, <1>6 DEF LeaveCheck, LeaveClear, LeaveReply, NextSlot, Answer, Return,
                    Goto
<1>7. CASE UpdateCheck(t) \/ UpdateSend(t)
  BY <1>0, <1>7 DEF UpdateCheck, UpdateSend, NextUpdate, NextSlot, Goto, At, Locals
<1>8. CASE SetCursor(t) \/ CursorCheck(t) \/ CursorSend(t)
  BY <1>0, <1>8 DEF SetCursor, CursorCheck, CursorSend, NextSlot, Return, Goto
<1> QED BY <1>1, <1>2, <1>3, <1>4, <1>5, <1>6, <1>7, <1>8 DEF Step, Work

LEMMA CurrentStep ==
  ASSUME CurrentInv, FreshInv, UpdateInv, NEW t \in Fds, Step(t)
  PROVE  CurrentInv'
<1>0. TypeInv /\ TypeOK /\ OthersWait(t)
  BY OthersStay DEF UpdateInv, TypeInv
<1>1. ASSUME NEW u \in Fds \ {t} PROVE Current(u)'
  <2> SUFFICES ASSUME pc[u] \in {"check112", "send112"}
               PROVE  notepad_collab'[client_joined_room[u]] =
                        notepad_collab[client_joined_room[u]]
    BY <1>0 DEF Current, CurrentInv, OthersWait
  <2>1. ~BeingWritten(client_joined_room[u], u)
    BY NobodyElseWrites DEF InUpdate
  <2>2. client_joined_room[u] \in Rooms
    BY <1>0 DEF TypeInv, Place, Roomed
  <2>3. pc[t] \in {"init", "write"} =>
          client_joined_room[t] # client_joined_room[u]
    BY <2>1 DEF BeingWritten
  <2>4. \/ UNCHANGED notepad_collab
        \/ /\ pc[t] \in {"init", "write"}
           /\ notepad_collab' =
                [notepad_collab EXCEPT ![client_joined_room[t]] = Text(t)]
    BY <1>0, NotepadCases
  <2> QED BY <1>0, <2>2, <2>3, <2>4 DEF TypeOK
<1>2. ASSUME pc'[t] \in {"check112", "send112"} PROVE Current(t)'
  <2>1. CASE CopyNotepad(t) /\ pc[t] = "copy" /\ arg[t].header = "005"
    <3>1. ~BeingWritten(client_joined_room[t], t)
      BY <2>1, NobodyElseWrites DEF InUpdate
    <3>2. loc' = [loc EXCEPT ![t].copy = notepad_collab[client_joined_room[t]]]
      BY <2>1, <3>1 DEF CopyNotepad
    <3>3. loc[t] \in Locals /\ loc'[t].copy = notepad_collab[client_joined_room[t]]
      BY <1>0, <3>2 DEF TypeOK, Locals
    <3> QED BY <2>1, <3>1, <3>3 DEF CopyNotepad, Current, room
  <2>2. CASE pc[t] \in {"check112", "send112"} /\ loc'[t].copy = loc[t].copy
    <3>1. client_joined_room' = client_joined_room /\ UNCHANGED notepad_collab
      BY <1>0, <1>2, <2>2, CopyCases, NotepadCases
    <3> QED BY <2>2, <3>1 DEF Current, CurrentInv
  <2> QED BY <1>0, <1>2, <2>1, <2>2, CopyCases
<1> QED BY <1>1, <1>2 DEF CurrentInv, Current

LEMMA CurrentSame ==
  ASSUME CurrentInv, UNCHANGED <<notepad_collab, pc, client_joined_room, loc>>
  PROVE  CurrentInv'
  BY DEF CurrentInv, Current

LEMMA CurrentInvariant ==
  ASSUME CodesUnique
  PROVE  Spec => []CurrentInv
<1>1. Init => CurrentInv
  BY DEF Init, CurrentInv, Current
<1>2. CurrentInv /\ UNCHANGED vars => CurrentInv'
  BY CurrentSame DEF vars, room
<1>3. CurrentInv /\ FreshInv /\ UpdateInv /\ Next => CurrentInv'
  BY CurrentStep DEF Next, Step
<1> QED BY <1>1, <1>2, <1>3, FreshInvariant, UpdateInvariant, PTL DEF Spec

LEMMA NewMessageSaid ==
  ASSUME TypeOK, NEW t \in Fds, Says(t), NEW c \in Fds, NEW m \in NewMessage(c)
  PROVE  Said(t, c, m)
<1>1. Len(sent'[c]) > Len(sent[c]) /\ m = sent'[c][Len(sent'[c])]
  <2>1. CASE Len(sent'[c]) > Len(sent[c])
    BY <2>1 DEF NewMessage
  <2>2. CASE ~(Len(sent'[c]) > Len(sent[c]))
    BY <2>2 DEF NewMessage
  <2> QED BY <2>1, <2>2
<1>2. sent[c] \in Seq(Messages) /\ sent' # sent
  BY <1>1 DEF TypeOK
<1>3. PICK d \in Fds, x \in Messages : SaysTo(t, d, x)
  BY <1>2 DEF Says
<1>4. c = d
  BY <1>1, <1>2, <1>3 DEF SaysTo, TypeOK
<1>5. sent'[c] = Append(sent[c], x)
  BY <1>3, <1>4 DEF SaysTo, TypeOK
<1>6. m = x
  BY <1>1, <1>2, <1>5
<1> QED BY <1>3, <1>4, <1>6 DEF SaysTo

(***************************************************************************)
(* Every 112 of UpdateClients carries the notepad of its room at the       *)
(* moment it is sent: the copy made under notepad_collab_i does not go     *)
(* stale before the last slot.                                             *)
(***************************************************************************)
THEOREM UpdatesCarryTheNotepad == CodesUnique => (Spec => UpdatesAreCurrent)
<1> SUFFICES ASSUME CodesUnique PROVE Spec => UpdatesAreCurrent
  OBVIOUS
<1> DEFINE Carried == \A c \in Fds : \A m \in NewMessage(c) :
                        m.header = "112" => m.body = notepad_collab[m.room]
<1>1. CurrentInv /\ TypeInv /\ [Next]_vars => [Carried]_vars
  <2> SUFFICES ASSUME CurrentInv, TypeInv, NEW t \in Fds, Step(t) PROVE Carried
    BY DEF Next, Step
  <2> SUFFICES ASSUME NEW c \in Fds, NEW m \in NewMessage(c), m.header = "112"
               PROVE  m.body = notepad_collab[m.room]
    OBVIOUS
  <2>1. Said(t, c, m)
    BY SaysStep, NewMessageSaid DEF TypeInv
  <2> QED BY <2>1 DEF Said, Shared, CurrentInv, Current
<1> QED BY <1>1, CurrentInvariant, TypeCorrect, PTL DEF Spec, UpdatesAreCurrent

-----------------------------------------------------------------------------
(***************************************************************************)
(* No seat is passed over.  Whoever sits in a slot and was last shown the  *)
(* room by an update has its notepad, or the update under way has yet to   *)
(* come to the slot, or the 204 of the join is still to come.              *)
(***************************************************************************)
Arriving(c) == pc[c] \in {"104", "204"} \/ (pc[c] = "copy" /\ arg[c].header # "005")

Reached(c, r, s) ==
  client_fd[r][s] = c /\ conn[c] = "open" /\ Sees(c, r) /\ LastText(c).header = "112"
    => \/ LastText(c).body = notepad_collab[r]
       \/ \E t \in Fds : Owes(t, r, s)
       \/ Arriving(c)

(* UpdateClients begins with the first slot. *)
Starting(t) ==
  /\ pc[t] \in {"lock", "write"} => arg[t].header = "005" /\ loc[t].slot = 1
  /\ pc[t] = "copy" /\ arg[t].header = "005" => loc[t].slot = 1

(* There is a last text among the texts. *)
HasLast(c) ==
  TextMessages(c) # {} =>
    \E i \in TextMessages(c) : \A j \in TextMessages(c) : j <= i

ReachInv == \A c \in Fds : /\ HasLast(c) /\ Starting(c)
                          /\ \A r \in Rooms, s \in Slots : Reached(c, r, s)

LEMMA StartingStep ==
  ASSUME UpdateInv, NEW t \in Fds, Starting(t), Step(t)
  PROVE  Starting(t)'
<1>0. /\ pc \in [Fds -> Points] /\ arg \in [Fds -> Requests] /\ loc[t] \in Locals
      /\ loc \in [Fds -> Locals] /\ Place(t)
      /\ pc[t] \in Entering => arg[t].header # "005"
  BY DEF UpdateInv, TypeInv, TypeOK
<1>1. CASE Receive(t) \/ HandleAgain(t)
  <2>1. PICK req : Handle(t, req) /\ arg' = [arg EXCEPT ![t] = req]
    BY <1>0, <1>1 DEF Receive, HandleAgain
  <2>2. arg'[t] = req /\ loc[t].slot = 1
    BY <1>0, <1>1, <2>1 DEF Receive, HandleAgain, At, Place, NoLocals
  <2>3. CASE \E p \in {"recv", "CreateRoom", "scan", "leave", "cursor"} : Goto(t, p)
    BY <1>0, <2>3 DEF Goto, Starting
  <2>4. CASE req.header = "005" /\ Goto(t, "lock") /\ UNCHANGED loc
    BY <1>0, <2>2, <2>4 DEF Goto, Starting
  <2> QED BY <2>1, <2>3, <2>4 DEF Handle, Answer, Return
<1>2. CASE EndOfStream(t) \/ ReceiveError(t) \/ PeerVanishes(t)
  BY <1>0, <1>2 DEF EndOfStream, ReceiveError, PeerVanishes, Crash, Goto, Starting
<1>3. CASE CreateRoom(t) \/ JoinScan(t) \/ JoinCheck(t) \/ JoinSet(t)
  BY <1>0, <1>3 DEF CreateRoom, JoinScan, JoinCheck, JoinSet, JoinRefused, Answer,
                    Return, Crash, Goto, At, Starting
<1>4. CASE SetInitialText(t) \/ ReplyCreated(t) \/ ReplyJoined(t)
           \/ SendNotepad(t) \/ CopyNotepad(t)
  BY <1>0, <1>4 DEF SetInitialText, ReplyCreated, ReplyJoined, SendNotepad,
                    CopyNotepad, Answer, Return, Crash, Goto, At, Starting, Entering
<1>5. CASE LockNotepad(t) \/ WriteNotepad(t)
  BY <1>0, <1>5 DEF LockNotepad, WriteNotepad, Crash, Goto, At, Starting
<1>6. CASE LeaveCheck(t) \/ LeaveClear(t) \/ LeaveReply(t)
  BY <1>0, <1>6 DEF LeaveCheck, LeaveClear, LeaveReply, NextSlot, Answer, Return,
                    Goto, Starting
<1>7. CASE UpdateCheck(t) \/ UpdateSend(t)
  BY <1>0, <1>7 DEF UpdateCheck, UpdateSend, NextUpdate, NextSlot, Goto, At, Starting
<1>8. CASE SetCursor(t) \/ CursorCheck(t) \/ CursorSend(t)
  BY <1>0, <1>8 DEF SetCursor, CursorCheck, CursorSend, NextSlot, Return, Goto,
                    Starting
<1> QED BY <1>1, <1>2, <1>3, <1>4, <1>5, <1>6, <1>7, <1>8 DEF Step, Work

(* The last text of a client is the new message, or the one it was. *)
Told(t, c, m) == SaysTo(t, c, m) /\ m.header \in {"112", "204"}

LEMMA LastStep ==
  ASSUME TypeOK, NEW t \in Fds, Says(t), NEW c \in Fds, HasLast(c)
  PROVE  /\ HasLast(c)'
         /\ \/ \E m \in Messages : Told(t, c, m) /\ LastText(c)' = m
            \/ /\ ~\E m \in Messages : Told(t, c, m)
               /\ TextMessages(c)' = TextMessages(c)
               /\ TextMessages(c) # {} => LastText(c)' = LastText(c)
<1>0. sent[c] \in Seq(Messages)
  BY DEF TypeOK
<1>1. ASSUME NEW m \in Messages, Told(t, c, m)
      PROVE  HasLast(c)' /\ LastText(c)' = m
  <2> DEFINE n == Len(sent[c]) + 1
  <2>1. sent'[c] = Append(sent[c], m)
    BY <1>1 DEF Told, SaysTo, TypeOK
  <2>2. n \in DOMAIN sent'[c] /\ sent'[c][n] = m /\ \A i \in DOMAIN sent'[c] : i <= n
    BY <1>0, <2>1
  <2>3. n \in TextMessages(c)' /\ \A j \in TextMessages(c)' : j <= n
    BY <1>1, <2>2 DEF TextMessages, Told
  <2>4. \A i \in TextMessages(c)' : i \in Nat
    BY <1>0, <2>1 DEF TextMessages
  <2>5. \A i \in TextMessages(c)' : (\A j \in TextMessages(c)' : j <= i) => i = n
    BY <1>0, <2>3, <2>4
  <2>6. (CHOOSE i \in TextMessages(c)' : \A j \in TextMessages(c)' : j <= i) = n
    BY <2>3, <2>5
  <2> QED BY <2>2, <2>3, <2>6 DEF LastText, HasLast
<1>2. CASE ~\E m \in Messages : Told(t, c, m)
  <2>1. \/ sent'[c] = sent[c]
        \/ \E m \in Messages : /\ sent'[c] = Append(sent[c], m)
                                /\ m.header \notin {"112", "204"}
    BY <1>2 DEF Says, SaysTo, Told, TypeOK
  <2>2. /\ TextMessages(c)' = TextMessages(c)
        /\ \A i \in TextMessages(c) : sent'[c][i] = sent[c][i]
    <3>1. CASE sent'[c] = sent[c]
      BY <3>1 DEF TextMessages
    <3>2. ASSUME NEW m \in Messages, sent'[c] = Append(sent[c], m),
                 m.header \notin {"112", "204"}
          PROVE  /\ TextMessages(c)' = TextMessages(c)
                 /\ \A i \in TextMessages(c) : sent'[c][i] = sent[c][i]
      <4>1. /\ DOMAIN sent'[c] = DOMAIN sent[c] \cup {Len(sent[c]) + 1}
            /\ sent'[c][Len(sent[c]) + 1] = m
            /\ \A i \in DOMAIN sent[c] : sent'[c][i] = sent[c][i]
        BY <1>0, <3>2
      <4> QED BY <3>2, <4>1 DEF TextMessages
    <3> QED BY <2>1, <3>1, <3>2
  <2> DEFINE last == CHOOSE i \in TextMessages(c) : \A j \in TextMessages(c) : j <= i
  <2>3. TextMessages(c) # {} => last \in TextMessages(c)
    BY DEF HasLast
  <2>4. TextMessages(c) # {} => LastText(c)' = LastText(c)
    BY <2>2, <2>3 DEF LastText
  <2> QED BY <1>2, <2>2, <2>4 DEF HasLast
<1> QED BY <1>1, <1>2

(* A debt is paid by telling the seat, or by finding it empty. *)
LEMMA OwesStep ==
  ASSUME TypeInv, NEW t \in Fds, Step(t), NEW r \in Rooms, NEW s \in Slots,
         NEW c \in Fds, client_fd[r][s] = c, conn[c] = "open", Owes(t, r, s),
         ~\E m \in Messages : Told(t, c, m)
  PROVE  Owes(t, r, s)'
<1>0. /\ pc \in [Fds -> Points] /\ loc \in [Fds -> Locals] /\ loc[t] \in Locals
      /\ client_joined_room[t] = r /\ loc[t].slot <= s /\ c # undefined
      /\ \/ pc[t] \in {"check112", "send112"}
         \/ pc[t] = "copy" /\ arg[t].header = "005"
  BY RoomsAssumption DEF TypeInv, TypeOK, Owes, InUpdate
<1>1. CASE PeerVanishes(t)
  BY <1>0, <1>1 DEF PeerVanishes, Owes, InUpdate
<1>2. CASE CopyNotepad(t)
  BY <1>0, <1>2 DEF CopyNotepad, Crash, Goto, At, Owes, InUpdate, Locals
<1>3. CASE NextUpdate(t) /\ loc[t].slot # s /\ UNCHANGED <<client_joined_room, arg>>
  <2>1. loc[t].slot = 1 /\ s = 2
    BY <1>0, <1>3 DEF Locals, Slots
  <2>2. loc'[t].slot = 2 /\ pc'[t] = "check112"
    BY <1>0, <1>3, <2>1 DEF NextUpdate, NextSlot, Goto, Locals
  <2> QED BY <1>0, <1>3, <2>1, <2>2 DEF Owes, InUpdate
<1>4. CASE UpdateCheck(t)
  <2>1. CASE client_fd[r][loc[t].slot] # undefined
    BY <1>0, <1>4, <2>1 DEF UpdateCheck, Goto, Owes, InUpdate
  <2>2. CASE client_fd[r][loc[t].slot] = undefined
    BY <1>0, <1>3, <1>4, <2>2 DEF UpdateCheck
  <2> QED BY <2>1, <2>2
<1>5. CASE UpdateSend(t)
  <2> DEFINE m == [header |-> "112", room |-> r, body |-> loc[t].copy]
  <2>1. ASSUME loc[t].slot = s PROVE FALSE
    <3>1. SendTo(c, m) /\ pc[t] = "send112"
      BY <1>0, <1>5, <2>1 DEF UpdateSend, At
    <3>2. m \in Messages
      BY <1>0 DEF Messages, Locals, Rooms
    <3>3. Told(t, c, m)
      BY <1>0, <2>1, <3>1 DEF SendTo, Told, SaysTo, Said, Speaking
    <3> QED BY <3>2, <3>3
  <2> QED BY <1>0, <1>3, <1>5, <2>1 DEF UpdateSend
<1>6. CASE Receive(t) \/ HandleAgain(t) \/ EndOfStream(t) \/ ReceiveError(t)
  BY <1>0, <1>6 DEF Receive, HandleAgain, EndOfStream, ReceiveError, At
<1>7. CASE CreateRoom(t) \/ JoinScan(t) \/ JoinCheck(t) \/ JoinSet(t)
           \/ SetInitialText(t) \/ ReplyCreated(t) \/ ReplyJoined(t)
           \/ SendNotepad(t)
  BY <1>0, <1>7 DEF CreateRoom, JoinScan, JoinCheck, JoinSet, SetInitialText,
                    ReplyCreated, ReplyJoined, SendNotepad, At
<1>8. CASE LeaveCheck(t) \/ LeaveClear(t) \/ LeaveReply(t) \/ LockNotepad(t)
           \/ WriteNotepad(t) \/ SetCursor(t) \/ CursorCheck(t) \/ CursorSend(t)
  BY <1>0, <1>8 DEF LeaveCheck, LeaveClear, LeaveReply, LockNotepad, WriteNotepad,
                    SetCursor, CursorCheck, CursorSend, At
<1> QED BY <1>1, <1>2, <1>4, <1>5, <1>6, <1>7, <1>8 DEF Step, Work

(* Whoever joins is on the way to its 204 until it is told. *)
LEMMA ArrivingStep ==
  ASSUME TypeInv, UpdateInv, NEW t \in Fds, Step(t), conn[t] = "open", Arriving(t),
         ~\E m \in Messages : Told(t, t, m)
  PROVE  Arriving(t)'
<1>0. /\ pc \in [Fds -> Points] /\ loc \in [Fds -> Locals] /\ loc[t] \in Locals
      /\ t # undefined /\ client_joined_room[t] \in 0 .. MaxRooms
  BY RoomsAssumption DEF TypeInv, TypeOK
<1>1. CASE PeerVanishes(t)
  BY <1>1 DEF PeerVanishes, Arriving
<1>2. CASE CopyNotepad(t)
  BY <1>0, <1>2 DEF CopyNotepad, Crash, Goto, At, Arriving
<1>3. CASE ReplyJoined(t)
  BY <1>0, <1>3 DEF ReplyJoined, Goto, At, Arriving, UpdateInv, Entering
<1>4. CASE SendNotepad(t)
  <2> DEFINE m == [header |-> "204", room |-> client_joined_room[t],
                   body |-> loc[t].copy]
  <2>1. SendTo(t, m) /\ pc[t] = "204"
    BY <1>4 DEF SendNotepad, At
  <2>2. m \in Messages
    BY <1>0 DEF Messages, Locals
  <2>3. Told(t, t, m)
    BY <1>0, <2>1 DEF SendTo, Told, SaysTo, Said, Speaking
  <2> QED BY <2>2, <2>3
<1>5. CASE Receive(t) \/ HandleAgain(t) \/ EndOfStream(t) \/ ReceiveError(t)
  BY <1>5 DEF Receive, HandleAgain, EndOfStream, ReceiveError, At, Arriving
<1>6. CASE CreateRoom(t) \/ JoinScan(t) \/ JoinCheck(t) \/ JoinSet(t)
           \/ SetInitialText(t) \/ ReplyCreated(t)
  BY <1>6 DEF CreateRoom, JoinScan, JoinCheck, JoinSet, SetInitialText,
              ReplyCreated, At, Arriving
<1>7. CASE LeaveCheck(t) \/ LeaveClear(t) \/ LeaveReply(t) \/ LockNotepad(t)
           \/ WriteNotepad(t) \/ UpdateCheck(t) \/ UpdateSend(t)
           \/ SetCursor(t) \/ CursorCheck(t) \/ CursorSend(t)
  BY <1>7 DEF LeaveCheck, LeaveClear, LeaveReply, LockNotepad, WriteNotepad,
              UpdateCheck, UpdateSend, SetCursor, CursorCheck, CursorSend, At,
              Arriving
<1> QED BY <1>1, <1>2, <1>3, <1>4, <1>5, <1>6, <1>7 DEF Step, Work

(* Only a thread that enters takes a seat, and only a writer assigns. *)
LEMMA SeatCases ==
  ASSUME TypeInv, NEW t \in Fds, Step(t), NEW r \in Rooms, NEW s \in Slots,
         client_fd'[r][s] # client_fd[r][s], client_fd'[r][s] # undefined
  PROVE  JoinSet(t) /\ client_fd'[r][s] = t /\ r = loc[t].found
<1>0. /\ client_fd \in [Rooms -> [Slots -> Fds \cup {undefined}]]
      /\ Place(t) /\ loc[t] \in Locals
  BY DEF TypeInv, TypeOK
<1>1. CASE JoinSet(t)
  BY <1>0, <1>1 DEF JoinSet, At, Place, Locals
<1>2. CASE LeaveClear(t)
  BY <1>0, <1>2 DEF LeaveClear
<1> QED BY <1>1, <1>2, StepCases
        DEF LeaveCheck, LeaveReply, EndOfStream, Elsewhere, room

LEMMA WriteStarts ==
  ASSUME TypeInv, NEW t \in Fds, Step(t), Starting(t), pc[t] = "write",
         notepad_collab' # notepad_collab, NEW s \in Slots,
         NEW r, client_joined_room[t] = r
  PROVE  Owes(t, r, s)'
<1>1. WriteNotepad(t) /\ ~Crash
  <2>1. CASE PeerVanishes(t)
    BY <2>1 DEF PeerVanishes, room
  <2>2. CASE Receive(t) \/ HandleAgain(t) \/ EndOfStream(t) \/ ReceiveError(t)
    BY <2>2 DEF Receive, HandleAgain, EndOfStream, ReceiveError, At
  <2>3. CASE CreateRoom(t) \/ JoinScan(t) \/ JoinCheck(t) \/ JoinSet(t)
             \/ SetInitialText(t) \/ ReplyCreated(t) \/ ReplyJoined(t)
             \/ CopyNotepad(t) \/ SendNotepad(t)
    BY <2>3 DEF CreateRoom, JoinScan, JoinCheck, JoinSet, SetInitialText,
                ReplyCreated, ReplyJoined, CopyNotepad, SendNotepad, At
  <2>4. CASE LeaveCheck(t) \/ LeaveClear(t) \/ LeaveReply(t) \/ LockNotepad(t)
             \/ UpdateCheck(t) \/ UpdateSend(t)
             \/ SetCursor(t) \/ CursorCheck(t) \/ CursorSend(t)
    BY <2>4 DEF LeaveCheck, LeaveClear, LeaveReply, LockNotepad, UpdateCheck,
                UpdateSend, SetCursor, CursorCheck, CursorSend, At
  <2> QED BY <2>1, <2>2, <2>3, <2>4 DEF Step, Work, Crash, room
<1>2. /\ pc'[t] = "copy" /\ loc' = loc /\ arg' = arg
      /\ client_joined_room' = client_joined_room
  BY <1>1 DEF WriteNotepad, Goto, TypeInv, TypeOK
<1> QED BY <1>2 DEF Starting, Owes, InUpdate, Slots

LEMMA ReachStep ==
  ASSUME ReachInv, CurrentInv, FreshInv, UpdateInv, SeatInv, NEW t \in Fds, Step(t)
  PROVE  ReachInv'
<1>0. TypeInv /\ TypeOK /\ OthersWait(t) /\ Says(t)
  BY OthersStay, SaysStep DEF UpdateInv, TypeInv
<1>1. \A c \in Fds : Starting(c)'
  BY <1>0, StartingStep DEF ReachInv, Starting, OthersWait
<1>2. \A c \in Fds : HasLast(c)'
  BY <1>0, LastStep DEF ReachInv
<1> SUFFICES ASSUME NEW c \in Fds, NEW r \in Rooms, NEW s \in Slots,
                    client_fd'[r][s] = c, conn'[c] = "open", Sees(c, r)',
                    LastText(c)'.header = "112"
             PROVE  \/ LastText(c)'.body = notepad_collab'[r]
                    \/ \E u \in Fds : Owes(u, r, s)'
                    \/ Arriving(c)'
  BY <1>1, <1>2 DEF ReachInv, Reached
<1>3. conn[c] = "open" /\ r # 0 /\ c # undefined
  BY <1>0, NothingReopens, RoomsAssumption DEF Rooms
<1>4. CASE \E m \in Messages : Told(t, c, m) /\ LastText(c)' = m
  <2>1. PICK m \in Messages : Told(t, c, m) /\ LastText(c)' = m
    BY <1>4
  <2>2. Said(t, c, m) /\ m.header = "112" /\ m.room = r
    BY <2>1 DEF Told, SaysTo, Sees
  <2>3. pc[t] = "send112" /\ m.body = loc[t].copy /\ client_joined_room[t] = r
    BY <1>3, <2>2 DEF Said, Shared
  <2>4. UNCHANGED notepad_collab
    BY <1>0, <2>3, NotepadCases
  <2> QED BY <2>1, <2>3, <2>4 DEF CurrentInv, Current
<1>5. CASE /\ ~\E m \in Messages : Told(t, c, m)
           /\ TextMessages(c)' = TextMessages(c)
           /\ TextMessages(c) # {} => LastText(c)' = LastText(c)
  <2>1. Sees(c, r) /\ LastText(c)' = LastText(c)
    BY <1>5 DEF Sees
  <2>2. Named(r)
    <3>1. PICK i \in TextMessages(c) : \A j \in TextMessages(c) : j <= i
      BY <2>1 DEF ReachInv, HasLast, Sees
    <3>2. PICK k \in TextMessages(c) : LastText(c) = sent[c][k]
      BY <3>1 DEF LastText
    <3> QED BY <2>1, <3>2 DEF Sees, Named, TextMessages
  <2>3. CASE client_fd[r][s] # c
    <3>1. JoinSet(t) /\ c = t /\ r = loc[t].found
      BY <1>0, <1>3, <2>3, SeatCases
    <3>2. pc[t] = "set" /\ ~Creating(t)
      BY <2>2, <3>1 DEF JoinSet, At, FreshInv, Private, Making
    <3> QED BY <1>0, <3>1, <3>2 DEF JoinSet, Goto, Arriving, TypeOK
  <2>4. CASE client_fd[r][s] = c
    <3>1. \/ LastText(c).body = notepad_collab[r]
          \/ \E u \in Fds : Owes(u, r, s)
          \/ Arriving(c)
      BY <1>3, <2>1, <2>4 DEF ReachInv, Reached
    <3>2. CASE notepad_collab'[r] # notepad_collab[r]
      <4>1. pc[t] \in {"init", "write"} /\ client_joined_room[t] = r
        BY <1>0, <3>2, NotepadCases DEF TypeOK
      <4>2. pc[t] # "init"
        BY <2>2, <4>1 DEF FreshInv, Private, Making
      <4>3. Owes(t, r, s)'
        BY <1>0, <3>2, <4>1, <4>2, WriteStarts DEF ReachInv
      <4> QED BY <4>3
    <3>3. CASE \E u \in Fds : Owes(u, r, s)
      <4>1. PICK u \in Fds : Owes(u, r, s)
        BY <3>3
      <4>2. CASE u = t
        BY <1>0, <1>3, <1>5, <2>4, <4>1, <4>2, OwesStep
      <4>3. CASE u # t
        BY <1>0, <4>1, <4>3 DEF OthersWait, Owes, InUpdate
      <4> QED BY <4>2, <4>3
    <3>4. CASE Arriving(c)
      <4>1. CASE c = t
        BY <1>0, <1>3, <1>5, <3>4, <4>1, ArrivingStep
      <4>2. CASE c # t
        BY <1>0, <3>4, <4>2 DEF OthersWait, Arriving
      <4> QED BY <4>1, <4>2
    <3> QED BY <2>1, <3>1, <3>2, <3>3, <3>4
  <2> QED BY <2>3, <2>4
<1> QED BY <1>0, <1>4, <1>5, LastStep DEF ReachInv

LEMMA ReachSame ==
  ASSUME ReachInv, UNCHANGED <<client_fd, notepad_collab, pc, arg,
                               client_joined_room, loc, conn, sent>>
  PROVE  ReachInv'
<1>1. /\ \A c : TextMessages(c)' = TextMessages(c) /\ LastText(c)' = LastText(c)
      /\ \A c : Starting(c)' = Starting(c) /\ Arriving(c)' = Arriving(c)
      /\ \A t, r, s : Owes(t, r, s)' = Owes(t, r, s)
  BY DEF TextMessages, LastText, Starting, Arriving, Owes, InUpdate
<1>2. \A c \in Fds : HasLast(c)' /\ Starting(c)'
  BY <1>1 DEF ReachInv, HasLast
<1>3. \A c \in Fds, r \in Rooms, s \in Slots : Reached(c, r, s)'
  BY <1>1 DEF ReachInv, Reached, Sees
<1> QED BY <1>2, <1>3 DEF ReachInv

LEMMA ReachInvariant ==
  ASSUME CodesUnique
  PROVE  Spec => []ReachInv
<1>1. Init => ReachInv
  BY DEF Init, ReachInv, HasLast, Starting, Reached, Sees, TextMessages
<1>2. ReachInv /\ UNCHANGED vars => ReachInv'
  BY ReachSame DEF vars, room, net
<1>3. ReachInv /\ CurrentInv /\ FreshInv /\ UpdateInv /\ SeatInv /\ Next => ReachInv'
  BY ReachStep DEF Next, Step
<1> QED BY <1>1, <1>2, <1>3, CurrentInvariant, FreshInvariant, UpdateInvariant,
           SeatInvariant, PTL DEF Spec

(***************************************************************************)
(* No update passes over a client that sits in the room: UpdateClients     *)
(* comes to its slot, or it entered the slot later and its 204 is still    *)
(* to come.                                                                *)
(***************************************************************************)
THEOREM UpdatesReachTheSeats == CodesUnique => (Spec => []UpdatesReachEverySeat)
<1> SUFFICES ASSUME CodesUnique PROVE Spec => []UpdatesReachEverySeat
  OBVIOUS
<1>1. ReachInv => UpdatesReachEverySeat
  BY DEF ReachInv, Reached, UpdatesReachEverySeat, Quiet, Seated, Owes, InUpdate,
         Arriving
<1> QED BY <1>1, ReachInvariant, PTL

-----------------------------------------------------------------------------
(***************************************************************************)
(* One order.  Requests are numbered, and a text that is in a notepad or   *)
(* in an update was written: the thread it came from will not write it     *)
(* again, so a notepad once replaced never comes back.  This needs that no *)
(* thread goes back to a request it has handled, as after the -1 of recv   *)
(* (ReceiveError).                                                         *)
(***************************************************************************)
NoResets == \A t \in Fds : conn[t] # "rst" /\ pc[t] # "again"

(* The points from which the text of the last request may yet be written. *)
Unwritten == {"CreateRoom", "scan", "check", "set", "init", "lock", "write"}

Written(x) ==
  \A t \in Fds, n \in 0 .. MaxRequests :
    x = <<t, n>> => n <= arg[t].n /\ (n = arg[t].n => pc[t] \notin Unwritten)

(* The notepad of a room, once sent, is what was sent from then on. *)
Latest(c) ==
  \A i, j \in Updates(c) :
    i < j /\ sent[c][i].room = sent[c][j].room
      /\ sent[c][i].body = notepad_collab[sent[c][i].room]
    => sent[c][j] = sent[c][i]

OrderInv ==
  /\ NoResets
  /\ \A r \in Rooms : Written(notepad_collab[r])
  /\ \A c \in Fds : /\ Latest(c)
                    /\ \A i \in Updates(c) : /\ sent[c][i].room \in Rooms
                                             /\ Written(sent[c][i].body)
  /\ SameOrder

(* A thread reads its next request, or comes no nearer to writing the last. *)
LEMMA ProgressStep ==
  ASSUME "rst" \notin Losses, TypeInv, NoResets, NEW t \in Fds, Step(t)
  PROVE  /\ conn'[t] # "rst" /\ pc'[t] # "again"
         /\ \/ arg'[t].n = arg[t].n + 1
            \/ arg' = arg /\ (pc'[t] \in Unwritten => pc[t] \in Unwritten)
<1>0. /\ pc \in [Fds -> Points] /\ arg \in [Fds -> Requests]
      /\ conn \in [Fds -> {"open", "fin", "rst", "dead"}]
      /\ conn[t] # "rst" /\ pc[t] # "again"
  BY DEF TypeInv, TypeOK, NoResets
<1>1. conn'[t] # "rst"
  BY <1>0, ConnectionsStay
<1>2. CASE Receive(t)
  <2>1. PICK h \in Headers, k \in TypedCodes \cup {NoRoomCode} :
          LET req == [header |-> h, code |-> k, n |-> arg[t].n + 1]
          IN  arg' = [arg EXCEPT ![t] = req] /\ Handle(t, req)
    BY <1>2 DEF Receive
  <2>2. arg'[t].n = arg[t].n + 1
    BY <1>0, <2>1
  <2>3. pc'[t] # "again"
    BY <1>0, <2>1 DEF Handle, Answer, Return, Goto
  <2> QED BY <1>1, <2>2, <2>3
<1>3. CASE HandleAgain(t) \/ EndOfStream(t) \/ ReceiveError(t) \/ PeerVanishes(t)
  BY <1>0, <1>1, <1>3 DEF HandleAgain, EndOfStream, ReceiveError, PeerVanishes,
                          Goto, At, Unwritten
<1>4. CASE CreateRoom(t) \/ JoinScan(t) \/ JoinCheck(t) \/ JoinSet(t)
  BY <1>0, <1>1, <1>4 DEF CreateRoom, JoinScan, JoinCheck, JoinSet, JoinRefused,
                          Answer, Return, Crash, Goto, At, Unwritten
<1>5. CASE SetInitialText(t) \/ ReplyCreated(t) \/ ReplyJoined(t)
           \/ CopyNotepad(t) \/ SendNotepad(t)
  BY <1>0, <1>1, <1>5 DEF SetInitialText, ReplyCreated, ReplyJoined, CopyNotepad,
                          SendNotepad, Answer, Return, Crash, Goto, At, Unwritten
<1>6. CASE LeaveCheck(t) \/ LeaveClear(t) \/ LeaveReply(t)
  BY <1>0, <1>1, <1>6 DEF LeaveCheck, LeaveClear, LeaveReply, NextSlot, Answer,
                          Return, Goto, At, Unwritten
<1>7. CASE LockNotepad(t) \/ WriteNotepad(t)
  BY <1>0, <1>1, <1>7 DEF LockNotepad, WriteNotepad, Crash, Goto, At, Unwritten
<1>8. CASE UpdateCheck(t) \/ UpdateSend(t)
  BY <1>0, <1>1, <1>8 DEF UpdateCheck, UpdateSend, NextUpdate, NextSlot, Goto, At,
                          Unwritten
<1>9. CASE SetCursor(t) \/ CursorCheck(t) \/ CursorSend(t)
  BY <1>0, <1>1, <1>9 DEF SetCursor, CursorCheck, CursorSend, NextSlot, Return,
                          Goto, At, Unwritten
<1> QED BY <1>2, <1>3, <1>4, <1>5, <1>6, <1>7, <1>8, <1>9 DEF Step, Work

LEMMA WrittenStays ==
  ASSUME "rst" \notin Losses, TypeInv, NoResets, NEW t \in Fds, Step(t),
         OthersWait(t), NEW x, Written(x)
  PROVE  Written(x)'
<1>1. /\ \A u \in Fds : arg[u].n \in Nat
      /\ \A u \in Fds \ {t} : pc'[u] = pc[u] /\ arg'[u] = arg[u]
  BY DEF OthersWait, TypeInv, TypeOK, Requests
<1>2. \/ arg'[t].n = arg[t].n + 1
      \/ arg' = arg /\ (pc'[t] \in Unwritten => pc[t] \in Unwritten)
  BY ProgressStep
<1> QED BY <1>1, <1>2 DEF Written

(* What is assigned to a notepad was not there or in an update before. *)
LEMMA WriteStep ==
  ASSUME TypeInv, NEW t \in Fds, Step(t), notepad_collab' # notepad_collab
  PROVE  \E x \in Texts :
           /\ notepad_collab' = [notepad_collab EXCEPT ![client_joined_room[t]] = x]
           /\ ~Written(x) /\ Written(x)'
<1>1. /\ pc[t] \in {"init", "write"}
      /\ notepad_collab' = [notepad_collab EXCEPT ![client_joined_room[t]] = Text(t)]
  BY NotepadCases
<1>2. arg \in [Fds -> Requests] /\ pc \in [Fds -> Points]
  BY DEF TypeInv, TypeOK
<1>3. arg[t].n \in 0 .. MaxRequests
  BY <1>2 DEF Requests
<1>4. arg' = arg /\ pc'[t] \in {"101", "copy"}
  <2>1. CASE SetInitialText(t) \/ WriteNotepad(t)
    BY <1>2, <2>1 DEF SetInitialText, WriteNotepad, Crash, Goto, room
  <2>2. CASE Receive(t) \/ HandleAgain(t) \/ EndOfStream(t) \/ ReceiveError(t)
    BY <1>1, <2>2 DEF Receive, HandleAgain, EndOfStream, ReceiveError, At
  <2>3. CASE PeerVanishes(t)
    BY <2>3 DEF PeerVanishes, room
  <2>4. CASE CreateRoom(t) \/ JoinScan(t) \/ JoinCheck(t) \/ JoinSet(t)
             \/ ReplyCreated(t) \/ ReplyJoined(t) \/ CopyNotepad(t) \/ SendNotepad(t)
    BY <1>1, <2>4 DEF CreateRoom, JoinScan, JoinCheck, JoinSet, ReplyCreated,
                      ReplyJoined, CopyNotepad, SendNotepad, At
  <2>5. CASE LeaveCheck(t) \/ LeaveClear(t) \/ LeaveReply(t) \/ LockNotepad(t)
             \/ UpdateCheck(t) \/ UpdateSend(t) \/ SetCursor(t) \/ CursorCheck(t)
             \/ CursorSend(t)
    BY <1>1, <2>5 DEF LeaveCheck, LeaveClear, LeaveReply, LockNotepad, UpdateCheck,
                      UpdateSend, SetCursor, CursorCheck, CursorSend, At
  <2> QED BY <2>1, <2>2, <2>3, <2>4, <2>5 DEF Step, Work
<1>5. PICK x \in Texts : x = <<t, arg[t].n>>
  BY <1>3 DEF Texts
<1>6. ~Written(x)
  BY <1>1, <1>3, <1>5 DEF Written, Unwritten
<1>7. Written(x)'
  BY <1>3, <1>4, <1>5 DEF Written, Unwritten
<1> QED BY <1>1, <1>5, <1>6, <1>7 DEF Text

(* An update is an old one, or the last message and the notepad. *)
Kept(c, i) == i \in Updates(c) /\ sent'[c][i] = sent[c][i]
Told112(t, c, i) ==
  /\ i = Len(sent[c]) + 1 /\ client_joined_room[t] \in Rooms
  /\ sent'[c][i] = [header |-> "112", room |-> client_joined_room[t],
                    body |-> notepad_collab[client_joined_room[t]]]
  /\ notepad_collab' = notepad_collab

LEMMA UpdatesGrow ==
  ASSUME TypeInv, CurrentInv, NEW t \in Fds, Step(t), NEW c \in Fds,
         NEW i \in Updates(c)'
  PROVE  Kept(c, i) \/ Told112(t, c, i)
<1>0. /\ TypeOK /\ Says(t) /\ sent \in [Fds -> Seq(Messages)]
      /\ sent[c] \in Seq(Messages)
  BY SaysStep DEF TypeInv, TypeOK
<1>1. i \in DOMAIN sent'[c] /\ sent'[c][i].header = "112"
  BY DEF Updates
<1>2. CASE sent'[c] = sent[c]
  BY <1>1, <1>2 DEF Kept, Updates
<1>3. ASSUME NEW m \in Messages, SaysTo(t, c, m)
      PROVE  Kept(c, i) \/ Told112(t, c, i)
  <2>1. sent'[c] = Append(sent[c], m)
    BY <1>0, <1>3 DEF SaysTo
  <2>2. \/ i \in DOMAIN sent[c] /\ sent'[c][i] = sent[c][i]
        \/ i = Len(sent[c]) + 1 /\ sent'[c][i] = m
    BY <1>0, <1>1, <2>1
  <2>3. CASE i \in DOMAIN sent[c] /\ sent'[c][i] = sent[c][i]
    BY <1>1, <2>3 DEF Kept, Updates
  <2>4. CASE i = Len(sent[c]) + 1 /\ sent'[c][i] = m
    <3>1. m.header = "112" /\ Said(t, c, m)
      BY <1>1, <1>3, <2>4 DEF SaysTo
    <3>2. /\ pc[t] = "send112" /\ m.room = client_joined_room[t]
          /\ m.body = loc[t].copy
      BY <3>1 DEF Said, Shared
    <3>3. client_joined_room[t] \in Rooms /\ notepad_collab' = notepad_collab
      BY <3>2, NotepadCases DEF TypeInv, Place, Roomed
    <3>4. m.body = notepad_collab[client_joined_room[t]]
      BY <3>2 DEF CurrentInv, Current
    <3>5. m = [header |-> m.header, room |-> m.room, body |-> m.body]
      BY DEF Messages
    <3> QED BY <2>4, <3>1, <3>2, <3>3, <3>4, <3>5 DEF Told112
  <2> QED BY <2>2, <2>3, <2>4
<1>4. sent'[c] = sent[c] \/ \E m \in Messages : SaysTo(t, c, m)
  BY <1>0 DEF Says, SaysTo
<1> QED BY <1>2, <1>3, <1>4

LEMMA OrderStep ==
  ASSUME "rst" \notin Losses, OrderInv, CurrentInv, UpdateInv, NEW t \in Fds, Step(t)
  PROVE  OrderInv'
<1> DEFINE r == client_joined_room[t]
           m == [header |-> "112", room |-> r, body |-> notepad_collab[r]]
<1>0. /\ TypeInv /\ TypeOK /\ OthersWait(t) /\ NoResets
      /\ \A c \in Fds : Len(sent[c]) \in Nat /\ \A i \in Updates(c) :
            i \in Nat /\ i <= Len(sent[c])
  BY OthersStay DEF UpdateInv, TypeInv, TypeOK, Updates, OrderInv
<1>1. NoResets'
  <2>1. \A u \in Fds \ {t} : pc'[u] = pc[u]
    BY <1>0 DEF OthersWait
  <2>2. \A u \in Fds : conn[u] # "rst" => conn'[u] # "rst"
    BY <1>0, ConnectionsStay
  <2> QED BY <1>0, <2>1, <2>2, ProgressStep DEF NoResets
<1>2. \A x : Written(x) => Written(x)'
  BY <1>0, WrittenStays
<1>3. \A c \in Fds : \A i \in Updates(c)' : Kept(c, i) \/ Told112(t, c, i)
  BY <1>0, UpdatesGrow
<1>4. ASSUME notepad_collab' # notepad_collab
      PROVE  \E x \in Texts :
               /\ ~Written(x) /\ Written(x)'
               /\ \A q \in Rooms : notepad_collab'[q] \in {x, notepad_collab[q]}
  <2>1. PICK x \in Texts :
          /\ notepad_collab' = [notepad_collab EXCEPT ![r] = x]
          /\ ~Written(x) /\ Written(x)'
    BY <1>0, <1>4, WriteStep
  <2> QED BY <1>0, <2>1 DEF TypeOK
<1>5. \A q \in Rooms : \A x : x = notepad_collab'[q] => Written(x)'
  BY <1>2, <1>4 DEF OrderInv
<1>6. \A c \in Fds : \A i \in Updates(c)' :
        /\ sent'[c][i].room \in Rooms
        /\ \A x : x = sent'[c][i].body => Written(x)'
  <2> SUFFICES ASSUME NEW c \in Fds, NEW i \in Updates(c)'
               PROVE  /\ sent'[c][i].room \in Rooms
                      /\ \A x : x = sent'[c][i].body => Written(x)'
    OBVIOUS
  <2>1. CASE Kept(c, i)
    BY <1>2, <2>1 DEF Kept, OrderInv
  <2>2. CASE Told112(t, c, i)
    BY <1>5, <2>2 DEF Told112
  <2> QED BY <1>3, <2>1, <2>2
<1>7. \A c \in Fds : Latest(c)'
  <2> SUFFICES ASSUME NEW c \in Fds, NEW i \in Updates(c)', NEW j \in Updates(c)',
                      i < j, sent'[c][i].room = sent'[c][j].room,
                      sent'[c][i].body = notepad_collab'[sent'[c][i].room]
               PROVE  sent'[c][j] = sent'[c][i]
    BY DEF Latest
  <2>1. Kept(c, i)
    BY <1>0, <1>3 DEF Kept, Told112
  <2>2. sent[c][i].body = notepad_collab[sent[c][i].room]
    BY <1>4, <2>1 DEF Kept, OrderInv
  <2>3. CASE Kept(c, j)
    BY <2>1, <2>2, <2>3 DEF Kept, OrderInv, Latest
  <2>4. CASE Told112(t, c, j)
    <3>1. sent[c][i] \in Messages /\ sent[c][i].header = "112"
      BY <1>0, <2>1 DEF Kept, Updates, TypeOK
    <3>2. sent[c][i].room = r /\ sent[c][i].body = notepad_collab[r]
      BY <2>1, <2>2, <2>4 DEF Kept, Told112
    <3> QED BY <2>1, <2>4, <3>1, <3>2 DEF Kept, Told112, Messages
  <2> QED BY <1>3, <2>3, <2>4
<1>8. SameOrder'
  <2> SUFFICES ASSUME NEW c \in Fds, NEW d \in Fds,
                      NEW i \in Updates(c)', NEW j \in Updates(c)',
                      NEW k \in Updates(d)', NEW l \in Updates(d)',
                      i < j, sent'[c][i].room = sent'[c][j].room,
                      k < l, sent'[d][k] = sent'[c][j], sent'[d][l] = sent'[c][i]
               PROVE  sent'[c][i] = sent'[c][j]
    BY DEF SameOrder
  <2>1. Kept(c, i) /\ Kept(d, k)
    BY <1>0, <1>3 DEF Kept, Told112
  <2>2. CASE Kept(c, j) /\ Kept(d, l)
    <3>1. /\ i \in Updates(c) /\ j \in Updates(c) /\ k \in Updates(d) /\ l \in Updates(d)
          /\ sent'[c][i] = sent[c][i] /\ sent'[c][j] = sent[c][j]
          /\ sent'[d][k] = sent[d][k] /\ sent'[d][l] = sent[d][l]
      BY <2>1, <2>2 DEF Kept
    <3>2. SameOrder
      BY DEF OrderInv
    <3> QED BY <3>1, <3>2 DEF SameOrder
  <2>3. CASE Told112(t, c, j)
    <3>1. sent'[d][k] = m /\ notepad_collab' = notepad_collab
      BY <2>3 DEF Told112
    <3>2. sent'[d][k].room = sent'[d][l].room
      BY <2>3 DEF Told112
    <3>3. sent'[d][l] = sent'[d][k]
      BY <1>7, <3>1, <3>2 DEF Latest
    <3> QED BY <3>3
  <2>4. CASE Told112(t, d, l)
    <3>1. sent'[c][i] = m /\ notepad_collab' = notepad_collab
      BY <2>4 DEF Told112
    <3> QED BY <1>7, <3>1 DEF Latest
  <2> QED BY <1>3, <2>2, <2>3, <2>4
<1>9. \A q \in Rooms : Written(notepad_collab[q])'
  BY <1>5 DEF Written
<1>10. \A c \in Fds : \A i \in Updates(c)' : Written(sent[c][i].body)'
  BY <1>6 DEF Written
<1> QED BY <1>1, <1>6, <1>7, <1>8, <1>9, <1>10 DEF OrderInv

LEMMA OrderSame ==
  ASSUME OrderInv, UNCHANGED <<notepad_collab, pc, arg, conn, sent>>
  PROVE  OrderInv'
<1>1. /\ \A c : Updates(c)' = Updates(c)
      /\ \A x : Written(x)' = Written(x)
  BY DEF Updates, Written
<1> QED BY <1>1 DEF OrderInv, NoResets, Latest, SameOrder, Updates, Written

LEMMA OrderInit == Init => OrderInv
<1> SUFFICES ASSUME Init PROVE OrderInv
  OBVIOUS
<1>1. \A c \in Fds : Updates(c) = {}
  BY DEF Init, Updates
<1>2. \A r \in Rooms : Written(notepad_collab[r])
  <2>1. \A t \in Fds, n \in 0 .. MaxRequests : NoText # <<t, n>>
    <3>1. \A x \in Fds \X (0 .. MaxRequests) : NoText # x
      BY RoomsAssumption
    <3> QED BY <3>1
  <2> QED BY <2>1 DEF Init, Written
<1> QED BY <1>1, <1>2 DEF Init, OrderInv, NoResets, Latest, SameOrder

LEMMA OrderInvariant ==
  ASSUME CodesUnique, "rst" \notin Losses
  PROVE  Spec => []OrderInv
<1>1. Init => OrderInv
  BY OrderInit
<1>2. OrderInv /\ UNCHANGED vars => OrderInv'
  BY OrderSame DEF vars, room, net
<1>3. OrderInv /\ CurrentInv /\ UpdateInv /\ Next => OrderInv'
  BY OrderStep DEF Next, Step
<1> QED BY <1>1, <1>2, <1>3, CurrentInvariant, UpdateInvariant, PTL DEF Spec

(***************************************************************************)
(* All who are shown two updates of a room by UpdateClients are shown      *)
(* them in one order, and nobody is shown the first again after the        *)
(* second. A connection that is reset makes its thread handle its last     *)
(* request again, and the order is lost: hence the second hypothesis.      *)
(***************************************************************************)
THEOREM UpdatesComeInOneOrder ==
  CodesUnique /\ "rst" \notin Losses => (Spec => []SameOrder)
<1> SUFFICES ASSUME CodesUnique, "rst" \notin Losses PROVE Spec => []SameOrder
  OBVIOUS
<1>1. OrderInv => SameOrder
  BY DEF OrderInv
<1> QED BY <1>1, OrderInvariant, PTL

=============================================================================
