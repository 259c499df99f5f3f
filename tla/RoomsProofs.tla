---------------------------- MODULE RoomsProofs ----------------------------
(* What holds of Rooms for every set of clients, rooms and codes. *)
EXTENDS Rooms, TLAPS

(* The points at which a thread has no room, and those at which it has one. *)
Roomless == {"CreateRoom", "scan", "check", "set", "ended"}
Roomed == {"init", "101", "104", "copy", "204", "leave", "clear", "110",
           "lock", "write", "check112", "send112", "cursor", "check113",
           "send113"}

(***************************************************************************)
(* Where a thread is says what its client_joined_room and its locals hold: *)
(* the handlers never follow a null pointer.                               *)
(***************************************************************************)
Place(t) ==
  /\ pc[t] \in Roomless => client_joined_room[t] = 0
  /\ pc[t] \in Roomed => client_joined_room[t] \in Rooms
  /\ pc[t] \in {"recv", "again"} => loc[t] = NoLocals
  /\ pc[t] = "scan" /\ Creating(t) => loc[t].made \in Rooms
  /\ pc[t] \in {"check", "set"} => loc[t].found \in Rooms

TypeInv == TypeOK /\ \A t \in Fds : Place(t)

Step(t) == Receive(t) \/ EndOfStream(t) \/ ReceiveError(t) \/ PeerVanishes(t)
           \/ Work(t)

(* A step of the thread of t leaves the state of the other threads alone. *)
OthersWait(t) ==
  \A u \in Fds \ {t} :
    /\ pc'[u] = pc[u]
    /\ loc'[u] = loc[u]
    /\ arg'[u] = arg[u]
    /\ client_joined_room'[u] = client_joined_room[u]

LEMMA InitTypeInv == Init => TypeInv
  BY RoomsAssumption
     DEF Init, TypeInv, TypeOK, Place, Rooms, Slots, Texts, Requests, Locals,
         NoLocals, Points, Messages, Roomless, Roomed, Creating

(* A send changes only the connection, the log of the client, and up. *)
LEMMA SendToType ==
  ASSUME TypeOK, NEW c \in Fds \cup {undefined}, NEW m \in Messages,
         SendTo(c, m)
  PROVE  /\ up' \in BOOLEAN
         /\ conn' \in [Fds -> {"open", "fin", "rst", "dead"}]
         /\ sent' \in [Fds -> Seq(Messages)]
<1>1. CASE c # undefined /\ conn[c] = "open"
  <2>1. c \in Fds /\ sent[c] \in Seq(Messages)
    BY <1>1 DEF TypeOK
  <2>2. Append(sent[c], m) \in Seq(Messages)
    BY <2>1
  <2>3. sent' = [sent EXCEPT ![c] = Append(sent[c], m)] /\ UNCHANGED <<up, conn>>
    BY <1>1 DEF SendTo
  <2> QED BY <2>1, <2>2, <2>3 DEF TypeOK
<1>2. CASE ~(c # undefined /\ conn[c] = "open")
  <2>1. sent' = sent /\ up' \in {up, FALSE}
    BY <1>2 DEF SendTo
  <2>2. conn' \in {conn, [conn EXCEPT ![c] = "dead"]}
    BY <1>2 DEF SendTo
  <2> QED BY <2>1, <2>2 DEF TypeOK
<1> QED BY <1>1, <1>2

LEMMA ReplyType ==
  ASSUME TypeOK, NEW t \in Fds, NEW r \in 0 .. MaxRooms,
         NEW h \in {"100", "101", "102", "104", "107", "108", "109", "110",
                    "111", "112", "113", "204"},
         Reply(t, h, r)
  PROVE  /\ up' \in BOOLEAN
         /\ conn' \in [Fds -> {"open", "fin", "rst", "dead"}]
         /\ sent' \in [Fds -> Seq(Messages)]
<1>1. [header |-> h, room |-> r, body |-> NoText] \in Messages
  BY DEF Messages, Texts
<1> QED BY <1>1, SendToType DEF Reply

(* What Goto, Return and NextSlot leave behind. *)
LEMMA GotoType ==
  ASSUME TypeOK, NEW t \in Fds, NEW p \in Points, Goto(t, p)
  PROVE  /\ pc' \in [Fds -> Points] /\ pc'[t] = p
         /\ \A u \in Fds \ {t} : pc'[u] = pc[u]
  BY DEF TypeOK, Goto

LEMMA NoLocalsType == NoLocals \in Locals
  BY RoomsAssumption DEF NoLocals, Locals, Texts, Slots

(* The handlers change their locals field by field. *)
LEMMA LocalsSeen ==
  ASSUME NEW l \in Locals, NEW e \in 0 .. MaxRooms
  PROVE  [l EXCEPT !.seen = e] \in Locals
  BY DEF Locals

LEMMA LocalsMade ==
  ASSUME NEW l \in Locals, NEW r \in 0 .. MaxRooms, NEW e \in 0 .. MaxRooms
  PROVE  /\ [l EXCEPT !.made = r, !.seen = e] \in Locals
         /\ [l EXCEPT !.made = r, !.seen = e].made = r
  BY DEF Locals

LEMMA LocalsFound ==
  ASSUME NEW l \in Locals, NEW r \in 0 .. MaxRooms, NEW e \in 0 .. MaxRooms
  PROVE  /\ [l EXCEPT !.found = r, !.seen = e] \in Locals
         /\ [l EXCEPT !.found = r, !.seen = e].found = r
  BY DEF Locals

LEMMA LocalsSlot ==
  ASSUME NEW l \in Locals, NEW s \in Slots
  PROVE  /\ [l EXCEPT !.slot = s] \in Locals
         /\ [l EXCEPT !.slot = s].found = l.found
  BY DEF Locals

LEMMA LocalsCopy ==
  ASSUME NEW l \in Locals, NEW s \in Slots, NEW x \in Texts
  PROVE  /\ [l EXCEPT !.copy = x] \in Locals
         /\ [l EXCEPT !.slot = s, !.copy = x] \in Locals
  BY DEF Locals

LEMMA ReturnType ==
  ASSUME TypeOK, NEW t \in Fds, Return(t)
  PROVE  /\ pc' \in [Fds -> Points] /\ pc'[t] = "recv"
         /\ loc' \in [Fds -> Locals] /\ loc'[t] = NoLocals
         /\ \A u \in Fds \ {t} : pc'[u] = pc[u] /\ loc'[u] = loc[u]
  BY NoLocalsType DEF TypeOK, Return, Goto, Points

LEMMA NextSlotType ==
  ASSUME TypeOK, NEW t \in Fds, NEW again \in Points, NEW done \in Points,
         NextSlot(t, again, done)
  PROVE  /\ pc' \in [Fds -> Points] /\ loc' \in [Fds -> Locals]
         /\ \/ /\ loc[t].slot = 1 /\ pc'[t] = again
               /\ loc'[t] = [loc[t] EXCEPT !.slot = 2]
            \/ loc[t].slot = 2 /\ pc'[t] = done /\ loc'[t] = NoLocals
         /\ \A u \in Fds \ {t} : pc'[u] = pc[u] /\ loc'[u] = loc[u]
<1>1. loc[t] \in Locals /\ loc[t].slot \in {1, 2}
  BY DEF TypeOK, Locals, Slots
<1>2. CASE loc[t].slot = 1
  <2>1. [loc[t] EXCEPT !.slot = 2] \in Locals
    BY <1>1 DEF Locals, Slots
  <2>2. loc' = [loc EXCEPT ![t] = [loc[t] EXCEPT !.slot = 2]] /\ Goto(t, again)
    BY <1>2 DEF NextSlot
  <2> QED BY <1>2, <2>1, <2>2 DEF TypeOK, Goto
<1>3. CASE loc[t].slot = 2
  <2>1. loc' = [loc EXCEPT ![t] = NoLocals] /\ Goto(t, done)
    BY <1>3 DEF NextSlot
  <2> QED BY <1>3, <2>1, NoLocalsType DEF TypeOK, Goto
<1> QED BY <1>1, <1>2, <1>3

(* The place of one thread is all that a step can disturb. *)
LEMMA PlacesStep ==
  ASSUME TypeInv, NEW t \in Fds, OthersWait(t), TypeOK', Place(t)'
  PROVE  TypeInv'
<1> SUFFICES ASSUME NEW u \in Fds \ {t} PROVE Place(u)'
  BY DEF TypeInv
<1>1. Place(u)
  BY DEF TypeInv
<1> QED BY <1>1 DEF Place, OthersWait, Creating

(* A thread that goes on with the next slot keeps its room. *)
LEMMA NextSlotPlace ==
  ASSUME TypeInv, NEW t \in Fds,
         NEW again \in Roomed, NEW done \in {"110", "recv"},
         NextSlot(t, again, done),
         client_joined_room[t] \in Rooms, UNCHANGED <<arg, client_joined_room>>
  PROVE  OthersWait(t) /\ Place(t)'
<1>1. again \in Points /\ done \in Points /\ TypeOK
  BY DEF Roomed, Points, TypeInv
<1>2. \A u \in Fds \ {t} : pc'[u] = pc[u] /\ loc'[u] = loc[u]
  BY <1>1, NextSlotType
<1>3. pc'[t] \in Roomed \/ (pc'[t] = "recv" /\ loc'[t] = NoLocals)
  BY <1>1, NextSlotType DEF Roomed
<1>4. Place(t)'
  BY <1>3 DEF Place, Roomless, Roomed
<1> QED BY <1>2, <1>4 DEF OthersWait

-----------------------------------------------------------------------------
(* The requests: what Handle does, whether the request is new or read again. *)

LEMMA HandleType ==
  ASSUME TypeInv, NEW t \in Fds, pc[t] \in {"recv", "again"},
         arg' \in [Fds -> Requests], Handle(t, arg'[t]),
         \A u \in Fds \ {t} : arg'[u] = arg[u]
  PROVE  TypeInv'
<1> DEFINE req == arg'[t]
           inRoom == client_joined_room[t] # 0
           refusal == Refusal(inRoom, req)
<1> USE RoomsAssumption
<1>1. UNCHANGED <<vector, room, client_joined_room>>
  BY DEF Handle
<1>2. TypeOK /\ Place(t) /\ loc[t] = NoLocals /\ req \in Requests
  BY DEF TypeInv, Place
<1>3. CASE refusal # "none"
  <2>1. refusal \in {"102", "107", "108", "111"}
    BY <1>2, <1>3 DEF Refusal, Requests
  <2>2. Answer(t, refusal, 0)
    BY <1>3 DEF Handle
  <2>3. TypeOK'
    BY <1>1, <1>2, <2>1, <2>2, ReplyType, ReturnType
       DEF Answer, TypeOK, vector, room
  <2>4. OthersWait(t) /\ Place(t)'
    BY <1>1, <1>2, <2>2, ReturnType DEF Answer, OthersWait, Place, Roomless, Roomed
  <2> QED BY <2>3, <2>4, PlacesStep
<1>4. CASE refusal = "none"
  <2>1. UNCHANGED net
    BY <1>4 DEF Handle
  <2>2. CASE req.header = "002" /\ Goto(t, "CreateRoom") /\ UNCHANGED loc
    <3>1. ~inRoom
      BY <1>4, <2>2 DEF Refusal
    <3>2. TypeOK'
      BY <1>1, <1>2, <2>1, <2>2, GotoType DEF TypeOK, vector, room, net, Points
    <3>3. OthersWait(t) /\ Place(t)'
      BY <1>1, <1>2, <2>2, <3>1, GotoType
         DEF OthersWait, Place, Roomless, Roomed, Points
    <3> QED BY <3>2, <3>3, PlacesStep
  <2>3. CASE /\ req.header = "003" /\ Goto(t, "scan")
             /\ loc' = [loc EXCEPT ![t].seen = created]
    <3>1. ~inRoom
      BY <1>4, <2>3 DEF Refusal
    <3>2. loc' \in [Fds -> Locals]
      <4>1. [loc[t] EXCEPT !.seen = created] \in Locals
        BY <1>2, LocalsSeen DEF TypeOK
      <4>2. loc' = [loc EXCEPT ![t] = [loc[t] EXCEPT !.seen = created]]
        BY <2>3
      <4> QED BY <1>2, <4>1, <4>2 DEF TypeOK
    <3>3. TypeOK'
      BY <1>1, <1>2, <2>1, <2>3, <3>2, GotoType
         DEF TypeOK, vector, room, net, Points
    <3>4. OthersWait(t) /\ Place(t)'
      BY <1>1, <1>2, <2>3, <3>1, GotoType
         DEF OthersWait, Place, Roomless, Roomed, Points, Creating, TypeOK
    <3> QED BY <3>3, <3>4, PlacesStep
  <2>4. ASSUME NEW p \in {"leave", "lock", "cursor"},
               inRoom, Goto(t, p), UNCHANGED loc
        PROVE  TypeInv'
    <3>1. TypeOK'
      BY <1>1, <1>2, <2>1, <2>4, GotoType DEF TypeOK, vector, room, net, Points
    <3>2. OthersWait(t) /\ Place(t)'
      BY <1>1, <1>2, <2>4, GotoType
         DEF OthersWait, Place, Roomless, Roomed, Points, TypeOK, Rooms
    <3> QED BY <3>1, <3>2, PlacesStep
  <2>5. CASE req.header \in {"005", "006"} /\ ~inRoom /\ Return(t)
    <3>1. TypeOK'
      BY <1>1, <1>2, <2>1, <2>5, ReturnType DEF TypeOK, vector, room, net
    <3>2. OthersWait(t) /\ Place(t)'
      BY <1>1, <1>2, <2>5, ReturnType DEF OthersWait, Place, Roomless, Roomed
    <3> QED BY <3>1, <3>2, PlacesStep
  <2>6. req.header = "004" => inRoom
    BY <1>4 DEF Refusal
  <2> QED BY <1>4, <2>2, <2>3, <2>4, <2>5, <2>6 DEF Handle
<1> QED BY <1>3, <1>4

-----------------------------------------------------------------------------
(* One lemma for each action, or for each handler. *)

LEMMA ReceiveType ==
  ASSUME TypeInv, NEW t \in Fds, Receive(t)
  PROVE  TypeInv'
<1>1. PICK h \in Headers :
        \E k \in IF h = "003" THEN TypedCodes ELSE {NoRoomCode} :
          LET req == [header |-> h, code |-> k, n |-> arg[t].n + 1]
          IN  arg' = [arg EXCEPT ![t] = req] /\ Handle(t, req)
  BY DEF Receive
<1>2. PICK k \in IF h = "003" THEN TypedCodes ELSE {NoRoomCode} :
        LET req == [header |-> h, code |-> k, n |-> arg[t].n + 1]
        IN  arg' = [arg EXCEPT ![t] = req] /\ Handle(t, req)
  BY <1>1
<1> DEFINE req == [header |-> h, code |-> k, n |-> arg[t].n + 1]
<1>3. k \in Codes \cup {NoRoomCode, BadCode}
  BY DEF TypedCodes, Announced, TypeInv, TypeOK
<1>4. arg[t].n + 1 \in 0 .. MaxRequests
  BY RoomsAssumption DEF Receive, TypeInv, TypeOK, Requests
<1>5. req \in Requests
  BY <1>3, <1>4, RoomsAssumption DEF Requests
<1>6. /\ arg' \in [Fds -> Requests] /\ arg'[t] = req
      /\ \A u \in Fds \ {t} : arg'[u] = arg[u]
  BY <1>2, <1>5 DEF TypeInv, TypeOK
<1>7. Handle(t, arg'[t]) /\ pc[t] = "recv"
  BY <1>2, <1>6 DEF Receive, At
<1> QED BY <1>6, <1>7, HandleType

LEMMA HandleAgainType ==
  ASSUME TypeInv, NEW t \in Fds, HandleAgain(t)
  PROVE  TypeInv'
<1>1. arg' = arg /\ arg \in [Fds -> Requests] /\ pc[t] = "again"
  BY DEF HandleAgain, At, TypeInv, TypeOK
<1>2. Handle(t, arg'[t])
  BY <1>1 DEF HandleAgain
<1> QED BY <1>1, <1>2, HandleType

(* recv returns 0 or -1, or the client vanishes. *)
LEMMA ConnectionType ==
  ASSUME TypeInv, NEW t \in Fds,
         EndOfStream(t) \/ ReceiveError(t) \/ PeerVanishes(t)
  PROVE  TypeInv'
<1> USE RoomsAssumption DEF TypeInv
<1>1. CASE EndOfStream(t)
  <2>1. TypeOK'
    BY <1>1, GotoType DEF EndOfStream, TypeOK, vector, room, net, Points
  <2>2. OthersWait(t) /\ Place(t)'
    BY <1>1, GotoType DEF EndOfStream, TypeOK, OthersWait, Place, Roomless,
                          Roomed, Points
  <2> QED BY <2>1, <2>2, PlacesStep
<1>2. CASE ReceiveError(t)
  <2>1. CASE Crash
    BY <2>1 DEF Crash, vector, room, TypeOK, Place, Creating
  <2>2. CASE /\ pc[t] = "recv"
             /\ conn' = [conn EXCEPT ![t] = "dead"]
             /\ Goto(t, IF arg[t].header = "none" THEN "recv" ELSE "again")
             /\ UNCHANGED <<vector, room, arg, client_joined_room, loc, up, sent>>
    <3>1. PICK p \in {"recv", "again"} : Goto(t, p)
      BY <2>2
    <3>2. TypeOK'
      BY <2>2, <3>1, GotoType DEF TypeOK, vector, room, Points
    <3>3. OthersWait(t) /\ Place(t)'
      BY <2>2, <3>1, GotoType DEF TypeOK, OthersWait, Place, Roomless, Roomed,
                                  Points
    <3> QED BY <3>2, <3>3, PlacesStep
  <2> QED BY <1>2, <2>1, <2>2 DEF ReceiveError, At
<1>3. CASE PeerVanishes(t)
  <2>1. TypeOK'
    BY <1>3 DEF PeerVanishes, vector, room, TypeOK
  <2>2. OthersWait(t) /\ Place(t)'
    BY <1>3 DEF PeerVanishes, OthersWait, Place, Creating
  <2> QED BY <2>1, <2>2, PlacesStep
<1> QED BY <1>1, <1>2, <1>3

(* 002 and 003. *)
LEMMA CreateType ==
  ASSUME TypeInv, NEW t \in Fds, CreateRoom(t)
  PROVE  TypeInv'
<1> USE RoomsAssumption DEF TypeInv
<1>1. created + 1 \in Rooms /\ loc[t] \in Locals
  BY DEF CreateRoom, TypeOK, Rooms
<1>2. code' \in [Rooms -> Codes \cup {NoRoomCode}] /\ created' \in 0 .. MaxRooms
  BY <1>1 DEF CreateRoom, TypeOK, Rooms
<1> DEFINE l == [loc[t] EXCEPT !.made = created + 1, !.seen = created + 1]
<1>3. l \in Locals /\ l.made = created + 1
  <2>1. created + 1 \in 0 .. MaxRooms
    BY <1>1 DEF Rooms
  <2> QED BY <1>1, <2>1, LocalsMade
<1>4. loc' = [loc EXCEPT ![t] = l]
  BY DEF CreateRoom
<1>5. loc' \in [Fds -> Locals] /\ loc'[t].made \in Rooms
      /\ \A u \in Fds \ {t} : loc'[u] = loc[u]
  BY <1>1, <1>3, <1>4 DEF TypeOK
<1>6. TypeOK'
  BY <1>2, <1>5, GotoType DEF CreateRoom, TypeOK, room, net, Points
<1>7. OthersWait(t) /\ Place(t)'
  BY <1>5, GotoType DEF CreateRoom, At, TypeOK, OthersWait, Place, Roomless,
                        Roomed, Points
<1> QED BY <1>6, <1>7, PlacesStep

LEMMA JoinRefusedType ==
  ASSUME TypeInv, NEW t \in Fds, JoinRefused(t), client_joined_room[t] = 0,
         UNCHANGED <<vector, room, arg, client_joined_room>>
  PROVE  TypeInv'
<1> USE RoomsAssumption DEF TypeInv
<1>1. Return(t) /\ Reply(t, IF Creating(t) THEN "100" ELSE "109", 0)
  BY DEF JoinRefused, Answer
<1>2. TypeOK'
  BY <1>1, ReplyType, ReturnType DEF TypeOK, vector, room
<1>3. OthersWait(t) /\ Place(t)'
  BY <1>1, ReturnType DEF OthersWait, Place, Roomless, Roomed
<1> QED BY <1>2, <1>3, PlacesStep

LEMMA JoinType ==
  ASSUME TypeInv, NEW t \in Fds, JoinScan(t) \/ JoinCheck(t) \/ JoinSet(t)
  PROVE  TypeInv'
<1> USE RoomsAssumption DEF TypeInv
<1>0. loc[t] \in Locals /\ TypeOK /\ Place(t)
  BY DEF TypeOK
<1>1. CASE JoinScan(t)
  <2>1. pc[t] = "scan" /\ client_joined_room[t] = 0
    BY <1>0, <1>1 DEF JoinScan, At, Place, Roomless
  <2>2. CASE Crash
    BY <2>2 DEF Crash, vector, room, TypeOK, Place, Creating
  <2>3. CASE JoinRefused(t) /\ UNCHANGED <<vector, room, arg, client_joined_room>>
    BY <2>1, <2>3, JoinRefusedType
  <2>4. ASSUME NEW r \in LastMatch(t),
               loc' = [loc EXCEPT ![t].found = r, ![t].seen = 0],
               Goto(t, "check"),
               UNCHANGED <<vector, room, arg, client_joined_room, net>>
        PROVE  TypeInv'
    <3>1. r \in Rooms /\ r \in 0 .. MaxRooms /\ 0 \in 0 .. MaxRooms
      BY <1>0 DEF LastMatch, Matches, Rooms, TypeOK
    <3> DEFINE l == [loc[t] EXCEPT !.found = r, !.seen = 0]
    <3>2. l \in Locals /\ l.found = r
      BY <1>0, <3>1, LocalsFound
    <3>3. loc' = [loc EXCEPT ![t] = l]
      BY <2>4
    <3>4. /\ loc' \in [Fds -> Locals] /\ loc'[t].found \in Rooms
          /\ \A u \in Fds \ {t} : loc'[u] = loc[u]
      BY <3>1, <3>2, <3>3 DEF TypeOK
    <3>5. TypeOK'
      BY <2>4, <3>4, GotoType DEF TypeOK, vector, room, net, Points
    <3>6. OthersWait(t) /\ Place(t)'
      BY <2>1, <2>4, <3>4, GotoType DEF OthersWait, Place, Roomless, Roomed,
                                        Points
    <3> QED BY <3>5, <3>6, PlacesStep
  <2> QED BY <1>1, <2>2, <2>3, <2>4 DEF JoinScan
<1>2. CASE JoinCheck(t)
  <2>1. /\ pc[t] = "check" /\ client_joined_room[t] = 0 /\ loc[t].found \in Rooms
        /\ UNCHANGED <<vector, room, arg, client_joined_room>>
    BY <1>0, <1>2 DEF JoinCheck, At, Place, Roomless
  <2>2. CASE Goto(t, "set") /\ UNCHANGED <<loc, net>>
    <3>1. TypeOK'
      BY <2>1, <2>2, GotoType DEF TypeOK, vector, room, net, Points
    <3>2. OthersWait(t) /\ Place(t)'
      BY <2>1, <2>2, GotoType DEF OthersWait, Place, Roomless, Roomed, Points
    <3> QED BY <3>1, <3>2, PlacesStep
  <2>3. CASE loc' = [loc EXCEPT ![t].slot = 2] /\ UNCHANGED <<pc, net>>
    <3> DEFINE l == [loc[t] EXCEPT !.slot = 2]
    <3>1. l \in Locals /\ l.found = loc[t].found
      <4>1. 2 \in Slots
        BY DEF Slots
      <4> QED BY <1>0, <4>1, LocalsSlot
    <3>2. loc' = [loc EXCEPT ![t] = l]
      BY <2>3
    <3>3. /\ loc' \in [Fds -> Locals] /\ loc'[t].found \in Rooms
          /\ \A u \in Fds \ {t} : loc'[u] = loc[u]
      BY <2>1, <3>1, <3>2 DEF TypeOK
    <3>4. TypeOK'
      BY <2>1, <2>3, <3>3 DEF TypeOK, vector, room, net
    <3>5. OthersWait(t) /\ Place(t)'
      BY <2>1, <2>3, <3>3 DEF OthersWait, Place, Roomless, Roomed
    <3> QED BY <3>4, <3>5, PlacesStep
  <2>4. CASE JoinRefused(t)
    BY <2>1, <2>4, JoinRefusedType
  <2> QED BY <1>2, <2>2, <2>3, <2>4 DEF JoinCheck
<1>3. CASE JoinSet(t)
  <2>1. pc[t] = "set" /\ loc[t].found \in Rooms /\ loc[t].slot \in Slots
    BY <1>0, <1>3 DEF JoinSet, At, Place, Locals
  <2>2. PICK p \in {"init", "104"} : Goto(t, p)
    BY <1>3 DEF JoinSet
  <2>3. TypeOK'
    BY <1>3, <2>1, <2>2, GotoType
       DEF JoinSet, TypeOK, vector, net, Points, Rooms
  <2>4. OthersWait(t) /\ Place(t)'
    BY <1>3, <2>1, <2>2, GotoType
       DEF JoinSet, TypeOK, OthersWait, Place, Roomless, Roomed, Points
  <2> QED BY <2>3, <2>4, PlacesStep
<1> QED BY <1>1, <1>2, <1>3

(* What the handlers of 002 and 003 do once the room has been joined. *)
LEMMA JoinedType ==
  ASSUME TypeInv, NEW t \in Fds,
         SetInitialText(t) \/ ReplyCreated(t) \/ ReplyJoined(t) \/ SendNotepad(t)
  PROVE  TypeInv'
<1> USE RoomsAssumption DEF TypeInv
<1>0. TypeOK /\ Place(t) /\ Text(t) \in Texts /\ loc[t].copy \in Texts
  BY DEF TypeOK, Text, Texts, Requests, Locals
<1>1. CASE SetInitialText(t)
  <2>1. CASE Crash
    BY <2>1 DEF Crash, vector, room, TypeOK, Place, Creating
  <2>2. CASE ~Crash
    <3>0. /\ Goto(t, "101") /\ "101" \in Points
          /\ notepad_collab' = [notepad_collab EXCEPT
                                  ![client_joined_room[t]] = Text(t)]
          /\ UNCHANGED <<vector, client_fd, cursor_pos, notepad_collab_i, arg,
                         client_joined_room, loc, net>>
      BY <1>1, <2>2 DEF SetInitialText, Points
    <3>1. TypeOK'
      BY <1>0, <3>0, GotoType DEF TypeOK, vector, net
    <3>2. OthersWait(t) /\ Place(t)'
      BY <1>0, <1>1, <2>2, GotoType DEF SetInitialText, At, OthersWait, Place,
                                        Roomless, Roomed, Points
    <3> QED BY <3>1, <3>2, PlacesStep
  <2> QED BY <2>1, <2>2
<1>2. CASE ReplyCreated(t)
  <2>1. Reply(t, "101", client_joined_room[t]) /\ Return(t)
    BY <1>2 DEF ReplyCreated, Answer
  <2>2. client_joined_room[t] \in 0 .. MaxRooms
    BY <1>0 DEF TypeOK
  <2>3. TypeOK'
    BY <1>0, <1>2, <2>1, <2>2, ReplyType, ReturnType
       DEF ReplyCreated, TypeOK, vector, room
  <2>4. OthersWait(t) /\ Place(t)'
    BY <1>0, <1>2, <2>1, ReturnType
       DEF ReplyCreated, OthersWait, Place, Roomless, Roomed
  <2> QED BY <2>3, <2>4, PlacesStep
<1>3. CASE ReplyJoined(t)
  <2>1. client_joined_room[t] \in 0 .. MaxRooms
    BY <1>0 DEF TypeOK
  <2>2. TypeOK'
    BY <1>0, <1>3, <2>1, ReplyType, GotoType
       DEF ReplyJoined, TypeOK, vector, room, Points
  <2>3. OthersWait(t) /\ Place(t)'
    BY <1>0, <1>3, GotoType
       DEF ReplyJoined, At, OthersWait, Place, Roomless, Roomed, Points
  <2> QED BY <2>2, <2>3, PlacesStep
<1>4. CASE SendNotepad(t)
  <2> DEFINE m == [header |-> "204", room |-> client_joined_room[t],
                   body |-> loc[t].copy]
  <2>1. m \in Messages
    BY <1>0 DEF TypeOK, Messages
  <2>2. SendTo(t, m) /\ Return(t)
    BY <1>4 DEF SendNotepad
  <2>3. TypeOK'
    BY <1>0, <1>4, <2>1, <2>2, SendToType, ReturnType
       DEF SendNotepad, TypeOK, vector, room
  <2>4. OthersWait(t) /\ Place(t)'
    BY <1>0, <1>4, <2>2, ReturnType
       DEF SendNotepad, OthersWait, Place, Roomless, Roomed
  <2> QED BY <2>3, <2>4, PlacesStep
<1> QED BY <1>1, <1>2, <1>3, <1>4

LEMMA CopyType ==
  ASSUME TypeInv, NEW t \in Fds, CopyNotepad(t)
  PROVE  TypeInv'
<1> USE RoomsAssumption DEF TypeInv
<1>1. CASE Crash
  BY <1>1 DEF Crash, vector, room, TypeOK, Place, Creating
<1>2. CASE ~Crash
  <2> DEFINE r == client_joined_room[t]
  <2>1. pc[t] = "copy" /\ r \in Rooms /\ loc[t] \in Locals
    BY DEF CopyNotepad, At, Place, Roomed, TypeOK
  <2>2. PICK x \in {notepad_collab[r], Torn} :
          loc' = [loc EXCEPT ![t].copy = x]
    BY <1>2 DEF CopyNotepad
  <2>3. x \in Texts
    BY <2>1, <2>2 DEF TypeOK, Texts
  <2>4. [loc[t] EXCEPT !.copy = x] \in Locals
    <3>1. 1 \in Slots
      BY DEF Slots
    <3> QED BY <2>1, <2>3, <3>1, LocalsCopy
  <2>5. loc' = [loc EXCEPT ![t] = [loc[t] EXCEPT !.copy = x]]
    BY <2>2
  <2>6. loc' \in [Fds -> Locals] /\ \A u \in Fds \ {t} : loc'[u] = loc[u]
    BY <2>4, <2>5 DEF TypeOK
  <2>7. PICK p \in {"check112", "204"} : Goto(t, p)
    BY <1>2 DEF CopyNotepad
  <2>8. UNCHANGED <<vector, room, arg, client_joined_room, net>>
    BY <1>2 DEF CopyNotepad
  <2>9. TypeOK'
    BY <2>6, <2>7, <2>8, GotoType DEF TypeOK, vector, room, net, Points
  <2>10. OthersWait(t) /\ Place(t)'
    BY <2>1, <2>6, <2>7, <2>8, GotoType
       DEF OthersWait, Place, Roomless, Roomed, Points
  <2> QED BY <2>9, <2>10, PlacesStep
<1> QED BY <1>1, <1>2

(* 004. *)
LEMMA LeaveType ==
  ASSUME TypeInv, NEW t \in Fds, LeaveCheck(t) \/ LeaveClear(t) \/ LeaveReply(t)
  PROVE  TypeInv'
<1> USE RoomsAssumption DEF TypeInv
<1>0. TypeOK /\ Place(t) /\ {"leave", "clear", "110"} \subseteq Points
  BY DEF Points
<1>1. CASE LeaveCheck(t)
  <2>1. client_joined_room[t] \in Rooms
        /\ UNCHANGED <<vector, room, arg, client_joined_room, net>>
    BY <1>0, <1>1 DEF LeaveCheck, At, Place, Roomed
  <2>2. CASE Goto(t, "clear") /\ UNCHANGED loc
    <3>1. TypeOK'
      BY <2>1, <2>2, GotoType DEF TypeOK, vector, room, net, Points
    <3>2. OthersWait(t) /\ Place(t)'
      BY <2>1, <2>2, GotoType DEF OthersWait, Place, Roomless, Roomed, Points
    <3> QED BY <3>1, <3>2, PlacesStep
  <2>3. CASE NextSlot(t, "leave", "110")
    <3>1. TypeOK'
      BY <1>0, <2>1, <2>3, NextSlotType DEF TypeOK, vector, room, net
    <3>2. OthersWait(t) /\ Place(t)'
      BY <2>1, <2>3, NextSlotPlace DEF Roomed
    <3> QED BY <3>1, <3>2, PlacesStep
  <2> QED BY <1>1, <2>2, <2>3 DEF LeaveCheck
<1>2. CASE LeaveClear(t)
  <2>1. /\ client_joined_room[t] \in Rooms
        /\ client_fd' \in [Rooms -> [Slots -> Fds \cup {undefined}]]
    BY <1>0, <1>2 DEF LeaveClear, At, Place, Roomed, TypeOK
  <2>2. NextSlot(t, "leave", "110")
    BY <1>2 DEF LeaveClear
  <2>3. TypeOK'
    BY <1>0, <1>2, <2>1, <2>2, NextSlotType
       DEF LeaveClear, TypeOK, vector, net
  <2>4. OthersWait(t) /\ Place(t)'
    BY <1>2, <2>1, <2>2, NextSlotPlace DEF LeaveClear, Roomed
  <2> QED BY <2>3, <2>4, PlacesStep
<1>3. CASE LeaveReply(t)
  <2>1. Reply(t, "110", 0) /\ Return(t)
    BY <1>3 DEF LeaveReply, Answer
  <2>2. TypeOK'
    BY <1>0, <1>3, <2>1, ReplyType, ReturnType
       DEF LeaveReply, TypeOK, vector, room
  <2>3. OthersWait(t) /\ Place(t)'
    BY <1>0, <1>3, <2>1, ReturnType
       DEF LeaveReply, TypeOK, OthersWait, Place, Roomless, Roomed
  <2> QED BY <2>2, <2>3, PlacesStep
<1> QED BY <1>1, <1>2, <1>3

(* 005. *)
LEMMA WriteType ==
  ASSUME TypeInv, NEW t \in Fds, LockNotepad(t) \/ WriteNotepad(t)
  PROVE  TypeInv'
<1> USE RoomsAssumption DEF TypeInv
<1>0. TypeOK /\ Place(t) /\ Text(t) \in Texts
  BY DEF TypeOK, Text, Texts, Requests
<1>1. CASE LockNotepad(t)
  <2>1. TypeOK'
    BY <1>0, <1>1, GotoType DEF LockNotepad, TypeOK, vector, net, Points
  <2>2. OthersWait(t) /\ Place(t)'
    BY <1>0, <1>1, GotoType
       DEF LockNotepad, At, OthersWait, Place, Roomless, Roomed, Points
  <2> QED BY <2>1, <2>2, PlacesStep
<1>2. CASE WriteNotepad(t)
  <2>1. CASE Crash
    BY <2>1 DEF Crash, vector, room, TypeOK, Place, Creating
  <2>2. CASE ~Crash
    <3>1. /\ Goto(t, "copy") /\ "copy" \in Points
          /\ notepad_collab' = [notepad_collab EXCEPT
                                  ![client_joined_room[t]] = Text(t)]
          /\ UNCHANGED <<vector, client_fd, cursor_pos, notepad_collab_i, arg,
                         client_joined_room, loc, net>>
      BY <1>2, <2>2 DEF WriteNotepad, Points
    <3>2. TypeOK'
      BY <1>0, <3>1, GotoType DEF TypeOK, vector, net
    <3>3. OthersWait(t) /\ Place(t)'
      BY <1>0, <1>2, <3>1, GotoType
         DEF WriteNotepad, At, OthersWait, Place, Roomless, Roomed, Points
    <3> QED BY <3>2, <3>3, PlacesStep
  <2> QED BY <2>1, <2>2
<1> QED BY <1>1, <1>2

LEMMA UpdateType ==
  ASSUME TypeInv, NEW t \in Fds, UpdateCheck(t) \/ UpdateSend(t)
  PROVE  TypeInv'
<1> USE RoomsAssumption DEF TypeInv
<1> DEFINE r == client_joined_room[t]
<1>0. /\ TypeOK /\ {"check112", "send112", "recv"} \subseteq Points
      /\ loc[t].slot \in Slots /\ loc[t].copy \in Texts
  BY DEF Points, TypeOK, Locals
<1>1. /\ r \in Rooms
      /\ UNCHANGED <<vector, client_fd, cursor_pos, notepad_collab, arg,
                     client_joined_room>>
  BY DEF UpdateCheck, UpdateSend, At, Place, Roomed
<1>2. NextUpdate(t) => /\ NextSlot(t, "check112", "recv")
                       /\ notepad_collab_i' \in [Rooms -> Fds \cup {undefined}]
  BY <1>0, <1>1 DEF NextUpdate, TypeOK
<1>3. CASE UpdateCheck(t)
  <2>1. CASE Goto(t, "send112") /\ UNCHANGED <<loc, notepad_collab_i>>
    <3>1. TypeOK'
      BY <1>0, <1>1, <1>3, <2>1, GotoType DEF UpdateCheck, TypeOK, vector, net
    <3>2. OthersWait(t) /\ Place(t)'
      BY <1>0, <1>1, <2>1, GotoType DEF OthersWait, Place, Roomless, Roomed
    <3> QED BY <3>1, <3>2, PlacesStep
  <2>2. CASE NextUpdate(t)
    <3>0. /\ pc' \in [Fds -> Points] /\ loc' \in [Fds -> Locals]
          /\ UNCHANGED net
      BY <1>0, <1>2, <1>3, <2>2, NextSlotType DEF UpdateCheck
    <3>1. TypeOK'
      BY <1>1, <1>2, <2>2, <3>0 DEF TypeOK, vector, net
    <3>2. OthersWait(t) /\ Place(t)'
      BY <1>1, <1>2, <2>2, NextSlotPlace DEF Roomed
    <3> QED BY <3>1, <3>2, PlacesStep
  <2> QED BY <1>3, <2>1, <2>2 DEF UpdateCheck
<1>4. CASE UpdateSend(t)
  <2> DEFINE m == [header |-> "112", room |-> r, body |-> loc[t].copy]
  <2>1. m \in Messages /\ client_fd[r][loc[t].slot] \in Fds \cup {undefined}
    BY <1>0, <1>1 DEF TypeOK, Messages
  <2>2. SendTo(client_fd[r][loc[t].slot], m) /\ NextUpdate(t)
    BY <1>4 DEF UpdateSend
  <2>3. TypeOK'
    BY <1>0, <1>1, <1>2, <2>1, <2>2, SendToType, NextSlotType
       DEF TypeOK, vector
  <2>4. OthersWait(t) /\ Place(t)'
    BY <1>1, <1>2, <2>2, NextSlotPlace DEF Roomed
  <2> QED BY <2>3, <2>4, PlacesStep
<1> QED BY <1>3, <1>4

(* 006. *)
LEMMA CursorType ==
  ASSUME TypeInv, NEW t \in Fds, SetCursor(t) \/ CursorCheck(t) \/ CursorSend(t)
  PROVE  TypeInv'
<1> USE RoomsAssumption DEF TypeInv
<1> DEFINE r == client_joined_room[t]
           s == loc[t].slot
<1>0. /\ TypeOK /\ {"check113", "send113", "recv"} \subseteq Points
      /\ s \in Slots /\ loc[t] \in Locals /\ loc[t].copy \in Texts
      /\ NoText \in Texts /\ Text(t) \in Texts /\ 2 \in Slots /\ Other(s) \in Slots
  <2>1. loc[t] \in Locals /\ s \in Slots /\ loc[t].copy \in Texts
    BY DEF TypeOK, Locals
  <2>2. NoText \in Texts /\ Text(t) \in Texts
    BY DEF TypeOK, Texts, Text, Requests
  <2>3. 2 \in Slots /\ Other(s) \in Slots
    BY <2>1 DEF Slots, Other
  <2> QED BY <2>1, <2>2, <2>3 DEF Points
<1>1. r \in Rooms /\ UNCHANGED <<vector, arg, client_joined_room>>
  <2>1. pc[t] \in {"cursor", "check113", "send113"}
    BY DEF SetCursor, CursorCheck, CursorSend, At
  <2>2. UNCHANGED <<vector, arg, client_joined_room>>
    BY DEF SetCursor, CursorCheck, CursorSend
  <2> QED BY <2>1, <2>2 DEF Place, Roomed
<1>2. CASE SetCursor(t)
  <2>1. cursor_pos' \in [Rooms -> [Slots -> Texts]]
    <3>1. CASE cursor_pos' = cursor_pos
      BY <3>1 DEF TypeOK
    <3>2. CASE \E z \in Slots : cursor_pos' = [cursor_pos EXCEPT ![r][z] = Text(t)]
      BY <1>0, <1>1, <3>2 DEF TypeOK
    <3> DEFINE mine == {z \in Slots : client_fd[r][z] = t}
    <3>3. cursor_pos' =
            IF mine = {} THEN cursor_pos
            ELSE [cursor_pos EXCEPT ![r][IF 1 \in mine THEN 1 ELSE 2] = Text(t)]
      BY <1>2 DEF SetCursor
    <3> HIDE DEF mine
    <3>4. (IF 1 \in mine THEN 1 ELSE 2) \in Slots
      BY DEF Slots
    <3> QED BY <3>1, <3>2, <3>3, <3>4
  <2>2. TypeOK'
    BY <1>0, <1>1, <1>2, <2>1, GotoType DEF SetCursor, TypeOK, vector, net
  <2>3. OthersWait(t) /\ Place(t)'
    BY <1>0, <1>1, <1>2, GotoType
       DEF SetCursor, OthersWait, Place, Roomless, Roomed
  <2> QED BY <2>2, <2>3, PlacesStep
<1>3. CASE CursorCheck(t)
  <2>1. UNCHANGED <<vector, room, arg, client_joined_room, net>>
    BY <1>3 DEF CursorCheck
  <2>2. CASE /\ loc' = [loc EXCEPT ![t].copy = cursor_pos[r][Other(s)]]
             /\ Goto(t, "send113")
    <3>1. cursor_pos[r][Other(s)] \in Texts
      BY <1>0, <1>1 DEF TypeOK
    <3> DEFINE l == [loc[t] EXCEPT !.copy = cursor_pos[r][Other(s)]]
    <3>2. l \in Locals
      BY <1>0, <3>1, LocalsCopy
    <3>3. loc' = [loc EXCEPT ![t] = l]
      BY <2>2
    <3>4. loc' \in [Fds -> Locals] /\ \A u \in Fds \ {t} : loc'[u] = loc[u]
      BY <1>0, <3>2, <3>3 DEF TypeOK
    <3>5. TypeOK'
      BY <1>0, <2>1, <2>2, <3>4, GotoType DEF TypeOK, vector, room, net
    <3>6. OthersWait(t) /\ Place(t)'
      BY <1>0, <1>1, <2>1, <2>2, <3>4, GotoType
         DEF OthersWait, Place, Roomless, Roomed
    <3> QED BY <3>5, <3>6, PlacesStep
  <2>3. CASE NextSlot(t, "check113", "recv")
    <3>1. TypeOK'
      BY <1>0, <2>1, <2>3, NextSlotType DEF TypeOK, vector, room, net
    <3>2. OthersWait(t) /\ Place(t)'
      BY <1>1, <2>3, NextSlotPlace DEF Roomed
    <3> QED BY <3>1, <3>2, PlacesStep
  <2> QED BY <1>3, <2>2, <2>3 DEF CursorCheck
<1>4. CASE CursorSend(t)
  <2> DEFINE m == [header |-> "113", room |-> r, body |-> loc[t].copy]
             l == [loc[t] EXCEPT !.slot = 2, !.copy = NoText]
  <2>1. m \in Messages /\ client_fd[r][s] \in Fds \cup {undefined}
    BY <1>0, <1>1 DEF TypeOK, Messages
  <2>2. SendTo(client_fd[r][s], m) /\ UNCHANGED <<vector, room, arg, client_joined_room>>
    BY <1>4 DEF CursorSend
  <2>3. l \in Locals
    BY <1>0, LocalsCopy
  <2>4. CASE loc' = [loc EXCEPT ![t] = l] /\ Goto(t, "check113")
    <3>1. loc' \in [Fds -> Locals] /\ \A u \in Fds \ {t} : loc'[u] = loc[u]
      BY <1>0, <2>3, <2>4 DEF TypeOK
    <3>2. TypeOK'
      BY <1>0, <2>1, <2>2, <2>4, <3>1, SendToType, GotoType
         DEF TypeOK, vector, room
    <3>3. OthersWait(t) /\ Place(t)'
      BY <1>0, <1>1, <2>2, <2>4, <3>1, GotoType
         DEF OthersWait, Place, Roomless, Roomed
    <3> QED BY <3>2, <3>3, PlacesStep
  <2>5. CASE Return(t)
    <3>1. TypeOK'
      BY <1>0, <2>1, <2>2, <2>5, SendToType, ReturnType DEF TypeOK, vector, room
    <3>2. OthersWait(t) /\ Place(t)'
      BY <1>0, <2>2, <2>5, ReturnType DEF OthersWait, Place, Roomless, Roomed
    <3> QED BY <3>1, <3>2, PlacesStep
  <2>6. \/ loc' = [loc EXCEPT ![t] = l] /\ Goto(t, "check113")
        \/ Return(t)
    BY <1>4 DEF CursorSend
  <2> QED BY <2>4, <2>5, <2>6
<1> QED BY <1>2, <1>3, <1>4

LEMMA TypeInvStep == TypeInv /\ [Next]_vars => TypeInv'
<1>1. TypeInv /\ UNCHANGED vars => TypeInv'
  BY DEF TypeInv, vars, vector, room, net, TypeOK, Place, Creating
<1>2. ASSUME TypeInv, NEW t \in Fds, Work(t) PROVE TypeInv'
  BY <1>2, HandleAgainType, CreateType, JoinType, JoinedType, CopyType,
     LeaveType, WriteType, UpdateType, CursorType DEF Work
<1>3. ASSUME TypeInv, Next PROVE TypeInv'
  BY <1>2, <1>3, ReceiveType, ConnectionType DEF Next
<1> QED BY <1>1, <1>3

(***************************************************************************)
(* Every variable keeps its type, and no handler of a client thread        *)
(* follows a null client_joined_room or uses a local it has not set, for   *)
(* any interleaving of requests, losses and repeated requests.             *)
(***************************************************************************)
THEOREM TypeCorrect == Spec => []TypeInv
  BY InitTypeInv, TypeInvStep, PTL DEF Spec

(***************************************************************************)
(* The types alone: what the rooms, the threads and the connections of     *)
(* ClientThread::operator() can be.                                        *)
(***************************************************************************)
THEOREM TypesHold == Spec => []TypeOK
<1>1. TypeInv => TypeOK
  BY DEF TypeInv
<1> QED BY <1>1, TypeCorrect, PTL

-----------------------------------------------------------------------------
(***************************************************************************)
(* Who sits where.  SlotOwnership and OneSlotEach are not inductive: that  *)
(* leave_room forgets its room only after both slots are cleared needs     *)
(* Leaving, which says how far it has got.                                 *)
(***************************************************************************)
Leaving(t) ==
  /\ pc[t] \in {"leave", "clear"} /\ loc[t].slot = 2 =>
       client_fd[client_joined_room[t]][1] # t
  /\ pc[t] = "110" => \A s \in Slots : client_fd[client_joined_room[t]][s] # t

SeatInv == TypeInv /\ SlotOwnership /\ OneSlotEach /\ \A t \in Fds : Leaving(t)

(* The steps that neither move a client nor leave a room. *)
Elsewhere(t) ==
  /\ UNCHANGED <<client_fd, client_joined_room>>
  /\ pc'[t] = "leave" => /\ pc[t] \in {"recv", "again", "leave"}
                         /\ loc'[t] = loc[t]
  /\ pc'[t] \in {"clear", "110"} => pc'[t] = pc[t] /\ loc'[t] = loc[t]
  /\ (pc[t] = "ended") = (pc'[t] = "ended")

LEMMA HandleElsewhere ==
  ASSUME TypeInv, NEW t \in Fds, NEW req, pc[t] \in {"recv", "again"},
         Handle(t, req)
  PROVE  /\ Elsewhere(t)
         /\ \A u \in Fds \ {t} : pc'[u] = pc[u] /\ loc'[u] = loc[u]
<1>1. UNCHANGED <<client_fd, client_joined_room>>
  BY DEF Handle, room
<1>2. /\ pc \in [Fds -> Points] /\ loc \in [Fds -> Locals]
  BY DEF TypeInv, TypeOK
<1>3. CASE Return(t)
  BY <1>1, <1>2, <1>3 DEF Return, Goto, Elsewhere
<1>4. CASE \E p \in {"CreateRoom", "leave", "lock", "cursor"} :
             Goto(t, p) /\ UNCHANGED loc
  BY <1>1, <1>2, <1>4 DEF Goto, Elsewhere
<1>5. CASE Goto(t, "scan") /\ loc' = [loc EXCEPT ![t].seen = created]
  BY <1>1, <1>2, <1>5 DEF Goto, Elsewhere
<1> QED BY <1>3, <1>4, <1>5 DEF Handle, Answer

(* Every step is one of five that matter here, or happens elsewhere. *)
LEMMA StepCases ==
  ASSUME TypeInv, NEW t \in Fds, Step(t)
  PROVE  /\ \/ JoinSet(t) \/ LeaveCheck(t) \/ LeaveClear(t)
            \/ LeaveReply(t) \/ EndOfStream(t) \/ Elsewhere(t)
         /\ \A u \in Fds \ {t} : /\ pc'[u] = pc[u] /\ loc'[u] = loc[u]
                                  /\ client_joined_room'[u] = client_joined_room[u]
<1>0. /\ pc \in [Fds -> Points] /\ loc \in [Fds -> Locals]
      /\ client_joined_room \in [Fds -> 0 .. MaxRooms]
  BY DEF TypeInv, TypeOK
<1>1. CASE Receive(t) \/ HandleAgain(t)
  <2>1. PICK req : Handle(t, req)
    BY <1>1 DEF Receive, HandleAgain
  <2>2. pc[t] \in {"recv", "again"}
    BY <1>1 DEF Receive, HandleAgain, At
  <2>3. Elsewhere(t) /\ \A u \in Fds \ {t} : pc'[u] = pc[u] /\ loc'[u] = loc[u]
    BY <2>1, <2>2, HandleElsewhere
  <2> QED BY <2>3 DEF Elsewhere
<1>2. CASE EndOfStream(t) \/ JoinSet(t)
  BY <1>0, <1>2 DEF EndOfStream, JoinSet, Goto
<1>3. CASE ReceiveError(t) \/ PeerVanishes(t)
  BY <1>0, <1>3 DEF ReceiveError, PeerVanishes, Crash, Goto, At, Elsewhere, room
<1>4. CASE CreateRoom(t) \/ JoinScan(t) \/ JoinCheck(t)
  BY <1>0, <1>4 DEF CreateRoom, JoinScan, JoinCheck, JoinRefused, Answer, Return,
                    Crash, Goto, At, Elsewhere, room
<1>5. CASE SetInitialText(t) \/ ReplyCreated(t) \/ ReplyJoined(t)
           \/ CopyNotepad(t) \/ SendNotepad(t)
  BY <1>0, <1>5 DEF SetInitialText, ReplyCreated, ReplyJoined, CopyNotepad,
                    SendNotepad, Answer, Return, Crash, Goto, At, Elsewhere, room
<1>6. CASE LeaveCheck(t) \/ LeaveClear(t) \/ LeaveReply(t)
  BY <1>0, <1>6 DEF LeaveCheck, LeaveClear, LeaveReply, NextSlot, Answer,
                    Return, Goto
<1>7. CASE LockNotepad(t) \/ WriteNotepad(t)
  BY <1>0, <1>7 DEF LockNotepad, WriteNotepad, Crash, Goto, At, Elsewhere, room
<1>8. CASE UpdateCheck(t) \/ UpdateSend(t)
  BY <1>0, <1>8 DEF UpdateCheck, UpdateSend, NextUpdate, NextSlot, Goto, At,
                    Elsewhere
<1>9. CASE SetCursor(t) \/ CursorCheck(t) \/ CursorSend(t)
  BY <1>0, <1>9 DEF SetCursor, CursorCheck, CursorSend, NextSlot, Return, Goto,
                    At, Elsewhere, room
<1> QED BY <1>1, <1>2, <1>3, <1>4, <1>5, <1>6, <1>7, <1>8, <1>9 DEF Step, Work

LEMMA SeatStep ==
  ASSUME SeatInv, TypeInv', NEW t \in Fds, Step(t)
  PROVE  SeatInv'
<1> USE RoomsAssumption
<1>0. /\ TypeOK /\ Place(t) /\ Leaving(t)
      /\ client_fd \in [Rooms -> [Slots -> Fds \cup {undefined}]]
      /\ client_joined_room \in [Fds -> 0 .. MaxRooms]
      /\ loc[t] \in Locals /\ loc[t].slot \in {1, 2}
  <2>1. TypeOK /\ Place(t) /\ Leaving(t)
    BY DEF SeatInv, TypeInv
  <2>2. loc[t] \in Locals /\ loc[t].slot \in {1, 2}
    BY <2>1 DEF TypeOK, Locals, Slots
  <2> QED BY <2>1, <2>2 DEF TypeOK
<1>1. \A u \in Fds \ {t} :
        /\ pc'[u] = pc[u] /\ loc'[u] = loc[u]
        /\ client_joined_room'[u] = client_joined_room[u]
  BY StepCases DEF SeatInv
<1>2. CASE Elsewhere(t)
  <2>1. SlotOwnership'
    BY <1>0, <1>1, <1>2 DEF SeatInv, SlotOwnership, Elsewhere
  <2>2. OneSlotEach'
    BY <1>2 DEF SeatInv, OneSlotEach, Elsewhere
  <2>3. \A u \in Fds \ {t} : Leaving(u)'
    BY <1>1, <1>2 DEF SeatInv, Leaving, Elsewhere
  <2>4. Leaving(t)'
    <3>1. loc[t] = NoLocals => loc[t].slot = 1
      BY DEF NoLocals
    <3> QED BY <1>0, <1>2, <3>1 DEF Leaving, Elsewhere, Place
  <2> QED BY <2>1, <2>2, <2>3, <2>4 DEF SeatInv
<1>3. CASE JoinSet(t)
  <2> DEFINE r == loc[t].found
             s == loc[t].slot
  <2>1. /\ pc[t] = "set" /\ client_joined_room[t] = 0 /\ r \in Rooms /\ s \in Slots
        /\ client_fd' = [client_fd EXCEPT ![r][s] = t]
        /\ client_joined_room' = [client_joined_room EXCEPT ![t] = r]
        /\ pc'[t] \in {"init", "104"}
    BY <1>0, <1>3 DEF JoinSet, At, Goto, TypeOK, Place, Roomless, Slots
  <2>2. \A q \in Rooms, z \in Slots : client_fd[q][z] # t
    <3>1. pc[t] # "ended" /\ client_joined_room[t] \notin Rooms /\ t # undefined
      BY <2>1, RoomsAssumption DEF Rooms
    <3> QED BY <3>1 DEF SeatInv, SlotOwnership
  <2>3. /\ client_fd'[r][s] = t
        /\ \A q \in Rooms, z \in Slots :
             q # r \/ z # s => client_fd'[q][z] = client_fd[q][z]
    BY <1>0, <2>1
  <2>4. SlotOwnership'
    BY <1>0, <1>1, <2>1, <2>2, <2>3 DEF SeatInv, SlotOwnership
  <2>5. OneSlotEach'
    BY <1>0, <2>1, <2>2, <2>3 DEF SeatInv, OneSlotEach
  <2>6. Leaving(t)'
    BY <2>1 DEF Leaving
  <2>7. ASSUME NEW u \in Fds \ {t} PROVE Leaving(u)'
    <3>1. Leaving(u) /\ Place(u) /\ t # u
      BY DEF SeatInv, TypeInv
    <3>2. pc[u] \in {"leave", "clear", "110"} => client_joined_room[u] \in Rooms
      BY <3>1 DEF Place, Roomed
    <3>3. ASSUME NEW q \in Rooms, NEW z \in Slots, client_fd[q][z] # u
          PROVE  client_fd'[q][z] # u
      BY <2>3, <3>1, <3>3
    <3>4. 1 \in Slots
      BY DEF Slots
    <3> QED BY <1>1, <3>1, <3>2, <3>3, <3>4 DEF Leaving
  <2> QED BY <2>4, <2>5, <2>6, <2>7 DEF SeatInv
<1>4. CASE LeaveCheck(t)
  <2> DEFINE r == client_joined_room[t]
  <2>1. /\ pc[t] = "leave" /\ UNCHANGED <<client_fd, client_joined_room>>
        /\ IF client_fd[r][loc[t].slot] = t
           THEN Goto(t, "clear") /\ UNCHANGED loc
           ELSE NextSlot(t, "leave", "110")
    BY <1>4 DEF LeaveCheck, At, room
  <2>2. (pc[t] = "ended") = (pc'[t] = "ended")
    BY <1>0, <2>1 DEF NextSlot, Goto, TypeOK
  <2>3. SlotOwnership' /\ OneSlotEach'
    BY <1>0, <1>1, <2>1, <2>2 DEF SeatInv, SlotOwnership, OneSlotEach
  <2>4. \A u \in Fds \ {t} : Leaving(u)'
    BY <1>1, <2>1 DEF SeatInv, Leaving
  <2>5. Leaving(t)'
    <3>1. CASE client_fd[r][loc[t].slot] = t
      BY <1>0, <2>1, <3>1 DEF Leaving, Goto, TypeOK
    <3>2. CASE client_fd[r][loc[t].slot] # t /\ loc[t].slot = 1
      BY <1>0, <2>1, <3>2 DEF Leaving, NextSlot, Goto, TypeOK
    <3>3. CASE client_fd[r][loc[t].slot] # t /\ loc[t].slot = 2
      <4>1. pc'[t] = "110"
        BY <1>0, <2>1, <3>3 DEF NextSlot, Goto, TypeOK
      <4>2. \A s \in Slots : client_fd[r][s] # t
        BY <1>0, <2>1, <3>3 DEF Leaving, Slots
      <4> QED BY <2>1, <4>1, <4>2 DEF Leaving
    <3> QED BY <1>0, <3>1, <3>2, <3>3
  <2> QED BY <2>3, <2>4, <2>5 DEF SeatInv
<1>5. CASE LeaveClear(t)
  <2> DEFINE r == client_joined_room[t]
             s == loc[t].slot
  <2>1. /\ pc[t] = "clear" /\ UNCHANGED client_joined_room
        /\ client_fd' = [client_fd EXCEPT ![r][s] = undefined]
        /\ NextSlot(t, "leave", "110") /\ r \in Rooms /\ s \in Slots
    BY <1>0, <1>5 DEF LeaveClear, At, Place, Roomed, Slots
  <2>2. /\ client_fd'[r][s] = undefined
        /\ \A q \in Rooms, z \in Slots :
             q # r \/ z # s => client_fd'[q][z] = client_fd[q][z]
    BY <1>0, <2>1
  <2>3. (pc[t] = "ended") = (pc'[t] = "ended")
    BY <1>0, <2>1 DEF NextSlot, Goto, TypeOK
  <2>4. SlotOwnership'
    BY <1>0, <1>1, <2>1, <2>2, <2>3 DEF SeatInv, SlotOwnership
  <2>5. OneSlotEach'
    BY <1>0, <2>1, <2>2 DEF SeatInv, OneSlotEach
  <2>6. ASSUME NEW u \in Fds \ {t} PROVE Leaving(u)'
    <3>1. Leaving(u) /\ Place(u) /\ undefined # u
      BY DEF SeatInv, TypeInv
    <3>2. pc[u] \in {"leave", "clear", "110"} => client_joined_room[u] \in Rooms
      BY <3>1 DEF Place, Roomed
    <3>3. ASSUME NEW q \in Rooms, NEW z \in Slots, client_fd[q][z] # u
          PROVE  client_fd'[q][z] # u
      BY <2>2, <3>1, <3>3
    <3>4. 1 \in Slots
      BY DEF Slots
    <3> QED BY <1>1, <2>1, <3>1, <3>2, <3>3, <3>4 DEF Leaving
  <2>7. Leaving(t)'
    <3>1. CASE s = 1
      <4>1. pc'[t] = "leave" /\ client_fd'[r][1] # t
        BY <1>0, <2>1, <2>2, <3>1 DEF NextSlot, Goto, TypeOK
      <4> QED BY <2>1, <4>1 DEF Leaving
    <3>2. CASE s = 2
      <4>1. pc'[t] = "110"
        BY <1>0, <2>1, <3>2 DEF NextSlot, Goto, TypeOK
      <4>2. client_fd'[r][1] # t /\ client_fd'[r][2] # t
        BY <1>0, <2>1, <2>2, <3>2 DEF Leaving, Slots
      <4> QED BY <2>1, <4>1, <4>2 DEF Leaving, Slots
    <3> QED BY <1>0, <3>1, <3>2
  <2> QED BY <2>4, <2>5, <2>6, <2>7 DEF SeatInv
<1>6. CASE LeaveReply(t)
  <2>1. /\ pc[t] = "110" /\ UNCHANGED client_fd /\ pc'[t] = "recv"
        /\ client_joined_room' = [client_joined_room EXCEPT ![t] = 0]
    BY <1>0, <1>6 DEF LeaveReply, At, Answer, Return, Goto, TypeOK, room
  <2>2. \A q \in Rooms, z \in Slots : client_fd[q][z] # t
    BY <1>0, <2>1 DEF SeatInv, SlotOwnership, Leaving
  <2>3. SlotOwnership' /\ OneSlotEach'
    BY <1>0, <1>1, <2>1, <2>2 DEF SeatInv, SlotOwnership, OneSlotEach
  <2>4. \A u \in Fds \ {t} : Leaving(u)'
    BY <1>1, <2>1 DEF SeatInv, Leaving
  <2>5. Leaving(t)'
    BY <2>1 DEF Leaving
  <2> QED BY <2>3, <2>4, <2>5 DEF SeatInv
<1>7. CASE EndOfStream(t)
  <2>1. SlotOwnership'
    BY <1>0, <1>1, <1>7 DEF SeatInv, SlotOwnership, EndOfStream, Goto, TypeOK, room
  <2>2. OneSlotEach'
    BY <1>7 DEF SeatInv, OneSlotEach, EndOfStream, room
  <2>3. \A u \in Fds : Leaving(u)'
    BY <1>0, <1>1, <1>7 DEF SeatInv, Leaving, EndOfStream, Goto, TypeOK, room
  <2> QED BY <2>1, <2>2, <2>3 DEF SeatInv
<1> QED BY <1>2, <1>3, <1>4, <1>5, <1>6, <1>7, StepCases DEF SeatInv

LEMMA SeatInvariant == Spec => []SeatInv
<1>1. Init => SeatInv
  BY InitTypeInv, RoomsAssumption
     DEF Init, SeatInv, SlotOwnership, OneSlotEach, Leaving
<1>2. SeatInv /\ UNCHANGED vars => SeatInv'
  BY TypeInvStep DEF SeatInv, SlotOwnership, OneSlotEach, Leaving, vars, room
<1>3. SeatInv /\ Next => SeatInv'
  <2> SUFFICES ASSUME SeatInv, Next PROVE SeatInv'
    OBVIOUS
  <2>1. TypeInv'
    BY TypeInvStep DEF SeatInv
  <2>2. PICK t \in Fds : Step(t)
    BY DEF Next, Step
  <2> QED BY <2>1, <2>2, SeatStep
<1> QED BY <1>1, <1>2, <1>3, PTL DEF Spec

(***************************************************************************)
(* A descriptor stands in a slot of a room only while its own thread       *)
(* takes that room for the one it has joined, or has ended: what the two   *)
(* writes of JoinRoom and the comparisons of leave_room amount to,         *)
(* although no mutex holds them together.                                  *)
(***************************************************************************)
THEOREM SlotsAreOwned == Spec => []SlotOwnership
<1>1. SeatInv => SlotOwnership
  BY DEF SeatInv
<1> QED BY <1>1, SeatInvariant, PTL

(***************************************************************************)
(* A client holds at most one slot of all the rooms: the nullptr tests of  *)
(* 002 and 003 and the two clearings of leave_room leave no second one.    *)
(***************************************************************************)
THEOREM OneSlotForEach == Spec => []OneSlotEach
<1>1. SeatInv => OneSlotEach
  BY DEF SeatInv
<1> QED BY <1>1, SeatInvariant, PTL

-----------------------------------------------------------------------------
(***************************************************************************)
(* Updates are one at a time.  That a thread which builds its 204 is not   *)
(* taken for one that builds a 112 needs the request it is answering.      *)
(***************************************************************************)
Entering == {"CreateRoom", "scan", "check", "set", "104"}

UpdateInv ==
  /\ TypeInv
  /\ \A t \in Fds : /\ InUpdate(t) => notepad_collab_i[client_joined_room[t]] = t
                    /\ pc[t] \in Entering => arg[t].header # "005"

(* The steps that neither take nor release a mutex. *)
Unlocked(t) ==
  /\ UNCHANGED notepad_collab_i
  /\ InUpdate(t)' => InUpdate(t) /\ client_joined_room'[t] = client_joined_room[t]
  /\ pc'[t] \in Entering => arg'[t].header # "005"

LEMMA HandleUnlocked ==
  ASSUME TypeInv, NEW t \in Fds, Handle(t, arg'[t])
  PROVE  /\ Unlocked(t) /\ client_joined_room' = client_joined_room
         /\ \A u \in Fds \ {t} : pc'[u] = pc[u]
<1>1. UNCHANGED <<notepad_collab_i, client_joined_room>> /\ pc \in [Fds -> Points]
  BY DEF Handle, room, TypeInv, TypeOK
<1>2. CASE \E p \in {"recv", "leave", "lock", "cursor"} : Goto(t, p)
  BY <1>1, <1>2 DEF Goto, Unlocked, InUpdate, Entering
<1>3. CASE /\ arg'[t].header \in {"002", "003"}
           /\ \E p \in {"CreateRoom", "scan"} : Goto(t, p)
  BY <1>1, <1>3 DEF Goto, Unlocked, InUpdate, Entering
<1> QED BY <1>2, <1>3 DEF Handle, Answer, Return

LEMMA LockCases ==
  ASSUME UpdateInv, NEW t \in Fds, Step(t)
  PROVE  /\ LockNotepad(t) \/ UpdateCheck(t) \/ UpdateSend(t) \/ Unlocked(t)
         /\ \A u \in Fds \ {t} : /\ pc'[u] = pc[u] /\ arg'[u] = arg[u]
                                  /\ client_joined_room'[u] = client_joined_room[u]
<1>0. /\ pc \in [Fds -> Points] /\ arg \in [Fds -> Requests]
      /\ client_joined_room \in [Fds -> 0 .. MaxRooms]
      /\ pc[t] \in Entering => arg[t].header # "005"
  BY DEF UpdateInv, TypeInv, TypeOK
<1>1. CASE Receive(t) \/ HandleAgain(t)
  <2>1. PICK req : Handle(t, req) /\ arg' = [arg EXCEPT ![t] = req]
    BY <1>0, <1>1 DEF Receive, HandleAgain
  <2>2. arg'[t] = req /\ \A u \in Fds \ {t} : arg'[u] = arg[u]
    BY <1>0, <2>1
  <2> QED BY <2>1, <2>2, HandleUnlocked DEF UpdateInv
<1>2. CASE EndOfStream(t) \/ JoinSet(t)
  BY <1>0, <1>2 DEF EndOfStream, JoinSet, At, Goto, room, Unlocked, InUpdate,
                    Entering
<1>3. CASE ReceiveError(t) \/ PeerVanishes(t)
  BY <1>0, <1>3 DEF ReceiveError, PeerVanishes, Crash, At, Goto, room, Unlocked,
                    InUpdate, Entering
<1>4. CASE CreateRoom(t) \/ JoinScan(t) \/ JoinCheck(t)
  BY <1>0, <1>4 DEF CreateRoom, JoinScan, JoinCheck, JoinRefused, Answer, Return,
                    Crash, At, Goto, room, Unlocked, InUpdate, Entering
<1>5. CASE SetInitialText(t) \/ ReplyCreated(t) \/ ReplyJoined(t)
           \/ SendNotepad(t)
  BY <1>0, <1>5 DEF SetInitialText, ReplyCreated, ReplyJoined, SendNotepad,
                    Answer, Return, Crash, At, Goto, room, Unlocked, InUpdate,
                    Entering
<1>6. CASE CopyNotepad(t) \/ WriteNotepad(t)
  BY <1>0, <1>6 DEF CopyNotepad, WriteNotepad, Crash, At, Goto, room, Unlocked,
                    InUpdate, Entering
<1>7. CASE LeaveCheck(t) \/ LeaveClear(t) \/ LeaveReply(t)
  BY <1>0, <1>7 DEF LeaveCheck, LeaveClear, LeaveReply, NextSlot, Answer, Return,
                    Goto, room, Unlocked, InUpdate, Entering
<1>8. CASE LockNotepad(t) \/ UpdateCheck(t) \/ UpdateSend(t)
  BY <1>0, <1>8 DEF LockNotepad, UpdateCheck, UpdateSend, NextUpdate, NextSlot,
                    Goto
<1>9. CASE SetCursor(t) \/ CursorCheck(t) \/ CursorSend(t)
  BY <1>0, <1>9 DEF SetCursor, CursorCheck, CursorSend, NextSlot, Return, Goto,
                    room, Unlocked, InUpdate, Entering
<1> QED BY <1>1, <1>2, <1>3, <1>4, <1>5, <1>6, <1>7, <1>8, <1>9 DEF Step, Work

LEMMA UpdateStep ==
  ASSUME UpdateInv, TypeInv', NEW t \in Fds, Step(t)
  PROVE  UpdateInv'
<1> USE RoomsAssumption
<1> DEFINE r == client_joined_room[t]
<1>0. /\ TypeOK /\ Place(t)
      /\ notepad_collab_i \in [Rooms -> Fds \cup {undefined}]
      /\ pc \in [Fds -> Points] /\ loc[t].slot \in {1, 2}
  <2>1. TypeOK /\ Place(t)
    BY DEF UpdateInv, TypeInv
  <2>2. loc[t] \in Locals /\ loc[t].slot \in {1, 2}
    BY <2>1 DEF TypeOK, Locals, Slots
  <2> QED BY <2>1, <2>2 DEF TypeOK
<1>1. \A u \in Fds \ {t} : /\ pc'[u] = pc[u] /\ arg'[u] = arg[u]
                           /\ client_joined_room'[u] = client_joined_room[u]
  BY LockCases
<1>2. \A u \in Fds \ {t} : /\ InUpdate(u)' = InUpdate(u)
                           /\ pc'[u] \in Entering => arg'[u].header # "005"
  BY <1>1 DEF InUpdate, UpdateInv
<1>3. \A u \in Fds : InUpdate(u) => /\ client_joined_room[u] \in Rooms
                                    /\ notepad_collab_i[client_joined_room[u]] = u
  BY DEF UpdateInv, TypeInv, Place, InUpdate, Roomed
<1>4. CASE Unlocked(t)
  BY <1>1, <1>2, <1>4 DEF Unlocked, UpdateInv
<1>5. CASE LockNotepad(t)
  <2>1. /\ r \in Rooms /\ notepad_collab_i[r] = undefined
        /\ notepad_collab_i' = [notepad_collab_i EXCEPT ![r] = t]
        /\ client_joined_room' = client_joined_room /\ pc'[t] = "write"
    BY <1>0, <1>5 DEF LockNotepad, At, Goto, Place, Roomed
  <2>2. \A u \in Fds \ {t} : InUpdate(u)' =>
          notepad_collab_i'[client_joined_room'[u]] = u
    BY <1>0, <1>2, <1>3, <2>1
  <2>3. notepad_collab_i'[client_joined_room'[t]] = t
    BY <1>0, <2>1
  <2> QED BY <1>2, <2>1, <2>2, <2>3 DEF UpdateInv, Entering
<1>6. CASE UpdateCheck(t) \/ UpdateSend(t)
  <2>1. /\ InUpdate(t) /\ r \in Rooms /\ client_joined_room' = client_joined_room
        /\ notepad_collab_i[r] = t
    BY <1>3, <1>6 DEF UpdateCheck, UpdateSend, At, InUpdate
  <2>2. CASE notepad_collab_i' = notepad_collab_i /\ pc'[t] \in {"check112", "send112"}
    BY <1>1, <1>2, <1>3, <2>1, <2>2 DEF UpdateInv, Entering
  <2>3. CASE /\ notepad_collab_i' = [notepad_collab_i EXCEPT ![r] = undefined]
             /\ pc'[t] = "recv"
    <3>1. \A u \in Fds \ {t} : InUpdate(u)' =>
            notepad_collab_i'[client_joined_room'[u]] = u
      BY <1>0, <1>2, <1>3, <2>1, <2>3
    <3>2. ~InUpdate(t)'
      BY <2>3 DEF InUpdate
    <3> QED BY <1>2, <2>3, <3>1, <3>2 DEF UpdateInv, Entering
  <2> QED BY <1>0, <1>6, <2>2, <2>3
          DEF UpdateCheck, UpdateSend, NextUpdate, NextSlot, Goto
<1> QED BY <1>4, <1>5, <1>6, LockCases

LEMMA UpdateInvariant == Spec => []UpdateInv
<1>1. Init => UpdateInv
  BY InitTypeInv DEF Init, UpdateInv, InUpdate, Entering
<1>2. UpdateInv /\ UNCHANGED vars => UpdateInv'
  BY TypeInvStep DEF UpdateInv, InUpdate, vars, room
<1>3. UpdateInv /\ Next => UpdateInv'
  <2> SUFFICES ASSUME UpdateInv, Next PROVE UpdateInv'
    OBVIOUS
  <2>1. TypeInv'
    BY TypeInvStep DEF UpdateInv
  <2>2. PICK t \in Fds : Step(t)
    BY DEF Next, Step
  <2> QED BY <2>1, <2>2, UpdateStep
<1> QED BY <1>1, <1>2, <1>3, PTL DEF Spec

(***************************************************************************)
(* A thread between the assignment of 005 and the last send of             *)
(* UpdateClients holds the notepad_collab_i of its room.                   *)
(***************************************************************************)
THEOREM UpdatesExclude == Spec => []OneUpdateAtATime
<1>1. UpdateInv => OneUpdateAtATime
  BY DEF UpdateInv, OneUpdateAtATime
<1> QED BY <1>1, UpdateInvariant, PTL

-----------------------------------------------------------------------------
(***************************************************************************)
(* Rooms do not leak.  A descriptor left behind in a slot by a thread that *)
(* has ended is harmless only because its connection is not open.          *)
(***************************************************************************)
EndedInv == \A t \in Fds : pc[t] = "ended" => conn[t] # "open"

LEMMA SendToCloses ==
  ASSUME TypeOK, NEW c \in Fds \cup {undefined}, NEW m, SendTo(c, m), NEW d \in Fds
  PROVE  conn'[d] \in {conn[d], "dead"}
  BY DEF SendTo, TypeOK

LEMMA ConnectionsStay ==
  ASSUME TypeInv, NEW t \in Fds, Step(t), NEW d \in Fds
  PROVE  \/ conn'[d] \in {conn[d], "dead"}
         \/ conn[d] = "open" /\ conn'[d] \in Losses
<1>0. /\ TypeOK /\ Place(t) /\ conn \in [Fds -> {"open", "fin", "rst", "dead"}]
      /\ t \in Fds \cup {undefined}
  BY DEF TypeInv, TypeOK
<1>1. CASE conn' = conn
  BY <1>1
<1>2. CASE \E c \in Fds \cup {undefined} : \E m : SendTo(c, m)
  BY <1>0, <1>2, SendToCloses
<1>4. CASE Receive(t) \/ HandleAgain(t)
  <2>1. PICK req : Handle(t, req)
    BY <1>4 DEF Receive, HandleAgain
  <2> QED BY <1>0, <1>1, <1>2, <2>1 DEF Handle, Answer, Reply, net
<1>5. CASE EndOfStream(t) \/ ReceiveError(t) \/ PeerVanishes(t)
  BY <1>0, <1>1, <1>5 DEF EndOfStream, ReceiveError, PeerVanishes, Crash, net
<1>6. CASE CreateRoom(t) \/ JoinScan(t) \/ JoinCheck(t) \/ JoinSet(t)
  BY <1>0, <1>1, <1>2, <1>6 DEF CreateRoom, JoinScan, JoinCheck, JoinSet,
                                JoinRefused, Answer, Reply, Crash, net
<1>7. CASE SetInitialText(t) \/ ReplyCreated(t) \/ ReplyJoined(t)
           \/ CopyNotepad(t) \/ SendNotepad(t)
  BY <1>0, <1>1, <1>2, <1>7 DEF SetInitialText, ReplyCreated, ReplyJoined,
     CopyNotepad, SendNotepad, Answer, Reply, Crash, net
<1>8. CASE LeaveCheck(t) \/ LeaveClear(t) \/ LeaveReply(t)
           \/ LockNotepad(t) \/ WriteNotepad(t) \/ UpdateCheck(t)
           \/ SetCursor(t) \/ CursorCheck(t)
  BY <1>0, <1>1, <1>2, <1>8 DEF LeaveCheck, LeaveClear, LeaveReply, LockNotepad,
     WriteNotepad, UpdateCheck, SetCursor, CursorCheck, Answer, Reply, Crash, net
<1>9. CASE UpdateSend(t) \/ CursorSend(t)
  <2>1. client_joined_room[t] \in Rooms /\ loc[t].slot \in Slots
    BY <1>0, <1>9 DEF UpdateSend, CursorSend, At, Place, Roomed, TypeOK, Locals
  <2>2. client_fd[client_joined_room[t]][loc[t].slot] \in Fds \cup {undefined}
    BY <1>0, <2>1 DEF TypeOK
  <2> QED BY <1>2, <1>9, <2>2 DEF UpdateSend, CursorSend
<1> QED BY <1>4, <1>5, <1>6, <1>7, <1>8, <1>9 DEF Step, Work

LEMMA NothingReopens ==
  ASSUME TypeInv, NEW t \in Fds, Step(t), NEW d \in Fds, conn[d] # "open"
  PROVE  conn'[d] # "open"
  BY ConnectionsStay

LEMMA EndedStep ==
  ASSUME SeatInv, EndedInv, NEW t \in Fds, Step(t)
  PROVE  EndedInv'
<1>1. \A u \in Fds : pc[u] = "ended" => conn'[u] # "open"
  BY NothingReopens DEF SeatInv, EndedInv
<1>2. \A u \in Fds \ {t} : pc'[u] = pc[u]
  BY StepCases DEF SeatInv
<1>3. pc'[t] = "ended" => pc[t] = "ended" \/ EndOfStream(t)
  BY StepCases
     DEF SeatInv, TypeInv, TypeOK, JoinSet, LeaveCheck, LeaveClear, LeaveReply,
         NextSlot, Answer, Return, Goto, Elsewhere
<1>4. EndOfStream(t) => conn'[t] # "open"
  BY DEF EndOfStream, net
<1> QED BY <1>1, <1>2, <1>3, <1>4 DEF EndedInv

Shared == {"112", "113", "204"}

LEMMA SendToMember ==
  ASSUME TypeOK, NEW c \in Fds \cup {undefined}, NEW m \in Messages,
         SendTo(c, m),
         m.header \in Shared /\ c # undefined /\ conn[c] = "open" =>
           client_joined_room[c] = m.room
  PROVE  SentToMembers
<1>1. CASE sent' = sent
  BY <1>1 DEF SentToMembers, NewMessage, TypeOK
<1>2. CASE sent' # sent
  <2>1. c \in Fds /\ conn[c] = "open" /\ sent' = [sent EXCEPT ![c] = Append(@, m)]
    BY <1>2 DEF SendTo
  <2> SUFFICES ASSUME NEW d \in Fds, NEW x \in NewMessage(d), x.header \in Shared
               PROVE  client_joined_room[d] = x.room
    BY DEF SentToMembers, Shared
  <2>2. sent[c] \in Seq(Messages) /\ sent[d] \in Seq(Messages)
    BY <2>1 DEF TypeOK
  <2>3. d = c
    BY <2>1, <2>2 DEF NewMessage, TypeOK
  <2>4. sent'[c] = Append(sent[c], m)
    BY <2>1 DEF TypeOK
  <2>5. x = m
    <3>1. Append(sent[c], m)[Len(Append(sent[c], m))] = m
      BY <2>2
    <3>2. x = sent'[d][Len(sent'[d])]
      <4>1. CASE Len(sent'[d]) > Len(sent[d])
        BY <4>1 DEF NewMessage
      <4>2. CASE ~(Len(sent'[d]) > Len(sent[d]))
        BY <4>2 DEF NewMessage
      <4> QED BY <4>1, <4>2
    <3> QED BY <2>3, <2>4, <3>1, <3>2
  <2> QED BY <2>1, <2>3, <2>5, RoomsAssumption
<1> QED BY <1>1, <1>2

LEMMA ReplyToMember ==
  ASSUME TypeOK, NEW t \in Fds, NEW r \in 0 .. MaxRooms,
         NEW h \in {"100", "101", "102", "104", "107", "108", "109", "110", "111"},
         Reply(t, h, r)
  PROVE  SentToMembers
<1>1. [header |-> h, room |-> r, body |-> NoText] \in Messages
  BY DEF Messages, Texts
<1>2. h \notin Shared
  BY DEF Shared
<1> QED BY <1>1, <1>2, SendToMember DEF Reply

LEMMA MemberStep ==
  ASSUME SeatInv, EndedInv, NEW t \in Fds, Step(t)
  PROVE  SentToMembers
<1> DEFINE r == client_joined_room[t]
<1>0. /\ TypeInv /\ TypeOK /\ Place(t) /\ r \in 0 .. MaxRooms /\ 0 \in 0 .. MaxRooms
      /\ t \in Fds \cup {undefined} /\ loc[t] \in Locals
  BY RoomsAssumption DEF SeatInv, TypeInv, TypeOK
<1>1. CASE sent' = sent
  BY <1>1 DEF SentToMembers, NewMessage, TypeOK
<1>2. CASE Receive(t) \/ HandleAgain(t)
  <2>1. PICK req : Handle(t, req)
    BY <1>2 DEF Receive, HandleAgain
  <2>2. CASE Answer(t, Refusal(client_joined_room[t] # 0, req), 0)
             /\ Refusal(client_joined_room[t] # 0, req) # "none"
    <3>1. Refusal(client_joined_room[t] # 0, req) \in {"102", "107", "108", "111"}
      BY <2>2 DEF Refusal
    <3> QED BY <1>0, <2>2, <3>1, ReplyToMember DEF Answer
  <2> QED BY <1>1, <2>1, <2>2 DEF Handle, net
<1>3. CASE EndOfStream(t) \/ ReceiveError(t) \/ PeerVanishes(t)
  BY <1>1, <1>3 DEF EndOfStream, ReceiveError, PeerVanishes, Crash, net
<1>4. CASE CreateRoom(t) \/ JoinScan(t) \/ JoinCheck(t) \/ JoinSet(t)
  <2>1. JoinRefused(t) => SentToMembers
    BY <1>0, ReplyToMember DEF JoinRefused, Answer
  <2> QED BY <1>1, <1>4, <2>1
          DEF CreateRoom, JoinScan, JoinCheck, JoinSet, Crash, net
<1>5. CASE ReplyCreated(t) \/ ReplyJoined(t) \/ LeaveReply(t)
  BY <1>0, <1>5, ReplyToMember DEF ReplyCreated, ReplyJoined, LeaveReply, Answer
<1>6. CASE SendNotepad(t)
  <2> DEFINE m == [header |-> "204", room |-> r, body |-> loc[t].copy]
  <2>1. m \in Messages /\ m.room = r
    BY <1>0 DEF Messages, Locals
  <2> QED BY <1>0, <1>6, <2>1, SendToMember DEF SendNotepad
<1>7. CASE UpdateSend(t) \/ CursorSend(t)
  <2> DEFINE c == client_fd[r][loc[t].slot]
  <2>1. r \in Rooms /\ loc[t].slot \in Slots
    BY <1>0, <1>7 DEF UpdateSend, CursorSend, At, Place, Roomed, Locals
  <2>2. c \in Fds \cup {undefined}
    BY <1>0, <2>1 DEF TypeOK
  <2>3. PICK h \in {"112", "113"} :
          SendTo(c, [header |-> h, room |-> r, body |-> loc[t].copy])
    BY <1>7 DEF UpdateSend, CursorSend
  <2> DEFINE m == [header |-> h, room |-> r, body |-> loc[t].copy]
  <2>4. m \in Messages /\ m.room = r
    BY <1>0 DEF Messages, Locals
  <2>5. c # undefined /\ conn[c] = "open" => client_joined_room[c] = r
    BY <2>1, <2>2 DEF SeatInv, SlotOwnership, EndedInv
  <2> QED BY <1>0, <2>2, <2>3, <2>4, <2>5, SendToMember
<1>8. CASE SetInitialText(t) \/ CopyNotepad(t) \/ LeaveCheck(t) \/ LeaveClear(t)
           \/ LockNotepad(t) \/ WriteNotepad(t) \/ UpdateCheck(t)
           \/ SetCursor(t) \/ CursorCheck(t)
  BY <1>1, <1>8 DEF SetInitialText, CopyNotepad, LeaveCheck, LeaveClear,
     LockNotepad, WriteNotepad, UpdateCheck, SetCursor, CursorCheck, Crash, net
<1> QED BY <1>2, <1>3, <1>4, <1>5, <1>6, <1>7, <1>8 DEF Step, Work

LEMMA EndedInvariant == Spec => []EndedInv
<1>1. Init => EndedInv
  BY DEF Init, EndedInv
<1>2. EndedInv /\ UNCHANGED vars => EndedInv'
  BY DEF EndedInv, vars, net
<1>3. SeatInv /\ EndedInv /\ Next => EndedInv'
  BY EndedStep DEF Next, Step
<1> QED BY <1>1, <1>2, <1>3, SeatInvariant, PTL DEF Spec

(***************************************************************************)
(* The texts and cursors of a room reach only clients that have joined     *)
(* it, although UpdateClients and SendToClient read the descriptor again   *)
(* after the test.                                                         *)
(***************************************************************************)
THEOREM RoomsAreIsolated == Spec => RoomIsolation
<1>1. SeatInv /\ EndedInv /\ [Next]_vars => [SentToMembers]_vars
  BY MemberStep DEF Next, Step
<1> QED BY <1>1, SeatInvariant, EndedInvariant, PTL DEF Spec, RoomIsolation

=============================================================================
