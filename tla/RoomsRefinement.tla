--------------------------- MODULE RoomsRefinement ---------------------------
(***************************************************************************)
(* How the state of Rooms is read as a state of the abstract RoomService:  *)
(* what the program counters and the locals of the threads stand for.      *)
(* Fresh codes are needed (CodesUnique): with two rooms of one code the    *)
(* first text of the one may come after an edit of the other.              *)
(***************************************************************************)
EXTENDS Rooms

(* The thread t, in UpdateClients, has yet to look at the slot s of r. *)
Owes(t, r, s) ==
  /\ InUpdate(t) /\ pc[t] # "write"
  /\ client_joined_room[t] = r /\ loc[t].slot <= s

Owed == {o \in Rooms \X Slots : \E t \in Fds : Owes(t, o[1], o[2])}
Gone == {c \in Fds : conn[c] # "open"}
Rising == [c \in Fds |-> IF pc[c] = "clear" THEN loc[c].slot ELSE 0]
View == [c \in Fds |-> IF pc[c] = "204" THEN loc[c].copy ELSE NoText]

Service == INSTANCE RoomService WITH
  made <- created, gone <- Gone, member <- client_joined_room,
  seat <- client_fd, rising <- Rising, text <- notepad_collab, owed <- Owed,
  view <- View, shown <- sent

(***************************************************************************)
(* The threads, with their tests, locks and copies, do no more than the    *)
(* rooms promise: an edit is shown to whoever sits in the room before the  *)
(* next one begins, and a client gives up only its own slot.               *)
(***************************************************************************)
ServiceSpec == Service!Spec

=============================================================================
