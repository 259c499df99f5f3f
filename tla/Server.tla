------------------------------- MODULE Server -------------------------------
(***************************************************************************)
(* The whole server: the accept loop of main, which names the connections  *)
(* and starts their threads, and the client threads of Rooms.              *)
(*                                                                         *)
(* Clients come one after the other.  accept returns the lowest descriptor *)
(* that is not open.  A thread may be at work before main has recorded its *)
(* descriptor.  No thread closes its descriptor when it ends, so no number *)
(* is ever used again, and the descriptors run out.                        *)
(***************************************************************************)
EXTENDS RoomsRefinement

CONSTANTS
  TableSize,      \* the length of connected_clients_fds
  MaxConnections  \* bound: how many clients connect

ASSUME ServerAssumption ==
  Fds \subseteq Nat /\ TableSize \in Nat \ {0} /\ MaxConnections \in Nat

VARIABLES
  main,                        \* where the accept loop is
  connected_client_descriptor, \* what accept returned last
  connected_clients_fds,       \* the table, filled from place 1
  connected_clients_count,
  open_fds,                    \* the descriptors in use by connections
  started,                     \* those that have a thread
  arrived                      \* how many clients have connected

table_vars == <<connected_clients_fds, connected_clients_count>>
fd_vars    == <<open_fds, started, arrived>>
main_vars  == <<main, connected_client_descriptor, table_vars, fd_vars>>

Places == 0 .. (TableSize - 1)

ServerInit ==
  /\ Init
  /\ main = "accept"
  /\ connected_client_descriptor = undefined
  /\ connected_clients_fds = [p \in Places |-> undefined]
  /\ connected_clients_count = 0
  /\ open_fds = {} /\ started = {}
  /\ arrived = 0

-----------------------------------------------------------------------------
(* One turn of the loop in main. *)

FreeFds == Fds \ open_fds

Accept ==
  /\ up /\ main = "accept" /\ arrived < MaxConnections
  /\ \E fd \in FreeFds :
       /\ \A other \in FreeFds : fd <= other
       /\ connected_client_descriptor' = fd
       /\ open_fds' = open_fds \cup {fd}
       /\ conn' = [conn EXCEPT ![fd] = "open"]
       /\ sent' = [sent EXCEPT ![fd] = <<>>]
  /\ arrived' = arrived + 1
  /\ main' = "thread"
  /\ UNCHANGED <<vector, room, pc, arg, client_joined_room, loc, up,
                 table_vars, started>>

(* accept returns -1 when there is no descriptor left: handle_error. *)
AcceptFails ==
  /\ up /\ main = "accept" /\ arrived < MaxConnections
  /\ FreeFds = {}
  /\ Crash
  /\ UNCHANGED main_vars

(* std::thread(ClientThread(), ...): a new object with no room. *)
StartThread ==
  LET fd == connected_client_descriptor IN
  /\ up /\ main = "thread"
  /\ started' = started \cup {fd}
  /\ pc' = [pc EXCEPT ![fd] = "recv"]
  /\ arg' = [arg EXCEPT ![fd] = [header |-> "none", code |-> NoRoomCode, n |-> 0]]
  /\ client_joined_room' = [client_joined_room EXCEPT ![fd] = 0]
  /\ loc' = [loc EXCEPT ![fd] = NoLocals]
  /\ main' = "record"
  /\ UNCHANGED <<vector, room, net, connected_client_descriptor, table_vars,
                 open_fds, arrived>>

(* Mutant: the counter is incremented after the place is written. *)
Record_PostIncrement ==
  /\ up /\ main = "record"
  /\ connected_clients_fds' =
       [connected_clients_fds EXCEPT ![connected_clients_count] =
          connected_client_descriptor]
  /\ connected_clients_count' = connected_clients_count + 1
  /\ main' = "accept"
  /\ UNCHANGED <<vars, connected_client_descriptor, fd_vars>>

(* connected_clients_fds[++connected_clients_count] = ...  Behind the last  *)
(* place is the counter itself, then arrived_client, then the heap: a write *)
(* there makes the counter a descriptor, or hits nothing that is used, or   *)
(* ends the process.                                                        *)
Record ==
  LET place == connected_clients_count + 1 IN
  /\ up /\ main = "record"
  /\ \/ /\ place \in Places
        /\ connected_clients_fds' =
             [connected_clients_fds EXCEPT ![place] = connected_client_descriptor]
        /\ connected_clients_count' = place
        /\ main' = "accept"
        /\ UNCHANGED vars
     \/ /\ place \notin Places
        /\ connected_clients_count' \in {place, connected_client_descriptor}
        /\ main' = "accept"
        /\ UNCHANGED <<vars, connected_clients_fds>>
     \/ place \notin Places /\ Crash /\ UNCHANGED <<main, table_vars>>
  /\ UNCHANGED <<connected_client_descriptor, fd_vars>>

-----------------------------------------------------------------------------
(* The threads. *)

Serve(t) ==
  /\ t \in started
  /\ Receive(t) \/ ReceiveError(t) \/ Work(t)
  /\ UNCHANGED main_vars

(* Mutant: the thread closes its descriptor, which accept returns again. *)
ThreadEnds_Closes(t) ==
  /\ t \in started
  /\ EndOfStream(t)
  /\ open_fds' = open_fds \ {t} /\ started' = started \ {t}
  /\ UNCHANGED <<main, connected_client_descriptor, table_vars, arrived>>

(* break, out of operator(): the descriptor stays open. *)
ThreadEnds(t) ==
  /\ t \in started
  /\ EndOfStream(t)
  /\ UNCHANGED main_vars

ClientVanishes(t) == t \in open_fds /\ PeerVanishes(t) /\ UNCHANGED main_vars

ServerNext ==
  \/ Accept \/ AcceptFails \/ StartThread \/ Record
  \/ \E t \in Fds : Serve(t) \/ ThreadEnds(t) \/ ClientVanishes(t)

ServerSpec == ServerInit /\ [][ServerNext]_<<vars, main_vars>>

-----------------------------------------------------------------------------
(***************************************************************************)
(* As long as the table has room, every thread but the one just started    *)
(* has its descriptor in a place of its own, although it may be at work,   *)
(* and may have ended, before it is recorded (main).                       *)
(***************************************************************************)
ThreadsHavePlaces ==
  LET recorded == {connected_clients_fds[p] : p \in 1 .. connected_clients_count}
  IN
  arrived < TableSize =>
    /\ connected_clients_count \in Places
    /\ recorded = IF main = "record" THEN started \ {connected_client_descriptor}
                  ELSE started
    /\ \A p, q \in 1 .. connected_clients_count :
         connected_clients_fds[p] = connected_clients_fds[q] => p = q

=============================================================================
