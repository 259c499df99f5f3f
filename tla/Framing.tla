------------------------------- MODULE Framing -------------------------------
(***************************************************************************)
(* Messages as bytes.  Every message is a send of 1024 bytes from a string *)
(* and every recv takes up to 1024 bytes into an array and handles the one *)
(* string at its head, so the two ends agree on where a message starts     *)
(* only by the lengths.  The sockets have room for a limited number of     *)
(* bytes; a send waits for room, a recv for bytes.                         *)
(*                                                                         *)
(* Two clients sit in the two slots of a room.  A client has a thread that *)
(* sends (the window) and one that receives (the listener), the server a   *)
(* thread per client that answers 005 and 006 by a send to each slot, 005  *)
(* under notepad_collab_i.  Bytes are counted in cells, Size of them to a  *)
(* message; the three of the header are one cell.                          *)
(***************************************************************************)
EXTENDS Naturals, Sequences

CONSTANTS
  Size,        \* the cells of a message, 1024 bytes in the code
  Capacity,    \* the cells that fit into the buffers of a connection
  Lengths,     \* the lengths of the strings that are sent
  Headers,     \* the requests the clients send: "005", "006"
  MaxRequests  \* bound: the requests that the clients send in all

ASSUME FramingAssumption ==
  /\ Size \in Nat \ {0} /\ Capacity \in Nat \ {0} /\ MaxRequests \in Nat
  /\ Lengths \subseteq 1 .. Size
  /\ Headers \subseteq {"005", "006"}

Slots == 1 .. 2
Wires == {"up", "down"} \X Slots
Writers == {"window", "thread"} \X Slots

VARIABLES
  wire,             \* the cells between a send and a recv
  buffer,           \* the array that the receiver of a wire reads into
  rest,             \* what is left to copy of the send a thread is in
  sending,          \* the string each window is sending
  pc,               \* where each thread of the server is
  slot,             \* the slot it is sending to
  answer,           \* the string it is sending
  notepad_collab_i, \* the thread that holds the mutex, 0 for none
  asked,            \* how many requests each window has sent
  pending,          \* history: the strings sent on a wire and not yet handled
  handled           \* history: how many strings each listener has handled

thread_vars == <<pc, slot, answer, notepad_collab_i>>
vars == <<wire, buffer, rest, sending, thread_vars, asked, pending, handled>>

-----------------------------------------------------------------------------
(* Strings.  Every character of a string is a cell that names its message. *)

Cell(h, s, n) == [header |-> h, from |-> s, n |-> n]
NUL == Cell("NUL", 0, 0)
Junk == Cell("junk", 0, 0)   \* what lies behind a string in memory
StringOf(cell, len) == [i \in 1 .. len |-> cell]

(* Mutant: send(..., strlen, 0), without the terminator. *)
Record_Strlen(string) == string

(* Size cells from c_str(): the string, its terminator, and what follows;  *)
(* a string of Size or more has no terminator among them.                  *)
Record(string) ==
  [i \in 1 .. Size |-> CASE i <= Len(string)    -> string[i]
                         [] i = Len(string) + 1 -> NUL
                         [] OTHER               -> Junk]

(* std::string(internal_buffer): up to the first terminator, or past the   *)
(* end of the array.  An empty one makes substr(3) throw.                  *)
StringIn(array) ==
  IF \E i \in 1 .. Size : array[i] = NUL
  THEN SubSeq(array, 1, (CHOOSE i \in 1 .. Size :
                           /\ array[i] = NUL
                           /\ \A j \in 1 .. (i - 1) : array[j] # NUL) - 1)
  ELSE Append(array, Junk)

Smaller(a, b) == IF a < b THEN a ELSE b

-----------------------------------------------------------------------------
Init ==
  /\ wire = [w \in Wires |-> <<>>]
  /\ buffer = [w \in Wires |-> StringOf(Junk, Size)]
  /\ rest = [p \in Writers |-> <<>>]
  /\ sending = [s \in Slots |-> <<>>]
  /\ pc = [t \in Slots |-> "recv"]
  /\ slot = [t \in Slots |-> 1]
  /\ answer = [t \in Slots |-> <<>>]
  /\ notepad_collab_i = 0
  /\ asked = [s \in Slots |-> 0]
  /\ pending = [w \in Wires |-> <<>>]
  /\ handled = [s \in Slots |-> 0]

(* Mutant: a send that is never short of room. *)
Copied_All(p, w) == Len(rest[p])

(* What fits is copied and the writer waits with the rest: meanwhile       *)
(* another may copy a part of its own.                                     *)
Copied(p, w) == Smaller(Len(rest[p]), Capacity - Len(wire[w]))
Finishes(p, w) == Copied(p, w) = Len(rest[p])

Write(p, w, string) ==
  /\ Copied(p, w) > 0
  /\ wire' = [wire EXCEPT ![w] = @ \o SubSeq(rest[p], 1, Copied(p, w))]
  /\ pending' = IF Finishes(p, w) THEN [pending EXCEPT ![w] = Append(@, string)]
                ELSE pending

Left(p, w) == SubSeq(rest[p], Copied(p, w) + 1, Len(rest[p]))

(* recv: what has come, at most Size; behind it the array keeps what it    *)
(* held.                                                                   *)
Read(w) ==
  LET k == Smaller(Size, Len(wire[w])) IN
  /\ wire[w] # <<>>
  /\ wire' = [wire EXCEPT ![w] = SubSeq(@, k + 1, Len(@))]
  /\ buffer' = [buffer EXCEPT ![w] =
                  SubSeq(wire[w], 1, k) \o SubSeq(@, k + 1, Size)]
  /\ pending' = [pending EXCEPT ![w] = IF @ = <<>> THEN @ ELSE Tail(@)]

-----------------------------------------------------------------------------
(* The client: send_message_to_server, listening_to_server_thread. *)

Window(s) == <<"window", s>>
Up(s) == <<"up", s>>
Down(s) == <<"down", s>>

WindowSends(s) ==
  /\ rest[Window(s)] = <<>> /\ asked[1] + asked[2] < MaxRequests
  /\ asked' = [asked EXCEPT ![s] = @ + 1]
  /\ \E h \in Headers, n \in Lengths :
       /\ rest' = [rest EXCEPT ![Window(s)] =
                     Record(StringOf(Cell(h, s, asked'[s]), n))]
       /\ sending' = [sending EXCEPT ![s] = StringOf(Cell(h, s, asked'[s]), n)]
  /\ UNCHANGED <<wire, buffer, thread_vars, pending, handled>>

WindowCopies(s) ==
  /\ Write(Window(s), Up(s), sending[s])
  /\ rest' = [rest EXCEPT ![Window(s)] = Left(Window(s), Up(s))]
  /\ UNCHANGED <<buffer, sending, thread_vars, asked, handled>>

(* Mutant: one thread that sends and then waits for the answer. *)
Listener_AfterSending(s) ==
  /\ rest[Window(s)] = <<>>
  /\ Read(Down(s))
  /\ handled' = [handled EXCEPT ![s] = @ + 1]
  /\ UNCHANGED <<rest, sending, thread_vars, asked>>

Listener(s) ==
  /\ Read(Down(s))
  /\ handled' = [handled EXCEPT ![s] = @ + 1]
  /\ UNCHANGED <<rest, sending, thread_vars, asked>>

-----------------------------------------------------------------------------
(* The server: ClientThread::operator(), UpdateClients, SendToClient. *)

Thread(t) == <<"thread", t>>
Asks(string, h) == string # <<>> /\ string[1].header = h

(* 112 and the text that came with 005, 113 and a cursor for 006. *)
Answered(string) ==
  [i \in DOMAIN string |-> [string[i] EXCEPT !.header =
                              CASE @ = "005" -> "112" [] @ = "006" -> "113"
                                [] OTHER -> @]]

ThreadRecv(t) ==
  /\ pc[t] = "recv"
  /\ Read(Up(t))
  /\ LET string == StringIn(buffer'[Up(t)]) IN
     /\ pc' = [pc EXCEPT ![t] = CASE Asks(string, "005") -> "lock"
                                  [] Asks(string, "006") -> "send"
                                  [] OTHER -> "recv"]
     /\ answer' = [answer EXCEPT ![t] = Answered(string)]
     /\ rest' = IF pc'[t] = "recv" THEN rest
                ELSE [rest EXCEPT ![Thread(t)] = Record(answer'[t])]
  /\ slot' = [slot EXCEPT ![t] = 1]
  /\ UNCHANGED <<sending, notepad_collab_i, asked, handled>>

ThreadLock(t) ==
  /\ pc[t] = "lock" /\ notepad_collab_i = 0
  /\ notepad_collab_i' = t
  /\ pc' = [pc EXCEPT ![t] = "send"]
  /\ UNCHANGED <<wire, buffer, rest, sending, slot, answer, asked, pending,
                 handled>>

(* The send to the first slot, then to the second; the guard of 005 goes   *)
(* out of scope behind them.                                               *)
ThreadCopies(t) ==
  LET w == Down(slot[t])
      last == slot[t] = 2
  IN
  /\ pc[t] = "send"
  /\ Write(Thread(t), w, answer[t])
  /\ rest' = [rest EXCEPT ![Thread(t)] =
                IF Finishes(Thread(t), w) /\ ~last THEN Record(answer[t])
                ELSE Left(Thread(t), w)]
  /\ IF Finishes(Thread(t), w)
     THEN /\ slot' = [slot EXCEPT ![t] = 3 - @]
          /\ pc' = [pc EXCEPT ![t] = IF last THEN "recv" ELSE @]
          /\ notepad_collab_i' = IF last /\ notepad_collab_i = t THEN 0
                                 ELSE notepad_collab_i
     ELSE UNCHANGED <<slot, pc, notepad_collab_i>>
  /\ UNCHANGED <<buffer, sending, answer, asked, handled>>

-----------------------------------------------------------------------------
Next == \E s \in Slots :
  \/ WindowSends(s) \/ WindowCopies(s) \/ Listener(s)
  \/ ThreadRecv(s) \/ ThreadLock(s) \/ ThreadCopies(s)

(* Every thread is scheduled and a send that waits is woken when there is  *)
(* room; nobody makes the user send.                                       *)
FairSpec ==
  /\ Init /\ [][Next]_vars
  /\ \A s \in Slots :
       /\ WF_vars(WindowCopies(s)) /\ WF_vars(Listener(s))
       /\ WF_vars(ThreadRecv(s)) /\ WF_vars(ThreadLock(s))
       /\ WF_vars(ThreadCopies(s))

-----------------------------------------------------------------------------
Cells == [header : {"005", "006", "112", "113", "NUL", "junk"},
          from : 0 .. 2, n : 0 .. MaxRequests]

TypeOK ==
  /\ wire \in [Wires -> Seq(Cells)] /\ buffer \in [Wires -> [1 .. Size -> Cells]]
  /\ pending \in [Wires -> Seq(Seq(Cells))]
  /\ \A w \in Wires : Len(wire[w]) <= Capacity
  /\ rest \in [Writers -> Seq(Cells)] /\ \A p \in Writers : Len(rest[p]) <= Size
  /\ pc \in [Slots -> {"recv", "lock", "send"}] /\ slot \in [Slots -> Slots]
  /\ answer \in [Slots -> Seq(Cells)] /\ sending \in [Slots -> Seq(Cells)]
  /\ notepad_collab_i \in 0 .. 2
  /\ asked \in [Slots -> 0 .. MaxRequests] /\ handled \in [Slots -> Nat]

(***************************************************************************)
(* recv is called with the size every send has, nobody marks where a       *)
(* message begins, and two threads of the server send on one connection:   *)
(* what is handled at one end is, string by string, what was sent at the   *)
(* other.  It holds while a waiting send leaves no part of a message       *)
(* (Capacity is a multiple of Size) and the texts leave room for the       *)
(* terminator.                                                             *)
(***************************************************************************)
HandledAsSent ==
  [][\A w \in Wires : Len(wire'[w]) < Len(wire[w]) =>
       pending[w] # <<>> /\ StringIn(buffer'[w]) = Head(pending[w])]_vars

(***************************************************************************)
(* The server's threads send while they hold notepad_collab_i, the window  *)
(* sends while it draws, and every buffer is bounded: still nobody waits   *)
(* for ever, and each request is answered to both members, because the     *)
(* listener of a client reads whatever its window waits for.               *)
(***************************************************************************)
EveryRequestIsAnswered ==
  []<>(\A s \in Slots : handled[s] = asked[1] + asked[2])

=============================================================================
