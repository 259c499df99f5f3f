---------------------------- MODULE NotepadProofs ----------------------------
(***************************************************************************)
(* What is proved about the client, however often its buttons are pressed, *)
(* however much is typed and whatever is on the wires meanwhile.           *)
(***************************************************************************)
EXTENDS Notepad, SequenceTheorems, FiniteSetTheorems, TLAPS

LEMMA Bounds ==
  /\ MaxRooms \in Nat /\ MaxEvents \in Nat /\ MaxPresses \in Nat /\ MaxChanges \in Nat
  /\ TheirChar \in Chars /\ TornChar \in Chars /\ 0 .. MaxEvents \subseteq Chars
  BY NotepadAssumption DEF TheirChar, TornChar, Chars

-----------------------------------------------------------------------------
(* Messages on a wire.                                                     *)

LEMMA AppendFacts ==
  ASSUME NEW S, NEW q \in Seq(S), NEW m \in S
  PROVE  /\ Append(q, m) \in Seq(S) /\ Len(Append(q, m)) = Len(q) + 1 /\ Len(q) \in Nat
         /\ \A i \in 1 .. Len(q) : Append(q, m)[i] = q[i]
         /\ Append(q, m)[Len(q) + 1] = m
  BY AppendProperties, LenProperties

LEMMA TailFacts ==
  ASSUME NEW S, NEW q \in Seq(S), q # <<>>
  PROVE  /\ Tail(q) \in Seq(S) /\ Head(q) \in S /\ Head(q) = q[1]
         /\ Len(q) \in Nat \ {0} /\ Len(Tail(q)) = Len(q) - 1
         /\ \A i \in 1 .. Len(q) - 1 : Tail(q)[i] = q[i + 1]
<1>1. Len(q) \in Nat \ {0}
  BY EmptySeq
<1>2. Tail(q) \in Seq(S) /\ Head(q) \in S /\ Len(Tail(q)) = Len(q) - 1
      /\ \A i \in 1 .. Len(q) - 1 : Tail(q)[i] = q[i + 1]
  BY HeadTailProperties
<1> QED BY <1>1, <1>2

LEMMA AppendAny ==
  ASSUME NEW S, NEW q \in Seq(S), NEW m
  PROVE  /\ Len(Append(q, m)) = Len(q) + 1 /\ Len(q) \in Nat
         /\ \A i \in 1 .. Len(q) : Append(q, m)[i] = q[i]
         /\ Append(q, m)[Len(q) + 1] = m
<1>1. q \in Seq(S \cup {m}) /\ m \in S \cup {m}
  <2>1. Len(q) \in Nat /\ q \in [1 .. Len(q) -> S]
    BY LenProperties
  <2>2. \A i \in 1 .. Len(q) : q[i] \in S \cup {m}
    BY <2>1
  <2>3. q \in [1 .. Len(q) -> S \cup {m}]
    BY <2>1, <2>2
  <2> QED BY <2>1, <2>3, SeqDef
<1> HIDE DEF Append
<1> QED BY <1>1, AppendFacts

LEMMA ConcatFacts ==
  ASSUME NEW S, NEW q \in Seq(S), NEW a \in S, NEW b \in S
  PROVE  q \o <<a>> = Append(q, a) /\ q \o <<a, b>> = Append(Append(q, a), b)
<1>1. q \o <<a>> = Append(q, a)
  BY AppendIsConcat
<1>2. q \o <<a, b>> = Append(Append(q, a), b)
  OBVIOUS
<1> QED BY <1>1, <1>2

(* x is the last message of q with a header of H; none has one. *)
LastOf(q, H, x) == \E i \in 1 .. Len(q) :
  /\ q[i] = x /\ x.header \in H
  /\ \A j \in 1 .. Len(q) : j > i => q[j].header \notin H
Without(q, H) == \A i \in 1 .. Len(q) : q[i].header \notin H

LEMMA EmptyIsWithout ==
  ASSUME NEW H
  PROVE  Without(<<>>, H)
  BY EmptySeq DEF Without

LEMMA LastAppend ==
  ASSUME NEW S, NEW q \in Seq(S), NEW m \in S, NEW H
  PROVE  /\ m.header \in H => LastOf(Append(q, m), H, m)
         /\ m.header \notin H => \A x : LastOf(q, H, x) => LastOf(Append(q, m), H, x)
         /\ m.header \notin H /\ Without(q, H) => Without(Append(q, m), H)
<1> DEFINE r == Append(q, m)
           n == Len(q)
<1>1. /\ n \in Nat /\ Len(r) = n + 1
      /\ \A i \in 1 .. n : r[i] = q[i]
      /\ r[n + 1] = m
  BY AppendFacts
<1> HIDE DEF r, n
<1>2. \A i \in 1 .. n + 1 : i \in 1 .. n \/ i = n + 1
  BY <1>1
<1>3. ASSUME m.header \in H PROVE LastOf(r, H, m)
  <2>1. n + 1 \in 1 .. Len(r) /\ \A j \in 1 .. Len(r) : ~(j > n + 1)
    BY <1>1
  <2> QED BY <1>1, <1>3, <2>1 DEF LastOf
<1>4. ASSUME m.header \notin H, NEW x, LastOf(q, H, x) PROVE LastOf(r, H, x)
  <2>1. PICK i \in 1 .. n : /\ q[i] = x /\ x.header \in H
                            /\ \A j \in 1 .. n : j > i => q[j].header \notin H
    BY <1>4 DEF LastOf, n
  <2>2. i \in 1 .. Len(r) /\ r[i] = x
    BY <1>1, <2>1
  <2>3. ASSUME NEW j \in 1 .. Len(r), j > i PROVE r[j].header \notin H
    BY <1>1, <1>2, <1>4, <2>1, <2>3
  <2> QED BY <2>1, <2>2, <2>3 DEF LastOf
<1>5. ASSUME m.header \notin H, Without(q, H) PROVE Without(r, H)
  BY <1>1, <1>2, <1>5 DEF Without, n
<1> QED BY <1>3, <1>4, <1>5 DEF r

LEMMA LastTail ==
  ASSUME NEW S, NEW q \in Seq(S), q # <<>>, NEW H
  PROVE  /\ \A x : LastOf(q, H, x) => \/ LastOf(Tail(q), H, x)
                                      \/ Without(Tail(q), H) /\ Head(q) = x /\ x.header \in H
         /\ Without(q, H) => Without(Tail(q), H) /\ Head(q).header \notin H
<1> DEFINE r == Tail(q)
           n == Len(q)
<1>1. /\ n \in Nat \ {0} /\ Len(r) = n - 1 /\ Head(q) = q[1]
      /\ \A i \in 1 .. n - 1 : r[i] = q[i + 1]
  BY TailFacts
<1> HIDE DEF r, n
<1>2. ASSUME NEW x, LastOf(q, H, x)
      PROVE  LastOf(r, H, x) \/ (Without(r, H) /\ Head(q) = x /\ x.header \in H)
  <2>1. PICK i \in 1 .. n : /\ q[i] = x /\ x.header \in H
                            /\ \A j \in 1 .. n : j > i => q[j].header \notin H
    BY <1>2 DEF LastOf, n
  <2>2. ASSUME NEW j \in 1 .. Len(r), j + 1 > i PROVE r[j].header \notin H
    <3>1. j \in 1 .. n - 1 /\ j + 1 \in 1 .. n
      BY <1>1
    <3> QED BY <1>1, <2>1, <2>2, <3>1
  <2>3. CASE i = 1
    <3>1. \A j \in 1 .. Len(r) : j + 1 > i
      BY <1>1, <2>3
    <3> QED BY <1>1, <2>1, <2>2, <2>3, <3>1 DEF Without
  <2>4. CASE i # 1
    <3>1. i - 1 \in 1 .. Len(r) /\ i - 1 \in 1 .. n - 1 /\ (i - 1) + 1 = i
      BY <1>1, <2>4
    <3>2. r[i - 1] = x
      BY <1>1, <2>1, <3>1
    <3>3. \A j \in 1 .. Len(r) : j > i - 1 => j + 1 > i
      BY <1>1
    <3> QED BY <2>1, <2>2, <3>1, <3>2, <3>3 DEF LastOf
  <2> QED BY <2>3, <2>4
<1>3. ASSUME Without(q, H) PROVE Without(r, H) /\ Head(q).header \notin H
  <2>1. 1 \in 1 .. n /\ \A j \in 1 .. Len(r) : j \in 1 .. n - 1 /\ j + 1 \in 1 .. n
    BY <1>1
  <2> QED BY <1>1, <1>3, <2>1 DEF Without, n
<1> QED BY <1>2, <1>3 DEF r

(* The requests to create a room that wait. *)
Creates(q) == {i \in 1 .. Len(q) : q[i].header = "002"}

LEMMA CreatesType ==
  ASSUME NEW S, NEW q \in Seq(S)
  PROVE  IsFiniteSet(Creates(q)) /\ Cardinality(Creates(q)) \in Nat
<1>1. IsFiniteSet(1 .. Len(q)) /\ Creates(q) \in SUBSET (1 .. Len(q))
  BY LenProperties, FS_Interval DEF Creates
<1>2. IsFiniteSet(Creates(q))
  BY <1>1, FS_Subset
<1> QED BY <1>2, FS_CardinalityType

LEMMA CreatesAppend ==
  ASSUME NEW S, NEW q \in Seq(S), NEW m \in S
  PROVE  Cardinality(Creates(Append(q, m))) =
           IF m.header = "002" THEN Cardinality(Creates(q)) + 1 ELSE Cardinality(Creates(q))
<1> DEFINE r == Append(q, m)
           n == Len(q)
<1>1. /\ n \in Nat /\ Len(r) = n + 1
      /\ \A i \in 1 .. n : r[i] = q[i]
      /\ r[n + 1] = m
  BY AppendFacts
<1> HIDE DEF r, n
<1>2. Creates(r) = IF m.header = "002" THEN Creates(q) \cup {n + 1} ELSE Creates(q)
  <2>1. \A i : i \in 1 .. n + 1 <=> i \in 1 .. n \/ i = n + 1
    BY <1>1
  <2> QED BY <1>1, <2>1 DEF Creates, n
<1>3. n + 1 \notin Creates(q)
  BY <1>1 DEF Creates, n
<1>4. IsFiniteSet(Creates(q))
  BY CreatesType
<1> QED BY <1>2, <1>3, <1>4, FS_AddElement DEF r

LEMMA CreatesTail ==
  ASSUME NEW S, NEW q \in Seq(S), q # <<>>
  PROVE  Cardinality(Creates(q)) = IF Head(q).header = "002"
           THEN Cardinality(Creates(Tail(q))) + 1 ELSE Cardinality(Creates(Tail(q)))
<1> DEFINE r == Tail(q)
           n == Len(q)
           C == Creates(q)
           R == Creates(r)
           f == [i \in R |-> i + 1]
<1>1. /\ n \in Nat \ {0} /\ Len(r) = n - 1 /\ Head(q) = q[1] /\ r \in Seq(S)
      /\ \A i \in 1 .. n - 1 : r[i] = q[i + 1]
  BY TailFacts
<1>2. IsFiniteSet(C) /\ IsFiniteSet(R) /\ Cardinality(C) \in Nat /\ Cardinality(R) \in Nat
  BY <1>1, CreatesType
<1>3. /\ \A i \in R : i \in 1 .. n - 1 /\ i + 1 \in C \ {1}
      /\ \A i \in C \ {1} : i - 1 \in R /\ i \in 1 .. n
  <2>0. /\ C = {i \in 1 .. n : q[i].header = "002"}
        /\ R = {i \in 1 .. n - 1 : r[i].header = "002"}
    BY <1>1 DEF Creates
  <2> HIDE DEF r, n, C, R
  <2>1. ASSUME NEW i \in R PROVE i \in 1 .. n - 1 /\ i + 1 \in C \ {1}
    <3>1. i \in 1 .. n - 1 /\ r[i].header = "002" /\ i + 1 \in 1 .. n /\ i + 1 # 1
      BY <1>1, <2>0
    <3> QED BY <1>1, <2>0, <3>1
  <2>2. ASSUME NEW i \in C \ {1} PROVE i - 1 \in R /\ i \in 1 .. n
    <3>1. i \in 1 .. n /\ q[i].header = "002" /\ i - 1 \in 1 .. n - 1 /\ (i - 1) + 1 = i
      BY <1>1, <2>0
    <3> QED BY <1>1, <2>0, <3>1
  <2> QED BY <2>1, <2>2
<1> HIDE DEF r, n, C, R
<1>4. f \in Bijection(R, C \ {1})
  <2>1. f \in [R -> C \ {1}]
    BY <1>3
  <2>2. \A i, j \in R : f[i] = f[j] => i = j
    BY <1>1, <1>3
  <2>3. \A i \in C \ {1} : i - 1 \in R /\ f[i - 1] = i
    BY <1>1, <1>3
  <2> QED BY <2>1, <2>2, <2>3 DEF Bijection, Injection, Surjection, IsInjective
<1>5. Cardinality(C \ {1}) = Cardinality(R)
  BY <1>2, <1>4, FS_Bijection DEF ExistsBijection
<1>6. 1 \in C <=> Head(q).header = "002"
  BY <1>1 DEF C, Creates, n
<1>7. Cardinality(C \ {1}) = IF 1 \in C THEN Cardinality(C) - 1 ELSE Cardinality(C)
  BY <1>2, FS_RemoveElement
<1>8. Cardinality(C) = IF Head(q).header = "002" THEN Cardinality(R) + 1 ELSE Cardinality(R)
  BY <1>2, <1>5, <1>6, <1>7
<1> QED BY <1>8 DEF C, R, r

-----------------------------------------------------------------------------
(* Texts, and the messages that carry them.                                *)

LEMMA TextFacts ==
  /\ <<>> \in Texts
  /\ \A c \in Chars : <<c>> \in Texts
  /\ \A x \in Texts : Len(x) \in Nat
  /\ \A x \in Texts, c \in Chars : Append(x, c) \in Texts
  BY AppendProperties, LenProperties DEF Texts

LEMMA InsertType ==
  ASSUME NEW x \in Texts, NEW p \in Nat, p <= Len(x), NEW c \in Chars
  PROVE  InsertAt(x, p + 1, c) \in Texts
<1>1. x \in Seq(Chars) /\ Len(x) \in Nat
      /\ \A i \in 1 .. Len(x) : x[i] \in Chars
  BY ElementOfSeq, LenProperties DEF Texts
<1>2. SubSeq(x, 1, p) \in Seq(Chars)
  BY <1>1, SubSeqProperties
<1>3. SubSeq(x, p + 1, Len(x)) \in Seq(Chars)
  <2>1. \A i \in p + 1 .. Len(x) : x[i] \in Chars
    BY <1>1
  <2> QED BY <1>1, <2>1, SubSeqProperties
<1>4. <<c>> \in Seq(Chars)
  OBVIOUS
<1>5. SubSeq(x, 1, p) \o <<c>> \o SubSeq(x, p + 1, Len(x)) \in Seq(Chars)
  BY <1>2, <1>3, <1>4, ConcatProperties
<1>6. (p + 1) - 1 = p
  OBVIOUS
<1> QED BY <1>5, <1>6 DEF InsertAt, Texts

LEMMA RemoveType ==
  ASSUME NEW x \in Texts, NEW p \in Nat \ {0}, p <= Len(x)
  PROVE  RemoveAt(x, p) \in Texts
<1>1. x \in Seq(Chars) /\ Len(x) \in Nat
      /\ \A i \in 1 .. Len(x) : x[i] \in Chars
  BY ElementOfSeq, LenProperties DEF Texts
<1>2. SubSeq(x, 1, p - 1) \in Seq(Chars)
  <2>1. \A i \in 1 .. p - 1 : x[i] \in Chars
    BY <1>1
  <2> QED BY <1>1, <2>1, SubSeqProperties
<1>3. SubSeq(x, p + 1, Len(x)) \in Seq(Chars)
  <2>1. \A i \in p + 1 .. Len(x) : x[i] \in Chars
    BY <1>1
  <2> QED BY <1>1, <2>1, SubSeqProperties
<1>4. SubSeq(x, 1, p - 1) \o SubSeq(x, p + 1, Len(x)) \in Seq(Chars)
  BY <1>2, <1>3, ConcatProperties
<1> QED BY <1>4 DEF RemoveAt, Texts

(* The copies of a text that a request may carry are texts. *)
LEMMA CopiesType ==
  ASSUME SharedTypes
  PROVE  TextCopies \subseteq Texts /\ ShownCopies \subseteq Texts
  BY TextFacts, Bounds DEF SharedTypes, TextCopies, ShownCopies, Copies

LEMMA MessageType ==
  /\ \A h \in Headers, r \in 0 .. MaxRooms, x \in Texts, p \in Int :
       /\ Message(h, r, x, p) \in Messages
       /\ Message(h, r, x, p).header = h /\ Message(h, r, x, p).room = r
       /\ Message(h, r, x, p).body = x
  /\ \A h \in Headers : /\ Plain(h) \in Messages /\ Plain(h).header = h
                        /\ Plain(h).room = 0
  BY TextFacts, Bounds DEF Message, Plain, Messages

-----------------------------------------------------------------------------
(* The variables have their types.  A room is created, and a join names a  *)
(* room, within the bound because every create that waits has its share of *)
(* the budget already.                                                     *)

Wired ==
  /\ created + Cardinality(Creates(to_server)) <= budget.rooms
  /\ \A i \in 1 .. Len(to_server) : to_server[i].room <= created

TypeInv == TypeOK /\ Wired /\ (gpc = "erased" => text_input_cursor_position > 0)

(* What the counters are bounded by. *)
LEMMA Counted ==
  ASSUME TypeInv
  PROVE  /\ to_server \in Seq(Messages) /\ to_client \in Seq(Messages)
         /\ created \in Nat /\ created <= MaxRooms /\ client_joined_room \in 0 .. created
         /\ budget.rooms \in Nat /\ budget.rooms <= MaxRooms
         /\ budget.events \in Nat /\ budget.events <= MaxEvents
         /\ Cardinality(Creates(to_server)) \in Nat
         /\ created + Cardinality(Creates(to_server)) <= budget.rooms
<1>1. /\ to_server \in Seq(Messages) /\ to_client \in Seq(Messages)
      /\ created \in 0 .. MaxRooms /\ client_joined_room \in 0 .. created
      /\ budget \in [events : 0 .. MaxEvents, presses : 0 .. MaxPresses,
                     changes : 0 .. MaxChanges, rooms : 0 .. MaxRooms]
  BY DEF TypeInv, TypeOK, WireTypes, ServerTypes, CountTypes
<1>2. budget.rooms \in 0 .. MaxRooms /\ budget.events \in 0 .. MaxEvents
  BY <1>1
<1>3. Cardinality(Creates(to_server)) \in Nat
  BY <1>1, CreatesType
<1>4. created + Cardinality(Creates(to_server)) <= budget.rooms
  BY DEF TypeInv, Wired
<1> QED BY <1>1, <1>2, <1>3, <1>4, Bounds

LEMMA SendKeeps ==
  ASSUME TypeInv, NEW m \in Messages, Send(m), m.room <= created,
         UNCHANGED created, budget'.rooms \in Nat,
         budget'.rooms >= budget.rooms + (IF m.header = "002" THEN 1 ELSE 0)
  PROVE  to_server' \in Seq(Messages) /\ ended' \in {"no", "exit", "crash"} /\ Wired'
<1>1. /\ to_server \in Seq(Messages) /\ ended \in {"no", "exit", "crash"}
      /\ created \in Nat /\ budget.rooms \in Nat /\ Wired
  BY Counted DEF TypeInv, TypeOK, SharedTypes
<1>2. Cardinality(Creates(to_server)) \in Nat
  BY <1>1, CreatesType
<1>3. CASE to_server' = Append(to_server, m) /\ UNCHANGED ended
  <2> DEFINE n == Len(to_server)
             c == Cardinality(Creates(to_server))
             d == Cardinality(Creates(Append(to_server, m)))
  <2>1. /\ Append(to_server, m) \in Seq(Messages) /\ n \in Nat /\ Len(to_server') = n + 1
        /\ \A i \in 1 .. n : to_server'[i] = to_server[i]
        /\ to_server'[n + 1] = m
    BY <1>1, <1>3, AppendFacts
  <2>2. d = IF m.header = "002" THEN c + 1 ELSE c
    BY <1>1, CreatesAppend
  <2>3. \A i \in 1 .. Len(to_server') : to_server'[i].room <= created'
    <3>1. \A i \in 1 .. n + 1 : i \in 1 .. n \/ i = n + 1
      BY <2>1
    <3>2. \A i \in 1 .. n : to_server[i].room <= created
      BY <1>1 DEF Wired
    <3> HIDE DEF n
    <3> QED BY <2>1, <3>1, <3>2
  <2>4. created + c <= budget.rooms /\ c \in Nat
    BY <1>1, <1>2 DEF Wired
  <2> HIDE DEF c, d
  <2>5. created + d <= budget'.rooms
    BY <1>1, <2>2, <2>4
  <2> QED BY <1>1, <1>3, <2>1, <2>3, <2>5 DEF Wired, d
<1>4. CASE UNCHANGED to_server /\ ended' \in {ended, "exit"}
  <2> DEFINE c == Cardinality(Creates(to_server))
  <2>1. created + c <= budget.rooms /\ c \in Nat
        /\ \A i \in 1 .. Len(to_server) : to_server[i].room <= created
    BY <1>1, <1>2 DEF Wired
  <2> HIDE DEF c
  <2>2. created + c <= budget'.rooms
    BY <1>1, <2>1
  <2> QED BY <1>1, <1>4, <2>1, <2>2 DEF Wired, c
<1> QED BY <1>3, <1>4 DEF Send

LEMMA QuietKeeps ==
  ASSUME TypeInv, UNCHANGED <<to_server, created>>, budget'.rooms \in Nat,
         budget'.rooms >= budget.rooms
  PROVE  to_server' \in Seq(Messages) /\ Wired'
<1> DEFINE c == Cardinality(Creates(to_server))
<1>1. created \in Nat /\ budget.rooms \in Nat /\ c \in Nat /\ created + c <= budget.rooms
  BY Counted
<1> HIDE DEF c
<1>2. created + c <= budget'.rooms
  BY <1>1
<1> QED BY <1>2, Counted DEF Wired, c, TypeInv

(* What a step of the window has to keep. *)
LEMMA WindowKeeps ==
  ASSUME TypeInv, ByWindow, SharedTypes', WindowTypes', CountTypes',
         to_server' \in Seq(Messages), Wired',
         gpc' = "erased" => text_input_cursor_position' > 0
  PROVE  TypeInv'
<1>1. ListenerTypes'
  BY DEF TypeInv, TypeOK, ByWindow, listener_vars, ListenerTypes
<1>2. ServerTypes'
  BY DEF TypeInv, TypeOK, ByWindow, server_vars, ServerTypes
<1>3. WireTypes'
  BY DEF TypeInv, TypeOK, ByWindow, WireTypes
<1> QED BY <1>1, <1>2, <1>3 DEF TypeInv, TypeOK

LEMMA FrameTypes ==
  ASSUME TypeInv, ByWindow,
         \/ EditThrows \/ InsertKey \/ EraseKey \/ ShowEdit \/ MoveCursor
         \/ LeaveStatus \/ ClearShown \/ EndEvents \/ RaceCrash
  PROVE  TypeInv'
<1>1. UNCHANGED <<to_server, created, budget>>
  BY DEF ByWindow, server_vars, EditThrows, Throw, InsertKey, EraseKey, ShowEdit,
         MoveCursor, LeaveStatus, ClearShown, EndEvents, RaceCrash, unedited
<1>2. to_server' \in Seq(Messages) /\ Wired'
  BY <1>1, Counted, QuietKeeps
<1>3. SharedTypes' /\ WindowTypes' /\ CountTypes'
      /\ (gpc' = "erased" => text_input_cursor_position' > 0)
  <2>1. SharedTypes /\ WindowTypes /\ CountTypes /\ Len(client_text_input_string) \in Nat
        /\ (gpc = "erased" => text_input_cursor_position > 0)
    BY TextFacts DEF TypeInv, TypeOK, SharedTypes
  <2>2. CASE EditThrows \/ RaceCrash
    BY <2>1, <2>2 DEF EditThrows, RaceCrash, Throw, SharedTypes, WindowTypes, CountTypes,
                      text_vars, window_vars
  <2>3. CASE InsertKey
    <3>1. budget.events \in Chars
      BY Counted, Bounds
    <3>2. client_text_input_string' \in Texts
      BY <2>1, <2>3, <3>1, InsertType DEF InsertKey, SharedTypes, WindowTypes
    <3> QED BY <2>1, <2>3, <3>2 DEF InsertKey, SharedTypes, WindowTypes, CountTypes, unedited
  <2>4. CASE EraseKey
    <3>1. client_text_input_string' \in Texts
      BY <2>1, <2>4, RemoveType DEF EraseKey, SharedTypes, WindowTypes
    <3>2. SharedTypes' /\ CountTypes'
      BY <2>1, <2>4, <3>1 DEF EraseKey, SharedTypes, CountTypes, unedited
    <3>3. /\ UNCHANGED <<text_input_cursor_position, window, popup>>
          /\ gpc' \in {"poll", "erased"} /\ has_updated_notepad' \in BOOLEAN
          /\ gpc' = "erased" => text_input_cursor_position # 0
      BY <2>1, <2>4 DEF EraseKey, WindowTypes, unedited
    <3> QED BY <2>1, <3>2, <3>3 DEF WindowTypes
  <2>5. CASE ShowEdit
    BY <2>1, <2>5 DEF ShowEdit, AtGui, SharedTypes, WindowTypes, CountTypes, unedited
  <2>6. CASE MoveCursor
    <3>1. text_input_cursor_position' \in Nat
      BY <2>1, <2>6 DEF MoveCursor, Moved, WindowTypes
    <3> QED BY <2>1, <2>6, <3>1 DEF MoveCursor, SharedTypes, WindowTypes, CountTypes,
                                     unedited, text_vars
  <2>7. CASE LeaveStatus \/ ClearShown \/ EndEvents
    BY <2>1, <2>7 DEF LeaveStatus, ClearShown, EndEvents, SharedTypes, WindowTypes,
                      CountTypes, unedited, text_vars
  <2> QED BY <2>2, <2>3, <2>4, <2>5, <2>6, <2>7
<1> QED BY <1>2, <1>3, WindowKeeps

(* What a request that is sent has to keep. *)
LEMMA SendTypes ==
  ASSUME TypeInv, ByWindow, NEW m \in Messages, Send(m), m.room <= created,
         UNCHANGED <<text_vars, current_status>>, WindowTypes', gpc' # "erased", CountTypes',
         budget'.rooms >= budget.rooms + (IF m.header = "002" THEN 1 ELSE 0)
  PROVE  TypeInv'
<1>1. UNCHANGED created /\ budget'.rooms \in Nat
  BY Bounds DEF ByWindow, server_vars, CountTypes
<1>2. to_server' \in Seq(Messages) /\ ended' \in {"no", "exit", "crash"} /\ Wired'
  BY <1>1, SendKeeps
<1>3. SharedTypes'
  BY <1>2 DEF TypeInv, TypeOK, SharedTypes, text_vars
<1> QED BY <1>2, <1>3, WindowKeeps

(* What pressing a button does to the budget. *)
LEMMA PressTypes ==
  ASSUME TypeInv, NEW b, Pressing(b), b = "create" => budget.rooms < MaxRooms
  PROVE  /\ budget' \in [events : 0 .. MaxEvents, presses : 0 .. MaxPresses,
                         changes : 0 .. MaxChanges, rooms : 0 .. MaxRooms]
         /\ budget'.rooms = budget.rooms + (IF b = "create" THEN 1 ELSE 0)
<1>1. budget \in [events : 0 .. MaxEvents, presses : 0 .. MaxPresses,
                  changes : 0 .. MaxChanges, rooms : 0 .. MaxRooms]
  BY DEF TypeInv, TypeOK, CountTypes
<1>2. CASE b = "clear"
  <2>1. budget' = [budget EXCEPT !.events = @ + 1] /\ budget.events + 1 \in 0 .. MaxEvents
    BY <1>1, <1>2, Bounds DEF Pressing
  <2> QED BY <1>1, <1>2, <2>1, Bounds
<1>3. CASE b # "clear"
  <2> DEFINE n == IF b = "create" THEN budget.rooms + 1 ELSE budget.rooms
  <2>1. /\ budget' = [budget EXCEPT !.presses = @ + 1,
                                    !.rooms = IF b = "create" THEN @ + 1 ELSE @]
        /\ budget.presses + 1 \in 0 .. MaxPresses
    BY <1>1, <1>3, Bounds DEF Pressing
  <2>2. budget' = [budget EXCEPT !.presses = @ + 1, !.rooms = n]
    BY <1>1, <2>1
  <2>3. n \in 0 .. MaxRooms /\ n = budget.rooms + (IF b = "create" THEN 1 ELSE 0)
    BY <1>1, Bounds
  <2> HIDE DEF n
  <2> QED BY <1>1, <2>1, <2>2, <2>3
<1> QED BY <1>2, <1>3

LEMMA PressSendTypes ==
  ASSUME TypeInv, ByWindow, PressCreate \/ PressSave \/ PressLeave
  PROVE  TypeInv'
<1>1. SharedTypes /\ WindowTypes /\ CountTypes /\ TextCopies \subseteq Texts
      /\ ShownCopies \subseteq Texts /\ created \in Nat /\ budget.rooms \in Nat
  BY CopiesType, Counted DEF TypeInv, TypeOK
<1>2. PICK b \in {"create", "save", "leave"} :
        /\ Pressing(b) /\ (b = "create" => budget.rooms < MaxRooms)
        /\ \E m \in Messages : Send(m) /\ m.room = 0 /\ (m.header = "002" => b = "create")
        /\ gpc' \in {"update", "leave"}
        /\ UNCHANGED <<text_vars, popup, erased>>
  <2>1. CASE PressCreate
    <3>1. PICK x \in TextCopies : Send(Message("002", 0, x, 0))
      BY <2>1 DEF PressCreate
    <3>2. Message("002", 0, x, 0) \in Messages /\ Message("002", 0, x, 0).room = 0
      BY <1>1, MessageType, Bounds DEF Headers
    <3> QED BY <2>1, <3>1, <3>2 DEF PressCreate
  <2>2. CASE PressSave
    <3>1. PICK x \in ShownCopies : Send(Message("008", 0, x, 0))
      BY <2>2 DEF PressSave
    <3>2. /\ Message("008", 0, x, 0) \in Messages /\ Message("008", 0, x, 0).room = 0
          /\ Message("008", 0, x, 0).header = "008"
      BY <1>1, MessageType, Bounds DEF Headers
    <3> QED BY <2>2, <3>1, <3>2 DEF PressSave
  <2>3. CASE PressLeave
    BY <2>3, MessageType DEF PressLeave, Headers
  <2> QED BY <2>1, <2>2, <2>3
<1>3. /\ budget' \in [events : 0 .. MaxEvents, presses : 0 .. MaxPresses,
                      changes : 0 .. MaxChanges, rooms : 0 .. MaxRooms]
      /\ budget'.rooms = budget.rooms + (IF b = "create" THEN 1 ELSE 0)
  BY <1>2, PressTypes
<1>4. PICK m \in Messages : Send(m) /\ m.room = 0 /\ (m.header = "002" => b = "create")
  BY <1>2
<1>5. WindowTypes' /\ CountTypes' /\ UNCHANGED <<text_vars, current_status>>
      /\ gpc' # "erased"
  BY <1>1, <1>2, <1>3 DEF Pressing, WindowTypes, CountTypes
<1>6. m.room <= created
      /\ budget'.rooms >= budget.rooms + (IF m.header = "002" THEN 1 ELSE 0)
  BY <1>1, <1>3, <1>4
<1> QED BY <1>4, <1>5, <1>6, SendTypes

LEMMA ConfirmTypes ==
  ASSUME TypeInv, ByWindow, PressConfirm
  PROVE  TypeInv'
<1>1. WindowTypes /\ CountTypes /\ created \in Nat /\ created <= MaxRooms
      /\ budget.rooms \in Nat
  BY Counted DEF TypeInv, TypeOK
<1>2. PICK m \in Messages : Send(m) /\ m.room <= created /\ m.header # "002"
  <2>1. CASE popup = "join" /\ \E r \in 0 .. created : Send(Message("003", r, <<>>, 0))
    <3>1. PICK r \in 0 .. created : Send(Message("003", r, <<>>, 0))
      BY <2>1
    <3>2. r \in 0 .. MaxRooms
      BY <1>1, Bounds
    <3>3. "003" \in Headers /\ <<>> \in Texts
      BY TextFacts DEF Headers
    <3> DEFINE m == Message("003", r, <<>>, 0)
    <3>4. m \in Messages /\ m.room = r /\ m.header = "003"
      BY <3>2, <3>3, MessageType
    <3> HIDE DEF m
    <3> QED BY <1>1, <3>1, <3>4 DEF m
  <2>2. CASE Send(Plain("011")) \/ Send(Plain("010"))
    BY <1>1, <2>2, MessageType DEF Headers
  <2> QED BY <2>1, <2>2 DEF PressConfirm
<1>3. /\ UNCHANGED <<text_vars, current_status, budget>> /\ gpc' # "erased"
      /\ WindowTypes' /\ CountTypes'
  BY <1>1 DEF PressConfirm, WindowTypes, CountTypes
<1>4. budget'.rooms >= budget.rooms + (IF m.header = "002" THEN 1 ELSE 0)
  BY <1>1, <1>2, <1>3
<1> QED BY <1>2, <1>3, <1>4, SendTypes

LEMMA PressQuietTypes ==
  ASSUME TypeInv, ByWindow,
         PressDownload \/ PressClear \/ \E b \in Popups : PressPopup(b)
  PROVE  TypeInv'
<1>1. SharedTypes /\ WindowTypes /\ CountTypes /\ budget.rooms \in Nat
  BY Counted DEF TypeInv, TypeOK
<1>2. PICK b \in {"download", "clear"} \cup Popups :
        /\ Pressing(b) /\ SharedTypes' /\ erased' \in BOOLEAN /\ UNCHANGED to_server
        /\ popup' \in Popups \cup {"none"} /\ gpc' \in {"update", "cleared"}
  <2>1. CASE PressDownload
    BY <1>1, <2>1 DEF PressDownload, Pressing, SharedTypes, WindowTypes, CountTypes, text_vars
  <2>2. CASE PressClear
    BY <1>1, <2>2, TextFacts DEF PressClear, Pressing, SharedTypes, WindowTypes
  <2>3. CASE \E b \in Popups : PressPopup(b)
    BY <1>1, <2>3 DEF PressPopup, Pressing, SharedTypes, CountTypes, text_vars
  <2> QED BY <2>1, <2>2, <2>3
<1>3. b # "create"
  BY DEF Popups
<1>4. /\ budget' \in [events : 0 .. MaxEvents, presses : 0 .. MaxPresses,
                      changes : 0 .. MaxChanges, rooms : 0 .. MaxRooms]
      /\ budget'.rooms = budget.rooms
  BY <1>1, <1>2, <1>3, PressTypes
<1>5. WindowTypes' /\ CountTypes' /\ gpc' # "erased"
  BY <1>1, <1>2, <1>4 DEF Pressing, WindowTypes, CountTypes
<1>6. to_server' \in Seq(Messages) /\ Wired'
  BY <1>1, <1>2, <1>4, QuietKeeps DEF ByWindow, server_vars
<1> QED BY <1>2, <1>5, <1>6, WindowKeeps

LEMMA PollTypes ==
  ASSUME TypeInv, ByWindow, NEW e \in Events, PollEvent(e)
  PROVE  TypeInv'
<1>1. /\ SharedTypes /\ WindowTypes /\ erased \in BOOLEAN /\ budget.rooms \in Nat
      /\ budget \in [events : 0 .. MaxEvents, presses : 0 .. MaxPresses,
                     changes : 0 .. MaxChanges, rooms : 0 .. MaxRooms]
      /\ Len(client_text_input_string) \in Nat
  BY Counted, TextFacts DEF TypeInv, TypeOK, CountTypes, SharedTypes
<1>2. budget' = [budget EXCEPT !.events = @ + 1] /\ budget.events + 1 \in 0 .. MaxEvents
  BY <1>1, Bounds DEF PollEvent
<1>3. CountTypes' /\ budget'.rooms = budget.rooms
  BY <1>1, <1>2 DEF CountTypes, PollEvent
<1>4. SharedTypes'
  BY <1>1 DEF SharedTypes, PollEvent, shared_vars, text_vars
<1>5. text_input_cursor_position' \in Nat
  BY <1>1 DEF PollEvent, Clamped, WindowTypes
<1>6. WindowTypes' /\ gpc' # "erased"
  BY <1>1, <1>5, NotepadAssumption DEF PollEvent, WindowTypes, AtGui
<1>7. to_server' \in Seq(Messages) /\ Wired'
  BY <1>1, <1>3, QuietKeeps DEF ByWindow, server_vars, PollEvent
<1> QED BY <1>3, <1>4, <1>6, <1>7, WindowKeeps

LEMMA UpdateTypes ==
  ASSUME TypeInv, ByWindow, ClearSend \/ SendUpdate \/ SendCursor
  PROVE  TypeInv'
<1>1. SharedTypes /\ WindowTypes /\ CountTypes /\ TextCopies \subseteq Texts
      /\ created \in Nat /\ budget.rooms \in Nat
  BY CopiesType, Counted DEF TypeInv, TypeOK
<1>2. UNCHANGED unsent /\ WindowTypes' /\ CountTypes' /\ gpc' # "erased"
      /\ UNCHANGED <<text_vars, current_status, budget>>
  <2>1. CASE ClearSend
    BY <1>1, <2>1 DEF ClearSend, unsent, WindowTypes, CountTypes
  <2>2. CASE SendUpdate
    BY <1>1, <2>2 DEF SendUpdate, NextFrame, unsent, WindowTypes, CountTypes
  <2>3. CASE SendCursor
    BY <1>1, <2>3 DEF SendCursor, NextFrame, unsent, WindowTypes, CountTypes
  <2> QED BY <2>1, <2>2, <2>3
<1>3. CASE \E m \in Messages : Send(m) /\ m.room = 0 /\ m.header # "002"
  <2>1. PICK m \in Messages : Send(m) /\ m.room = 0 /\ m.header # "002"
    BY <1>3
  <2>2. budget'.rooms >= budget.rooms + (IF m.header = "002" THEN 1 ELSE 0)
        /\ m.room <= created
    BY <1>1, <1>2, <2>1
  <2> QED BY <1>2, <2>1, <2>2, SendTypes
<1>4. CASE UNCHANGED <<ended, to_server>>
  <2>1. to_server' \in Seq(Messages) /\ Wired'
    BY <1>1, <1>2, <1>4, QuietKeeps DEF ByWindow, server_vars
  <2>2. SharedTypes'
    BY <1>1, <1>2, <1>4 DEF SharedTypes, text_vars
  <2> QED BY <1>2, <2>1, <2>2, WindowKeeps
<1>5. \/ \E m \in Messages : Send(m) /\ m.room = 0 /\ m.header # "002"
      \/ UNCHANGED <<ended, to_server>>
  <2>1. ASSUME NEW x \in TextCopies, Send(Message("005", 0, x, 0))
        PROVE  \E m \in Messages : Send(m) /\ m.room = 0 /\ m.header # "002"
    BY <1>1, <2>1, MessageType, Bounds DEF Headers
  <2>2. CASE ClearSend
    BY <2>1, <2>2 DEF ClearSend
  <2>3. CASE SendUpdate
    BY <2>1, <2>3 DEF SendUpdate
  <2>4. CASE SendCursor
    <3>1. text_input_cursor_position \in Int
      BY <1>1 DEF WindowTypes
    <3> DEFINE m == Message("006", 0, <<>>, text_input_cursor_position)
    <3>2. "006" \in Headers /\ 0 \in 0 .. MaxRooms /\ <<>> \in Texts
      BY TextFacts, Bounds DEF Headers
    <3>3. m \in Messages /\ m.room = 0 /\ m.header = "006"
      BY <3>1, <3>2, MessageType
    <3> HIDE DEF m
    <3> QED BY <2>4, <3>3 DEF SendCursor, m
  <2> QED BY <2>2, <2>3, <2>4
<1> QED BY <1>3, <1>4, <1>5

LEMMA ListenTypes ==
  ASSUME TypeInv, Listen
  PROVE  TypeInv'
<1>1. SharedTypes /\ ListenerTypes /\ WireTypes /\ WindowTypes /\ ServerTypes /\ CountTypes
  BY DEF TypeInv, TypeOK
<1>2. UNCHANGED <<to_server, created, budget>> /\ budget.rooms \in Nat
  BY Counted DEF Listen, ByListener, server_vars
<1>3. Wired' /\ (gpc' = "erased" => text_input_cursor_position' > 0)
  BY <1>2, QuietKeeps DEF Listen, ByListener, window_vars, TypeInv
<1>4. WindowTypes'
  BY <1>1 DEF Listen, ByListener, window_vars, WindowTypes
<1>5. ServerTypes'
  BY <1>1 DEF Listen, ByListener, server_vars, ServerTypes
<1>6. CountTypes'
  BY <1>1 DEF Listen, ByListener, CountTypes
<1>7. SharedTypes' /\ ListenerTypes' /\ WireTypes'
  <2>0. to_server' = to_server
    BY <1>2
  <2>1. CASE Receive
    <3>1. Head(to_client) \in Messages /\ Tail(to_client) \in Seq(Messages)
      BY <1>1, <2>1, TailFacts DEF Receive, WireTypes
    <3>2. received' \in Messages /\ to_client' \in Seq(Messages)
          /\ UNCHANGED <<shared_vars, client_input_cursor_position, current_room_id, link>>
          /\ lpc' \in {"recv", "room", "joined", "left", "assign", "show", "cursor"}
      BY <2>1, <3>1 DEF Receive, Handler
    <3> QED BY <1>1, <2>0, <3>2 DEF SharedTypes, ListenerTypes, WireTypes, shared_vars, text_vars
  <2>2. CASE ReceiveEnd
    BY <1>1, <2>0, <2>2 DEF ReceiveEnd, SharedTypes, ListenerTypes, WireTypes, listener_vars,
                            text_vars
  <2>3. CASE ReceiveError
    <3>1. lpc' \in {"recv", "room", "joined", "left", "assign", "show", "cursor"}
      BY <2>3 DEF ReceiveError, Handler
    <3> QED BY <1>1, <2>0, <2>3, <3>1 DEF ReceiveError, SharedTypes, ListenerTypes, WireTypes,
                                          text_vars
  <2>4. CASE SetRoom
    <3>1. received.room \in 0 .. MaxRooms
      BY <1>1 DEF ListenerTypes, Messages
    <3> QED BY <1>1, <2>0, <2>4, <3>1 DEF SetRoom, SharedTypes, ListenerTypes, WireTypes,
                                          unread, text_vars
  <2>5. CASE SetStatus
    BY <1>1, <2>0, <2>5 DEF SetStatus, StatusAfter, ListenerDone, SharedTypes, ListenerTypes,
                            WireTypes, unread, text_vars
  <2>6. CASE SetOtherCursor
    <3>1. received.pos % UInt16 \in 0 .. UInt16 - 1
      <4>1. received.pos \in Int
        BY <1>1 DEF ListenerTypes, Messages
      <4>2. UInt16 \in Nat \ {0}
        BY DEF UInt16
      <4> QED BY <4>1, <4>2
    <3> QED BY <1>1, <2>0, <2>6, <3>1 DEF SetOtherCursor, ListenerDone, SharedTypes,
                                          ListenerTypes, WireTypes, unread, text_vars
  <2>7. CASE AssignText \/ ShowText
    <3>1. received.body \in Texts
      BY <1>1 DEF ListenerTypes, Messages
    <3> QED BY <1>1, <2>0, <2>7, <3>1 DEF AssignText, ShowText, ListenerDone, SharedTypes,
                                          ListenerTypes, WireTypes, unread
  <2> QED BY <2>1, <2>2, <2>3, <2>4, <2>5, <2>6, <2>7 DEF Listen
<1> QED BY <1>1, <1>3, <1>4, <1>5, <1>6, <1>7 DEF TypeInv, TypeOK

(* What the server and the other member leave alone. *)
LEMMA ServerKeeps ==
  ASSUME TypeInv, ByServer, WireTypes', ServerTypes', CountTypes', Wired'
  PROVE  TypeInv'
<1>1. SharedTypes'
  BY DEF TypeInv, TypeOK, SharedTypes, ByServer, shared_vars, text_vars
<1>2. WindowTypes' /\ (gpc' = "erased" => text_input_cursor_position' > 0)
  BY DEF TypeInv, TypeOK, WindowTypes, ByServer, window_vars
<1>3. ListenerTypes'
  BY DEF TypeInv, TypeOK, ListenerTypes, ByServer, listener_vars
<1> QED BY <1>1, <1>2, <1>3 DEF TypeInv, TypeOK

(* A reply of the server's is a sequence of messages. *)
LEMMA ReplyType ==
  ASSUME NEW q \in Seq(Messages), NEW a \in Messages, NEW b \in Messages
  PROVE  q \o <<a>> \in Seq(Messages) /\ q \o <<a, b>> \in Seq(Messages)
<1>1. Append(q, a) \in Seq(Messages)
  BY AppendFacts
<1>2. Append(Append(q, a), b) \in Seq(Messages)
  BY <1>1, AppendFacts
<1> QED BY <1>1, <1>2, ConcatFacts

(* What is left of the bounds when a request is taken. *)
LEMMA TakeKeeps ==
  ASSUME TypeInv, to_server # <<>>, to_server' = Tail(to_server), UNCHANGED budget
  PROVE  /\ Head(to_server) \in Messages /\ Head(to_server).room <= created
         /\ to_server' \in Seq(Messages)
         /\ UNCHANGED created => Wired'
         /\ Head(to_server).header = "002" =>
              /\ created + 1 \in 1 .. MaxRooms
              /\ created' = created + 1 => Wired'
<1> DEFINE q == to_server
           n == Len(q)
           c == Cardinality(Creates(q))
           d == Cardinality(Creates(Tail(q)))
<1>1. /\ q \in Seq(Messages) /\ created \in Nat /\ c \in Nat
      /\ budget.rooms \in Nat /\ budget.rooms <= MaxRooms /\ created + c <= budget.rooms
  BY Counted
<1>2. /\ Tail(q) \in Seq(Messages) /\ Head(q) \in Messages /\ Head(q) = q[1]
      /\ n \in Nat \ {0} /\ Len(Tail(q)) = n - 1
      /\ \A i \in 1 .. n - 1 : Tail(q)[i] = q[i + 1]
  BY <1>1, TailFacts
<1>3. d \in Nat /\ c = IF Head(q).header = "002" THEN d + 1 ELSE d
  BY <1>1, <1>2, CreatesType, CreatesTail
<1>4. \A i \in 1 .. n : q[i].room <= created
  BY DEF TypeInv, Wired
<1>5. q[1].room <= created /\ \A i \in 1 .. n - 1 : Tail(q)[i].room <= created
  <2> HIDE DEF n, q
  <2>1. 1 \in 1 .. n /\ \A i \in 1 .. n - 1 : i + 1 \in 1 .. n
    BY <1>2
  <2> QED BY <1>2, <1>4, <2>1
<1>6. \A i \in 1 .. n - 1 : Tail(q)[i].room <= created + 1
  <2>1. \A i \in 1 .. n - 1 : Tail(q)[i].room \in Int
    <3>1. \A i \in 1 .. n - 1 : Tail(q)[i] \in Messages
      BY <1>2, ElementOfSeq
    <3>2. \A m \in Messages : m.room \in Int
      BY Bounds DEF Messages
    <3> QED BY <3>1, <3>2
  <2> SUFFICES ASSUME NEW i \in 1 .. n - 1 PROVE Tail(q)[i].room <= created + 1
    OBVIOUS
  <2> DEFINE x == Tail(q)[i].room
  <2>2. x \in Int /\ x <= created
    BY <1>5, <2>1
  <2> HIDE DEF x
  <2>3. x <= created + 1
    BY <1>1, <2>2
  <2> QED BY <2>3 DEF x
<1>7. UNCHANGED created => Wired'
  <2> HIDE DEF c, d
  <2>1. created + d <= budget.rooms
    BY <1>1, <1>3
  <2> QED BY <1>2, <1>5, <2>1 DEF Wired, d
<1>8. ASSUME Head(q).header = "002"
      PROVE  created + 1 \in 1 .. MaxRooms /\ (created' = created + 1 => Wired')
  <2> HIDE DEF c, d
  <2>1. (created + 1) + d <= budget.rooms /\ created + 1 <= MaxRooms
    BY <1>1, <1>3, <1>8, Bounds
  <2>2. created + 1 \in 1 .. MaxRooms
    BY <1>1, <2>1, Bounds
  <2> QED BY <1>2, <1>6, <2>1, <2>2 DEF Wired, d
<1> QED BY <1>2, <1>5, <1>7, <1>8

LEMMA ServeTypes ==
  ASSUME TypeInv, Serve
  PROVE  TypeInv'
<1> DEFINE m == Head(to_server)
<1>1. /\ WireTypes /\ ServerTypes /\ CountTypes /\ to_client \in Seq(Messages)
      /\ created \in Nat /\ created <= MaxRooms /\ client_joined_room \in 0 .. created
  BY Counted DEF TypeInv, TypeOK
<1>2. /\ to_server # <<>> /\ to_server' = Tail(to_server) /\ ByServer
      /\ UNCHANGED <<link, budget, erased>>
  BY DEF Serve, ServerHandle
<1>3. /\ m \in Messages /\ m.room \in 0 .. created /\ m.body \in Texts
      /\ to_server' \in Seq(Messages)
      /\ UNCHANGED created => Wired'
      /\ m.header = "002" => /\ created + 1 \in 1 .. MaxRooms
                             /\ created' = created + 1 => Wired'
  <2>1. /\ m \in Messages /\ m.room <= created /\ to_server' \in Seq(Messages)
        /\ UNCHANGED created => Wired'
        /\ m.header = "002" => /\ created + 1 \in 1 .. MaxRooms
                               /\ created' = created + 1 => Wired'
    BY <1>2, TakeKeeps
  <2>2. m.room \in Nat /\ m.body \in Texts
    BY <2>1, Bounds DEF Messages
  <2> HIDE DEF m
  <2>3. m.room \in 0 .. created
    BY <1>1, <2>1, <2>2
  <2> QED BY <2>1, <2>2, <2>3
<1> HIDE DEF m
<1>4. 0 \in 0 .. MaxRooms /\ 0 .. created \subseteq 0 .. MaxRooms
      /\ (\A r \in 0 .. created : r # 0 => r \in Rooms)
  BY <1>1, Bounds DEF Rooms
<1>5. \A h \in Headers, r \in 0 .. created, x \in Texts, p \in Int : Message(h, r, x, p) \in Messages
  BY <1>4, MessageType
<1>6. CASE UNCHANGED <<to_client, server_vars>>
  <2>1. Wired' /\ WireTypes'
    BY <1>1, <1>2, <1>3, <1>6 DEF server_vars, WireTypes
  <2> QED BY <1>1, <1>2, <1>6, <2>1, ServerKeeps DEF server_vars, ServerTypes, CountTypes
<1> DEFINE Answers == to_client' \in Seq(Messages) /\ ServerTypes' /\ Wired'
<1>7. ASSUME Answers PROVE TypeInv'
  <2>1. WireTypes' /\ CountTypes'
    BY <1>1, <1>2, <1>3, <1>7 DEF WireTypes, CountTypes
  <2> QED BY <1>2, <1>7, <2>1, ServerKeeps
<1>8. ASSUME NEW h \in Headers, Reply(<<Plain(h)>>), UNCHANGED server_vars PROVE Answers
  <2>1. to_client' \in Seq(Messages)
    BY <1>1, <1>8, ReplyType, MessageType DEF Reply
  <2> QED BY <1>1, <1>3, <1>8, <2>1 DEF server_vars, ServerTypes
<1> HIDE DEF Answers
<1>9. CASE m.header = "002" /\ ServerCreate(m)
  <2>1. CASE Reply(<<Plain("102")>>) /\ UNCHANGED server_vars
    BY <1>7, <1>8, <2>1 DEF Headers
  <2>2. CASE /\ created' = created + 1 /\ client_joined_room' = created + 1
             /\ notepad_collab' = [notepad_collab EXCEPT ![created + 1] = m.body]
             /\ Reply(<<Message("101", created + 1, <<>>, 0)>>)
             /\ UNCHANGED member_cursor
    <3>1. Message("101", created + 1, <<>>, 0) \in Messages
      <4>1. "101" \in Headers /\ created + 1 \in 0 .. MaxRooms /\ <<>> \in Texts
        BY <1>3, <1>9, TextFacts DEF Headers
      <4> QED BY <4>1, MessageType
    <3>2. to_client' \in Seq(Messages)
      BY <1>1, <2>2, <3>1, ReplyType DEF Reply
    <3>3. notepad_collab' \in [Rooms -> Texts]
      BY <1>1, <1>3, <2>2 DEF ServerTypes
    <3>4. client_joined_room' \in 0 .. created' /\ created' \in 0 .. MaxRooms
      BY <1>1, <1>3, <1>9, <2>2
    <3> QED BY <1>1, <1>3, <1>7, <1>9, <2>2, <3>2, <3>3, <3>4 DEF Answers, ServerTypes
  <2> QED BY <1>9, <2>1, <2>2 DEF ServerCreate
<1>10. CASE m.header = "003" /\ ServerJoin(m)
  <2>1. CASE \E h \in {"108", "109"} : Reply(<<Plain(h)>>) /\ UNCHANGED server_vars
    BY <1>7, <1>8, <2>1 DEF Headers
  <2>2. CASE /\ m.room # 0 /\ client_joined_room' = m.room /\ Reply(Joined(m.room))
             /\ UNCHANGED <<notepad_collab, created, member_cursor>>
    <3> DEFINE a == Message("104", m.room, <<>>, 0)
               b == Message("204", m.room, notepad_collab[m.room], 0)
    <3>1. notepad_collab[m.room] \in Texts
      BY <1>1, <1>3, <1>4, <2>2 DEF ServerTypes
    <3>2. a \in Messages /\ b \in Messages
      BY <1>3, <1>5, <3>1, TextFacts DEF Headers
    <3>3. to_client' = to_client \o <<a, b>>
      BY <2>2 DEF Reply, Joined
    <3> HIDE DEF a, b
    <3>4. to_client' \in Seq(Messages)
      BY <1>1, <3>2, <3>3, ReplyType
    <3> QED BY <1>1, <1>3, <1>7, <2>2, <3>4 DEF Answers, ServerTypes
  <2> QED BY <1>10, <2>1, <2>2 DEF ServerJoin
<1>11. CASE m.header = "004" /\ ServerLeave
  <2>1. to_client' \in Seq(Messages)
    BY <1>1, <1>11, ReplyType, MessageType DEF ServerLeave, Reply, Headers
  <2>2. ServerTypes'
    BY <1>1, <1>11 DEF ServerLeave, ServerTypes
  <2> QED BY <1>3, <1>7, <1>11, <2>1, <2>2 DEF Answers, ServerLeave
<1>12. CASE m.header = "005" /\ ServerUpdate(m)
  <2> DEFINE r == client_joined_room
  <2>1. CASE /\ r # 0 /\ notepad_collab' = [notepad_collab EXCEPT ![r] = m.body]
             /\ Reply(<<Message("112", r, m.body, 0)>>)
             /\ UNCHANGED <<client_joined_room, created, member_cursor>>
    <3>1. Message("112", r, m.body, 0) \in Messages
      BY <1>1, <1>3, <1>5 DEF Headers
    <3>2. to_client' \in Seq(Messages)
      BY <1>1, <2>1, <3>1, ReplyType DEF Reply
    <3>3. notepad_collab' \in [Rooms -> Texts]
      BY <1>1, <1>3, <2>1 DEF ServerTypes
    <3> QED BY <1>1, <1>3, <1>7, <2>1, <3>2, <3>3 DEF Answers, ServerTypes
  <2> QED BY <1>6, <1>12, <2>1 DEF ServerUpdate
<1>13. CASE m.header = "006" /\ ServerCursor
  <2> DEFINE r == client_joined_room
  <2>1. CASE r # 0 /\ Reply(<<Message("113", r, <<>>, member_cursor[r])>>)
             /\ UNCHANGED server_vars
    <3>1. member_cursor[r] \in Int
      BY <1>1, <1>4, <2>1 DEF ServerTypes
    <3>2. Message("113", r, <<>>, member_cursor[r]) \in Messages
      BY <1>1, <1>5, <3>1, TextFacts DEF Headers
    <3>3. to_client' \in Seq(Messages)
      BY <1>1, <2>1, <3>2, ReplyType DEF Reply
    <3> QED BY <1>1, <1>3, <1>7, <2>1, <3>3 DEF Answers, ServerTypes, server_vars
  <2> QED BY <1>6, <1>13, <2>1 DEF ServerCursor
<1>14. CASE ServerDocument(m)
  <2>1. CASE \E h \in {"115", "116", "117", "118"} : Reply(<<Plain(h)>>)
    BY <1>7, <1>8, <1>14, <2>1 DEF ServerDocument, Headers
  <2>2. CASE \E x \in {<<>>, <<TheirChar>>} : Reply(<<Message("204", 0, x, 0)>>)
    <3>1. PICK x \in {<<>>, <<TheirChar>>} : Reply(<<Message("204", 0, x, 0)>>)
      BY <2>2
    <3>2. x \in Texts /\ "204" \in Headers
      BY TextFacts, Bounds DEF Headers
    <3>3. Message("204", 0, x, 0) \in Messages
      BY <1>4, <3>2, MessageType
    <3>4. to_client' \in Seq(Messages)
      BY <1>1, <3>1, <3>3, ReplyType DEF Reply
    <3> QED BY <1>1, <1>3, <1>7, <1>14, <3>4 DEF Answers, ServerTypes, server_vars, ServerDocument
  <2> QED BY <1>14, <2>1, <2>2 DEF ServerDocument
<1> QED BY <1>9, <1>10, <1>11, <1>12, <1>13, <1>14 DEF Serve, ServerHandle, m

LEMMA OthersTypes ==
  ASSUME TypeInv, Others
  PROVE  TypeInv'
<1>1. /\ WireTypes /\ ServerTypes /\ CountTypes /\ to_client \in Seq(Messages) /\ Wired
      /\ created \in Nat /\ created <= MaxRooms /\ client_joined_room \in 0 .. created
      /\ budget.rooms \in Nat /\ budget.rooms <= MaxRooms
      /\ Cardinality(Creates(to_server)) \in Nat
      /\ created + Cardinality(Creates(to_server)) <= budget.rooms
      /\ to_server \in Seq(Messages)
      /\ budget \in [events : 0 .. MaxEvents, presses : 0 .. MaxPresses,
                     changes : 0 .. MaxChanges, rooms : 0 .. MaxRooms]
  BY Counted DEF TypeInv, TypeOK, CountTypes
<1>2. ByServer
  BY DEF Others
<1>3. CASE OtherCreates
  <2> DEFINE c == Cardinality(Creates(to_server))
  <2>1. /\ UNCHANGED <<link, to_server, to_client, client_joined_room, member_cursor, erased>>
        /\ created' = created + 1 /\ budget.rooms < MaxRooms
        /\ budget' = [budget EXCEPT !.rooms = @ + 1]
    BY <1>3 DEF OtherCreates
  <2>2. budget' \in [events : 0 .. MaxEvents, presses : 0 .. MaxPresses,
                     changes : 0 .. MaxChanges, rooms : 0 .. MaxRooms]
        /\ budget'.rooms = budget.rooms + 1
    <3>1. budget.rooms + 1 \in 0 .. MaxRooms
      <4>1. budget.rooms \in Nat /\ budget.rooms < MaxRooms
        BY <1>1, <2>1
      <4> QED BY <4>1, Bounds
    <3> QED BY <1>1, <2>1, <3>1
  <2>3. CountTypes' /\ WireTypes'
    BY <1>1, <2>1, <2>2 DEF CountTypes, WireTypes
  <2>4. /\ created + 1 \in 1 .. MaxRooms /\ client_joined_room \in 0 .. created + 1
        /\ (created + 1) + c <= budget'.rooms
    <3> HIDE DEF c
    <3>1. created + c <= budget.rooms /\ c \in Nat /\ created \in Nat
          /\ budget.rooms \in Nat /\ budget.rooms < MaxRooms
          /\ budget'.rooms = budget.rooms + 1 /\ client_joined_room \in 0 .. created
      BY <1>1, <2>1, <2>2 DEF c
    <3>2. (created + 1) + c <= budget'.rooms /\ created + 1 <= MaxRooms
      BY <3>1, Bounds
    <3>3. created + 1 \in 1 .. MaxRooms /\ client_joined_room \in 0 .. created + 1
      BY <3>1, <3>2, Bounds
    <3> QED BY <3>2, <3>3
  <2>5. ServerTypes'
    <3>1. PICK x \in {<<>>, <<TheirChar>>} :
            notepad_collab' = [notepad_collab EXCEPT ![created + 1] = x]
      BY <1>3 DEF OtherCreates
    <3>2. notepad_collab' \in [Rooms -> Texts]
      BY <1>1, <3>1, TextFacts, Bounds DEF ServerTypes
    <3> QED BY <1>1, <2>1, <2>4, <3>2 DEF ServerTypes
  <2>6. ASSUME NEW i \in 1 .. Len(to_server) PROVE to_server[i].room <= created + 1
    <3> DEFINE x == to_server[i].room
    <3>1. to_server[i] \in Messages
      BY <1>1, ElementOfSeq
    <3>2. x \in Int
      BY <3>1, Bounds DEF Messages
    <3>3. x <= created
      BY <1>1 DEF Wired
    <3> HIDE DEF x
    <3>4. x <= created + 1
      BY <1>1, <3>2, <3>3
    <3> QED BY <3>4 DEF x
  <2>7. Wired'
    BY <2>1, <2>4, <2>6 DEF Wired
  <2> QED BY <1>2, <2>3, <2>5, <2>7, ServerKeeps
<1>4. CASE LinkEnds
  <2>1. UNCHANGED <<to_server, server_vars, budget, erased>>
        /\ link' \in {"open", "fin", "rst"} /\ to_client' \in {to_client, <<>>}
    BY <1>4, NotepadAssumption DEF LinkEnds
  <2>2. WireTypes'
    <3>1. to_client' \in Seq(Messages)
      <4>1. to_client \in Seq(Messages) /\ <<>> \in Seq(Messages)
        BY <1>1
      <4> QED BY <2>1, <4>1
    <3> QED BY <1>1, <2>1, <3>1 DEF WireTypes
  <2>3. ServerTypes' /\ CountTypes'
    BY <1>1, <2>1 DEF server_vars, ServerTypes, CountTypes
  <2>4. Wired'
    BY <1>1, <2>1 DEF server_vars, Wired
  <2> QED BY <1>2, <2>2, <2>3, <2>4, ServerKeeps
<1>5. ASSUME NEW r \in Rooms, OtherUpdates(r) PROVE TypeInv'
  <2>1. /\ UNCHANGED <<link, to_server, client_joined_room, created>> /\ r <= created
        /\ budget.changes < MaxChanges
        /\ budget' = [budget EXCEPT !.changes = @ + 1] /\ erased' = TRUE
    BY <1>5 DEF OtherUpdates
  <2>2. PICK x \in {Append(notepad_collab[r], TheirChar), <<>>} :
          /\ notepad_collab' = [notepad_collab EXCEPT ![r] = x]
          /\ member_cursor' = [member_cursor EXCEPT ![r] = Len(x)]
          /\ IF client_joined_room = r
             THEN Reply(<<Message("112", r, x, 0), Message("113", r, <<>>, Len(x))>>)
             ELSE UNCHANGED to_client
    BY <1>5 DEF OtherUpdates
  <2>3. x \in Texts /\ Len(x) \in Int
    <3>1. notepad_collab[r] \in Texts
      BY <1>1 DEF ServerTypes
    <3>2. x \in Texts
      BY <2>2, <3>1, TextFacts, Bounds
    <3> QED BY <3>2, TextFacts
  <2>4. budget' \in [events : 0 .. MaxEvents, presses : 0 .. MaxPresses,
                     changes : 0 .. MaxChanges, rooms : 0 .. MaxRooms]
        /\ budget'.rooms = budget.rooms
    <3>1. budget.changes + 1 \in 0 .. MaxChanges
      <4>1. budget.changes \in 0 .. MaxChanges /\ budget.changes < MaxChanges
        BY <1>1, <2>1
      <4> QED BY <4>1, Bounds
    <3> QED BY <1>1, <2>1, <3>1
  <2>5. CountTypes'
    BY <2>1, <2>4 DEF CountTypes
  <2>6. notepad_collab' \in [Rooms -> Texts]
    BY <1>1, <2>2, <2>3 DEF ServerTypes
  <2>7. member_cursor' \in [Rooms -> Int]
    BY <1>1, <2>2, <2>3 DEF ServerTypes
  <2>8. ServerTypes'
    BY <1>1, <2>1, <2>6, <2>7 DEF ServerTypes
  <2>9. to_client' \in Seq(Messages)
    <3> DEFINE a == Message("112", r, x, 0)
               b == Message("113", r, <<>>, Len(x))
    <3>1. r \in 0 .. MaxRooms
      BY Bounds DEF Rooms
    <3>2. a \in Messages
      BY <2>3, <3>1, MessageType DEF Headers
    <3>3. b \in Messages
      BY <2>3, <3>1, MessageType, TextFacts DEF Headers
    <3>4. to_client' \in {to_client, to_client \o <<a, b>>}
      BY <2>2 DEF Reply
    <3> HIDE DEF a, b
    <3>5. to_client \o <<a, b>> \in Seq(Messages)
      BY <1>1, <3>2, <3>3, ReplyType
    <3> QED BY <1>1, <3>4, <3>5
  <2>10. WireTypes'
    BY <1>1, <2>1, <2>9 DEF WireTypes
  <2>11. Wired'
    BY <1>1, <2>1, <2>4 DEF Wired
  <2> QED BY <1>2, <2>5, <2>8, <2>10, <2>11, ServerKeeps
<1> QED BY <1>3, <1>4, <1>5 DEF Others

LEMMA TypeInvStep ==
  ASSUME TypeInv, [Next]_vars
  PROVE  TypeInv'
<1>1. CASE User
  BY <1>1, PollTypes, PressSendTypes, PressQuietTypes, ConfirmTypes DEF User
<1>2. CASE Frame
  BY <1>2, FrameTypes, UpdateTypes DEF Frame
<1>3. CASE Listen
  BY <1>3, ListenTypes
<1>4. CASE Serve
  BY <1>4, ServeTypes
<1>5. CASE Others
  BY <1>5, OthersTypes
<1>6. CASE RaceCrash /\ ByWindow
  BY <1>6, FrameTypes
<1>7. CASE UNCHANGED vars
  <2>1. ByWindow /\ UNCHANGED <<shared_vars, window_vars, to_server, budget, erased>>
    BY <1>7 DEF vars, ByWindow
  <2>2. SharedTypes'
    BY <2>1 DEF TypeInv, TypeOK, SharedTypes, shared_vars, text_vars
  <2>3. WindowTypes' /\ (gpc' = "erased" => text_input_cursor_position' > 0)
    BY <2>1 DEF TypeInv, TypeOK, WindowTypes, window_vars
  <2>4. CountTypes'
    BY <2>1 DEF TypeInv, TypeOK, CountTypes
  <2>5. to_server' \in Seq(Messages) /\ Wired'
    BY <2>1, Counted, QuietKeeps DEF ByWindow, server_vars
  <2> QED BY <2>1, <2>2, <2>3, <2>4, <2>5, WindowKeeps
<1> QED BY <1>1, <1>2, <1>3, <1>4, <1>5, <1>6, <1>7 DEF Next

LEMMA TypeInvInit == Init => TypeInv
<1> SUFFICES ASSUME Init PROVE TypeInv
  OBVIOUS
<1>1. SharedTypes /\ WindowTypes
  BY TextFacts DEF Init, SharedTypes, WindowTypes
<1>2. ListenerTypes
  <2>1. NoMessage \in Messages
    BY TextFacts, Bounds DEF NoMessage, Messages, Headers
  <2>2. 0 \in 0 .. UInt16 - 1
    BY DEF UInt16
  <2> QED BY <2>1, <2>2, Bounds DEF Init, ListenerTypes
<1>3. WireTypes
  BY DEF Init, WireTypes
<1>4. ServerTypes
  BY TextFacts, Bounds DEF Init, ServerTypes, NoCursor
<1>5. CountTypes
  <2>1. 0 \in 0 .. MaxEvents /\ 0 \in 0 .. MaxPresses /\ 0 \in 0 .. MaxChanges
        /\ 0 \in 0 .. MaxRooms
    BY Bounds
  <2> QED BY <2>1 DEF Init, CountTypes
<1>6. Wired
  <2>1. Creates(<<>>) = {} /\ Cardinality({}) = 0
    BY EmptySeq, FS_EmptySet DEF Creates
  <2>2. Len(<<>>) = 0
    OBVIOUS
  <2>3. created = 0 /\ to_server = <<>> /\ budget.rooms = 0
    BY DEF Init
  <2>4. created + Cardinality(Creates(to_server)) <= budget.rooms
    <3>1. Cardinality(Creates(to_server)) = 0
      BY <2>1, <2>3
    <3> QED BY <2>3, <3>1
  <2>5. \A i \in 1 .. Len(to_server) : FALSE
    BY <2>2, <2>3
  <2> QED BY <2>4, <2>5 DEF Wired
<1> QED BY <1>1, <1>2, <1>3, <1>4, <1>5, <1>6 DEF TypeInv, TypeOK, Init

(***************************************************************************)
(* Every variable of the client, of the wires and of the server keeps its  *)
(* type: the requests name rooms that exist, no more rooms are created     *)
(* than were asked for, and the cursor of the window, which moves left     *)
(* after an erase, does not pass the start of the text.                    *)
(***************************************************************************)
THEOREM TypeCorrect == Spec => []TypeOK
<1>1. Spec => []TypeInv
  BY TypeInvInit, TypeInvStep, PTL DEF Spec
<1>2. TypeInv => TypeOK
  BY DEF TypeInv
<1> QED BY <1>1, <1>2, PTL

-----------------------------------------------------------------------------
(* What the client is told of its room: the last 101, 104 or 110 that is   *)
(* on its way names the room the server has it in; when none is, the       *)
(* listener is handling it, or the client has got it right, or its Leave   *)
(* is on its way.                                                          *)

Tells == {"101", "104", "110"}
RoomTold(m) == IF m.header = "110" THEN 0 ELSE m.room

Told(q, r) == \E m \in Messages : LastOf(q, Tells, m) /\ RoomTold(m) = r
RealRooms(q) == \A i \in 1 .. Len(q) : q[i].header \in {"101", "104"} => q[i].room # 0
LeaveWaits == \E i \in 1 .. Len(to_server) : to_server[i].header = "004"

Known ==
  /\ lpc = "room" => client_joined_room # 0 /\ received.room = client_joined_room
  /\ lpc = "joined" => client_joined_room # 0 /\ current_room_id = client_joined_room
  /\ lpc = "left" => client_joined_room = 0
  /\ lpc \notin {"room", "joined", "left"} =>
       \/ client_joined_room = 0 /\ current_status # "CONNECTED_TO_ROOM"
       \/ client_joined_room # 0 /\ current_status # "CONNECTED_TO_ROOM" /\ LeaveWaits
       \/ /\ client_joined_room # 0 /\ current_status = "CONNECTED_TO_ROOM"
          /\ current_room_id = client_joined_room

Leaving == gpc = "leave" =>
  \/ client_joined_room = 0 /\ to_server = <<>>
  \/ to_server # <<>> /\ to_server[Len(to_server)].header = "004"

StatusInv == link = "open" =>
  /\ RealRooms(to_client)
  /\ Told(to_client, client_joined_room) \/ (Without(to_client, Tells) /\ Known)
  /\ Leaving

LEMMA QuietReply ==
  ASSUME NEW q \in Seq(Messages), NEW m \in Messages, m.header \notin Tells
  PROVE  /\ \A r : Told(q, r) => Told(Append(q, m), r)
         /\ Without(q, Tells) => Without(Append(q, m), Tells)
         /\ RealRooms(q) => RealRooms(Append(q, m))
<1>1. /\ \A x : LastOf(q, Tells, x) => LastOf(Append(q, m), Tells, x)
      /\ Without(q, Tells) => Without(Append(q, m), Tells)
  BY LastAppend
<1>2. ASSUME RealRooms(q) PROVE RealRooms(Append(q, m))
  <2>1. /\ Len(Append(q, m)) = Len(q) + 1 /\ Len(q) \in Nat
        /\ \A i \in 1 .. Len(q) : Append(q, m)[i] = q[i]
        /\ Append(q, m)[Len(q) + 1] = m
    BY AppendFacts
  <2>2. \A i \in 1 .. Len(q) + 1 : i \in 1 .. Len(q) \/ i = Len(q) + 1
    BY <2>1
  <2> QED BY <1>2, <2>1, <2>2 DEF RealRooms, Tells
<1> QED BY <1>1, <1>2 DEF Told

LEMMA TellingReply ==
  ASSUME NEW q \in Seq(Messages), NEW m \in Messages, m.header \in Tells,
         m.header \in {"101", "104"} => m.room # 0
  PROVE  /\ Told(Append(q, m), RoomTold(m))
         /\ RealRooms(q) => RealRooms(Append(q, m))
<1>1. LastOf(Append(q, m), Tells, m)
  BY LastAppend
<1>2. ASSUME RealRooms(q) PROVE RealRooms(Append(q, m))
  <2>1. /\ Len(Append(q, m)) = Len(q) + 1 /\ Len(q) \in Nat
        /\ \A i \in 1 .. Len(q) : Append(q, m)[i] = q[i]
        /\ Append(q, m)[Len(q) + 1] = m
    BY AppendFacts
  <2>2. \A i \in 1 .. Len(q) + 1 : i \in 1 .. Len(q) \/ i = Len(q) + 1
    BY <2>1
  <2> QED BY <1>2, <2>1, <2>2 DEF RealRooms
<1> QED BY <1>1, <1>2 DEF Told

(* What a step of the window does to the wire. *)
SentOne == UNCHANGED to_server \/ \E m : to_server' = Append(to_server, m)

LEMMA SentLeave ==
  ASSUME TypeInv, SentOne, LeaveWaits
  PROVE  LeaveWaits'
<1>1. to_server \in Seq(Messages)
  BY Counted
<1>2. ASSUME NEW m, to_server' = Append(to_server, m) PROVE LeaveWaits'
  <2>1. /\ Len(to_server') = Len(to_server) + 1 /\ Len(to_server) \in Nat
        /\ \A i \in 1 .. Len(to_server) : to_server'[i] = to_server[i]
    BY <1>1, <1>2, AppendAny
  <2>2. PICK i \in 1 .. Len(to_server) : to_server[i].header = "004"
    BY DEF LeaveWaits
  <2>3. i \in 1 .. Len(to_server') /\ to_server'[i].header = "004"
    BY <2>1, <2>2
  <2> QED BY <2>3 DEF LeaveWaits
<1> QED BY <1>2 DEF SentOne, LeaveWaits

LEMMA WindowStatus ==
  ASSUME TypeInv, StatusInv, ByWindow, link = "open" => SentOne,
         \/ UNCHANGED current_status
         \/ gpc = "leave" /\ current_status' = "CONNECTED_TO_SERVER",
         link = "open" => Leaving'
  PROVE  StatusInv'
<1> SUFFICES ASSUME link = "open", link' = "open" PROVE StatusInv'
  BY DEF ByWindow, StatusInv
<1>1. /\ UNCHANGED <<client_input_cursor_position, current_room_id, received, lpc>>
      /\ UNCHANGED <<to_client, client_joined_room>>
  BY DEF ByWindow, listener_vars, server_vars
<1>2. RealRooms(to_client) /\ Leaving /\ Leaving'
      /\ (Told(to_client, client_joined_room) \/ (Without(to_client, Tells) /\ Known))
  BY DEF StatusInv
<1>3. ASSUME Known PROVE Known'
  <2>1. LeaveWaits => LeaveWaits'
    BY SentLeave
  <2>2. CASE UNCHANGED current_status
    BY <1>1, <1>3, <2>1, <2>2 DEF Known
  <2>3. CASE gpc = "leave" /\ current_status' = "CONNECTED_TO_SERVER"
    <3>1. client_joined_room = 0 \/ LeaveWaits
      <4>1. CASE to_server # <<>> /\ to_server[Len(to_server)].header = "004"
        <5>1. Len(to_server) \in 1 .. Len(to_server)
          <6>1. to_server \in Seq(Messages)
            BY Counted
          <6>2. Len(to_server) \in Nat \ {0}
            BY <4>1, <6>1, TailFacts
          <6> QED BY <6>2
        <5> QED BY <4>1, <5>1 DEF LeaveWaits
      <4> QED BY <1>2, <2>3, <4>1 DEF Leaving
    <3> QED BY <1>1, <1>3, <2>1, <2>3, <3>1 DEF Known
  <2> QED BY <2>2, <2>3
<1> QED BY <1>1, <1>2, <1>3 DEF StatusInv

LEMMA UserStatus ==
  ASSUME TypeInv, StatusInv, User
  PROVE  StatusInv'
<1>1. ByWindow
  BY DEF User
<1>2. CASE PressLeave
  <2>1. UNCHANGED current_status /\ (link = "open" => to_server' = Append(to_server, Plain("004")))
    BY <1>2 DEF PressLeave, Pressing, Send
  <2>2. ASSUME link = "open"
        PROVE  to_server' # <<>> /\ to_server'[Len(to_server')].header = "004"
    <3>1. to_server \in Seq(Messages) /\ Plain("004").header = "004"
      BY Counted, MessageType DEF Headers
    <3>2. /\ Len(to_server') = Len(to_server) + 1 /\ Len(to_server) \in Nat
          /\ to_server'[Len(to_server) + 1] = Plain("004")
      BY <2>1, <2>2, <3>1, AppendAny
    <3>3. to_server' # <<>>
      BY <3>2, EmptySeq
    <3> QED BY <3>1, <3>2, <3>3
  <2> QED BY <1>1, <2>1, <2>2, WindowStatus DEF SentOne, Leaving
<1>3. CASE ~PressLeave
  <2>1. UNCHANGED current_status /\ gpc' # "leave" /\ (link = "open" => SentOne)
    <3>1. CASE \E e \in Events : PollEvent(e)
      BY <3>1, NotepadAssumption DEF PollEvent, AtGui, shared_vars, SentOne
    <3>2. CASE PressCreate \/ PressSave \/ PressDownload \/ PressClear
      BY <3>2 DEF PressCreate, PressSave, PressDownload, PressClear, Pressing, Send, SentOne
    <3>3. CASE PressConfirm
      BY <3>3 DEF PressConfirm, Send, SentOne
    <3>4. CASE \E b \in Popups : PressPopup(b)
      BY <3>4 DEF PressPopup, Pressing, SentOne
    <3> QED BY <1>3, <3>1, <3>2, <3>3, <3>4 DEF User
  <2> QED BY <1>1, <2>1, WindowStatus DEF Leaving
<1> QED BY <1>2, <1>3

LEMMA FrameStatus ==
  ASSUME TypeInv, StatusInv, Frame \/ (RaceCrash /\ ByWindow)
  PROVE  StatusInv'
<1>1. ByWindow
  BY DEF Frame
<1>2. CASE LeaveStatus
  <2>1. gpc' # "leave" /\ gpc = "leave" /\ current_status' = "CONNECTED_TO_SERVER" /\ SentOne
    BY <1>2 DEF LeaveStatus, AtGui, SentOne
  <2> QED BY <1>1, <2>1, WindowStatus DEF Leaving
<1>3. CASE ~LeaveStatus
  <2>1. UNCHANGED current_status /\ gpc' # "leave" /\ (link = "open" => SentOne)
    <3>1. CASE EditThrows \/ RaceCrash
      BY <3>1 DEF EditThrows, RaceCrash, Throw, window_vars, SentOne
    <3>2. CASE InsertKey \/ EraseKey \/ ShowEdit \/ MoveCursor \/ EndEvents \/ ClearShown
      BY <3>2 DEF InsertKey, EraseKey, ShowEdit, MoveCursor, EndEvents, ClearShown, unedited,
                  SentOne
    <3>3. CASE ClearSend \/ SendUpdate \/ SendCursor
      BY <3>3 DEF ClearSend, SendUpdate, SendCursor, NextFrame, unsent, Send, SentOne
    <3> QED BY <1>3, <3>1, <3>2, <3>3 DEF Frame
  <2> QED BY <1>1, <2>1, WindowStatus DEF Leaving
<1> QED BY <1>2, <1>3

LEMMA ListenStatus ==
  ASSUME TypeInv, StatusInv, Listen
  PROVE  StatusInv'
<1>1. UNCHANGED <<gpc, to_server, client_joined_room>>
  BY DEF Listen, ByListener, window_vars, server_vars
<1>2. Leaving => Leaving'
  BY <1>1 DEF Leaving
<1>3. LeaveWaits => LeaveWaits'
  BY <1>1 DEF LeaveWaits
<1>4. CASE ReceiveEnd \/ ReceiveError
  <2>1. link' # "open"
    BY <1>4 DEF ReceiveEnd, ReceiveError
  <2> QED BY <2>1 DEF StatusInv
<1>5. CASE Receive
  <2> SUFFICES ASSUME link = "open", link' = "open" PROVE StatusInv'
    BY <1>5 DEF Receive, StatusInv
  <2> DEFINE m == Head(to_client)
             J == client_joined_room
  <2>1. /\ to_client \in Seq(Messages) /\ to_client # <<>> /\ to_client' = Tail(to_client)
        /\ received' = m /\ lpc' = Handler(m.header) /\ lpc = "recv"
        /\ UNCHANGED <<current_status, current_room_id>>
    BY <1>5, Counted DEF Receive, AtListener, shared_vars
  <2>2. RealRooms(to_client) /\ Leaving /\ (Told(to_client, J) \/ (Without(to_client, Tells) /\ Known))
    BY DEF StatusInv
  <2>3. /\ Len(to_client) \in Nat \ {0} /\ m = to_client[1] /\ Len(Tail(to_client)) = Len(to_client) - 1
        /\ \A i \in 1 .. Len(to_client) - 1 : Tail(to_client)[i] = to_client[i + 1]
    BY <2>1, TailFacts
  <2>4. RealRooms(Tail(to_client)) /\ (m.header \in {"101", "104"} => m.room # 0)
    <3>1. 1 \in 1 .. Len(to_client)
          /\ \A i \in 1 .. Len(to_client) - 1 : i + 1 \in 1 .. Len(to_client)
      BY <2>3
    <3> QED BY <2>2, <2>3, <3>1 DEF RealRooms
  <2>5. CASE Told(to_client, J)
    <3>1. PICK x \in Messages : LastOf(to_client, Tells, x) /\ RoomTold(x) = J
      BY <2>5 DEF Told
    <3>2. \/ LastOf(Tail(to_client), Tells, x)
          \/ Without(Tail(to_client), Tells) /\ m = x /\ x.header \in Tells
      BY <2>1, <3>1, LastTail
    <3>3. CASE LastOf(Tail(to_client), Tells, x)
      <4>1. Told(Tail(to_client), J)
        BY <3>1, <3>3 DEF Told
      <4> QED BY <1>1, <1>2, <2>1, <2>2, <2>4, <4>1 DEF StatusInv
    <3>4. CASE Without(Tail(to_client), Tells) /\ m = x /\ x.header \in Tells
      <4>1. lpc' = Handler(m.header) /\ received' = m /\ m.header \in Tells /\ RoomTold(m) = J
            /\ client_joined_room' = J /\ (m.header \in {"101", "104"} => m.room # 0)
        BY <1>1, <2>1, <2>4, <3>1, <3>4
      <4> HIDE DEF m
      <4>2. Known'
        BY <4>1 DEF Known, Handler, Tells, RoomTold
      <4> QED BY <1>1, <1>2, <2>1, <2>2, <2>4, <3>4, <4>2 DEF StatusInv
    <3> QED BY <3>2, <3>3, <3>4
  <2>6. CASE Without(to_client, Tells) /\ Known
    <3>1. Without(Tail(to_client), Tells) /\ m.header \notin Tells
      BY <2>1, <2>6, LastTail
    <3>2. lpc' \notin {"room", "joined", "left"}
      BY <2>1, <3>1 DEF Handler, Tells
    <3>3. Known'
      BY <1>1, <1>3, <2>1, <2>6, <3>2 DEF Known
    <3> QED BY <1>1, <1>2, <2>1, <2>2, <2>4, <3>1, <3>3 DEF StatusInv
  <2> QED BY <2>2, <2>5, <2>6
<1>6. CASE SetRoom \/ SetStatus \/ SetOtherCursor \/ AssignText \/ ShowText
  <2>1. UNCHANGED <<link, to_client>>
    BY <1>6 DEF SetRoom, SetStatus, SetOtherCursor, AssignText, ShowText, unread
  <2>2. Known => Known'
    <3>1. CASE SetRoom
      BY <1>1, <3>1 DEF SetRoom, AtListener, Known, unread
    <3>2. CASE SetStatus
      BY <1>1, <3>2 DEF SetStatus, StatusAfter, ListenerDone, AtListener, Known, unread
    <3>3. CASE SetOtherCursor \/ AssignText \/ ShowText
      BY <1>1, <1>3, <3>3 DEF SetOtherCursor, AssignText, ShowText, ListenerDone, AtListener,
                              Known, unread
    <3> QED BY <1>6, <3>1, <3>2, <3>3
  <2> QED BY <1>1, <1>2, <2>1, <2>2 DEF StatusInv
<1> QED BY <1>4, <1>5, <1>6 DEF Listen

(* What a request and its reply have to keep. *)
LEMMA ReplyStatus ==
  ASSUME TypeInv, StatusInv, Serve, RealRooms(to_client'),
         \/ Told(to_client', client_joined_room')
         \/ /\ UNCHANGED client_joined_room
            /\ Told(to_client, client_joined_room) => Told(to_client', client_joined_room)
            /\ Without(to_client, Tells) => Without(to_client', Tells)
            /\ client_joined_room = 0 \/ Head(to_server).header # "004",
         Head(to_server).header = "004" => client_joined_room' = 0
  PROVE  StatusInv'
<1> DEFINE q == to_server
           r == Tail(q)
           n == Len(q)
<1>1. /\ link = "open" /\ q \in Seq(Messages) /\ q # <<>> /\ to_server' = r
      /\ UNCHANGED <<gpc, current_status, current_room_id, received, lpc>>
  BY Counted DEF Serve, ServerHandle, ByServer, shared_vars, window_vars, listener_vars
<1>2. /\ r \in Seq(Messages) /\ Head(q) = q[1] /\ n \in Nat \ {0} /\ Len(r) = n - 1
      /\ \A i \in 1 .. n - 1 : r[i] = q[i + 1]
  BY <1>1, TailFacts
<1>3. /\ Told(to_client, client_joined_room) \/ (Without(to_client, Tells) /\ Known)
      /\ Leaving
  BY <1>1 DEF StatusInv
<1>4. ASSUME LeaveWaits, q[1].header # "004" PROVE LeaveWaits'
  <2>1. PICK i \in 1 .. n : q[i].header = "004"
    BY <1>4 DEF LeaveWaits
  <2> HIDE DEF n, q, r
  <2>2. i # 1 /\ i - 1 \in 1 .. n - 1 /\ i - 1 \in 1 .. Len(r) /\ (i - 1) + 1 = i
    BY <1>2, <1>4, <2>1
  <2>3. r[i - 1].header = "004"
    BY <1>2, <2>1, <2>2
  <2> QED BY <1>1, <2>2, <2>3 DEF LeaveWaits
<1>5. Leaving'
  <2> SUFFICES ASSUME gpc = "leave"
               PROVE  \/ client_joined_room' = 0 /\ r = <<>>
                      \/ r # <<>> /\ r[Len(r)].header = "004"
    BY <1>1 DEF Leaving
  <2>1. q[n].header = "004" /\ (Head(q).header = "004" => client_joined_room' = 0)
    BY <1>1, <1>3 DEF Leaving
  <2> HIDE DEF n, q, r
  <2>2. CASE n = 1
    <3>1. r = <<>>
      BY <1>2, <2>2, EmptySeq
    <3>2. Head(q) = q[1] /\ q[n] = q[1]
      BY <1>2, <2>2
    <3>3. client_joined_room' = 0
      BY <2>1, <3>2
    <3> QED BY <3>1, <3>3
  <2>3. CASE n # 1
    <3>1. n - 1 \in 1 .. n - 1 /\ (n - 1) + 1 = n /\ Len(r) # 0
      BY <1>2, <2>3
    <3> QED BY <1>2, <2>1, <3>1, EmptySeq
  <2> QED BY <2>2, <2>3
<1>6. Told(to_client', client_joined_room') \/ (Without(to_client', Tells) /\ Known')
  <2> HIDE DEF r, n
  <2>1. ASSUME UNCHANGED client_joined_room, Known, client_joined_room = 0 \/ q[1].header # "004"
        PROVE  Known'
    BY <1>1, <1>4, <2>1 DEF Known
  <2> QED BY <1>2, <1>3, <2>1
<1> QED BY <1>5, <1>6 DEF StatusInv

LEMMA ServeStatus ==
  ASSUME TypeInv, StatusInv, Serve
  PROVE  StatusInv'
<1> DEFINE m == Head(to_server)
           J == client_joined_room
           q == to_client
<1>1. /\ link = "open" /\ to_server # <<>> /\ to_server' = Tail(to_server)
      /\ q \in Seq(Messages) /\ created \in Nat /\ created <= MaxRooms /\ J \in 0 .. created
      /\ RealRooms(q)
  BY Counted DEF Serve, ServerHandle, StatusInv
<1>2. /\ m \in Messages /\ m.room \in 0 .. MaxRooms
      /\ m.header = "002" => created + 1 \in 1 .. MaxRooms
  <2>1. m \in Messages /\ (m.header = "002" => created + 1 \in 1 .. MaxRooms)
    BY <1>1, TakeKeeps DEF Serve, ServerHandle
  <2> QED BY <2>1 DEF Messages
<1> HIDE DEF m
<1>3. J \in 0 .. MaxRooms /\ 0 \in 0 .. MaxRooms
  BY <1>1, Bounds
<1>4. ASSUME UNCHANGED J, m.header # "004" \/ J = 0,
             \/ UNCHANGED q
             \/ \E a \in Messages : a.header \notin Tells /\ to_client' = q \o <<a>>
      PROVE  StatusInv'
  <2>1. /\ RealRooms(to_client')
        /\ Told(q, J) => Told(to_client', J)
        /\ Without(q, Tells) => Without(to_client', Tells)
    <3>1. CASE UNCHANGED q
      BY <1>1, <3>1
    <3>2. CASE \E a \in Messages : a.header \notin Tells /\ to_client' = q \o <<a>>
      <4>1. PICK a \in Messages : a.header \notin Tells /\ to_client' = q \o <<a>>
        BY <3>2
      <4>2. to_client' = Append(q, a)
        BY <1>1, <4>1, ConcatFacts
      <4> QED BY <1>1, <4>1, <4>2, QuietReply
    <3> QED BY <1>4, <3>1, <3>2
  <2> QED BY <1>4, <2>1, ReplyStatus DEF m
<1>5. ASSUME NEW h \in Headers \ Tells, Reply(<<Plain(h)>>), UNCHANGED J, m.header # "004" \/ J = 0
      PROVE  StatusInv'
  <2>1. Plain(h) \in Messages /\ Plain(h).header = h /\ to_client' = q \o <<Plain(h)>>
    BY <1>5, MessageType DEF Reply
  <2> QED BY <1>4, <1>5, <2>1
<1>6. CASE m.header = "002" /\ ServerCreate(m)
  <2>1. CASE Reply(<<Plain("102")>>) /\ UNCHANGED server_vars
    BY <1>5, <1>6, <2>1 DEF Headers, Tells, server_vars
  <2>2. CASE /\ client_joined_room' = created + 1
             /\ Reply(<<Message("101", created + 1, <<>>, 0)>>)
    <3> DEFINE a == Message("101", created + 1, <<>>, 0)
    <3>1. /\ a \in Messages /\ a.header = "101" /\ a.room = created + 1 /\ created + 1 # 0
          /\ RoomTold(a) = created + 1
      <4>1. "101" \in Headers /\ created + 1 \in 0 .. MaxRooms /\ <<>> \in Texts /\ created + 1 # 0
        BY <1>1, <1>2, <1>6, TextFacts DEF Headers
      <4> QED BY <4>1, MessageType DEF RoomTold
    <3>2. to_client' = q \o <<a>>
      BY <2>2 DEF Reply
    <3> HIDE DEF a
    <3>3. to_client' = Append(q, a)
      BY <1>1, <3>1, <3>2, ConcatFacts
    <3>4. Told(to_client', created + 1) /\ RealRooms(to_client')
      BY <1>1, <3>1, <3>3, TellingReply DEF Tells
    <3> QED BY <1>6, <2>2, <3>4, ReplyStatus DEF m
  <2> QED BY <1>6, <2>1, <2>2 DEF ServerCreate
<1>7. CASE m.header = "003" /\ ServerJoin(m)
  <2>1. CASE \E h \in {"108", "109"} : Reply(<<Plain(h)>>) /\ UNCHANGED server_vars
    BY <1>5, <1>7, <2>1 DEF Headers, Tells, server_vars
  <2>2. CASE m.room # 0 /\ client_joined_room' = m.room /\ Reply(Joined(m.room))
    <3> DEFINE a == Message("104", m.room, <<>>, 0)
               b == Message("204", m.room, notepad_collab[m.room], 0)
    <3>1. a \in Messages /\ a.header = "104" /\ a.room = m.room /\ RoomTold(a) = m.room
      <4>1. "104" \in Headers /\ <<>> \in Texts
        BY TextFacts DEF Headers
      <4> QED BY <1>2, <4>1, MessageType DEF RoomTold
    <3>2. b \in Messages /\ b.header = "204"
      <4>1. m.room \in Rooms /\ notepad_collab \in [Rooms -> Texts]
        BY <1>2, <2>2, Bounds DEF Rooms, TypeInv, TypeOK, ServerTypes
      <4>2. "204" \in Headers /\ notepad_collab[m.room] \in Texts
        BY <4>1 DEF Headers
      <4> QED BY <1>2, <4>2, MessageType
    <3>3. to_client' = q \o <<a, b>>
      BY <2>2 DEF Reply, Joined
    <3> HIDE DEF a, b
    <3>4. to_client' = Append(Append(q, a), b) /\ Append(q, a) \in Seq(Messages)
      BY <1>1, <3>1, <3>2, <3>3, ConcatFacts, AppendFacts
    <3>5. Told(Append(q, a), m.room) /\ RealRooms(Append(q, a))
      BY <1>1, <2>2, <3>1, TellingReply DEF Tells
    <3>6. Told(to_client', m.room) /\ RealRooms(to_client')
      BY <3>2, <3>4, <3>5, QuietReply DEF Tells
    <3> QED BY <1>7, <2>2, <3>6, ReplyStatus DEF m
  <2> QED BY <1>7, <2>1, <2>2 DEF ServerJoin
<1>8. CASE m.header = "004" /\ ServerLeave
  <2>1. CASE J = 0
    BY <1>5, <1>8, <2>1 DEF ServerLeave, Headers, Tells
  <2>2. CASE J # 0
    <3>1. /\ Plain("110") \in Messages /\ Plain("110").header = "110"
          /\ RoomTold(Plain("110")) = 0 /\ to_client' = q \o <<Plain("110")>>
          /\ client_joined_room' = 0
      BY <1>8, <2>2, MessageType DEF ServerLeave, Reply, RoomTold, Headers
    <3>2. to_client' = Append(q, Plain("110"))
      BY <1>1, <3>1, ConcatFacts
    <3>3. Told(to_client', 0) /\ RealRooms(to_client')
      BY <1>1, <3>1, <3>2, TellingReply DEF Tells
    <3> QED BY <3>1, <3>3, ReplyStatus
  <2> QED BY <2>1, <2>2
<1>9. CASE m.header = "005" /\ ServerUpdate(m)
  <2>1. CASE J = 0 /\ UNCHANGED <<to_client, server_vars>>
    BY <1>4, <1>9, <2>1 DEF server_vars
  <2>2. CASE Reply(<<Message("112", J, m.body, 0)>>) /\ UNCHANGED client_joined_room
    <3>1. Message("112", J, m.body, 0) \in Messages /\ Message("112", J, m.body, 0).header = "112"
      <4>1. m.body \in Texts /\ "112" \in Headers
        BY <1>2 DEF Messages, Headers
      <4> QED BY <1>3, <4>1, MessageType
    <3> QED BY <1>4, <1>9, <2>2, <3>1 DEF Reply, Tells
  <2> QED BY <1>9, <2>1, <2>2 DEF ServerUpdate
<1>10. CASE m.header = "006" /\ ServerCursor
  <2>1. CASE UNCHANGED <<to_client, server_vars>>
    BY <1>4, <1>10, <2>1 DEF server_vars
  <2>2. CASE J # 0 /\ Reply(<<Message("113", J, <<>>, member_cursor[J])>>) /\ UNCHANGED server_vars
    <3> DEFINE a == Message("113", J, <<>>, member_cursor[J])
    <3>1. a \in Messages /\ a.header = "113"
      <4>1. J \in Rooms /\ member_cursor \in [Rooms -> Int]
        BY <1>3, <2>2, Bounds DEF Rooms, TypeInv, TypeOK, ServerTypes
      <4>2. member_cursor[J] \in Int /\ "113" \in Headers /\ <<>> \in Texts
        BY <4>1, TextFacts DEF Headers
      <4> QED BY <1>3, <4>2, MessageType
    <3>2. to_client' = q \o <<a>>
      BY <2>2 DEF Reply
    <3> HIDE DEF a
    <3> QED BY <1>4, <1>10, <2>2, <3>1, <3>2 DEF Tells, server_vars
  <2> QED BY <1>10, <2>1, <2>2 DEF ServerCursor
<1>11. CASE ServerDocument(m)
  <2>1. m.header # "004" /\ UNCHANGED client_joined_room
    BY <1>11 DEF ServerDocument, server_vars
  <2>2. CASE \E h \in {"115", "116", "117", "118"} : Reply(<<Plain(h)>>)
    BY <1>5, <2>1, <2>2 DEF Headers, Tells
  <2>3. CASE \E x \in {<<>>, <<TheirChar>>} : Reply(<<Message("204", 0, x, 0)>>)
    <3>1. PICK x \in {<<>>, <<TheirChar>>} : Reply(<<Message("204", 0, x, 0)>>)
      BY <2>3
    <3>2. x \in Texts /\ "204" \in Headers
      BY TextFacts, Bounds DEF Headers
    <3>3. Message("204", 0, x, 0) \in Messages /\ Message("204", 0, x, 0).header = "204"
      BY <1>3, <3>2, MessageType
    <3> QED BY <1>4, <2>1, <3>1, <3>3 DEF Reply, Tells
  <2> QED BY <1>11, <2>2, <2>3 DEF ServerDocument
<1> QED BY <1>6, <1>7, <1>8, <1>9, <1>10, <1>11 DEF Serve, ServerHandle, m

LEMMA OthersStatus ==
  ASSUME TypeInv, StatusInv, Others
  PROVE  StatusInv'
<1> SUFFICES ASSUME link = "open", link' = "open" PROVE StatusInv'
  BY DEF Others, OtherCreates, OtherUpdates, LinkEnds, StatusInv
<1>1. /\ UNCHANGED <<gpc, current_status, current_room_id, received, lpc>>
      /\ UNCHANGED <<to_server, client_joined_room>>
      /\ \/ UNCHANGED to_client
         \/ \E r \in Rooms, x \in Texts : \E k \in Int :
              Reply(<<Message("112", r, x, 0), Message("113", r, <<>>, k)>>)
  <2>1. UNCHANGED <<gpc, current_status, current_room_id, received, lpc>>
    BY DEF Others, ByServer, shared_vars, window_vars, listener_vars
  <2>2. CASE OtherCreates
    BY <2>1, <2>2 DEF OtherCreates
  <2>3. CASE LinkEnds
    <3>1. link' # "open"
      BY <2>3, NotepadAssumption DEF LinkEnds
    <3> QED BY <3>1
  <2>4. ASSUME NEW r \in Rooms, OtherUpdates(r)
        PROVE  /\ UNCHANGED <<to_server, client_joined_room>>
               /\ \/ UNCHANGED to_client
                  \/ \E x \in Texts : \E k \in Int :
                       Reply(<<Message("112", r, x, 0), Message("113", r, <<>>, k)>>)
    <3>1. PICK x \in {Append(notepad_collab[r], TheirChar), <<>>} :
            IF client_joined_room = r
            THEN Reply(<<Message("112", r, x, 0), Message("113", r, <<>>, Len(x))>>)
            ELSE UNCHANGED to_client
      BY <2>4 DEF OtherUpdates
    <3>2. notepad_collab[r] \in Texts
      BY DEF TypeInv, TypeOK, ServerTypes
    <3>3. x \in Texts /\ Len(x) \in Int
      <4>1. Append(notepad_collab[r], TheirChar) \in Texts /\ <<>> \in Texts
        BY <3>2, TextFacts, Bounds
      <4>2. x \in Texts
        BY <4>1
      <4> QED BY <4>2, TextFacts
    <3>4. UNCHANGED <<to_server, client_joined_room>>
      BY <2>4 DEF OtherUpdates
    <3> QED BY <3>1, <3>3, <3>4
  <2> QED BY <2>1, <2>2, <2>3, <2>4 DEF Others
<1>2. /\ RealRooms(to_client) => RealRooms(to_client')
      /\ Told(to_client, client_joined_room) => Told(to_client', client_joined_room)
      /\ Without(to_client, Tells) => Without(to_client', Tells)
  <2>1. CASE UNCHANGED to_client
    BY <2>1
  <2>2. CASE \E r \in Rooms, x \in Texts : \E k \in Int :
               Reply(<<Message("112", r, x, 0), Message("113", r, <<>>, k)>>)
    <3>1. PICK r \in Rooms, x \in Texts : \E k \in Int :
            Reply(<<Message("112", r, x, 0), Message("113", r, <<>>, k)>>)
      BY <2>2
    <3>2. PICK k \in Int : Reply(<<Message("112", r, x, 0), Message("113", r, <<>>, k)>>)
      BY <3>1
    <3> DEFINE a == Message("112", r, x, 0)
               b == Message("113", r, <<>>, k)
    <3>3. /\ a \in Messages /\ a.header = "112" /\ b \in Messages /\ b.header = "113"
      <4>1. r \in 0 .. MaxRooms /\ "112" \in Headers /\ "113" \in Headers /\ <<>> \in Texts
        BY TextFacts, Bounds DEF Headers, Rooms
      <4> QED BY <4>1, MessageType
    <3>4. to_client' = to_client \o <<a, b>> /\ to_client \in Seq(Messages)
      BY <3>2, Counted DEF Reply
    <3> HIDE DEF a, b
    <3>5. to_client' = Append(Append(to_client, a), b) /\ Append(to_client, a) \in Seq(Messages)
      BY <3>3, <3>4, ConcatFacts, AppendFacts
    <3>6. a.header \notin Tells /\ b.header \notin Tells
      BY <3>3 DEF Tells
    <3> QED BY <3>3, <3>4, <3>5, <3>6, QuietReply
  <2> QED BY <1>1, <2>1, <2>2
<1>3. (Leaving => Leaving') /\ (Known => Known')
  BY <1>1 DEF Leaving, Known, LeaveWaits
<1> QED BY <1>1, <1>2, <1>3 DEF StatusInv

LEMMA StatusInvStep ==
  ASSUME TypeInv, StatusInv, [Next]_vars
  PROVE  StatusInv'
<1>1. CASE UNCHANGED vars
  <2>1. ByWindow /\ SentOne /\ UNCHANGED <<gpc, current_status, to_server, client_joined_room>>
    BY <1>1 DEF vars, ByWindow, SentOne, shared_vars, window_vars, server_vars
  <2>2. link = "open" => Leaving'
    BY <2>1 DEF Leaving, StatusInv
  <2> QED BY <2>1, <2>2, WindowStatus
<1> QED BY <1>1, UserStatus, FrameStatus, ListenStatus, ServeStatus, OthersStatus DEF Next

LEMMA StatusInvInit == Init => StatusInv
<1> SUFFICES ASSUME Init PROVE StatusInv
  OBVIOUS
<1>1. RealRooms(<<>>) /\ Without(<<>>, Tells)
  BY EmptyIsWithout, EmptySeq DEF RealRooms
<1>2. Known /\ Leaving
  BY DEF Init, Known, Leaving
<1> QED BY <1>1, <1>2 DEF Init, StatusInv

(***************************************************************************)
(* Whatever the user presses and in whatever order the listener, the       *)
(* window and the server's thread move, once nothing is on the wire the    *)
(* status of the client and the room it names are the server's (101, 104,  *)
(* 110, and the Leave button, which sets the status before the server has  *)
(* answered).                                                              *)
(***************************************************************************)
THEOREM StatusFollowsServer == Spec => []StatusAgrees
<1>1. ASSUME TypeInv, StatusInv PROVE StatusAgrees
  <2> SUFFICES ASSUME Delivered, gpc # "leave"
               PROVE  /\ current_status = "CONNECTED_TO_ROOM" <=> client_joined_room # 0
                      /\ client_joined_room # 0 => current_room_id = client_joined_room
    BY DEF StatusAgrees
  <2>1. /\ link = "open" /\ lpc = "recv" /\ to_server = <<>> /\ to_client = <<>>
    BY DEF Delivered
  <2>2. ~Told(<<>>, client_joined_room) /\ ~LeaveWaits
    BY <2>1, EmptySeq DEF Told, LastOf, LeaveWaits
  <2>3. Known
    BY <1>1, <2>1, <2>2 DEF StatusInv
  <2> QED BY <2>1, <2>2, <2>3 DEF Known
<1>2. Spec => [](TypeInv /\ StatusInv)
  BY TypeInvInit, TypeInvStep, StatusInvInit, StatusInvStep, PTL DEF Spec
<1> QED BY <1>1, <1>2, PTL

-----------------------------------------------------------------------------
(* What the client edits and shows, and the notepad of its room.           *)

Carries == {"112", "204"}

(* The user has edited since the last update was sent. *)
Edited == \/ gpc \in {"inserted", "erased", "cleared", "clear"}
          \/ has_updated_notepad /\ gpc # "cursor"

Waits(q, h) == \E i \in 1 .. Len(q) : q[i].header = h
TextSent(q, x) == \E m \in Messages : LastOf(q, Carries, m) /\ m.body = x

(* Each create that waits has text x, or an update behind it. *)
Owned(q, x) == \A i \in 1 .. Len(q) : q[i].header = "002" =>
  q[i].body = x \/ \E j \in 1 .. Len(q) : j > i /\ q[j].header = "005"

(* Text x is what the listener assigns, or is in both strings. *)
Here(x) ==
  /\ lpc = "assign" => received.body = x
  /\ lpc = "show" => received.body = x /\ client_text_input_string = x
  /\ lpc \notin {"assign", "show"} =>
       client_text_input_string = x /\ text_input_string = x

Inside(x) ==
  \/ Edited \/ Waits(to_server, "005") \/ TextSent(to_client, x)
  \/ Without(to_client, Carries) /\ Here(x)

Outside ==
  /\ Without(to_client, Carries) /\ lpc \notin {"assign", "show"}
  /\ \/ text_input_string = client_text_input_string
     \/ gpc \in {"inserted", "erased", "cleared"}
  /\ Edited \/ Owned(to_server, client_text_input_string)

(* The buttons that are not there are not pressed. *)
Unpressed ==
  /\ popup # "open" /\ ~Waits(to_server, "011")
  /\ "create" \notin Buttons => ~Waits(to_server, "002")
  /\ "leave" \notin Buttons => ~Waits(to_server, "004")

TextInv == link = "open" =>
  /\ Unpressed
  /\ client_joined_room # 0 => Inside(notepad_collab[client_joined_room])
  /\ "create" \in Buttons /\ client_joined_room = 0 => Outside

(* Without Open, and without Create or without Leave. *)
StaysCurrent == "open" \notin Buttons /\ ("create" \notin Buttons \/ "leave" \notin Buttons)

LEMMA WaitsAppend ==
  ASSUME NEW q \in Seq(Messages), NEW m, NEW h
  PROVE  Waits(Append(q, m), h) <=> Waits(q, h) \/ m.header = h
<1> DEFINE r == Append(q, m)
           n == Len(q)
<1>1. /\ Len(r) = n + 1 /\ n \in Nat
      /\ \A i \in 1 .. n : r[i] = q[i]
      /\ r[n + 1] = m
  BY AppendAny
<1> HIDE DEF r, n
<1>2. \A i : i \in 1 .. n + 1 <=> i \in 1 .. n \/ i = n + 1
  BY <1>1
<1>3. Waits(r, h) <=> \E i \in 1 .. n + 1 : r[i].header = h
  BY <1>1 DEF Waits
<1>4. Waits(q, h) <=> \E i \in 1 .. n : q[i].header = h
  BY DEF Waits, n
<1> QED BY <1>1, <1>2, <1>3, <1>4 DEF r

LEMMA WaitsTail ==
  ASSUME NEW q \in Seq(Messages), q # <<>>, NEW h
  PROVE  Waits(q, h) <=> Waits(Tail(q), h) \/ Head(q).header = h
<1> DEFINE r == Tail(q)
           n == Len(q)
<1>1. /\ n \in Nat \ {0} /\ Len(r) = n - 1 /\ Head(q) = q[1]
      /\ \A i \in 1 .. n - 1 : r[i] = q[i + 1]
  BY TailFacts
<1> HIDE DEF r, n
<1>2. ASSUME Waits(q, h) PROVE Waits(r, h) \/ q[1].header = h
  <2>1. PICK i \in 1 .. n : q[i].header = h
    BY <1>2 DEF Waits, n
  <2>2. CASE i # 1
    <3>1. i - 1 \in 1 .. n - 1 /\ i - 1 \in 1 .. Len(r) /\ (i - 1) + 1 = i
      BY <1>1, <2>2
    <3>2. r[i - 1].header = h
      BY <1>1, <2>1, <3>1
    <3> QED BY <3>1, <3>2 DEF Waits
  <2> QED BY <2>1, <2>2
<1>3. ASSUME Waits(r, h) PROVE Waits(q, h)
  <2>1. PICK i \in 1 .. n - 1 : r[i].header = h
    BY <1>1, <1>3 DEF Waits
  <2>2. i + 1 \in 1 .. n /\ q[i + 1].header = h
    BY <1>1, <2>1
  <2> QED BY <2>2 DEF Waits, n
<1>4. 1 \in 1 .. n
  BY <1>1
<1>5. q[1].header = h => Waits(q, h)
  BY <1>4 DEF Waits, n
<1> QED BY <1>1, <1>2, <1>3, <1>5 DEF r

LEMMA OwnedAppend ==
  ASSUME NEW q \in Seq(Messages), NEW m, NEW x
  PROVE  /\ m.header = "005" => Owned(Append(q, m), x)
         /\ Owned(q, x) /\ (m.header = "002" => m.body = x) => Owned(Append(q, m), x)
<1> DEFINE r == Append(q, m)
           n == Len(q)
<1>1. /\ Len(r) = n + 1 /\ n \in Nat
      /\ \A i \in 1 .. n : r[i] = q[i]
      /\ r[n + 1] = m
  BY AppendAny
<1> HIDE DEF r, n
<1>2. \A i \in 1 .. n + 1 : i \in 1 .. n \/ i = n + 1
  BY <1>1
<1>3. ASSUME m.header = "005" PROVE Owned(r, x)
  <2>1. \A i \in 1 .. n : n + 1 > i /\ n + 1 \in 1 .. n + 1
    BY <1>1
  <2> QED BY <1>1, <1>2, <1>3, <2>1 DEF Owned
<1>4. ASSUME Owned(q, x), m.header = "002" => m.body = x PROVE Owned(r, x)
  <2>1. \A j \in 1 .. n : j \in 1 .. n + 1
    BY <1>1
  <2>2. \A i \in 1 .. n : q[i].header = "002" =>
          q[i].body = x \/ \E j \in 1 .. n : j > i /\ q[j].header = "005"
    BY <1>4 DEF Owned, n
  <2> QED BY <1>1, <1>2, <1>4, <2>1, <2>2 DEF Owned
<1> QED BY <1>3, <1>4 DEF r

LEMMA OwnedTail ==
  ASSUME NEW q \in Seq(Messages), q # <<>>, NEW x, Owned(q, x)
  PROVE  /\ Owned(Tail(q), x)
         /\ Head(q).header = "002" => Head(q).body = x \/ Waits(Tail(q), "005")
<1> DEFINE r == Tail(q)
           n == Len(q)
<1>1. /\ n \in Nat \ {0} /\ Len(r) = n - 1 /\ Head(q) = q[1]
      /\ \A i \in 1 .. n - 1 : r[i] = q[i + 1]
  BY TailFacts
<1> HIDE DEF r, n
<1>2. \A i \in 1 .. n : q[i].header = "002" =>
        q[i].body = x \/ \E j \in 1 .. n : j > i /\ q[j].header = "005"
  BY DEF Owned, n
<1>3. \A j \in 1 .. n : j > 1 => j - 1 \in 1 .. Len(r) /\ r[j - 1] = q[j]
  <2> SUFFICES ASSUME NEW j \in 1 .. n, j > 1 PROVE j - 1 \in 1 .. Len(r) /\ r[j - 1] = q[j]
    OBVIOUS
  <2>1. j - 1 \in 1 .. n - 1 /\ (j - 1) + 1 = j
    BY <1>1
  <2> QED BY <1>1, <2>1
<1>4. ASSUME NEW i \in 1 .. Len(r), r[i].header = "002"
      PROVE  r[i].body = x \/ \E j \in 1 .. Len(r) : j > i /\ r[j].header = "005"
  <2>1. i \in 1 .. n - 1 /\ i + 1 \in 1 .. n /\ r[i] = q[i + 1]
    BY <1>1
  <2>2. CASE \E j \in 1 .. n : j > i + 1 /\ q[j].header = "005"
    <3>1. PICK j \in 1 .. n : j > i + 1 /\ q[j].header = "005"
      BY <2>2
    <3>2. j > 1 /\ j - 1 > i
      BY <1>1, <2>1, <3>1
    <3> QED BY <1>3, <3>1, <3>2
  <2> QED BY <1>2, <1>4, <2>1, <2>2
<1>5. ASSUME q[1].header = "002" PROVE q[1].body = x \/ Waits(r, "005")
  <2>1. 1 \in 1 .. n
    BY <1>1
  <2>2. CASE \E j \in 1 .. n : j > 1 /\ q[j].header = "005"
    BY <1>3, <2>2 DEF Waits
  <2> QED BY <1>2, <1>5, <2>1, <2>2
<1> QED BY <1>1, <1>4, <1>5 DEF Owned, r

Between == gpc \in {"inserted", "erased", "cleared"}

(* A step of the window that edits. *)
LEMMA EditText ==
  ASSUME TextInv, ByWindow, Edited', UNCHANGED <<popup, to_server>>,
         \/ Between' \/ text_input_string' = client_text_input_string'
         \/ UNCHANGED text_vars /\ ~Between
  PROVE  TextInv'
<1> SUFFICES ASSUME link = "open", link' = "open" PROVE TextInv'
  BY DEF ByWindow, TextInv
<1>1. UNCHANGED <<lpc, to_client, client_joined_room, notepad_collab>>
  BY DEF ByWindow, listener_vars, server_vars
<1>2. Unpressed'
  BY DEF TextInv, Unpressed
<1>3. \A x : Inside(x)'
  BY DEF Inside
<1>4. "create" \in Buttons /\ client_joined_room' = 0 => Outside'
  BY <1>1 DEF TextInv, Outside, Between, text_vars
<1> QED BY <1>2, <1>3, <1>4 DEF TextInv

(* What may be sent behind the updates: not the 011, no create or leave    *)
(* without their buttons, and the text that is edited.                     *)
Allowed(m) ==
  /\ m.header # "011"
  /\ m.header = "002" => /\ "create" \in Buttons
                         /\ m.body = client_text_input_string \/ lpc = "assign"
  /\ m.header = "004" => "leave" \in Buttons

LEMMA SendUnpressed ==
  ASSUME TypeInv, Unpressed, popup' # "open",
         \/ UNCHANGED to_server
         \/ \E m : Allowed(m) /\ to_server' = Append(to_server, m)
  PROVE  Unpressed' /\ \A h : Waits(to_server, h) => Waits(to_server', h)
<1>1. CASE UNCHANGED to_server
  BY <1>1 DEF Unpressed
<1>2. CASE \E m : Allowed(m) /\ to_server' = Append(to_server, m)
  <2>1. PICK m : Allowed(m) /\ to_server' = Append(to_server, m)
    BY <1>2
  <2>2. \A h : Waits(to_server', h) <=> Waits(to_server, h) \/ m.header = h
    BY <2>1, Counted, WaitsAppend
  <2> QED BY <2>1, <2>2 DEF Unpressed, Allowed
<1> QED BY <1>1, <1>2

(* A step of the window that leaves the texts alone. *)
LEMMA IdleText ==
  ASSUME TypeInv, TextInv, ByWindow, UNCHANGED text_vars, Edited => Edited',
         UNCHANGED gpc \/ ~Between, popup = "open" \/ popup' # "open",
         link = "open" => \/ UNCHANGED to_server
                          \/ \E m : Allowed(m) /\ to_server' = Append(to_server, m)
  PROVE  TextInv'
<1> SUFFICES ASSUME link = "open", link' = "open" PROVE TextInv'
  BY DEF ByWindow, TextInv
<1>1. UNCHANGED <<lpc, received, to_client, client_joined_room, notepad_collab,
                  client_text_input_string, text_input_string>>
  BY DEF ByWindow, listener_vars, server_vars, text_vars
<1>2. Unpressed' /\ \A h : Waits(to_server, h) => Waits(to_server', h)
  BY SendUnpressed DEF TextInv, Unpressed
<1>3. \A x : Inside(x) => Inside(x)'
  <2>1. \A x : Here(x) => Here(x)'
    BY <1>1 DEF Here
  <2> QED BY <1>1, <1>2, <2>1 DEF Inside
<1>4. Outside => Outside'
  <2> SUFFICES ASSUME Outside PROVE Outside'
    OBVIOUS
  <2>1. Edited' \/ Owned(to_server', client_text_input_string)
    <3>1. CASE Edited
      BY <3>1
    <3>2. CASE Owned(to_server, client_text_input_string) /\ UNCHANGED to_server
      BY <3>2
    <3>3. CASE /\ Owned(to_server, client_text_input_string)
               /\ \E m : Allowed(m) /\ to_server' = Append(to_server, m)
      <4>1. PICK m : Allowed(m) /\ to_server' = Append(to_server, m)
        BY <3>3
      <4>2. m.header = "002" => m.body = client_text_input_string
        BY <4>1 DEF Allowed, Outside
      <4> QED BY <3>3, <4>1, <4>2, Counted, OwnedAppend
    <3> QED BY <3>1, <3>2, <3>3 DEF Outside
  <2> QED BY <1>1, <2>1 DEF Outside, Between
<1> QED BY <1>1, <1>2, <1>3, <1>4 DEF TextInv

(* A step of the window that sends an update. *)
LEMMA UpdateText ==
  ASSUME TypeInv, TextInv, ByWindow, UNCHANGED text_vars, ~Between, UNCHANGED popup,
         NEW m, m.header = "005", Send(m)
  PROVE  TextInv'
<1> SUFFICES ASSUME link = "open", link' = "open" PROVE TextInv'
  BY DEF ByWindow, TextInv
<1>1. UNCHANGED <<lpc, to_client, client_joined_room, client_text_input_string, text_input_string>>
  BY DEF ByWindow, listener_vars, server_vars, text_vars
<1>2. to_server' = Append(to_server, m)
  BY DEF Send
<1>3. Unpressed'
  BY <1>2, SendUnpressed DEF TextInv, Allowed, Unpressed
<1>4. Waits(to_server', "005") /\ Owned(to_server', client_text_input_string)
  BY <1>2, Counted, WaitsAppend, OwnedAppend
<1>5. \A x : Inside(x)'
  BY <1>4 DEF Inside
<1>6. "create" \in Buttons /\ client_joined_room' = 0 => Outside'
  BY <1>1, <1>4 DEF TextInv, Outside, Between
<1> QED BY <1>3, <1>5, <1>6 DEF TextInv

LEMMA UserText ==
  ASSUME TypeInv, TextInv, StaysCurrent, User
  PROVE  TextInv'
<1>1. ByWindow
  BY DEF User
<1>2. CASE PressClear
  BY <1>1, <1>2, EditText DEF PressClear, Edited, Between
<1>3. CASE \E e \in Events : PollEvent(e)
  <2>1. /\ UNCHANGED <<text_vars, popup, to_server, has_updated_notepad>> /\ ~Between
        /\ gpc = "poll" /\ gpc' # "cursor"
    BY <1>3, NotepadAssumption DEF PollEvent, AtGui, shared_vars, Between
  <2>2. Edited => Edited'
    BY <2>1 DEF Edited
  <2> QED BY <1>1, <2>1, <2>2, IdleText
<1>4. CASE ~PressClear /\ ~\E e \in Events : PollEvent(e)
  <2>1. /\ UNCHANGED <<text_vars, has_updated_notepad>> /\ gpc = "poll" /\ gpc' # "cursor"
        /\ popup = "open" \/ popup' # "open"
        /\ link = "open" => \/ UNCHANGED to_server
                            \/ popup = "open"
                            \/ \E m : Allowed(m) /\ to_server' = Append(to_server, m)
    <3>1. CASE PressCreate
      <4>1. PICK x \in TextCopies : Send(Message("002", 0, x, 0))
        BY <3>1 DEF PressCreate
      <4>2. Allowed(Message("002", 0, x, 0))
        BY <3>1 DEF Allowed, Message, TextCopies, Copies, PressCreate, Pressing
      <4> QED BY <3>1, <4>1, <4>2 DEF PressCreate, Pressing, AtGui, Send
    <3>2. CASE PressSave
      <4>1. PICK x \in ShownCopies : Send(Message("008", 0, x, 0))
        BY <3>2 DEF PressSave
      <4>2. Allowed(Message("008", 0, x, 0))
        BY DEF Allowed, Message
      <4> QED BY <3>2, <4>1, <4>2 DEF PressSave, Pressing, AtGui, Send
    <3>3. CASE PressLeave
      <4>1. Allowed(Plain("004"))
        BY <3>3 DEF Allowed, Message, Plain, PressLeave, Pressing
      <4> QED BY <3>3, <4>1 DEF PressLeave, Pressing, AtGui, Send
    <3>4. CASE PressConfirm
      <4>1. \A r : Allowed(Message("003", r, <<>>, 0))
        BY DEF Allowed, Message
      <4>2. Allowed(Plain("010"))
        BY DEF Allowed, Message, Plain
      <4> QED BY <3>4, <4>1, <4>2 DEF PressConfirm, AtGui, Send
    <3>5. CASE PressDownload
      BY <3>5 DEF PressDownload, Pressing, AtGui
    <3>6. CASE \E b \in Popups : PressPopup(b)
      BY <3>6 DEF PressPopup, Pressing, AtGui, StaysCurrent
    <3> QED BY <1>4, <3>1, <3>2, <3>3, <3>4, <3>5, <3>6 DEF User
  <2>2. (Edited => Edited') /\ ~Between
    BY <2>1 DEF Edited, Between
  <2>3. link = "open" => popup # "open"
    BY DEF TextInv, Unpressed
  <2>4. link = "open" => \/ UNCHANGED to_server
                         \/ \E m : Allowed(m) /\ to_server' = Append(to_server, m)
    BY <2>1, <2>3
  <2> QED BY <1>1, <2>1, <2>2, <2>4, IdleText
<1> QED BY <1>2, <1>3, <1>4

LEMMA FrameText ==
  ASSUME TypeInv, TextInv, Frame \/ (RaceCrash /\ ByWindow)
  PROVE  TextInv'
<1>1. ByWindow
  BY DEF Frame
<1>2. CASE InsertKey
  BY <1>1, <1>2, EditText DEF InsertKey, unedited, Edited, Between
<1>3. CASE EraseKey
  BY <1>1, <1>3, EditText DEF EraseKey, AtGui, unedited, Edited, Between, text_vars
<1>4. CASE ShowEdit
  BY <1>1, <1>4, EditText DEF ShowEdit, unedited, Edited
<1>5. CASE MoveCursor
  BY <1>1, <1>5, EditText DEF MoveCursor, AtGui, unedited, Edited, Between
<1>6. CASE ClearShown
  BY <1>1, <1>6, EditText DEF ClearShown, unedited, Edited
<1>7. CASE EditThrows \/ RaceCrash
  BY <1>1, <1>7, IdleText DEF EditThrows, RaceCrash, Throw, window_vars, Edited
<1>8. CASE EndEvents \/ LeaveStatus
  <2>1. /\ UNCHANGED <<text_vars, popup, to_server, has_updated_notepad>>
        /\ gpc \in {"poll", "leave"} /\ gpc' = "update"
    BY <1>8 DEF EndEvents, LeaveStatus, AtGui, unedited
  <2> QED BY <1>1, <2>1, IdleText DEF Edited, Between
<1>9. CASE ClearSend
  <2>1. PICK x \in TextCopies : Send(Message("005", 0, x, 0))
    BY <1>9 DEF ClearSend
  <2> QED BY <1>1, <1>9, <2>1, UpdateText DEF ClearSend, AtGui, unsent, Between, Message
<1>10. CASE SendUpdate
  <2>1. UNCHANGED <<text_vars, popup, has_updated_notepad>> /\ gpc = "update" /\ ~Between
    BY <1>10 DEF SendUpdate, AtGui, unsent, Between
  <2>2. CASE \E x \in TextCopies : Send(Message("005", 0, x, 0))
    <3>1. PICK x \in TextCopies : Send(Message("005", 0, x, 0))
      BY <2>2
    <3> QED BY <1>1, <2>1, <3>1, UpdateText DEF Message
  <2>3. CASE NextFrame /\ UNCHANGED to_server
    <3>1. Edited => Edited'
      BY <2>1, <2>3 DEF NextFrame, Edited
    <3> QED BY <1>1, <2>1, <2>3, <3>1, IdleText
  <2> QED BY <1>10, <2>2, <2>3 DEF SendUpdate
<1>11. CASE SendCursor
  <2>1. UNCHANGED <<text_vars, popup>> /\ gpc = "cursor" /\ ~Between /\ ~Edited
    BY <1>11 DEF SendCursor, AtGui, unsent, Between, Edited
  <2>2. /\ Allowed(Message("006", 0, <<>>, text_input_cursor_position))
        /\ Send(Message("006", 0, <<>>, text_input_cursor_position))
    BY <1>11 DEF SendCursor, Allowed, Message
  <2> QED BY <1>1, <2>1, <2>2, IdleText DEF Send, TextInv, Unpressed
<1> QED BY <1>2, <1>3, <1>4, <1>5, <1>6, <1>7, <1>8, <1>9, <1>10, <1>11 DEF Frame

LEMMA ListenText ==
  ASSUME TypeInv, TextInv, Listen
  PROVE  TextInv'
<1>1. UNCHANGED <<gpc, has_updated_notepad, popup, to_server, client_joined_room, notepad_collab>>
  BY DEF Listen, ByListener, window_vars, server_vars
<1>2. (Unpressed => Unpressed') /\ (Edited => Edited')
  BY <1>1 DEF Unpressed, Edited
<1>3. CASE ReceiveEnd \/ ReceiveError
  <2>1. link' # "open"
    BY <1>3 DEF ReceiveEnd, ReceiveError
  <2> QED BY <2>1 DEF TextInv
<1>4. ASSUME \A x : Inside(x) => Inside(x)', Outside => Outside', UNCHANGED link
      PROVE  TextInv'
  BY <1>1, <1>2, <1>4 DEF TextInv
<1>5. CASE Receive
  <2> DEFINE m == Head(to_client)
             q == to_client
             r == Tail(to_client)
  <2>1. /\ q \in Seq(Messages) /\ q # <<>> /\ to_client' = r
        /\ received' = m /\ lpc' = Handler(m.header) /\ lpc = "recv"
        /\ UNCHANGED <<link, client_text_input_string, text_input_string>>
    BY <1>5, Counted DEF Receive, AtListener, shared_vars, text_vars
  <2>2. /\ \A x : LastOf(q, Carries, x) => \/ LastOf(r, Carries, x)
                                           \/ Without(r, Carries) /\ m = x /\ x.header \in Carries
        /\ Without(q, Carries) => Without(r, Carries) /\ m.header \notin Carries
    BY <2>1, LastTail
  <2> HIDE DEF m, q, r
  <2>3. /\ m.header \in Carries => lpc' = "assign"
        /\ m.header \notin Carries => lpc' \notin {"assign", "show"}
    BY <2>1 DEF Handler, Carries
  <2>4. ASSUME NEW x, Inside(x) PROVE Inside(x)'
    <3>1. CASE Edited \/ Waits(to_server, "005")
      BY <1>1, <1>2, <3>1 DEF Inside
    <3>2. CASE TextSent(q, x)
      <4>1. PICK y \in Messages : LastOf(q, Carries, y) /\ y.body = x
        BY <3>2 DEF TextSent
      <4>2. CASE LastOf(r, Carries, y)
        BY <2>1, <4>1, <4>2 DEF Inside, TextSent
      <4>3. CASE Without(r, Carries) /\ m = y /\ y.header \in Carries
        <5>1. Here(x)'
          BY <2>1, <2>3, <4>1, <4>3 DEF Here
        <5> QED BY <2>1, <4>3, <5>1 DEF Inside
      <4> QED BY <2>2, <4>1, <4>2, <4>3
    <3>3. CASE Without(q, Carries) /\ Here(x)
      <4>1. Here(x)'
        BY <2>1, <2>2, <2>3, <3>3 DEF Here
      <4> QED BY <2>1, <2>2, <3>3, <4>1 DEF Inside
    <3> QED BY <2>4, <3>1, <3>2, <3>3 DEF Inside, q
  <2>5. ASSUME Outside PROVE Outside'
    <3>1. Without(r, Carries) /\ m.header \notin Carries
      BY <2>2, <2>5 DEF Outside, q
    <3> QED BY <1>1, <1>2, <2>1, <2>3, <2>5, <3>1 DEF Outside
  <2> QED BY <1>4, <2>1, <2>4, <2>5
<1>6. CASE SetRoom \/ SetStatus \/ SetOtherCursor \/ AssignText \/ ShowText
  <2>1. UNCHANGED <<link, to_client, received>>
    BY <1>6 DEF SetRoom, SetStatus, SetOtherCursor, AssignText, ShowText, unread
  <2>2. \A x : Here(x) => Here(x)'
    <3>1. CASE SetRoom \/ SetStatus \/ SetOtherCursor
      BY <3>1 DEF SetRoom, SetStatus, SetOtherCursor, ListenerDone, AtListener, Here, unread,
                  text_vars
    <3>2. CASE AssignText
      BY <3>2 DEF AssignText, AtListener, Here, unread
    <3>3. CASE ShowText
      BY <3>3 DEF ShowText, ListenerDone, AtListener, Here, unread
    <3> QED BY <1>6, <3>1, <3>2, <3>3
  <2>3. \A x : Inside(x) => Inside(x)'
    BY <1>1, <1>2, <2>1, <2>2 DEF Inside
  <2>4. Outside => Outside'
    <3>1. CASE SetRoom \/ SetStatus \/ SetOtherCursor
      BY <1>1, <1>2, <2>1, <3>1 DEF SetRoom, SetStatus, SetOtherCursor, ListenerDone, Outside,
                                    text_vars
    <3>2. CASE AssignText \/ ShowText
      BY <3>2 DEF AssignText, ShowText, AtListener, Outside
    <3> QED BY <1>6, <3>1, <3>2
  <2> QED BY <1>4, <2>1, <2>3, <2>4
<1> QED BY <1>3, <1>5, <1>6 DEF Listen

(* What a reply without a text leaves alone. *)
LEMMA TextlessReply ==
  ASSUME NEW q \in Seq(Messages), NEW m \in Messages, m.header \notin Carries
  PROVE  /\ \A x : TextSent(q, x) => TextSent(Append(q, m), x)
         /\ Without(q, Carries) => Without(Append(q, m), Carries)
  BY LastAppend DEF TextSent

LEMMA TextReply ==
  ASSUME NEW q \in Seq(Messages), NEW m \in Messages, m.header \in Carries
  PROVE  TextSent(Append(q, m), m.body)
  BY LastAppend DEF TextSent

(* What a request and its reply have to keep. *)
LEMMA ReplyText ==
  ASSUME TypeInv, TextInv, Serve,
         client_joined_room' # 0 =>
           \E x : x = notepad_collab'[client_joined_room'] /\ Inside(x)',
         "create" \in Buttons /\ client_joined_room' = 0 => Outside'
  PROVE  TextInv'
<1>1. /\ to_server \in Seq(Messages) /\ to_server # <<>> /\ to_server' = Tail(to_server)
      /\ UNCHANGED popup /\ link = "open"
  BY Counted DEF Serve, ServerHandle, ByServer, window_vars
<1>2. \A h : Waits(to_server', h) => Waits(to_server, h)
  BY <1>1, WaitsTail
<1>3. Unpressed'
  BY <1>1, <1>2 DEF TextInv, Unpressed
<1>4. ASSUME client_joined_room' # 0
      PROVE  Inside(notepad_collab[client_joined_room])'
  <2>1. PICK x : x = notepad_collab'[client_joined_room'] /\ Inside(x)'
    BY <1>4
  <2> QED BY <2>1 DEF Inside, Here
<1> QED BY <1>3, <1>4 DEF TextInv

(* A request that changes neither the room nor its text, answered without  *)
(* a text.                                                                 *)
LEMMA IdleReply ==
  ASSUME TypeInv, TextInv, Serve, UNCHANGED <<client_joined_room, notepad_collab>>,
         client_joined_room # 0 => Head(to_server).header # "005",
         \A x : TextSent(to_client, x) => TextSent(to_client', x),
         Without(to_client, Carries) => Without(to_client', Carries)
  PROVE  TextInv'
<1>1. /\ to_server \in Seq(Messages) /\ to_server # <<>> /\ to_server' = Tail(to_server)
      /\ link = "open"
      /\ UNCHANGED <<gpc, has_updated_notepad, lpc, received, client_text_input_string,
                     text_input_string>>
  BY Counted DEF Serve, ServerHandle, ByServer, shared_vars, text_vars, window_vars,
                 listener_vars
<1>2. (Edited => Edited') /\ \A x : Here(x) => Here(x)'
  BY <1>1 DEF Edited, Here
<1>3. ASSUME client_joined_room # 0
      PROVE  \E x : x = notepad_collab'[client_joined_room'] /\ Inside(x)'
  <2>1. PICK x : x = notepad_collab[client_joined_room]
    OBVIOUS
  <2>2. Inside(x)
    BY <1>1, <1>3, <2>1 DEF TextInv, Inside, Here
  <2>3. Waits(to_server, "005") => Waits(to_server', "005")
    BY <1>1, <1>3, WaitsTail
  <2>4. Inside(x)'
    BY <1>2, <2>2, <2>3 DEF Inside
  <2> QED BY <2>1, <2>4
<1>4. ASSUME Outside PROVE Outside'
  <2>1. \A x : Owned(to_server, x) => Owned(to_server', x)
    BY <1>1, OwnedTail
  <2> QED BY <1>1, <1>2, <1>4, <2>1 DEF Outside
<1> QED BY <1>1, <1>3, <1>4, ReplyText DEF TextInv

LEMMA ServeText ==
  ASSUME TypeInv, TextInv, StaysCurrent, Serve
  PROVE  TextInv'
<1> DEFINE m == Head(to_server)
           J == client_joined_room
           q == to_client
<1>1. /\ link = "open" /\ to_server # <<>> /\ to_server' = Tail(to_server)
      /\ to_server \in Seq(Messages)
      /\ q \in Seq(Messages) /\ created \in Nat /\ created <= MaxRooms /\ J \in 0 .. created
      /\ Unpressed /\ notepad_collab \in [Rooms -> Texts] /\ member_cursor \in [Rooms -> Int]
  BY Counted DEF Serve, ServerHandle, TextInv, TypeInv, TypeOK, ServerTypes
<1>2. /\ m \in Messages /\ m.room \in 0 .. MaxRooms /\ m.body \in Texts
      /\ m.header = "002" => created + 1 \in 1 .. MaxRooms
  <2>1. m \in Messages /\ (m.header = "002" => created + 1 \in 1 .. MaxRooms)
    BY <1>1, TakeKeeps DEF Serve, ServerHandle
  <2> QED BY <2>1 DEF Messages
<1>3. /\ m.header # "011"
      /\ m.header = "002" => "create" \in Buttons
      /\ m.header = "004" => "leave" \in Buttons
  BY <1>1, WaitsTail DEF Unpressed
<1>4. /\ UNCHANGED <<gpc, has_updated_notepad, lpc, received, client_text_input_string,
                     text_input_string>>
      /\ (Edited => Edited')
  BY DEF Serve, ByServer, shared_vars, text_vars, window_vars, listener_vars, Edited
<1> HIDE DEF m
<1>5. J \in 0 .. MaxRooms /\ 0 \in 0 .. MaxRooms /\ (J # 0 => J \in Rooms)
  BY <1>1, Bounds DEF Rooms
<1>6. ASSUME UNCHANGED <<client_joined_room, notepad_collab>>, J # 0 => m.header # "005",
             \/ UNCHANGED q
             \/ \E a \in Messages : a.header \notin Carries /\ to_client' = q \o <<a>>
      PROVE  TextInv'
  <2>1. CASE UNCHANGED q
    BY <1>6, <2>1, IdleReply DEF m
  <2>2. CASE \E a \in Messages : a.header \notin Carries /\ to_client' = q \o <<a>>
    <3>1. PICK a \in Messages : a.header \notin Carries /\ to_client' = q \o <<a>>
      BY <2>2
    <3>2. to_client' = Append(q, a)
      BY <1>1, <3>1, ConcatFacts
    <3> QED BY <1>1, <1>6, <3>1, <3>2, TextlessReply, IdleReply DEF m
  <2> QED BY <1>6, <2>1, <2>2
<1>7. ASSUME NEW h \in Headers \ Carries, Reply(<<Plain(h)>>),
             UNCHANGED <<client_joined_room, notepad_collab>>, J # 0 => m.header # "005"
      PROVE  TextInv'
  <2>1. Plain(h) \in Messages /\ Plain(h).header = h /\ to_client' = q \o <<Plain(h)>>
    BY <1>7, MessageType DEF Reply
  <2> QED BY <1>6, <1>7, <2>1
<1>8. CASE m.header = "002" /\ ServerCreate(m)
  <2>1. CASE Reply(<<Plain("102")>>) /\ UNCHANGED server_vars
    BY <1>7, <1>8, <2>1 DEF Headers, Carries, server_vars
  <2>2. CASE /\ J = 0 /\ client_joined_room' = created + 1
             /\ notepad_collab' = [notepad_collab EXCEPT ![created + 1] = m.body]
             /\ Reply(<<Message("101", created + 1, <<>>, 0)>>)
    <3> DEFINE a == Message("101", created + 1, <<>>, 0)
    <3>1. a \in Messages /\ a.header = "101"
      <4>1. "101" \in Headers /\ created + 1 \in 0 .. MaxRooms /\ <<>> \in Texts
        BY <1>1, <1>2, <1>8, TextFacts DEF Headers
      <4> QED BY <4>1, MessageType
    <3>2. to_client' = q \o <<a>>
      BY <2>2 DEF Reply
    <3> HIDE DEF a
    <3>3. to_client' = Append(q, a)
      BY <1>1, <3>1, <3>2, ConcatFacts
    <3>4. Outside
      BY <1>1, <1>3, <1>8, <2>2 DEF TextInv
    <3>5. Without(to_client', Carries)
      BY <1>1, <3>1, <3>3, <3>4, TextlessReply DEF Outside, Carries
    <3>6. notepad_collab'[client_joined_room'] = m.body /\ client_joined_room' # 0
      BY <1>1, <1>2, <1>8, <2>2, Bounds DEF Rooms
    <3>7. PICK x : x = m.body
      OBVIOUS
    <3>8. Inside(x)'
      <4>1. CASE Edited
        BY <1>4, <4>1 DEF Inside
      <4>2. CASE ~Edited
        <5>1. x = client_text_input_string \/ Waits(to_server', "005")
          BY <1>1, <1>8, <3>4, <3>7, <4>2, OwnedTail DEF Outside, m
        <5>2. text_input_string = client_text_input_string /\ lpc \notin {"assign", "show"}
          BY <3>4, <4>2 DEF Outside, Edited
        <5> QED BY <1>4, <3>5, <5>1, <5>2 DEF Inside, Here
      <4> QED BY <4>1, <4>2
    <3> QED BY <3>6, <3>7, <3>8, ReplyText
  <2> QED BY <1>8, <2>1, <2>2 DEF ServerCreate
<1>9. CASE m.header = "003" /\ ServerJoin(m)
  <2>1. CASE \E h \in {"108", "109"} : Reply(<<Plain(h)>>) /\ UNCHANGED server_vars
    BY <1>7, <1>9, <2>1 DEF Headers, Carries, server_vars
  <2>2. CASE /\ m.room # 0 /\ client_joined_room' = m.room /\ Reply(Joined(m.room))
             /\ UNCHANGED notepad_collab
    <3> DEFINE a == Message("104", m.room, <<>>, 0)
               b == Message("204", m.room, notepad_collab[m.room], 0)
    <3>1. a \in Messages
      <4>1. "104" \in Headers /\ <<>> \in Texts
        BY TextFacts DEF Headers
      <4> QED BY <1>2, <4>1, MessageType
    <3>2. b \in Messages /\ b.header = "204" /\ b.body = notepad_collab[m.room]
      <4>1. m.room \in Rooms
        BY <1>2, <2>2, Bounds DEF Rooms
      <4>2. "204" \in Headers /\ notepad_collab[m.room] \in Texts
        BY <1>1, <4>1 DEF Headers
      <4> QED BY <1>2, <1>5, <4>2, MessageType
    <3>3. to_client' = q \o <<a, b>>
      BY <2>2 DEF Reply, Joined
    <3> HIDE DEF a, b
    <3>4. to_client' = Append(Append(q, a), b) /\ Append(q, a) \in Seq(Messages)
      BY <1>1, <3>1, <3>2, <3>3, ConcatFacts, AppendFacts
    <3>5. TextSent(to_client', notepad_collab[m.room])
      BY <3>2, <3>4, TextReply DEF Carries
    <3>6. PICK x : x = notepad_collab[m.room]
      OBVIOUS
    <3>7. Inside(x)'
      BY <3>5, <3>6 DEF Inside
    <3> QED BY <2>2, <3>6, <3>7, ReplyText
  <2> QED BY <1>9, <2>1, <2>2 DEF ServerJoin
<1>10. CASE m.header = "004" /\ ServerLeave
  <2>1. "create" \notin Buttons /\ client_joined_room' = 0
    BY <1>3, <1>10 DEF StaysCurrent, ServerLeave
  <2> QED BY <2>1, ReplyText
<1>11. CASE m.header = "005" /\ ServerUpdate(m)
  <2>1. CASE J = 0 /\ UNCHANGED <<to_client, server_vars>>
    BY <1>6, <1>11, <2>1 DEF server_vars
  <2>2. CASE /\ J # 0 /\ notepad_collab' = [notepad_collab EXCEPT ![J] = m.body]
             /\ Reply(<<Message("112", J, m.body, 0)>>) /\ UNCHANGED client_joined_room
    <3> DEFINE a == Message("112", J, m.body, 0)
    <3>1. a \in Messages /\ a.header = "112" /\ a.body = m.body
      <4>1. "112" \in Headers
        BY DEF Headers
      <4> QED BY <1>2, <1>5, <4>1, MessageType
    <3>2. to_client' = q \o <<a>>
      BY <2>2 DEF Reply
    <3> HIDE DEF a
    <3>3. to_client' = Append(q, a)
      BY <1>1, <3>1, <3>2, ConcatFacts
    <3>4. TextSent(to_client', m.body)
      BY <1>1, <3>1, <3>3, TextReply DEF Carries
    <3>5. notepad_collab'[client_joined_room'] = m.body /\ client_joined_room' # 0
      BY <1>1, <1>5, <2>2
    <3>6. PICK x : x = m.body
      OBVIOUS
    <3>7. Inside(x)'
      BY <3>4, <3>6 DEF Inside
    <3> QED BY <3>5, <3>6, <3>7, ReplyText
  <2> QED BY <1>11, <2>1, <2>2 DEF ServerUpdate
<1>12. CASE m.header = "006" /\ ServerCursor
  <2>1. CASE UNCHANGED <<to_client, server_vars>>
    BY <1>6, <1>12, <2>1 DEF server_vars
  <2>2. CASE J # 0 /\ Reply(<<Message("113", J, <<>>, member_cursor[J])>>) /\ UNCHANGED server_vars
    <3> DEFINE a == Message("113", J, <<>>, member_cursor[J])
    <3>1. a \in Messages /\ a.header = "113"
      <4>1. member_cursor[J] \in Int /\ "113" \in Headers /\ <<>> \in Texts
        BY <1>1, <1>5, <2>2, TextFacts DEF Headers
      <4> QED BY <1>5, <4>1, MessageType
    <3>2. to_client' = q \o <<a>>
      BY <2>2 DEF Reply
    <3> HIDE DEF a
    <3> QED BY <1>6, <1>12, <2>2, <3>1, <3>2 DEF Carries, server_vars
  <2> QED BY <1>12, <2>1, <2>2 DEF ServerCursor
<1>13. CASE ServerDocument(m)
  <2>1. /\ \E h \in {"115", "116", "117", "118"} : Reply(<<Plain(h)>>)
        /\ m.header # "005" /\ UNCHANGED <<client_joined_room, notepad_collab>>
    BY <1>3, <1>13 DEF ServerDocument, server_vars
  <2> QED BY <1>7, <2>1 DEF Headers, Carries
<1> QED BY <1>8, <1>9, <1>10, <1>11, <1>12, <1>13 DEF Serve, ServerHandle, m

LEMMA OthersText ==
  ASSUME TypeInv, TextInv, Others
  PROVE  TextInv'
<1> DEFINE J == client_joined_room
<1>1. UNCHANGED <<gpc, has_updated_notepad, popup, lpc, received, client_text_input_string,
                  text_input_string>>
  BY DEF Others, ByServer, shared_vars, text_vars, window_vars, listener_vars
<1>2. /\ to_client \in Seq(Messages) /\ created \in Nat /\ J \in 0 .. created
      /\ created <= MaxRooms /\ notepad_collab \in [Rooms -> Texts]
  BY Counted DEF TypeInv, TypeOK, ServerTypes
<1>3. J # 0 => J \in Rooms
  BY <1>2, Bounds DEF Rooms
<1>4. ASSUME UNCHANGED <<link, to_server, client_joined_room>>, link = "open"
      PROVE  Unpressed' /\ (Edited => Edited') /\ \A x : Here(x) => Here(x)'
  BY <1>1, <1>4 DEF Unpressed, Edited, Here, TextInv
<1>5. ASSUME UNCHANGED <<link, to_server, to_client, client_joined_room>>, link = "open",
             J # 0 => notepad_collab'[J] = notepad_collab[J]
      PROVE  TextInv'
  <2>1. \A x : Inside(x) => Inside(x)'
    BY <1>4, <1>5 DEF Inside
  <2>2. Outside => Outside'
    BY <1>1, <1>4, <1>5 DEF Outside
  <2>3. ASSUME J # 0 PROVE Inside(notepad_collab[J])'
    <3>1. PICK x : x = notepad_collab[J]
      OBVIOUS
    <3>2. Inside(x)
      BY <1>5, <2>3, <3>1 DEF TextInv, Inside, Here
    <3>3. Inside(x)' /\ x = notepad_collab'[client_joined_room']
      BY <1>5, <2>1, <2>3, <3>1, <3>2
    <3> QED BY <3>3 DEF Inside, Here
  <2> QED BY <1>4, <1>5, <2>2, <2>3 DEF TextInv
<1>6. CASE OtherCreates
  <2>1. PICK x : notepad_collab' = [notepad_collab EXCEPT ![created + 1] = x]
    BY <1>6 DEF OtherCreates
  <2>2. J # created + 1
    BY <1>2
  <2>3. J # 0 => notepad_collab'[J] = notepad_collab[J]
    BY <1>2, <1>3, <2>1, <2>2
  <2> QED BY <1>5, <1>6, <2>3 DEF OtherCreates
<1>7. CASE LinkEnds
  <2>1. link' # "open"
    BY <1>7, NotepadAssumption DEF LinkEnds
  <2> QED BY <2>1 DEF TextInv
<1>8. ASSUME NEW r \in Rooms, OtherUpdates(r) PROVE TextInv'
  <2>1. UNCHANGED <<link, to_server, client_joined_room>> /\ link = "open"
    BY <1>8 DEF OtherUpdates
  <2>2. PICK x \in {Append(notepad_collab[r], TheirChar), <<>>} :
          /\ notepad_collab' = [notepad_collab EXCEPT ![r] = x]
          /\ IF J = r
             THEN Reply(<<Message("112", r, x, 0), Message("113", r, <<>>, Len(x))>>)
             ELSE UNCHANGED to_client
    BY <1>8 DEF OtherUpdates
  <2>3. CASE J # r
    <3>1. J # 0 => notepad_collab'[J] = notepad_collab[J]
      BY <1>2, <1>3, <2>2, <2>3
    <3> QED BY <1>5, <2>1, <2>2, <2>3, <3>1
  <2>4. CASE J = r
    <3> DEFINE a == Message("112", r, x, 0)
               b == Message("113", r, <<>>, Len(x))
    <3>1. x \in Texts
      <4>1. notepad_collab[r] \in Texts
        BY <1>2
      <4>2. Append(notepad_collab[r], TheirChar) \in Texts /\ <<>> \in Texts
        BY <4>1, TextFacts, Bounds
      <4> QED BY <2>2, <4>2
    <3>2. /\ a \in Messages /\ a.header = "112" /\ a.body = x
          /\ b \in Messages /\ b.header = "113"
      <4>1. /\ r \in 0 .. MaxRooms /\ "112" \in Headers /\ "113" \in Headers /\ <<>> \in Texts
            /\ Len(x) \in Int
        BY <3>1, TextFacts, Bounds DEF Headers, Rooms
      <4> QED BY <3>1, <4>1, MessageType
    <3>3. to_client' = to_client \o <<a, b>> /\ notepad_collab'[J] = x /\ J # 0
      BY <1>2, <2>2, <2>4, Bounds DEF Reply, Rooms
    <3> HIDE DEF a, b
    <3>4. to_client' = Append(Append(to_client, a), b) /\ Append(to_client, a) \in Seq(Messages)
      BY <1>2, <3>2, <3>3, ConcatFacts, AppendFacts
    <3>5. TextSent(to_client', x)
      <4>1. TextSent(Append(to_client, a), x)
        BY <1>2, <3>2, TextReply DEF Carries
      <4> QED BY <3>2, <3>4, <4>1, TextlessReply DEF Carries
    <3>6. Inside(x)' /\ x = notepad_collab'[client_joined_room']
      BY <2>1, <3>3, <3>5 DEF Inside
    <3>7. Inside(notepad_collab[client_joined_room])'
      BY <3>6 DEF Inside, Here
    <3> QED BY <1>4, <2>1, <3>3, <3>7 DEF TextInv
  <2> QED BY <2>3, <2>4
<1> QED BY <1>6, <1>7, <1>8 DEF Others

LEMMA TextInvStep ==
  ASSUME TypeInv, TextInv, StaysCurrent, [Next]_vars
  PROVE  TextInv'
<1>1. CASE UNCHANGED vars
  <2>1. /\ ByWindow /\ UNCHANGED <<text_vars, gpc, has_updated_notepad, popup, to_server>>
    BY <1>1 DEF vars, ByWindow, shared_vars, window_vars, server_vars
  <2>2. Edited => Edited'
    BY <2>1 DEF Edited
  <2> QED BY <2>1, <2>2, IdleText
<1> QED BY <1>1, UserText, FrameText, ListenText, ServeText, OthersText DEF Next

LEMMA TextInvInit == Init => TextInv
<1> SUFFICES ASSUME Init PROVE TextInv
  OBVIOUS
<1>1. /\ Without(<<>>, Carries) /\ \A h : ~Waits(<<>>, h)
      /\ \A x : Owned(<<>>, x)
  BY EmptyIsWithout, EmptySeq DEF Waits, Owned
<1>2. Unpressed /\ Outside
  BY <1>1 DEF Init, Unpressed, Outside
<1> QED BY <1>2 DEF Init, TextInv

(***************************************************************************)
(* Without the Open button, and without the Create button or without the   *)
(* Leave button, a client in a room edits and shows the notepad the server *)
(* has of it whenever nothing is on the wire and nothing typed is waiting, *)
(* however the listener's assignments (112, 204) fall between the keys,    *)
(* the updates (005) and the updates of the other member.  With the three  *)
(* buttons it is not so: a 204 of Open, or what Create after Leave sends,  *)
(* may be another text.                                                    *)
(***************************************************************************)
THEOREM ClientConverges ==
  ASSUME "open" \notin Buttons, "create" \notin Buttons \/ "leave" \notin Buttons
  PROVE  Spec => []Converged
<1>1. StaysCurrent
  BY DEF StaysCurrent
<1>2. ASSUME TypeInv, TextInv PROVE Converged
  <2> SUFFICES ASSUME Settled, client_joined_room # 0
               PROVE  /\ client_text_input_string = notepad_collab[client_joined_room]
                      /\ text_input_string = client_text_input_string
    BY DEF Converged
  <2>1. /\ link = "open" /\ lpc = "recv" /\ to_server = <<>> /\ to_client = <<>>
        /\ gpc = "poll" /\ ~has_updated_notepad
    BY DEF Settled, Delivered
  <2>2. ~Edited /\ ~Waits(to_server, "005")
    BY <2>1, EmptySeq DEF Edited, Waits
  <2>3. \A x : ~TextSent(to_client, x)
    BY <2>1, EmptySeq DEF TextSent, LastOf
  <2>4. Inside(notepad_collab[client_joined_room])
    BY <1>2, <2>1 DEF TextInv
  <2> QED BY <2>1, <2>2, <2>3, <2>4 DEF Inside, Here
<1>3. Spec => [](TypeInv /\ TextInv)
  BY <1>1, TypeInvInit, TypeInvStep, TextInvInit, TextInvStep, PTL DEF Spec
<1> QED BY <1>2, <1>3, PTL

=============================================================================
