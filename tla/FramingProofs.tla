---------------------------- MODULE FramingProofs ----------------------------
(***************************************************************************)
(* What is proved about messages as bytes: what arrives is what was sent,  *)
(* when no send is cut and every string ends within its message.           *)
(***************************************************************************)
EXTENDS Framing, SequenceTheorems, WellFoundedInduction, TLAPS

-----------------------------------------------------------------------------
(* Strings and arrays. *)

LEMMA Constants ==
  /\ Size \in Nat /\ Size > 0 /\ Capacity \in Nat /\ Capacity > 0
  /\ MaxRequests \in Nat /\ NUL \in Cells /\ Junk \in Cells
  BY FramingAssumption DEF NUL, Junk, Cell, Cells

(* A set of numbers has a least one. *)
LEMMA Least ==
  ASSUME NEW T \in SUBSET Nat, T # {}
  PROVE  \E x \in T : \A y \in T : x <= y
<1> DEFINE R == OpToRel(<, Nat)
<1>1. IsWellFoundedOn(R, Nat)
  BY NatLessThanWellFounded
<1>2. \A x, y \in Nat : y < x => <<y, x>> \in R
  BY DEF OpToRel
<1> HIDE DEF R
<1>3. \E x \in T : \A y \in T : ~(<<y, x>> \in R)
  BY <1>1, WFMin
<1>4. PICK x \in T : \A y \in T : <<y, x>> \notin R
  BY <1>3
<1>5. \A y \in T : x <= y
  <2> SUFFICES ASSUME NEW y \in T PROVE x <= y
    OBVIOUS
  <2>1. x \in Nat /\ y \in Nat /\ ~(y < x)
    BY <1>2, <1>4
  <2> QED BY <2>1
<1> QED BY <1>5

(* A part of a sequence. *)
LEMMA PartType ==
  ASSUME NEW S, NEW s \in Seq(S), NEW m \in Nat \ {0}, NEW n \in Nat, n <= Len(s)
  PROVE  /\ SubSeq(s, m, n) \in Seq(S)
         /\ Len(SubSeq(s, m, n)) = IF m <= n THEN n - m + 1 ELSE 0
         /\ \A i \in 1 .. n - m + 1 : SubSeq(s, m, n)[i] = s[m + i - 1]
<1>1. \A i \in m .. n : i \in 1 .. Len(s)
  BY LenProperties
<1>2. \A i \in m .. n : s[i] \in S
  BY <1>1, ElementOfSeq
<1> QED BY <1>2, SubSeqProperties

(* What is taken from a sequence and what is left. *)
LEMMA TakenAndLeft ==
  ASSUME NEW S, NEW s \in Seq(S), NEW k \in Nat, k <= Len(s)
  PROVE  /\ SubSeq(s, 1, k) \in Seq(S) /\ Len(SubSeq(s, 1, k)) = k
         /\ SubSeq(s, k + 1, Len(s)) \in Seq(S)
         /\ Len(SubSeq(s, k + 1, Len(s))) = Len(s) - k
<1> DEFINE taken == SubSeq(s, 1, k)
           left == SubSeq(s, k + 1, Len(s))
<1>1. Len(s) \in Nat
  BY LenProperties
<1>2. taken \in Seq(S) /\ Len(taken) = IF 1 <= k THEN k - 1 + 1 ELSE 0
  BY PartType
<1>3. /\ left \in Seq(S)
      /\ Len(left) = IF k + 1 <= Len(s) THEN Len(s) - (k + 1) + 1 ELSE 0
  BY <1>1, PartType
<1> HIDE DEF taken, left
<1>4. Len(taken) = k /\ Len(left) = Len(s) - k
  BY <1>1, <1>2, <1>3
<1> QED BY <1>2, <1>3, <1>4 DEF taken, left

(* A record is Size cells, whatever the string. *)
LEMMA RecordType ==
  ASSUME NEW string \in Seq(Cells)
  PROVE  /\ Record(string) \in Seq(Cells) /\ Len(Record(string)) = Size
         /\ \A i \in 1 .. Size : Record(string)[i] =
              IF i <= Len(string) THEN string[i]
              ELSE IF i = Len(string) + 1 THEN NUL ELSE Junk
<1>1. /\ Len(string) \in Nat /\ \A i \in 1 .. Len(string) : string[i] \in Cells
      /\ Size \in Nat /\ NUL \in Cells /\ Junk \in Cells
  BY Constants
<1>2. \A i \in 1 .. Size : Record(string)[i] =
         IF i <= Len(string) THEN string[i]
         ELSE IF i = Len(string) + 1 THEN NUL ELSE Junk
  BY <1>1 DEF Record
<1>3. Record(string) \in [1 .. Size -> Cells]
  <2>1. \A i \in 1 .. Size : Record(string)[i] \in Cells
    BY <1>1, <1>2
  <2> QED BY <2>1 DEF Record
<1>4. Record(string) \in Seq(Cells) /\ Len(Record(string)) = Size
  BY <1>1, <1>3
<1> QED BY <1>2, <1>4

LEMMA ArrayIsSeq ==
  ASSUME NEW array \in [1 .. Size -> Cells]
  PROVE  array \in Seq(Cells) /\ Len(array) = Size
  BY Constants

LEMMA StringInType ==
  ASSUME NEW array \in [1 .. Size -> Cells]
  PROVE  StringIn(array) \in Seq(Cells)
<1>1. array \in Seq(Cells) /\ Len(array) = Size /\ Junk \in Cells /\ Size \in Nat
  BY Constants, ArrayIsSeq
<1>2. CASE \E i \in 1 .. Size : array[i] = NUL
  <2> DEFINE end == CHOOSE i \in 1 .. Size :
                      array[i] = NUL /\ \A j \in 1 .. (i - 1) : array[j] # NUL
             ends == {i \in 1 .. Size : array[i] = NUL}
  <2>0. ends \in SUBSET Nat /\ ends # {}
    BY <1>2
  <2>1. \E i \in ends : \A j \in ends : i <= j
    BY <2>0, Least
  <2>2. \E i \in 1 .. Size : array[i] = NUL /\ \A j \in 1 .. (i - 1) : array[j] # NUL
    BY <1>1, <2>1
  <2>3. end \in 1 .. Size
    BY <2>2
  <2> HIDE DEF end
  <2>4. SubSeq(array, 1, end - 1) \in Seq(Cells)
    BY <1>1, <2>3, PartType
  <2> QED BY <1>2, <2>4 DEF StringIn, end
<1>3. CASE ~\E i \in 1 .. Size : array[i] = NUL
  BY <1>1, <1>3 DEF StringIn
<1> QED BY <1>2, <1>3

-----------------------------------------------------------------------------
(* Types. *)

LEMMA SmallerType ==
  ASSUME NEW a \in Nat, NEW b \in Nat
  PROVE  /\ Smaller(a, b) \in Nat /\ Smaller(a, b) <= a /\ Smaller(a, b) <= b
         /\ Smaller(a, b) = a \/ Smaller(a, b) = b
  BY DEF Smaller

(* What a send copies is there to copy, and there is room for it. *)
LEMMA CopiedType ==
  ASSUME TypeOK, NEW p \in Writers, NEW w \in Wires
  PROVE  /\ Copied(p, w) \in Nat /\ Copied(p, w) <= Len(rest[p])
         /\ Len(wire[w]) + Copied(p, w) <= Capacity
         /\ Copied(p, w) = Len(rest[p]) \/ Len(wire[w]) + Copied(p, w) = Capacity
<1> DEFINE room == Capacity - Len(wire[w])
<1>1. /\ Len(rest[p]) \in Nat /\ Len(wire[w]) \in Nat /\ Len(wire[w]) <= Capacity
      /\ Capacity \in Nat
  BY Constants DEF TypeOK
<1>2. room \in Nat /\ Len(wire[w]) + room = Capacity
  BY <1>1
<1>3. Copied(p, w) = Smaller(Len(rest[p]), room)
  BY DEF Copied
<1> HIDE DEF room
<1>4. /\ Copied(p, w) \in Nat /\ Copied(p, w) <= Len(rest[p]) /\ Copied(p, w) <= room
      /\ Copied(p, w) = Len(rest[p]) \/ Copied(p, w) = room
  BY <1>1, <1>2, <1>3, SmallerType
<1> QED BY <1>1, <1>2, <1>4

LEMMA ReadType ==
  ASSUME TypeOK, NEW w \in Wires, Read(w)
  PROVE  /\ wire' \in [Wires -> Seq(Cells)] /\ \A v \in Wires : Len(wire'[v]) <= Capacity
         /\ buffer' \in [Wires -> [1 .. Size -> Cells]]
         /\ pending' \in [Wires -> Seq(Seq(Cells))]
<1> DEFINE k == Smaller(Size, Len(wire[w]))
           array == SubSeq(wire[w], 1, k) \o SubSeq(buffer[w], k + 1, Size)
           left == SubSeq(wire[w], k + 1, Len(wire[w]))
           waiting == IF pending[w] = <<>> THEN pending[w] ELSE Tail(pending[w])
<1>0. /\ wire[w] \in Seq(Cells) /\ Len(wire[w]) <= Capacity /\ wire[w] # <<>>
      /\ buffer[w] \in [1 .. Size -> Cells] /\ pending[w] \in Seq(Seq(Cells))
      /\ Size \in Nat /\ Size > 0 /\ Len(wire[w]) \in Nat /\ Capacity \in Nat
  <2>1. /\ wire[w] \in Seq(Cells) /\ Len(wire[w]) <= Capacity /\ wire[w] # <<>>
        /\ buffer[w] \in [1 .. Size -> Cells] /\ pending[w] \in Seq(Seq(Cells))
    BY DEF Read, TypeOK
  <2> QED BY <2>1, Constants, LenProperties
<1>1. k \in 0 .. Size /\ k <= Len(wire[w])
  BY <1>0 DEF Smaller
<1>2. buffer[w] \in Seq(Cells) /\ Len(buffer[w]) = Size
  BY <1>0, ArrayIsSeq
<1>a. /\ wire' = [wire EXCEPT ![w] = left]
      /\ buffer' = [buffer EXCEPT ![w] = array]
      /\ pending' = [pending EXCEPT ![w] = waiting]
  BY DEF Read
<1> HIDE DEF k
<1>3. /\ SubSeq(wire[w], 1, k) \in Seq(Cells) /\ Len(SubSeq(wire[w], 1, k)) = k
      /\ SubSeq(buffer[w], k + 1, Size) \in Seq(Cells)
      /\ Len(SubSeq(buffer[w], k + 1, Size)) = Size - k
      /\ left \in Seq(Cells) /\ Len(left) = Len(wire[w]) - k
  <2>1. k \in Nat /\ k <= Len(wire[w]) /\ k <= Len(buffer[w])
    BY <1>0, <1>1, <1>2
  <2>2. /\ SubSeq(wire[w], 1, k) \in Seq(Cells) /\ Len(SubSeq(wire[w], 1, k)) = k
        /\ left \in Seq(Cells) /\ Len(left) = Len(wire[w]) - k
    BY <1>0, <2>1, TakenAndLeft
  <2>3. /\ SubSeq(buffer[w], k + 1, Len(buffer[w])) \in Seq(Cells)
        /\ Len(SubSeq(buffer[w], k + 1, Len(buffer[w]))) = Len(buffer[w]) - k
    BY <1>2, <2>1, TakenAndLeft
  <2> QED BY <1>2, <2>2, <2>3
<1>4. array \in Seq(Cells) /\ Len(array) = Size
  BY <1>0, <1>1, <1>3, ConcatProperties
<1>5. array \in [1 .. Size -> Cells]
  BY <1>4, LenProperties
<1>6. waiting \in Seq(Seq(Cells))
  BY <1>0
<1>7. Len(left) <= Capacity
  BY <1>0, <1>1, <1>3
<1> HIDE DEF array, left, waiting
<1>8. wire' \in [Wires -> Seq(Cells)] /\ \A v \in Wires : Len(wire'[v]) <= Capacity
  BY <1>a, <1>3, <1>7 DEF TypeOK
<1>9. buffer' \in [Wires -> [1 .. Size -> Cells]]
  BY <1>a, <1>5 DEF TypeOK
<1>10. pending' \in [Wires -> Seq(Seq(Cells))]
  BY <1>a, <1>6 DEF TypeOK
<1> QED BY <1>8, <1>9, <1>10

LEMMA WriteType ==
  ASSUME TypeOK, NEW p \in Writers, NEW w \in Wires, NEW string \in Seq(Cells),
         Write(p, w, string)
  PROVE  /\ wire' \in [Wires -> Seq(Cells)] /\ \A v \in Wires : Len(wire'[v]) <= Capacity
         /\ pending' \in [Wires -> Seq(Seq(Cells))]
         /\ Left(p, w) \in Seq(Cells) /\ Len(Left(p, w)) <= Size
<1> DEFINE k == Copied(p, w)
           full == wire[w] \o SubSeq(rest[p], 1, k)
           waiting == Append(pending[w], string)
<1>0. /\ wire[w] \in Seq(Cells) /\ Len(wire[w]) <= Capacity
      /\ pending[w] \in Seq(Seq(Cells)) /\ rest[p] \in Seq(Cells)
      /\ Len(rest[p]) <= Size /\ Size \in Nat /\ Capacity \in Nat
      /\ Len(wire[w]) \in Nat /\ Len(rest[p]) \in Nat
  BY Constants DEF TypeOK
<1>1. k \in Nat /\ k <= Len(rest[p]) /\ Len(wire[w]) + k <= Capacity
  BY CopiedType
<1>a. /\ wire' = [wire EXCEPT ![w] = full]
      /\ pending' = [pending EXCEPT ![w] = waiting] \/ pending' = pending
  BY DEF Write
<1>b. Left(p, w) = SubSeq(rest[p], k + 1, Len(rest[p]))
  BY DEF Left
<1> HIDE DEF k
<1>2. /\ SubSeq(rest[p], 1, k) \in Seq(Cells) /\ Len(SubSeq(rest[p], 1, k)) = k
      /\ SubSeq(rest[p], k + 1, Len(rest[p])) \in Seq(Cells)
      /\ Len(SubSeq(rest[p], k + 1, Len(rest[p]))) = Len(rest[p]) - k
  BY <1>0, <1>1, TakenAndLeft
<1>3. full \in Seq(Cells) /\ Len(full) = Len(wire[w]) + k
  BY <1>0, <1>2, ConcatProperties
<1>4. waiting \in Seq(Seq(Cells))
  BY <1>0
<1>5. Len(full) <= Capacity
  BY <1>1, <1>3
<1> HIDE DEF full, waiting
<1>6. wire' \in [Wires -> Seq(Cells)] /\ \A v \in Wires : Len(wire'[v]) <= Capacity
  BY <1>a, <1>3, <1>5 DEF TypeOK
<1>7. pending' \in [Wires -> Seq(Seq(Cells))]
  BY <1>a, <1>4 DEF TypeOK
<1>8. Left(p, w) \in Seq(Cells) /\ Len(Left(p, w)) <= Size
  BY <1>0, <1>1, <1>2, <1>b
<1> QED BY <1>6, <1>7, <1>8

LEMMA AnsweredType ==
  ASSUME NEW string \in Seq(Cells)
  PROVE  /\ Answered(string) \in Seq(Cells) /\ Len(Answered(string)) = Len(string)
         /\ \A i \in 1 .. Len(string) : Answered(string)[i].header # "NUL"
                                          <=> string[i].header # "NUL"
<1> DEFINE head(h) == CASE h = "005" -> "112" [] h = "006" -> "113" [] OTHER -> h
           cell(i) == [string[i] EXCEPT !.header = head(@)]
<1>1. Len(string) \in Nat /\ DOMAIN string = 1 .. Len(string)
  BY LenProperties
<1>2. ASSUME NEW i \in 1 .. Len(string)
      PROVE  cell(i) \in Cells /\ (cell(i).header # "NUL" <=> string[i].header # "NUL")
  <2>1. string[i] \in Cells
    BY <1>1
  <2> QED BY <2>1 DEF Cells
<1>3. Answered(string) = [i \in 1 .. Len(string) |-> cell(i)]
  BY <1>1 DEF Answered
<1> HIDE DEF cell
<1>4. Answered(string) \in Seq(Cells) /\ Len(Answered(string)) = Len(string)
  BY <1>1, <1>2, <1>3
<1> QED BY <1>2, <1>3, <1>4

(* What a window may send. *)
LEMMA StringOfType ==
  ASSUME NEW h \in Headers, NEW s \in Slots, NEW m \in 0 .. MaxRequests, NEW n \in Lengths
  PROVE  /\ StringOf(Cell(h, s, m), n) \in Seq(Cells)
         /\ Len(StringOf(Cell(h, s, m), n)) = n /\ n \in 1 .. Size
         /\ \A i \in 1 .. n : StringOf(Cell(h, s, m), n)[i].header # "NUL"
<1>1. h \in {"005", "006"} /\ s \in 0 .. 2 /\ n \in 1 .. Size /\ n \in Nat
  BY FramingAssumption DEF Slots
<1>2. Cell(h, s, m) \in Cells /\ Cell(h, s, m).header # "NUL"
  BY <1>1 DEF Cell, Cells
<1> HIDE DEF Cell
<1>3. StringOf(Cell(h, s, m), n) = [i \in 1 .. n |-> Cell(h, s, m)]
  BY DEF StringOf
<1> QED BY <1>1, <1>2, <1>3

-----------------------------------------------------------------------------
(* The wires and the writers hold strings of cells, within their bounds.    *)

LEMMA TypeInit == Init => TypeOK
<1> SUFFICES ASSUME Init PROVE TypeOK
  OBVIOUS
<1>1. Size \in Nat /\ Capacity \in Nat /\ MaxRequests \in Nat /\ Junk \in Cells
  BY Constants
<1>2. <<>> \in Seq(Cells) /\ <<>> \in Seq(Seq(Cells)) /\ Len(<<>>) = 0
  OBVIOUS
<1>3. StringOf(Junk, Size) \in [1 .. Size -> Cells]
  BY <1>1 DEF StringOf
<1>4. buffer \in [Wires -> [1 .. Size -> Cells]]
  BY <1>3 DEF Init
<1>5. /\ wire \in [Wires -> Seq(Cells)] /\ pending \in [Wires -> Seq(Seq(Cells))]
      /\ \A w \in Wires : Len(wire[w]) <= Capacity
      /\ rest \in [Writers -> Seq(Cells)] /\ \A p \in Writers : Len(rest[p]) <= Size
  BY <1>1, <1>2 DEF Init
<1>6. /\ pc \in [Slots -> {"recv", "lock", "send"}] /\ slot \in [Slots -> Slots]
      /\ answer \in [Slots -> Seq(Cells)] /\ sending \in [Slots -> Seq(Cells)]
      /\ notepad_collab_i \in 0 .. 2
      /\ asked \in [Slots -> 0 .. MaxRequests] /\ handled \in [Slots -> Nat]
  BY <1>1, <1>2 DEF Init, Slots
<1> QED BY <1>4, <1>5, <1>6 DEF TypeOK

LEMMA Ends ==
  ASSUME NEW s \in Slots
  PROVE  /\ Up(s) \in Wires /\ Down(s) \in Wires
         /\ Window(s) \in Writers /\ Thread(s) \in Writers
         /\ \A t \in Slots : Up(t) # Down(s) /\ Window(t) # Thread(s)
  BY DEF Up, Down, Window, Thread, Wires, Writers

LEMMA RestType ==
  ASSUME TypeOK, NEW p \in Writers, NEW left \in Seq(Cells), Len(left) <= Size,
         rest' = [rest EXCEPT ![p] = left]
  PROVE  rest' \in [Writers -> Seq(Cells)] /\ \A q \in Writers : Len(rest'[q]) <= Size
  BY DEF TypeOK

LEMMA TypeStep == TypeOK /\ [Next]_vars => TypeOK'
<1> SUFFICES ASSUME TypeOK, [Next]_vars PROVE TypeOK'
  OBVIOUS
<1> USE DEF thread_vars
<1>1. ASSUME NEW s \in Slots, WindowSends(s) PROVE TypeOK'
  <2>1. asked' = [asked EXCEPT ![s] = asked[s] + 1] /\ asked[s] + 1 \in 0 .. MaxRequests
    BY <1>1, Constants DEF WindowSends, TypeOK, Slots
  <2>2. asked' \in [Slots -> 0 .. MaxRequests] /\ asked'[s] \in 0 .. MaxRequests
    BY <2>1 DEF TypeOK
  <2>3. PICK h \in Headers, n \in Lengths :
          /\ rest' = [rest EXCEPT ![Window(s)] =
                        Record(StringOf(Cell(h, s, asked'[s]), n))]
          /\ sending' = [sending EXCEPT ![s] = StringOf(Cell(h, s, asked'[s]), n)]
    BY <1>1 DEF WindowSends
  <2> DEFINE string == StringOf(Cell(h, s, asked'[s]), n)
  <2>4. string \in Seq(Cells)
    BY <2>2, StringOfType
  <2> HIDE DEF string
  <2>5. Record(string) \in Seq(Cells) /\ Len(Record(string)) = Size
    BY <2>4, RecordType
  <2>6. rest' = [rest EXCEPT ![Window(s)] = Record(string)]
        /\ sending' = [sending EXCEPT ![s] = string]
    BY <2>3 DEF string
  <2>7. rest' \in [Writers -> Seq(Cells)] /\ \A p \in Writers : Len(rest'[p]) <= Size
    <3>1. Len(Record(string)) <= Size
      BY <2>5, Constants
    <3> QED BY <2>5, <2>6, <3>1, Ends, RestType
  <2>8. sending' \in [Slots -> Seq(Cells)]
    BY <2>4, <2>6 DEF TypeOK
  <2> QED BY <1>1, <2>2, <2>7, <2>8 DEF WindowSends, TypeOK
<1>2. ASSUME NEW s \in Slots, WindowCopies(s) PROVE TypeOK'
  <2>1. sending[s] \in Seq(Cells) /\ Write(Window(s), Up(s), sending[s])
    BY <1>2 DEF WindowCopies, TypeOK
  <2>2. /\ wire' \in [Wires -> Seq(Cells)] /\ \A v \in Wires : Len(wire'[v]) <= Capacity
        /\ pending' \in [Wires -> Seq(Seq(Cells))]
        /\ Left(Window(s), Up(s)) \in Seq(Cells) /\ Len(Left(Window(s), Up(s))) <= Size
    BY <2>1, Ends, WriteType
  <2>3. rest' = [rest EXCEPT ![Window(s)] = Left(Window(s), Up(s))]
    BY <1>2 DEF WindowCopies
  <2>4. rest' \in [Writers -> Seq(Cells)] /\ \A p \in Writers : Len(rest'[p]) <= Size
    BY <2>2, <2>3 DEF TypeOK
  <2> QED BY <1>2, <2>2, <2>4 DEF WindowCopies, TypeOK
<1>3. ASSUME NEW s \in Slots, Listener(s) PROVE TypeOK'
  <2>1. Read(Down(s)) /\ Down(s) \in Wires
    BY <1>3, Ends DEF Listener
  <2>2. /\ wire' \in [Wires -> Seq(Cells)] /\ \A v \in Wires : Len(wire'[v]) <= Capacity
        /\ buffer' \in [Wires -> [1 .. Size -> Cells]]
        /\ pending' \in [Wires -> Seq(Seq(Cells))]
    BY <2>1, ReadType
  <2>3. handled' \in [Slots -> Nat]
    BY <1>3 DEF Listener, TypeOK
  <2> QED BY <1>3, <2>2, <2>3 DEF Listener, TypeOK
<1>4. ASSUME NEW t \in Slots, ThreadRecv(t) PROVE TypeOK'
  <2>1. Read(Up(t)) /\ Up(t) \in Wires
    BY <1>4, Ends DEF ThreadRecv
  <2>2. /\ wire' \in [Wires -> Seq(Cells)] /\ \A v \in Wires : Len(wire'[v]) <= Capacity
        /\ buffer' \in [Wires -> [1 .. Size -> Cells]]
        /\ pending' \in [Wires -> Seq(Seq(Cells))]
    BY <2>1, ReadType
  <2> DEFINE string == StringIn(buffer'[Up(t)])
  <2>3. string \in Seq(Cells)
    BY <2>1, <2>2, StringInType
  <2>4. /\ answer' = [answer EXCEPT ![t] = Answered(string)]
        /\ pc' = [pc EXCEPT ![t] = CASE Asks(string, "005") -> "lock"
                                     [] Asks(string, "006") -> "send"
                                     [] OTHER -> "recv"]
        /\ rest' = IF pc'[t] = "recv" THEN rest
                   ELSE [rest EXCEPT ![Thread(t)] = Record(answer'[t])]
        /\ slot' = [slot EXCEPT ![t] = 1]
    BY <1>4 DEF ThreadRecv
  <2> HIDE DEF string
  <2>5. Answered(string) \in Seq(Cells)
    BY <2>3, AnsweredType
  <2>6. answer' \in [Slots -> Seq(Cells)] /\ answer'[t] \in Seq(Cells)
    BY <2>4, <2>5 DEF TypeOK
  <2>7. Record(answer'[t]) \in Seq(Cells) /\ Len(Record(answer'[t])) <= Size
    BY <2>6, RecordType, Constants
  <2>8. rest' \in [Writers -> Seq(Cells)] /\ \A p \in Writers : Len(rest'[p]) <= Size
    BY <2>4, <2>7 DEF TypeOK
  <2>9. pc' \in [Slots -> {"recv", "lock", "send"}]
    <3> DEFINE next == CASE Asks(string, "005") -> "lock" [] Asks(string, "006") -> "send"
                         [] OTHER -> "recv"
    <3>1. next \in {"recv", "lock", "send"} /\ pc' = [pc EXCEPT ![t] = next]
      BY <2>4
    <3> HIDE DEF next
    <3> QED BY <3>1 DEF TypeOK
  <2>10. slot' \in [Slots -> Slots]
    BY <2>4 DEF TypeOK, Slots
  <2>11. UNCHANGED <<sending, notepad_collab_i, asked, handled>>
    BY <1>4 DEF ThreadRecv
  <2> QED BY <2>2, <2>6, <2>8, <2>9, <2>10, <2>11 DEF TypeOK
<1>5. ASSUME NEW t \in Slots, ThreadLock(t) PROVE TypeOK'
  BY <1>5 DEF ThreadLock, TypeOK, Slots
<1>6. ASSUME NEW t \in Slots, ThreadCopies(t) PROVE TypeOK'
  <2> DEFINE w == Down(slot[t])
             last == slot[t] = 2
  <2>1. /\ w \in Wires /\ Thread(t) \in Writers /\ slot[t] \in Slots
        /\ answer[t] \in Seq(Cells) /\ Write(Thread(t), w, answer[t])
    BY <1>6, Ends DEF ThreadCopies, TypeOK
  <2>2. /\ rest' = [rest EXCEPT ![Thread(t)] =
                      IF Finishes(Thread(t), w) /\ ~last THEN Record(answer[t])
                      ELSE Left(Thread(t), w)]
        /\ slot' = [slot EXCEPT ![t] = 3 - slot[t]] \/ slot' = slot
        /\ pc' = [pc EXCEPT ![t] = IF last THEN "recv" ELSE pc[t]] \/ pc' = pc
        /\ notepad_collab_i' \in {0, notepad_collab_i}
        /\ UNCHANGED <<buffer, sending, answer, asked, handled>>
    BY <1>6 DEF ThreadCopies
  <2> HIDE DEF w
  <2>3. /\ wire' \in [Wires -> Seq(Cells)] /\ \A v \in Wires : Len(wire'[v]) <= Capacity
        /\ pending' \in [Wires -> Seq(Seq(Cells))]
        /\ Left(Thread(t), w) \in Seq(Cells) /\ Len(Left(Thread(t), w)) <= Size
    BY <2>1, WriteType
  <2>4. Record(answer[t]) \in Seq(Cells) /\ Len(Record(answer[t])) <= Size
    BY <2>1, RecordType, Constants
  <2>5. rest' \in [Writers -> Seq(Cells)] /\ \A p \in Writers : Len(rest'[p]) <= Size
    BY <2>2, <2>3, <2>4 DEF TypeOK
  <2>6. 3 - slot[t] \in Slots
    BY <2>1 DEF Slots
  <2>7. slot' \in [Slots -> Slots]
    BY <2>2, <2>6 DEF TypeOK
  <2>8. pc' \in [Slots -> {"recv", "lock", "send"}]
    <3> DEFINE next == IF last THEN "recv" ELSE pc[t]
    <3>1. next \in {"recv", "lock", "send"}
      BY DEF TypeOK
    <3>2. pc' = [pc EXCEPT ![t] = next] \/ pc' = pc
      BY <2>2
    <3> HIDE DEF next
    <3> QED BY <3>1, <3>2 DEF TypeOK
  <2>9. notepad_collab_i' \in 0 .. 2
    BY <2>2 DEF TypeOK
  <2> QED BY <2>2, <2>3, <2>5, <2>7, <2>8, <2>9 DEF TypeOK
<1>7. CASE UNCHANGED vars
  BY <1>7 DEF vars, TypeOK
<1> QED BY <1>1, <1>2, <1>3, <1>4, <1>5, <1>6, <1>7 DEF Next

(***************************************************************************)
(* Whatever is cut, mixed or left without a terminator, every connection   *)
(* holds no more than its buffers, and every array is read within it.      *)
(***************************************************************************)
THEOREM FramesAreTyped == FairSpec => []TypeOK
<1>1. Init => TypeOK
  BY TypeInit
<1>2. TypeOK /\ [Next]_vars => TypeOK'
  BY TypeStep
<1> QED BY <1>1, <1>2, PTL DEF FairSpec

-----------------------------------------------------------------------------
(* Strings that end within their message and messages that are never cut.   *)

(* The hypothesis of what follows: a connection holds whole messages, and   *)
(* every string leaves room for its terminator.                             *)
WholeMessages ==
  /\ \E m \in Nat : Capacity = Size * m
  /\ Lengths \subseteq 1 .. (Size - 1)

(* The cells before message n + 1. *)
Off(n) == Size * n

Ended == {s \in Seq(Cells) : /\ Len(s) \in 1 .. (Size - 1)
                             /\ \A i \in 1 .. Len(s) : s[i].header # "NUL"}

(* The cells are the messages of these strings, one behind the other. *)
Spells(cells, strings) ==
  /\ Len(cells) = Off(Len(strings))
  /\ \A i \in 1 .. Len(strings) : \A j \in 1 .. Size :
       cells[Off(i - 1) + j] = Record(strings[i])[j]

(* What lies on a wire is what was sent on it, each message whole, and what *)
(* a writer has left is all of its message or nothing.                      *)
WiresSpell == \A w \in Wires : /\ pending[w] \in Seq(Ended)
                               /\ Spells(wire[w], pending[w])
WindowsWrite == \A s \in Slots :
  \/ rest[Window(s)] = <<>>
  \/ sending[s] \in Ended /\ rest[Window(s)] = Record(sending[s])
ThreadsWrite == \A t \in Slots : pc[t] # "recv" =>
  answer[t] \in Ended /\ rest[Thread(t)] = Record(answer[t])
WholeInv == TypeOK /\ WiresSpell /\ WindowsWrite /\ ThreadsWrite

LEMMA Offsets ==
  /\ Off(0) = 0
  /\ \A n \in Nat : Off(n) \in Nat /\ Off(n + 1) = Off(n) + Size
  /\ \A m, n \in Nat : m <= n => Off(m) <= Off(n)
<1>1. Size \in Nat /\ Off(0) = 0
  BY Constants DEF Off
<1>2. \A n \in Nat : Off(n) \in Nat /\ Off(n + 1) = Off(n) + Size
  BY <1>1 DEF Off
<1>3. ASSUME NEW m \in Nat, NEW n \in Nat, m <= n PROVE Off(m) <= Off(n)
  <2> DEFINE d == n - m
  <2>1. d \in Nat /\ n = m + d
    BY <1>3
  <2>2. Size * n = Size * m + Size * d /\ Size * d \in Nat /\ Size * m \in Nat
    <3> HIDE DEF d
    <3> QED BY <1>1, <2>1
  <2> QED BY <2>2 DEF Off
<1> QED BY <1>1, <1>2, <1>3

(* The string of a message is the string it was made from. *)
LEMMA StringInRecord ==
  ASSUME NEW string \in Ended
  PROVE  StringIn(Record(string)) = string
<1> DEFINE array == Record(string)
           last(i) == array[i] = NUL /\ \A j \in 1 .. (i - 1) : array[j] # NUL
           n == Len(string)
           end == CHOOSE i \in 1 .. Size : last(i)
<1>1. /\ string \in Seq(Cells) /\ n \in Nat /\ n \in 1 .. (Size - 1) /\ Size \in Nat
      /\ array \in Seq(Cells) /\ Len(array) = Size
      /\ \A i \in 1 .. Size : array[i] = IF i <= n THEN string[i]
                                         ELSE IF i = n + 1 THEN NUL ELSE Junk
  BY Constants, RecordType DEF Ended
<1>2. \A i \in 1 .. n : array[i] = string[i] /\ array[i] # NUL
  <2> SUFFICES ASSUME NEW i \in 1 .. n PROVE array[i] = string[i] /\ array[i] # NUL
    OBVIOUS
  <2>1. string[i].header # "NUL" /\ i \in 1 .. Size /\ i <= n
    BY <1>1 DEF Ended
  <2>2. array[i] = string[i]
    BY <1>1, <2>1
  <2>3. NUL.header = "NUL"
    BY DEF NUL, Cell
  <2> QED BY <2>1, <2>2, <2>3
<1>3. array[n + 1] = NUL /\ n + 1 \in 1 .. Size
  BY <1>1
<1> HIDE DEF array
<1>4. last(n + 1)
  BY <1>1, <1>2, <1>3
<1>5. \A i \in 1 .. Size : last(i) => i = n + 1
  <2> SUFFICES ASSUME NEW i \in 1 .. Size, last(i) PROVE i = n + 1
    OBVIOUS
  <2>1. ~(i <= n)
    BY <1>1, <1>2
  <2>2. ~(i > n + 1)
    BY <1>1, <1>3
  <2> QED BY <1>1, <2>1, <2>2
<1>6. end = n + 1
  BY <1>3, <1>4, <1>5
<1>7. StringIn(array) = SubSeq(array, 1, end - 1)
  BY <1>3 DEF StringIn
<1> HIDE DEF end
<1>8. StringIn(array) = SubSeq(array, 1, n)
  BY <1>1, <1>6, <1>7
<1>9. /\ SubSeq(array, 1, n) \in Seq(Cells) /\ Len(SubSeq(array, 1, n)) = n
      /\ \A i \in 1 .. n : SubSeq(array, 1, n)[i] = array[i]
  BY <1>1, PartType
<1>10. SubSeq(array, 1, n) = string
  BY <1>1, <1>2, <1>9, SeqEqual
<1> QED BY <1>8, <1>10 DEF array

(* A message behind the others. *)
LEMMA SpellsAppend ==
  ASSUME NEW cells \in Seq(Cells), NEW strings \in Seq(Ended), NEW string \in Ended,
         Spells(cells, strings)
  PROVE  Spells(cells \o Record(string), Append(strings, string))
<1> DEFINE n == Len(strings)
           more == cells \o Record(string)
           all == Append(strings, string)
<1>1. /\ Size \in Nat /\ n \in Nat /\ Off(n) \in Nat /\ Len(cells) = Off(n)
      /\ Record(string) \in Seq(Cells) /\ Len(Record(string)) = Size
  BY Constants, Offsets, RecordType DEF Spells, Ended
<1>2. /\ Len(more) = Off(n) + Size
      /\ \A i \in 1 .. Off(n) + Size :
           more[i] = IF i <= Off(n) THEN cells[i] ELSE Record(string)[i - Off(n)]
  <2>1. /\ Len(more) = Len(cells) + Len(Record(string))
        /\ \A i \in 1 .. Len(cells) + Len(Record(string)) :
             more[i] = IF i <= Len(cells) THEN cells[i]
                       ELSE Record(string)[i - Len(cells)]
    BY <1>1, ConcatProperties
  <2> HIDE DEF more
  <2> QED BY <1>1, <2>1
<1>3. /\ Len(all) = n + 1 /\ \A i \in 1 .. n : all[i] = strings[i]
      /\ all[n + 1] = string
  BY AppendProperties
<1> HIDE DEF more, all
<1>4. Len(more) = Off(Len(all))
  BY <1>1, <1>2, <1>3, Offsets
<1>5. ASSUME NEW i \in 1 .. n, NEW j \in 1 .. Size
      PROVE  more[Off(i - 1) + j] = Record(all[i])[j]
  <2>1. i - 1 \in Nat /\ i \in Nat /\ (i - 1) + 1 = i /\ i <= n
    BY <1>1
  <2>2. Off(i - 1) \in Nat /\ Off(i) = Off(i - 1) + Size /\ Off(i) <= Off(n)
    BY <1>1, <2>1, Offsets
  <2>3. Off(i - 1) + j \in 1 .. Off(n) + Size /\ Off(i - 1) + j <= Off(n)
    BY <1>1, <2>2
  <2>4. cells[Off(i - 1) + j] = Record(strings[i])[j]
    BY DEF Spells
  <2> QED BY <1>2, <1>3, <2>3, <2>4
<1>6. ASSUME NEW j \in 1 .. Size PROVE more[Off(n) + j] = Record(all[n + 1])[j]
  <2> DEFINE x == Off(n) + j
  <2>1. x \in 1 .. Off(n) + Size /\ ~(x <= Off(n)) /\ x - Off(n) = j
    BY <1>1
  <2> HIDE DEF x
  <2>2. more[x] = Record(string)[j]
    BY <1>2, <2>1
  <2> QED BY <1>3, <2>2 DEF x
<1>7. ASSUME NEW i \in 1 .. (n + 1), NEW j \in 1 .. Size
      PROVE  more[Off(i - 1) + j] = Record(all[i])[j]
  <2>1. i \in 1 .. n \/ (i = n + 1 /\ i - 1 = n)
    BY <1>1
  <2> QED BY <1>5, <1>6, <2>1
<1> QED BY <1>3, <1>4, <1>7 DEF Spells, more, all

(* The first message, and what stays without it. *)
LEMMA SpellsFirst ==
  ASSUME NEW cells \in Seq(Cells), NEW strings \in Seq(Ended), Spells(cells, strings),
         cells # <<>>
  PROVE  /\ strings # <<>> /\ Size <= Len(cells)
         /\ SubSeq(cells, 1, Size) = Record(Head(strings))
         /\ Spells(SubSeq(cells, Size + 1, Len(cells)), Tail(strings))
<1> DEFINE n == Len(strings)
           first == SubSeq(cells, 1, Size)
           others == SubSeq(cells, Size + 1, Len(cells))
<1>1. Size \in Nat /\ n \in Nat /\ Off(n) \in Nat /\ Len(cells) = Off(n)
  BY Constants, Offsets DEF Spells
<1>2. strings # <<>>
  <2>1. Len(cells) # 0
    BY EmptySeq
  <2>2. n # 0
    BY <1>1, <2>1, Offsets
  <2> QED BY <2>2
<1>3. /\ Head(strings) \in Ended /\ Head(strings) = strings[1] /\ n >= 1
      /\ Tail(strings) \in Seq(Ended) /\ Len(Tail(strings)) = n - 1
      /\ \A i \in 1 .. (n - 1) : Tail(strings)[i] = strings[i + 1]
  <2>1. n # 0
    BY <1>2, EmptySeq, <1>1
  <2> QED BY <1>1, <1>2, <2>1, HeadTailProperties
<1>4. Off(0) = 0 /\ Off(1) = Size /\ Size <= Len(cells)
  <2>1. Off(0 + 1) = Off(0) + Size /\ Off(1) <= Off(n)
    BY <1>1, <1>3, Offsets
  <2> QED BY <1>1, <2>1, Offsets
<1>5. /\ first \in Seq(Cells) /\ Len(first) = Size
      /\ \A j \in 1 .. Size : first[j] = cells[j]
      /\ others \in Seq(Cells) /\ Len(others) = Off(n) - Size
      /\ \A j \in 1 .. Off(n) - Size : others[j] = cells[Size + j]
  <2>1. /\ first \in Seq(Cells) /\ Len(first) = IF 1 <= Size THEN Size - 1 + 1 ELSE 0
        /\ \A j \in 1 .. Size - 1 + 1 : first[j] = cells[1 + j - 1]
    BY <1>1, <1>4, PartType
  <2>2. /\ others \in Seq(Cells)
        /\ Len(others) = IF Size + 1 <= Off(n) THEN Off(n) - (Size + 1) + 1 ELSE 0
        /\ \A j \in 1 .. Off(n) - (Size + 1) + 1 : others[j] = cells[Size + 1 + j - 1]
    BY <1>1, <1>4, PartType
  <2> HIDE DEF first, others
  <2> QED BY <1>1, <1>4, <2>1, <2>2, Constants
<1>6. first = Record(Head(strings))
  <2>1. Record(Head(strings)) \in Seq(Cells) /\ Len(Record(Head(strings))) = Size
    BY <1>3, RecordType DEF Ended
  <2>2. \A j \in 1 .. Size : cells[Off(1 - 1) + j] = Record(strings[1])[j]
    BY <1>1, <1>3 DEF Spells
  <2>3. \A j \in 1 .. Size : first[j] = Record(Head(strings))[j]
    <3> SUFFICES ASSUME NEW j \in 1 .. Size PROVE first[j] = Record(Head(strings))[j]
      OBVIOUS
    <3>1. Off(1 - 1) + j = j
      BY <1>1, <1>4
    <3>2. cells[j] = Record(strings[1])[j]
      BY <2>2, <3>1
    <3>3. first[j] = cells[j]
      BY <1>5
    <3> QED BY <1>3, <3>2, <3>3
  <2> HIDE DEF first
  <2> QED BY <1>5, <2>1, <2>3, SeqEqual
<1> HIDE DEF first, others
<1>7. Off(n) - Size = Off(n - 1)
  <2>1. n - 1 \in Nat /\ (n - 1) + 1 = n
    BY <1>1, <1>3
  <2>2. Off(n - 1) \in Nat /\ Off((n - 1) + 1) = Off(n - 1) + Size
    BY <2>1, Offsets
  <2>3. Off(n) = Off(n - 1) + Size
    BY <2>1, <2>2
  <2> QED BY <1>1, <2>2, <2>3
<1>8. ASSUME NEW i \in 1 .. (n - 1), NEW j \in 1 .. Size
      PROVE  others[Off(i - 1) + j] = Record(Tail(strings)[i])[j]
  <2>1. /\ i - 1 \in Nat /\ i \in Nat /\ (i - 1) + 1 = i /\ i <= n - 1 /\ n - 1 \in Nat
        /\ i + 1 \in 1 .. n /\ (i + 1) - 1 = i
    BY <1>1, <1>3
  <2>2. Off(i - 1) \in Nat /\ Off(i) = Off(i - 1) + Size /\ Off(i) <= Off(n - 1)
    BY <2>1, Offsets
  <2>3. Off(i - 1) + j \in 1 .. Off(n) - Size /\ Size + (Off(i - 1) + j) = Off(i) + j
    BY <1>1, <1>7, <2>2
  <2>4. cells[Off((i + 1) - 1) + j] = Record(strings[i + 1])[j]
    BY <2>1 DEF Spells
  <2> QED BY <1>3, <1>5, <2>1, <2>3, <2>4
<1> QED BY <1>2, <1>3, <1>4, <1>5, <1>6, <1>7, <1>8 DEF Spells, first, others

-----------------------------------------------------------------------------
(* A send is copied whole or waits whole, a recv takes one message. *)

LEMMA WriteWhole ==
  ASSUME TypeOK, WiresSpell, WholeMessages, NEW p \in Writers, NEW w \in Wires,
         NEW string \in Ended, rest[p] = Record(string), Write(p, w, string)
  PROVE  /\ Finishes(p, w) /\ Left(p, w) = <<>>
         /\ WiresSpell'
         /\ \A v \in Wires : Len(wire'[v]) >= Len(wire[v])
<1> DEFINE cells == wire[w] \o Record(string)
           strings == Append(pending[w], string)
           n == Len(pending[w])
           k == Copied(p, w)
<1>1. /\ Size \in Nat /\ wire[w] \in Seq(Cells) /\ pending[w] \in Seq(Ended)
      /\ Spells(wire[w], pending[w]) /\ n \in Nat /\ Len(wire[w]) = Off(n)
      /\ Off(n) \in Nat /\ string \in Seq(Cells)
  <2>1. /\ Size \in Nat /\ wire[w] \in Seq(Cells) /\ pending[w] \in Seq(Ended)
        /\ Spells(wire[w], pending[w])
    BY Constants DEF TypeOK, WiresSpell
  <2>2. n \in Nat /\ Off(n) \in Nat
    BY <2>1, LenProperties, Offsets
  <2>3. Len(wire[w]) = Off(n)
    BY <2>1 DEF Spells
  <2>4. string \in Seq(Cells)
    BY DEF Ended
  <2> QED BY <2>1, <2>2, <2>3, <2>4
<1>2. Record(string) \in Seq(Cells) /\ Len(Record(string)) = Size /\ Len(rest[p]) = Size
  BY <1>1, RecordType
<1>3. PICK m \in Nat : Capacity = Off(m)
  BY DEF WholeMessages, Off
<1>4. /\ k \in Nat /\ k > 0 /\ k <= Size /\ Off(n) + k <= Off(m)
      /\ k = Size \/ Off(n) + k = Off(m)
  BY <1>1, <1>2, <1>3, CopiedType DEF Write
<1>5. Off(n) + Size <= Off(m)
  <2>1. Off(m) \in Nat
    BY Offsets
  <2>2. ~(m <= n)
    <3> SUFFICES ASSUME m <= n PROVE FALSE
      OBVIOUS
    <3>1. Off(m) <= Off(n)
      BY <1>1, Offsets
    <3> QED BY <1>1, <1>4, <2>1, <3>1
  <2>3. n + 1 \in Nat /\ n + 1 <= m
    BY <1>1, <2>2
  <2> QED BY <1>1, <2>3, Offsets
<1>6. k = Size
  <2>1. Off(m) \in Nat
    BY Offsets
  <2> QED BY <1>1, <1>4, <1>5, <2>1
<1>7. Finishes(p, w)
  BY <1>2, <1>6 DEF Finishes
<1>8. SubSeq(rest[p], 1, k) = Record(string)
  BY <1>2, <1>6, SubSeqFull
<1>9. Left(p, w) = <<>>
  <2>1. Left(p, w) = SubSeq(rest[p], Size + 1, Size)
    BY <1>2, <1>6 DEF Left
  <2>2. Size + 1 \in Int /\ Size \in Int /\ Size < Size + 1
    BY <1>1
  <2> QED BY <2>1, <2>2, SubSeqEmpty
<1>10. wire' = [wire EXCEPT ![w] = cells] /\ pending' = [pending EXCEPT ![w] = strings]
  BY <1>7, <1>8 DEF Write
<1>11. /\ cells \in Seq(Cells) /\ Len(cells) = Len(wire[w]) + Size
       /\ strings \in Seq(Ended) /\ Spells(cells, strings)
  <2>1. cells \in Seq(Cells) /\ Len(cells) = Len(wire[w]) + Size
    <3>1. /\ cells \in Seq(Cells)
          /\ Len(cells) = Len(wire[w]) + Len(Record(string))
      BY <1>1, <1>2, ConcatProperties
    <3> HIDE DEF cells
    <3> QED BY <1>2, <3>1
  <2>2. strings \in Seq(Ended)
    BY <1>1, AppendProperties
  <2>3. Spells(cells, strings)
    BY <1>1, SpellsAppend
  <2> QED BY <2>1, <2>2, <2>3
<1> HIDE DEF cells, strings, k, n
<1>12. \A v \in Wires : \/ v = w /\ wire'[v] = cells /\ pending'[v] = strings
                        \/ wire'[v] = wire[v] /\ pending'[v] = pending[v]
  BY <1>10 DEF TypeOK
<1>13. WiresSpell'
  <2> SUFFICES ASSUME NEW v \in Wires
               PROVE  pending'[v] \in Seq(Ended) /\ Spells(wire'[v], pending'[v])
    BY DEF WiresSpell, Spells, Off, Record, NUL, Junk, Cell, Ended, Cells
  <2> QED BY <1>11, <1>12 DEF WiresSpell
<1>14. \A v \in Wires : Len(wire'[v]) >= Len(wire[v])
  <2> SUFFICES ASSUME NEW v \in Wires PROVE Len(wire'[v]) >= Len(wire[v])
    OBVIOUS
  <2>1. Len(wire[v]) \in Nat
    BY DEF TypeOK
  <2>2. CASE wire'[v] = wire[v]
    BY <2>1, <2>2
  <2>3. CASE v = w /\ wire'[v] = cells
    BY <1>1, <1>11, <2>1, <2>3
  <2> QED BY <1>12, <2>2, <2>3
<1> QED BY <1>7, <1>9, <1>13, <1>14

LEMMA ReadWhole ==
  ASSUME TypeOK, WiresSpell, NEW w \in Wires, Read(w)
  PROVE  /\ pending[w] # <<>> /\ Head(pending[w]) \in Ended
         /\ StringIn(buffer'[w]) = Head(pending[w])
         /\ WiresSpell'
         /\ \A v \in Wires : v # w => wire'[v] = wire[v]
<1> DEFINE k == Smaller(Size, Len(wire[w]))
           array == SubSeq(wire[w], 1, k) \o SubSeq(buffer[w], k + 1, Size)
           left == SubSeq(wire[w], k + 1, Len(wire[w]))
           waiting == IF pending[w] = <<>> THEN pending[w] ELSE Tail(pending[w])
           string == Head(pending[w])
<1>1. /\ Size \in Nat /\ wire[w] \in Seq(Cells) /\ wire[w] # <<>>
      /\ pending[w] \in Seq(Ended) /\ Spells(wire[w], pending[w])
      /\ Len(wire[w]) \in Nat
  BY Constants DEF TypeOK, WiresSpell, Read
<1>2. /\ pending[w] # <<>> /\ Size <= Len(wire[w])
      /\ SubSeq(wire[w], 1, Size) = Record(string)
      /\ Spells(SubSeq(wire[w], Size + 1, Len(wire[w])), Tail(pending[w]))
  BY <1>1, SpellsFirst
<1>3. string \in Ended /\ Tail(pending[w]) \in Seq(Ended)
  BY <1>1, <1>2, HeadTailProperties
<1>4. /\ wire' = [wire EXCEPT ![w] = left] /\ buffer' = [buffer EXCEPT ![w] = array]
      /\ pending' = [pending EXCEPT ![w] = waiting]
  BY DEF Read
<1>5. k = Size
  BY <1>1, <1>2 DEF Smaller
<1>6. left = SubSeq(wire[w], Size + 1, Len(wire[w])) /\ waiting = Tail(pending[w])
  BY <1>2, <1>5
<1>7. array = Record(string)
  <2>1. SubSeq(buffer[w], Size + 1, Size) = <<>>
    <3>1. Size + 1 \in Int /\ Size \in Int /\ Size < Size + 1
      BY <1>1
    <3> QED BY <3>1, SubSeqEmpty
  <2>2. array = Record(string) \o <<>>
    BY <1>2, <1>5, <2>1
  <2>3. Record(string) \in Seq(Cells)
    BY <1>3, RecordType DEF Ended
  <2> QED BY <2>2, <2>3, ConcatEmptySeq
<1> HIDE DEF array, left, waiting, string, k
<1>8. buffer'[w] = Record(string)
  BY <1>4, <1>7 DEF TypeOK
<1>9. StringIn(buffer'[w]) = string
  BY <1>3, <1>8, StringInRecord
<1>10. \A v \in Wires : \/ v = w /\ wire'[v] = left /\ pending'[v] = waiting
                        \/ v # w /\ wire'[v] = wire[v] /\ pending'[v] = pending[v]
  BY <1>4 DEF TypeOK
<1>11. WiresSpell'
  <2> SUFFICES ASSUME NEW v \in Wires
               PROVE  pending'[v] \in Seq(Ended) /\ Spells(wire'[v], pending'[v])
    BY DEF WiresSpell, Spells, Off, Record, NUL, Junk, Cell, Ended, Cells
  <2> QED BY <1>2, <1>3, <1>6, <1>10 DEF WiresSpell
<1> QED BY <1>2, <1>3, <1>9, <1>10, <1>11 DEF string

(* An answer ends within its message when the request does. *)
LEMMA AnsweredEnds ==
  ASSUME NEW string \in Ended
  PROVE  Answered(string) \in Ended
  BY AnsweredType DEF Ended

LEMMA WholeInit == Init => WholeInv
<1> SUFFICES ASSUME Init PROVE WholeInv
  OBVIOUS
<1>1. TypeOK
  BY TypeInit
<1>2. WiresSpell
  <2> SUFFICES ASSUME NEW w \in Wires PROVE pending[w] \in Seq(Ended) /\ Spells(wire[w], pending[w])
    BY DEF WiresSpell
  <2>1. wire[w] = <<>> /\ pending[w] = <<>> /\ Len(<<>>) = 0
    BY DEF Init
  <2>2. \A i \in 1 .. 0 : FALSE
    OBVIOUS
  <2> QED BY <2>1, <2>2, EmptySeq, Offsets DEF Spells
<1>3. WindowsWrite
  BY Ends DEF Init, WindowsWrite
<1>4. ThreadsWrite
  BY DEF Init, ThreadsWrite
<1> QED BY <1>1, <1>2, <1>3, <1>4 DEF WholeInv

LEMMA WritersApart ==
  ASSUME NEW s \in Slots, NEW t \in Slots
  PROVE  /\ Window(s) # Thread(t)
         /\ (Window(s) = Window(t) => s = t) /\ (Thread(s) = Thread(t) => s = t)
  BY DEF Window, Thread

(* The wires do not change, or one of them does by a whole message. *)
Taken == \A w \in Wires : Len(wire'[w]) < Len(wire[w]) =>
           pending[w] # <<>> /\ StringIn(buffer'[w]) = Head(pending[w])

LEMMA TakenIfLonger ==
  ASSUME TypeOK, TypeOK', \A w \in Wires : Len(wire'[w]) >= Len(wire[w])
  PROVE  Taken
<1>1. \A w \in Wires : Len(wire'[w]) \in Nat /\ Len(wire[w]) \in Nat
  BY DEF TypeOK
<1> QED BY <1>1 DEF Taken

LEMMA WiresKept ==
  ASSUME TypeOK, TypeOK', WiresSpell, UNCHANGED <<wire, pending>>
  PROVE  WiresSpell' /\ Taken
<1>1. WiresSpell'
  <2> SUFFICES ASSUME NEW w \in Wires
               PROVE  pending'[w] \in Seq(Ended) /\ Spells(wire'[w], pending'[w])
    BY DEF WiresSpell, Spells, Off, Record, NUL, Junk, Cell, Ended, Cells
  <2> QED BY DEF WiresSpell
<1>2. \A w \in Wires : Len(wire'[w]) >= Len(wire[w])
  <2>1. \A w \in Wires : Len(wire[w]) \in Nat
    BY DEF TypeOK
  <2> QED BY <2>1
<1> QED BY <1>1, <1>2, TakenIfLonger

LEMMA WritersKept ==
  ASSUME WindowsWrite, ThreadsWrite, UNCHANGED <<rest, sending, answer>>,
         \A t \in Slots : pc'[t] # "recv" => pc[t] # "recv"
  PROVE  WindowsWrite' /\ ThreadsWrite'
<1>1. WindowsWrite'
  <2> SUFFICES ASSUME NEW r \in Slots
               PROVE  \/ rest'[Window(r)] = <<>>
                      \/ sending'[r] \in Ended /\ rest'[Window(r)] = Record(sending'[r])
    BY DEF WindowsWrite, Record, NUL, Junk, Cell, Ended, Cells, Window
  <2> QED BY DEF WindowsWrite
<1>2. ThreadsWrite'
  <2> SUFFICES ASSUME NEW t \in Slots, pc'[t] # "recv"
               PROVE  answer'[t] \in Ended /\ rest'[Thread(t)] = Record(answer'[t])
    BY DEF ThreadsWrite, Record, NUL, Junk, Cell, Ended, Cells, Thread
  <2> QED BY DEF ThreadsWrite
<1> QED BY <1>1, <1>2

LEMMA TakenByRead ==
  ASSUME TypeOK, WiresSpell, NEW w \in Wires, Read(w)
  PROVE  Taken
<1> SUFFICES ASSUME NEW v \in Wires, Len(wire'[v]) < Len(wire[v])
             PROVE  pending[v] # <<>> /\ StringIn(buffer'[v]) = Head(pending[v])
  BY DEF Taken
<1>1. Len(wire[v]) \in Nat
  BY DEF TypeOK
<1>2. v = w
  BY <1>1, ReadWhole
<1> QED BY <1>2, ReadWhole

LEMMA WholeStep ==
  WholeMessages /\ WholeInv /\ [Next]_vars => WholeInv' /\ [Taken]_vars
<1> SUFFICES ASSUME WholeMessages, WholeInv, [Next]_vars
             PROVE  WholeInv' /\ [Taken]_vars
  OBVIOUS
<1> USE DEF thread_vars
<1>0. /\ TypeOK /\ WiresSpell /\ WindowsWrite /\ ThreadsWrite
      /\ TypeOK'
  BY TypeStep DEF WholeInv
<1>1. ASSUME NEW s \in Slots, WindowSends(s)
      PROVE  WiresSpell' /\ Taken /\ WindowsWrite' /\ ThreadsWrite'
  <2>1. asked'[s] \in 0 .. MaxRequests
    BY <1>0 DEF TypeOK
  <2>2. PICK h \in Headers, n \in Lengths :
          /\ rest' = [rest EXCEPT ![Window(s)] =
                        Record(StringOf(Cell(h, s, asked'[s]), n))]
          /\ sending' = [sending EXCEPT ![s] = StringOf(Cell(h, s, asked'[s]), n)]
    BY <1>1 DEF WindowSends
  <2> DEFINE string == StringOf(Cell(h, s, asked'[s]), n)
  <2>3. string \in Ended
    BY <2>1, StringOfType DEF Ended, WholeMessages
  <2> HIDE DEF string
  <2>4. /\ rest' = [rest EXCEPT ![Window(s)] = Record(string)]
        /\ sending' = [sending EXCEPT ![s] = string]
    BY <2>2 DEF string
  <2>5. UNCHANGED <<wire, pending, pc, answer>>
    BY <1>1 DEF WindowSends
  <2>6. WiresSpell' /\ Taken
    BY <1>0, <2>5, WiresKept
  <2>7. WindowsWrite'
    <3> SUFFICES ASSUME NEW r \in Slots
                 PROVE  \/ rest'[Window(r)] = <<>>
                        \/ sending'[r] \in Ended /\ rest'[Window(r)] = Record(sending'[r])
      BY DEF WindowsWrite, Record, NUL, Junk, Cell, Ended, Cells, Window
    <3>1. CASE r = s
      <4>1. rest'[Window(s)] = Record(string) /\ sending'[s] = string
        BY <1>0, <2>4, Ends DEF TypeOK
      <4> QED BY <2>3, <3>1, <4>1
    <3>2. CASE r # s
      <4>1. rest'[Window(r)] = rest[Window(r)] /\ sending'[r] = sending[r]
        BY <1>0, <2>4, <3>2, Ends, WritersApart DEF TypeOK
      <4> QED BY <1>0, <4>1 DEF WindowsWrite
    <3> QED BY <3>1, <3>2
  <2>8. ThreadsWrite'
    <3> SUFFICES ASSUME NEW t \in Slots, pc'[t] # "recv"
                 PROVE  answer'[t] \in Ended /\ rest'[Thread(t)] = Record(answer'[t])
      BY DEF ThreadsWrite, Record, NUL, Junk, Cell, Ended, Cells, Thread
    <3>1. rest'[Thread(t)] = rest[Thread(t)]
      BY <1>0, <2>4, Ends, WritersApart DEF TypeOK
    <3> QED BY <1>0, <2>5, <3>1 DEF ThreadsWrite
  <2> QED BY <2>6, <2>7, <2>8
<1>2. ASSUME NEW s \in Slots, WindowCopies(s)
      PROVE  WiresSpell' /\ Taken /\ WindowsWrite' /\ ThreadsWrite'
  <2>1. Write(Window(s), Up(s), sending[s]) /\ Window(s) \in Writers /\ Up(s) \in Wires
    BY <1>2, Ends DEF WindowCopies
  <2>2. rest[Window(s)] # <<>>
    <3>1. Copied(Window(s), Up(s)) <= Len(rest[Window(s)])
          /\ Copied(Window(s), Up(s)) > 0 /\ Copied(Window(s), Up(s)) \in Nat
      BY <1>0, <2>1, CopiedType DEF Write
    <3> SUFFICES ASSUME rest[Window(s)] = <<>> PROVE FALSE
      OBVIOUS
    <3>2. Len(rest[Window(s)]) = 0
      BY EmptySeq
    <3> QED BY <3>1, <3>2
  <2>3. sending[s] \in Ended /\ rest[Window(s)] = Record(sending[s])
    BY <1>0, <2>2 DEF WindowsWrite
  <2>4. /\ Left(Window(s), Up(s)) = <<>> /\ WiresSpell'
        /\ \A w \in Wires : Len(wire'[w]) >= Len(wire[w])
    BY <1>0, <2>1, <2>3, WriteWhole
  <2>5. rest' = [rest EXCEPT ![Window(s)] = <<>>] /\ UNCHANGED <<sending, pc, answer>>
    BY <1>2, <2>4 DEF WindowCopies
  <2>6. Taken
    BY <1>0, <2>4, TakenIfLonger
  <2>7. WindowsWrite'
    <3> SUFFICES ASSUME NEW r \in Slots
                 PROVE  \/ rest'[Window(r)] = <<>>
                        \/ sending'[r] \in Ended /\ rest'[Window(r)] = Record(sending'[r])
      BY DEF WindowsWrite, Record, NUL, Junk, Cell, Ended, Cells, Window
    <3>1. rest'[Window(r)] = <<>> \/ rest'[Window(r)] = rest[Window(r)]
      BY <1>0, <2>5, Ends DEF TypeOK
    <3> QED BY <1>0, <2>5, <3>1 DEF WindowsWrite
  <2>8. ThreadsWrite'
    <3> SUFFICES ASSUME NEW t \in Slots, pc'[t] # "recv"
                 PROVE  answer'[t] \in Ended /\ rest'[Thread(t)] = Record(answer'[t])
      BY DEF ThreadsWrite, Record, NUL, Junk, Cell, Ended, Cells, Thread
    <3>1. rest'[Thread(t)] = rest[Thread(t)]
      BY <1>0, <2>5, Ends, WritersApart DEF TypeOK
    <3> QED BY <1>0, <2>5, <3>1 DEF ThreadsWrite
  <2> QED BY <2>4, <2>6, <2>7, <2>8
<1>3. ASSUME NEW s \in Slots, Listener(s)
      PROVE  WiresSpell' /\ Taken /\ WindowsWrite' /\ ThreadsWrite'
  <2>1. Read(Down(s)) /\ Down(s) \in Wires /\ UNCHANGED <<rest, sending, pc, answer>>
    BY <1>3, Ends DEF Listener
  <2>2. WiresSpell' /\ Taken
    BY <1>0, <2>1, ReadWhole, TakenByRead
  <2>3. WindowsWrite' /\ ThreadsWrite'
    BY <1>0, <2>1, WritersKept
  <2> QED BY <2>2, <2>3
<1>4. ASSUME NEW t \in Slots, ThreadRecv(t)
      PROVE  WiresSpell' /\ Taken /\ WindowsWrite' /\ ThreadsWrite'
  <2>1. Read(Up(t)) /\ Up(t) \in Wires /\ UNCHANGED sending
    BY <1>4, Ends DEF ThreadRecv
  <2>2. /\ WiresSpell' /\ Taken
        /\ StringIn(buffer'[Up(t)]) \in Ended
    BY <1>0, <2>1, ReadWhole, TakenByRead
  <2> DEFINE string == Answered(StringIn(buffer'[Up(t)]))
  <2>3. string \in Ended
    BY <2>2, AnsweredEnds
  <2> HIDE DEF string
  <2>4. /\ answer' = [answer EXCEPT ![t] = string]
        /\ rest' = IF pc'[t] = "recv" THEN rest
                   ELSE [rest EXCEPT ![Thread(t)] = Record(answer'[t])]
        /\ \A r \in Slots : r # t => pc'[r] = pc[r]
    BY <1>0, <1>4 DEF ThreadRecv, TypeOK, string
  <2>5. answer'[t] = string /\ \A r \in Slots : r # t => answer'[r] = answer[r]
    BY <1>0, <2>4 DEF TypeOK
  <2>6. WindowsWrite'
    <3> SUFFICES ASSUME NEW r \in Slots
                 PROVE  \/ rest'[Window(r)] = <<>>
                        \/ sending'[r] \in Ended /\ rest'[Window(r)] = Record(sending'[r])
      BY DEF WindowsWrite, Record, NUL, Junk, Cell, Ended, Cells, Window
    <3>1. rest'[Window(r)] = rest[Window(r)]
      BY <1>0, <2>4, Ends, WritersApart DEF TypeOK
    <3> QED BY <1>0, <2>1, <3>1 DEF WindowsWrite
  <2>7. ThreadsWrite'
    <3> SUFFICES ASSUME NEW r \in Slots, pc'[r] # "recv"
                 PROVE  answer'[r] \in Ended /\ rest'[Thread(r)] = Record(answer'[r])
      BY DEF ThreadsWrite, Record, NUL, Junk, Cell, Ended, Cells, Thread
    <3>1. CASE r = t
      <4>1. rest'[Thread(t)] = Record(answer'[t])
        BY <1>0, <2>4, <3>1, Ends DEF TypeOK
      <4> QED BY <2>3, <2>5, <3>1, <4>1
    <3>2. CASE r # t
      <4>1. rest'[Thread(r)] = rest[Thread(r)]
        BY <1>0, <2>4, <3>2, Ends, WritersApart DEF TypeOK
      <4> QED BY <1>0, <2>4, <2>5, <3>2, <4>1 DEF ThreadsWrite
    <3> QED BY <3>1, <3>2
  <2> QED BY <2>2, <2>6, <2>7
<1>5. ASSUME NEW t \in Slots, ThreadLock(t)
      PROVE  WiresSpell' /\ Taken /\ WindowsWrite' /\ ThreadsWrite'
  <2>1. /\ pc[t] = "lock" /\ pc' = [pc EXCEPT ![t] = "send"]
        /\ UNCHANGED <<wire, rest, sending, answer, pending>>
    BY <1>5 DEF ThreadLock
  <2>2. WiresSpell' /\ Taken
    BY <1>0, <2>1, WiresKept
  <2>3. \A r \in Slots : pc'[r] # "recv" => pc[r] # "recv"
    BY <1>0, <2>1 DEF TypeOK
  <2>4. WindowsWrite' /\ ThreadsWrite'
    BY <1>0, <2>1, <2>3, WritersKept
  <2> QED BY <2>2, <2>4
<1>6. ASSUME NEW t \in Slots, ThreadCopies(t)
      PROVE  WiresSpell' /\ Taken /\ WindowsWrite' /\ ThreadsWrite'
  <2> DEFINE w == Down(slot[t])
             last == slot[t] = 2
  <2>1. /\ w \in Wires /\ Thread(t) \in Writers /\ Write(Thread(t), w, answer[t])
        /\ answer[t] \in Ended /\ rest[Thread(t)] = Record(answer[t])
    BY <1>0, <1>6, Ends DEF ThreadCopies, TypeOK, ThreadsWrite
  <2>2. /\ Finishes(Thread(t), w) /\ Left(Thread(t), w) = <<>> /\ WiresSpell'
        /\ \A v \in Wires : Len(wire'[v]) >= Len(wire[v])
    BY <1>0, <2>1, WriteWhole
  <2>3. Taken
    BY <1>0, <2>2, TakenIfLonger
  <2>4. /\ rest' = [rest EXCEPT ![Thread(t)] = IF ~last THEN Record(answer[t]) ELSE <<>>]
        /\ pc' = [pc EXCEPT ![t] = IF last THEN "recv" ELSE pc[t]]
        /\ UNCHANGED <<sending, answer>>
    BY <1>6, <2>2 DEF ThreadCopies
  <2>5. WindowsWrite'
    <3> SUFFICES ASSUME NEW r \in Slots
                 PROVE  \/ rest'[Window(r)] = <<>>
                        \/ sending'[r] \in Ended /\ rest'[Window(r)] = Record(sending'[r])
      BY DEF WindowsWrite, Record, NUL, Junk, Cell, Ended, Cells, Window
    <3>1. rest'[Window(r)] = rest[Window(r)]
      BY <1>0, <2>4, Ends, WritersApart DEF TypeOK
    <3> QED BY <1>0, <2>4, <3>1 DEF WindowsWrite
  <2>6. ThreadsWrite'
    <3> SUFFICES ASSUME NEW r \in Slots, pc'[r] # "recv"
                 PROVE  answer'[r] \in Ended /\ rest'[Thread(r)] = Record(answer'[r])
      BY DEF ThreadsWrite, Record, NUL, Junk, Cell, Ended, Cells, Thread
    <3>1. CASE r = t
      <4>1. ~last
        BY <1>0, <2>4, <3>1 DEF TypeOK
      <4>2. rest'[Thread(t)] = Record(answer[t])
        BY <1>0, <2>1, <2>4, <4>1 DEF TypeOK
      <4> QED BY <2>1, <2>4, <3>1, <4>2
    <3>2. CASE r # t
      <4>1. rest'[Thread(r)] = rest[Thread(r)] /\ pc'[r] = pc[r]
        BY <1>0, <2>4, <3>2, Ends, WritersApart DEF TypeOK
      <4> QED BY <1>0, <2>4, <4>1 DEF ThreadsWrite
    <3> QED BY <3>1, <3>2
  <2> QED BY <2>2, <2>3, <2>5, <2>6
<1>7. ASSUME UNCHANGED vars
      PROVE  WiresSpell' /\ WindowsWrite' /\ ThreadsWrite'
  <2>1. UNCHANGED <<wire, pending, rest, sending, pc, answer>>
    BY <1>7 DEF vars
  <2> QED BY <1>0, <2>1, WiresKept, WritersKept
<1>8. CASE Next
  BY <1>0, <1>1, <1>2, <1>3, <1>4, <1>5, <1>6, <1>8 DEF Next, WholeInv
<1>9. CASE UNCHANGED vars
  BY <1>0, <1>7, <1>9 DEF WholeInv
<1> QED BY <1>8, <1>9

(***************************************************************************)
(* send and recv agree on where every message begins without a word about  *)
(* its length: what ClientThread::operator() and the listener find in      *)
(* their array is, string by string, what the other end passed to send,    *)
(* also when two threads answer on one connection, however many cells a    *)
(* message and the buffers of a connection have, as long as those hold     *)
(* whole messages and no text fills its message to the end.                *)
(***************************************************************************)
THEOREM StringsArriveAsSent ==
  ASSUME WholeMessages
  PROVE  FairSpec => HandledAsSent
<1>1. Init => WholeInv
  BY WholeInit
<1>2. WholeInv /\ [Next]_vars => WholeInv' /\ [Taken]_vars
  BY WholeStep
<1>3. [][Taken]_vars => HandledAsSent
  BY DEF Taken, HandledAsSent
<1> QED BY <1>1, <1>2, <1>3, PTL DEF FairSpec

=============================================================================
