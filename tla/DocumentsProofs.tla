-------------------------- MODULE DocumentsProofs --------------------------
(***************************************************************************)
(* What is proved about the saved documents, for any number of clients,    *)
(* documents, crashes and restarts.                                        *)
(***************************************************************************)
EXTENDS DocumentsRefinement, TLAPS

(* The places of a thread in the handlers of 008, 010 and 011. *)
Saving == {"008", "insert", "115"}
Deleting == {"delete", "117", "118"}
Finding == {"reset", "select", "return", "204"}

Locals == [result : Texts, id : Ids \cup {WrongId}, selected : Contents \cup {NoText}]

(* What a thread is dealing with, by where it is: the request its handler  *)
(* was entered for, and the id that was generated for it.                  *)
ShapeInv ==
  \A t \in Fds :
    /\ dpc[t] \in Saving =>
         req[t].header = "008" /\ req[t].id = WrongId /\ req[t].content \in Contents
    /\ dpc[t] \in Deleting => req[t].header = "010" /\ req[t].content = NoText
    /\ dpc[t] \in Finding =>
         req[t].header = "011" /\ req[t].content = NoText /\ t \in Openers
    /\ dpc[t] \in {"insert", "115"} => var[t].id \in given

(* What a Crash keeps is everything but the process. *)
LEMMA CrashKeeps ==
  ASSUME Crash
  PROVE  /\ up' = FALSE
         /\ UNCHANGED <<starts, database, querry_result, dpc, req, var, sent, history>>
BY DEF Crash

(* The steps, with the ends of the process put together. *)
StepOf(t) ==
  \/ Receive(t) \/ GenerateId(t) \/ Insert(t) \/ ReplySaved(t)
  \/ Delete(t) \/ ReplyDeleted(t)
  \/ ~Crash /\ (ResetResult(t) \/ Select(t) \/ ReturnResult(t))
  \/ ReplyOpened(t)

LEMMA Steps ==
  ASSUME [Next]_vars
  PROVE  \/ \E t \in Fds : StepOf(t)
         \/ up /\ Crash
         \/ Restart
         \/ UNCHANGED vars
<1>1. \A t \in Fds :
        Crash /\ (ResetResult(t) \/ Select(t) \/ ReturnResult(t)) => up
  BY DEF ResetResult, Select, ReturnResult, At
<1> QED  BY <1>1 DEF Next, StepOf, ServerDies

-----------------------------------------------------------------------------
(* The answers: what one adds to the messages of a client. *)
Message(h, i, x) == [header |-> h, id |-> i, content |-> x]

LEMMA AnswersAreTyped ==
  ASSUME TypeOK, NEW t \in Fds, NEW h, NEW i, NEW x, Answer(t, h, i, x),
         Message(h, i, x) \in Answers
  PROVE  sent' \in [Fds -> Seq(Answers)]
<1>1. sent' = [sent EXCEPT ![t] = Append(@, Message(h, i, x))]
  BY DEF Answer, Message
<1> QED  BY <1>1 DEF TypeOK

LEMMA AnswersAreSent ==
  ASSUME TypeOK, NEW t \in Fds, NEW h, NEW i, NEW x, Answer(t, h, i, x), NEW g
  PROVE  Sent(g)' = Sent(g) \cup (IF g = h THEN {Message(h, i, x)} ELSE {})
<1> DEFINE m == Message(h, i, x)
<1>1. sent' = [sent EXCEPT ![t] = Append(@, m)]
  BY DEF Answer, Message
<1>2. m.header = h  BY DEF Message
<1> HIDE DEF m
<1>3. \A u \in Fds : sent[u] \in Seq(Answers)  BY DEF TypeOK
<1>4. \A u \in Fds : ToSet(sent'[u]) = ToSet(sent[u]) \cup (IF u = t THEN {m} ELSE {})
  <2> SUFFICES ASSUME NEW u \in Fds
               PROVE  ToSet(sent'[u]) = ToSet(sent[u]) \cup (IF u = t THEN {m} ELSE {})
    OBVIOUS
  <2>1. CASE u # t  BY <1>1, <2>1 DEF TypeOK
  <2>2. CASE u = t
    <3>1. sent'[u] = Append(sent[u], m)  BY <1>1, <2>2 DEF TypeOK
    <3>2. /\ DOMAIN sent'[u] = DOMAIN sent[u] \cup {Len(sent[u]) + 1}
          /\ sent'[u][Len(sent[u]) + 1] = m
          /\ \A k \in DOMAIN sent[u] : sent'[u][k] = sent[u][k]
      BY <1>3, <3>1
    <3> QED  BY <2>2, <3>2 DEF ToSet
  <2> QED  BY <2>1, <2>2
<1>5. Sent(g) = UNION {{o \in ToSet(sent[u]) : o.header = g} : u \in Fds}
  BY DEF Sent
<1>6. Sent(g)' = UNION {{o \in ToSet(sent'[u]) : o.header = g} : u \in Fds}
  BY DEF Sent
<1>7. \A o : o \in Sent(g)' <=> o \in Sent(g) \/ (o = m /\ o.header = g)
  BY <1>4, <1>5, <1>6
<1> QED  BY <1>2, <1>7 DEF m

-----------------------------------------------------------------------------
(* The assignments to result and to what the query selected. *)
LEMMA LocalsChange ==
  ASSUME TypeOK, NEW t \in Fds,
         \/ \E x \in Texts : var' = [var EXCEPT ![t].result = x]
         \/ \E x \in Contents \cup {NoText} : var' = [var EXCEPT ![t].selected = x]
  PROVE  var' \in [Fds -> Locals] /\ \A u \in Fds : var'[u].id = var[u].id
<1>1. var \in [Fds -> Locals]  BY DEF TypeOK, Locals
<1>2. CASE \E x \in Texts : var' = [var EXCEPT ![t].result = x]
  <2>1. PICK x \in Texts : var' = [var EXCEPT ![t].result = x]  BY <1>2
  <2>2. [var[t] EXCEPT !.result = x] \in Locals  BY <1>1 DEF Locals
  <2>3. [var[t] EXCEPT !.result = x].id = var[t].id  BY <1>1 DEF Locals
  <2>4. var' = [var EXCEPT ![t] = [var[t] EXCEPT !.result = x]]  BY <2>1
  <2> QED  BY <1>1, <2>2, <2>3, <2>4
<1>3. CASE \E x \in Contents \cup {NoText} : var' = [var EXCEPT ![t].selected = x]
  <2>1. PICK x \in Contents \cup {NoText} : var' = [var EXCEPT ![t].selected = x]
    BY <1>3
  <2>2. [var[t] EXCEPT !.selected = x] \in Locals  BY <1>1 DEF Locals
  <2>3. [var[t] EXCEPT !.selected = x].id = var[t].id  BY <1>1 DEF Locals
  <2>4. var' = [var EXCEPT ![t] = [var[t] EXCEPT !.selected = x]]  BY <2>1
  <2> QED  BY <1>1, <2>2, <2>3, <2>4
<1> QED  BY <1>2, <1>3

LEMMA OtherAnswersStay ==
  ASSUME TypeOK, NEW t \in Fds, NEW h, NEW i, NEW x, Answer(t, h, i, x), NEW g, g # h
  PROVE  Sent(g)' = Sent(g)
<1>1. Sent(g)' = Sent(g) \cup (IF g = h THEN {Message(h, i, x)} ELSE {})
  BY AnswersAreSent
<1> QED  BY <1>1

LEMMA IdsOfMessages ==
  ASSUME TypeOK
  PROVE  /\ \A h : Sent(h) \subseteq Answers
         /\ TypedIds \subseteq Ids \cup {WrongId}
<1>1. \A t \in Fds : ToSet(sent[t]) \subseteq Answers  BY DEF TypeOK, ToSet
<1>2. \A h : Sent(h) \subseteq Answers  BY <1>1 DEF Sent
<1> QED  BY <1>2 DEF TypedIds, Answers

LEMMA RowsAreSaved ==
  ASSUME TypeOK, NEW t \in Fds, Insert(t), ShapeInv
  PROVE  /\ last_id' \in Nat /\ DOMAIN table' \subseteq 1 .. last_id'
         /\ table' \in [DOMAIN table' -> [uniq_id : Ids, content : Contents]]
<1> DEFINE row == Row(var[t].id, req[t].content)
<1>1. row \in [uniq_id : Ids, content : Contents]
  BY DEF Insert, At, ShapeInv, Saving, TypeOK, Row
<1>2. CASE UNCHANGED database
  BY <1>2 DEF database, TypeOK
<1>3. CASE /\ last_id' = last_id + 1
           /\ table' = [k \in DOMAIN table \cup {last_id'} |->
                          IF k = last_id' THEN row ELSE table[k]]
  <2> HIDE DEF row
  <2>1. last_id' \in Nat  BY <1>3 DEF TypeOK
  <2>2. DOMAIN table' = DOMAIN table \cup {last_id'}  BY <1>3
  <2>3. DOMAIN table' \subseteq 1 .. last_id'  BY <1>3, <2>2 DEF TypeOK
  <2>4. \A k \in DOMAIN table' : table'[k] \in [uniq_id : Ids, content : Contents]
    BY <1>1, <1>3, <2>2 DEF TypeOK
  <2> QED  BY <1>3, <2>1, <2>3, <2>4
<1> QED  BY <1>2, <1>3 DEF Insert

(***************************************************************************)
(* The rows, the requests and the answers stay well formed, and so does    *)
(* what a thread holds in its handler: no id goes into the table that was  *)
(* not generated, no text that was not sent.                               *)
(***************************************************************************)
LEMMA TypeInvariant == Spec => [](TypeOK /\ ShapeInv)
<1>1. Init => TypeOK /\ ShapeInv
  BY DocumentsAssumption DEF Init, TypeOK, ShapeInv, Saving, Deleting, Finding, Idle, NoVar, Texts
<1>2. TypeOK /\ ShapeInv /\ [Next]_vars => TypeOK' /\ ShapeInv'
  <2> SUFFICES ASSUME TypeOK, ShapeInv, [Next]_vars PROVE TypeOK' /\ ShapeInv'
    OBVIOUS
  <2> USE DEF At, Goto, history, database
  <2>1. ASSUME NEW t \in Fds, Receive(t) PROVE TypeOK' /\ ShapeInv'
    <3>1. TypedIds \subseteq Ids \cup {WrongId}  BY IdsOfMessages
    <3>2. Opening \subseteq Openers  BY DEF Opening, ShapeInv, Finding
    <3>3. req[t].n + 1 \in 0 .. MaxRequests
      BY <2>1, DocumentsAssumption DEF Receive, TypeOK
    <3>4. /\ UNCHANGED <<up, starts, database, querry_result, var, sent, given, deleted>>
          /\ disturbed' \subseteq Openers
      BY <2>1, <3>2 DEF Receive, TypeOK
    <3>5. CASE \E x \in Contents : Request(t, "008", WrongId, x) /\ Goto(t, "008")
      BY <3>3, <3>4, <3>5 DEF Request, TypeOK, ShapeInv, Saving, Deleting, Finding
    <3>6. CASE \E i \in TypedIds : Request(t, "010", i, NoText) /\ Goto(t, "delete")
      BY <3>1, <3>3, <3>4, <3>6 DEF Request, TypeOK, ShapeInv, Saving, Deleting, Finding
    <3>7. CASE t \in Openers /\ \E i \in TypedIds : Request(t, "011", i, NoText) /\ Goto(t, "reset")
      BY <3>1, <3>3, <3>4, <3>7 DEF Request, TypeOK, ShapeInv, Saving, Deleting, Finding
    <3> QED  BY <2>1, <3>5, <3>6, <3>7 DEF Receive
  <2>2. ASSUME NEW t \in Fds, GenerateId(t) PROVE TypeOK' /\ ShapeInv'
    <3>1. PICK i \in Ids : var' = [var EXCEPT ![t].id = i] /\ given' = given \cup {i}
      BY <2>2 DEF GenerateId
    <3>2. var' \in [Fds -> Locals] /\ var'[t].id = i
          /\ \A u \in Fds : u # t => var'[u] = var[u]
      BY <3>1 DEF TypeOK, Locals
    <3>3. /\ UNCHANGED <<up, starts, database, querry_result, req, sent, deleted, disturbed>>
          /\ dpc' = [dpc EXCEPT ![t] = "insert"] /\ dpc[t] = "008"
      BY <2>2 DEF GenerateId
    <3>4. TypeOK'  BY <3>1, <3>2, <3>3 DEF TypeOK, Locals
    <3>5. ShapeInv'
      BY <3>1, <3>2, <3>3 DEF TypeOK, ShapeInv, Saving, Deleting, Finding
    <3> QED  BY <3>4, <3>5
  <2>3. ASSUME NEW t \in Fds, Insert(t) PROVE TypeOK' /\ ShapeInv'
    <3>1. /\ UNCHANGED <<up, starts, querry_result, req, var, sent, history>>
          /\ dpc' = [dpc EXCEPT ![t] = "115"] /\ dpc[t] = "insert"
      BY <2>3 DEF Insert
    <3> QED
      BY <2>3, <3>1, RowsAreSaved DEF TypeOK, ShapeInv, Saving, Deleting, Finding
  <2>4. ASSUME NEW t \in Fds, NEW h \in {"115", "117", "118", "204"},
               NEW i \in Ids \cup {WrongId}, NEW x \in Texts, Answer(t, h, i, x),
               UNCHANGED <<up, starts, database, querry_result, req, history>>
        PROVE  TypeOK' /\ ShapeInv'
    <3>1. Message(h, i, x) \in Answers  BY DEF Message, Answers
    <3>2. sent' \in [Fds -> Seq(Answers)]  BY <2>4, <3>1, AnswersAreTyped
    <3>3. /\ dpc' = [dpc EXCEPT ![t] = "recv"]
          /\ var' = [var EXCEPT ![t] = NoVar]
      BY <2>4 DEF Answer
    <3>4. NoVar \in [result : Texts, id : Ids \cup {WrongId}, selected : Contents \cup {NoText}]
      BY DEF NoVar, Texts
    <3> QED
      BY <2>4, <3>2, <3>3, <3>4 DEF TypeOK, ShapeInv, Saving, Deleting, Finding
  <2>5. ASSUME NEW t \in Fds, ReplySaved(t) PROVE TypeOK' /\ ShapeInv'
    <3>1. var[t].id \in Ids \cup {WrongId} /\ req[t].content \in Texts
      BY DEF TypeOK, Texts
    <3> QED  BY <2>4, <2>5, <3>1 DEF ReplySaved
  <2>6. ASSUME NEW t \in Fds, Delete(t) PROVE TypeOK' /\ ShapeInv'
    <3>1. CASE dpc' = [dpc EXCEPT ![t] = "117"] /\ table' = Without(req[t].id)
               /\ deleted' = deleted \cup {req[t].id}
      <4>1. DOMAIN table' \subseteq DOMAIN table
            /\ \A k \in DOMAIN table' : table'[k] = table[k]
        BY <3>1 DEF Without
      <4>2. table' \in [DOMAIN table' -> [uniq_id : Ids, content : Contents]]
        BY <3>1, <4>1 DEF Without, TypeOK
      <4> QED
        BY <2>6, <3>1, <4>1, <4>2 DEF Delete, TypeOK, ShapeInv, Saving, Deleting, Finding
    <3>2. CASE dpc' = [dpc EXCEPT ![t] = "118"] /\ UNCHANGED <<table, deleted>>
      BY <2>6, <3>2 DEF Delete, TypeOK, ShapeInv, Saving, Deleting, Finding
    <3> QED  BY <2>6, <3>1, <3>2 DEF Delete
  <2>7. ASSUME NEW t \in Fds, ReplyDeleted(t) PROVE TypeOK' /\ ShapeInv'
    <3>1. req[t].id \in Ids \cup {WrongId} /\ NoText \in Texts
      BY DEF TypeOK, Texts
    <3> QED  BY <2>4, <2>7, <3>1 DEF ReplyDeleted
  <2>8. ASSUME NEW t \in Fds, ResetResult(t), ~Crash PROVE TypeOK' /\ ShapeInv'
    <3>1. querry_result' \in Texts
      BY <2>8 DEF ResetResult, Raced, Texts
    <3>2. /\ UNCHANGED <<up, starts, database, req, var, sent, history>>
          /\ dpc' = [dpc EXCEPT ![t] = "select"] /\ dpc[t] = "reset"
      BY <2>8 DEF ResetResult
    <3>3. TypeOK'
      BY <3>1, <3>2 DEF TypeOK
    <3>4. ShapeInv'
      BY <3>2 DEF TypeOK, ShapeInv, Saving, Deleting, Finding
    <3> QED  BY <3>3, <3>4
  <2>9. ASSUME NEW t \in Fds, Select(t), ~Crash PROVE TypeOK' /\ ShapeInv'
    <3> DEFINE Selects(x) == var' = [var EXCEPT ![t].selected = x]
    <3>1. \/ Selects(NoText) /\ UNCHANGED querry_result
          \/ \E k \in DOMAIN table :
               querry_result' \in Raced(table[k].content, Resetting(t))
               /\ Selects(table[k].content)
      BY <2>9 DEF Select, Found
    <3>2. /\ UNCHANGED <<up, starts, database, req, sent, history>>
          /\ dpc' = [dpc EXCEPT ![t] = "return"] /\ dpc[t] = "select"
      BY <2>9 DEF Select
    <3>3. \A k \in DOMAIN table : table[k].content \in Contents  BY DEF TypeOK
    <3>4. querry_result' \in Texts /\ \E x \in Contents \cup {NoText} : Selects(x)
      <4>1. CASE Selects(NoText) /\ UNCHANGED querry_result
        BY <4>1 DEF TypeOK
      <4>2. CASE \E k \in DOMAIN table :
                   querry_result' \in Raced(table[k].content, Resetting(t))
                   /\ Selects(table[k].content)
        <5>1. PICK k \in DOMAIN table :
                querry_result' \in Raced(table[k].content, Resetting(t))
                /\ Selects(table[k].content)
          BY <4>2
        <5>2. querry_result' \in {table[k].content, Torn}
          BY <5>1 DEF Raced
        <5> QED  BY <3>3, <5>1, <5>2 DEF Texts
      <4> QED  BY <3>1, <4>1, <4>2
    <3>5. var' \in [Fds -> Locals] /\ \A u \in Fds : var'[u].id = var[u].id
      BY <3>4, LocalsChange
    <3>6. TypeOK'  BY <3>2, <3>4, <3>5 DEF TypeOK, Locals
    <3>7. ShapeInv'
      BY <3>2, <3>5 DEF TypeOK, ShapeInv, Saving, Deleting, Finding
    <3> QED  BY <3>6, <3>7
  <2>10. ASSUME NEW t \in Fds, ReturnResult(t), ~Crash PROVE TypeOK' /\ ShapeInv'
    <3>1. \E x \in Texts : var' = [var EXCEPT ![t].result = x]
      BY <2>10 DEF ReturnResult, Raced, Texts, TypeOK
    <3>2. var' \in [Fds -> Locals] /\ \A u \in Fds : var'[u].id = var[u].id
      BY <3>1, LocalsChange
    <3>3. /\ UNCHANGED <<up, starts, database, querry_result, req, sent, history>>
          /\ dpc' = [dpc EXCEPT ![t] = "204"] /\ dpc[t] = "return"
      BY <2>10 DEF ReturnResult
    <3>4. TypeOK'  BY <3>2, <3>3 DEF TypeOK, Locals
    <3>5. ShapeInv'
      BY <3>2, <3>3 DEF TypeOK, ShapeInv, Saving, Deleting, Finding
    <3> QED  BY <3>4, <3>5
  <2>11. ASSUME NEW t \in Fds, ReplyOpened(t) PROVE TypeOK' /\ ShapeInv'
    <3>1. req[t].id \in Ids \cup {WrongId} /\ var[t].result \in Texts
      BY DEF TypeOK
    <3> QED  BY <2>4, <2>11, <3>1 DEF ReplyOpened
  <2>12. CASE Crash
    BY <2>12 DEF Crash, TypeOK, ShapeInv
  <2>13. CASE Restart
    BY <2>13, DocumentsAssumption
    DEF Restart, TypeOK, ShapeInv, Saving, Deleting, Finding, Idle, NoVar, Texts
  <2>14. CASE UNCHANGED vars
    BY <2>14 DEF vars, TypeOK, ShapeInv
  <2> QED
    BY Steps, <2>1, <2>2, <2>3, <2>5, <2>6, <2>7, <2>8, <2>9, <2>10, <2>11, <2>12,
       <2>13, <2>14 DEF StepOf
<1> QED  BY <1>1, <1>2, PTL DEF Spec

(***************************************************************************)
(* The state of the documents is well formed: in particular no id gets     *)
(* into the table that was not generated by save_file, and no text that no *)
(* client sent, whichever steps of the threads and crashes come between.   *)
(***************************************************************************)
THEOREM DocumentsAreTyped == Spec => []TypeOK
BY TypeInvariant, PTL

-----------------------------------------------------------------------------
(* What the two statements do to the rows. *)

LEMMA InsertAddsOneRow ==
  ASSUME TypeOK, NEW t \in Fds, Insert(t), table' # table
  PROVE  /\ Saved' = Saved \cup {Row(var[t].id, req[t].content)}
         /\ \A i : Found(i)' = Found(i) \cup (IF i = var[t].id THEN {last_id'} ELSE {})
<1> DEFINE row == Row(var[t].id, req[t].content)
<1>1. /\ last_id' = last_id + 1
      /\ table' = [k \in DOMAIN table \cup {last_id'} |->
                     IF k = last_id' THEN row ELSE table[k]]
  BY DEF Insert, database
<1>2. row.uniq_id = var[t].id  BY DEF Row
<1> HIDE DEF row
<1>3. last_id' \notin DOMAIN table  BY <1>1 DEF TypeOK
<1>4. /\ DOMAIN table' = DOMAIN table \cup {last_id'}
      /\ table'[last_id'] = row
      /\ \A k \in DOMAIN table : table'[k] = table[k]
  BY <1>1, <1>3
<1>5. Saved' = Saved \cup {row}  BY <1>4 DEF Saved
<1>6. \A i : Found(i)' = Found(i) \cup (IF i = var[t].id THEN {last_id'} ELSE {})
  BY <1>2, <1>4 DEF Found
<1> QED  BY <1>5, <1>6 DEF row

LEMMA DeleteRemovesRows ==
  ASSUME NEW i, table' = Without(i)
  PROVE  /\ Saved' = {r \in Saved : r.uniq_id # i}
         /\ \A j : Found(j)' = IF j = i THEN {} ELSE Found(j)
<1>1. /\ DOMAIN table' = {k \in DOMAIN table : table[k].uniq_id # i}
      /\ \A k \in DOMAIN table' : table'[k] = table[k]
  BY DEF Without
<1> QED  BY <1>1 DEF Saved, Found

LEMMA RowsFollowTheTable ==
  ASSUME table' = table
  PROVE  Saved' = Saved /\ \A i : Found(i)' = Found(i)
BY DEF Saved, Found

(* The steps that are not about saving and deleting. *)
Quiet ==
  /\ UNCHANGED <<table, given, deleted>>
  /\ Sent("115")' = Sent("115") /\ Sent("117")' = Sent("117")
  /\ \A u \in Fds : dpc'[u] \in Saving \cup Deleting =>
       dpc'[u] = dpc[u] /\ var'[u].id = var[u].id /\ req'[u] = req[u]

LEMMA QuietSteps ==
  ASSUME TypeOK, [Next]_vars
  PROVE  \/ \E t \in Fds : \/ Receive(t) \/ GenerateId(t) \/ Insert(t)
                           \/ ReplySaved(t) \/ Delete(t) \/ ReplyDeleted(t)
         \/ Quiet
<1> USE DEF Saving, Deleting
<1>1. ASSUME sent' = sent PROVE \A h : Sent(h)' = Sent(h)
  BY <1>1 DEF Sent
<1>2. CASE UNCHANGED vars
  BY <1>1, <1>2 DEF vars, database, history, Quiet
<1>3. CASE Crash
  BY <1>1, <1>3 DEF Crash, database, history, Quiet
<1>4. CASE Restart
  BY <1>1, <1>4 DEF Restart, database, history, Quiet
<1>5. ASSUME NEW t \in Fds, ~Crash,
             ResetResult(t) \/ Select(t) \/ ReturnResult(t)
      PROVE  Quiet
  <2>1. /\ UNCHANGED <<table, given, deleted, sent, req>>
        /\ \E p \in {"select", "return", "204"} : dpc' = [dpc EXCEPT ![t] = p]
        /\ \A u \in Fds \ {t} : var'[u] = var[u]
    BY <1>5 DEF ResetResult, Select, ReturnResult, Goto, database, history, TypeOK
  <2> QED  BY <1>1, <2>1 DEF Quiet, TypeOK
<1>6. ASSUME NEW t \in Fds, ReplyOpened(t) PROVE Quiet
  <2>1. Answer(t, "204", req[t].id, var[t].result)  BY <1>6 DEF ReplyOpened
  <2>2. Sent("115")' = Sent("115") /\ Sent("117")' = Sent("117")
    BY <2>1, OtherAnswersStay
  <2>3. UNCHANGED <<table, given, deleted, req>>
    BY <1>6 DEF ReplyOpened, database, history
  <2>4. /\ dpc' = [dpc EXCEPT ![t] = "recv"]
        /\ var' = [var EXCEPT ![t] = NoVar]
    BY <2>1 DEF Answer, Goto
  <2> QED  BY <2>2, <2>3, <2>4 DEF Quiet, TypeOK
<1> QED  BY Steps, <1>2, <1>3, <1>4, <1>5, <1>6 DEF StepOf

-----------------------------------------------------------------------------
(* A document is in the table before the 115 about it is sent. *)
SavedInv ==
  /\ SavedStaysSaved
  /\ \A t \in Fds : dpc[t] = "115" =>
       var[t].id \in deleted \/ Row(var[t].id, req[t].content) \in Saved

LEMMA SavedSame ==
  ASSUME SavedInv, Saved' = Saved, deleted' = deleted, Sent("115")' = Sent("115"),
         \A u \in Fds : dpc'[u] = "115" =>
           dpc[u] = "115" /\ var'[u].id = var[u].id /\ req'[u].content = req[u].content
  PROVE  SavedInv'
BY DEF SavedInv, SavedStaysSaved

LEMMA SavedInvariant ==
  ASSUME "insert" \notin Failing
  PROVE  Spec => []SavedInv
<1>1. Init => SavedInv
  BY DEF Init, SavedInv, SavedStaysSaved, Sent, ToSet
<1>2. TypeOK /\ ShapeInv /\ SavedInv /\ [Next]_vars => SavedInv'
  <2> SUFFICES ASSUME TypeOK, ShapeInv, SavedInv, [Next]_vars PROVE SavedInv'
    OBVIOUS
  <2>0. ASSUME sent' = sent PROVE Sent("115")' = Sent("115")  BY <2>0 DEF Sent
  <2>1. ASSUME NEW t \in Fds, Receive(t) PROVE SavedInv'
    <3>1. /\ UNCHANGED <<table, var, sent, deleted>>
          /\ \E p \in {"008", "delete", "reset"} : dpc' = [dpc EXCEPT ![t] = p]
          /\ \A u \in Fds \ {t} : req'[u] = req[u]
      BY <2>1 DEF Receive, Request, Goto, database, TypeOK
    <3> QED  BY <2>0, <3>1, SavedSame, RowsFollowTheTable DEF TypeOK
  <2>2. ASSUME NEW t \in Fds, GenerateId(t) PROVE SavedInv'
    <3>1. /\ UNCHANGED <<table, req, sent, deleted>>
          /\ dpc' = [dpc EXCEPT ![t] = "insert"]
          /\ \A u \in Fds \ {t} : var'[u] = var[u]
      BY <2>2 DEF GenerateId, Goto, database, TypeOK
    <3> QED  BY <2>0, <3>1, SavedSame, RowsFollowTheTable DEF TypeOK
  <2>3. ASSUME NEW t \in Fds, Insert(t) PROVE SavedInv'
    <3>1. /\ UNCHANGED <<req, var, sent, deleted>>
          /\ dpc' = [dpc EXCEPT ![t] = "115"]
      BY <2>3 DEF Insert, Goto, history
    <3>2. table' # table
      <4>1. last_id' \in DOMAIN table'  BY <2>3, "insert" \notin Failing DEF Insert
      <4>2. last_id' \notin DOMAIN table
        BY <2>3, "insert" \notin Failing DEF Insert, TypeOK
      <4> QED  BY <4>1, <4>2
    <3>3. Saved' = Saved \cup {Row(var[t].id, req[t].content)}
      BY <2>3, <3>2, InsertAddsOneRow
    <3> QED  BY <2>0, <3>1, <3>3 DEF SavedInv, SavedStaysSaved, TypeOK
  <2>4. ASSUME NEW t \in Fds, ReplySaved(t) PROVE SavedInv'
    <3> DEFINE m == Message("115", var[t].id, req[t].content)
    <3>1. Answer(t, "115", var[t].id, req[t].content) /\ dpc[t] = "115"
      BY <2>4 DEF ReplySaved, At
    <3>2. Sent("115")' = Sent("115") \cup {m}  BY <3>1, AnswersAreSent
    <3>3. m.id = var[t].id /\ m.content = req[t].content  BY DEF Message
    <3> HIDE DEF m
    <3>4. m.id \in deleted \/ Row(m.id, m.content) \in Saved
      BY <3>1, <3>3 DEF SavedInv
    <3>5. UNCHANGED <<table, req, deleted>>
          /\ dpc' = [dpc EXCEPT ![t] = "recv"] /\ var' = [var EXCEPT ![t] = NoVar]
      BY <2>4, <3>1 DEF ReplySaved, Answer, Goto, database, history
    <3>6. Saved' = Saved  BY <3>5, RowsFollowTheTable
    <3> QED  BY <3>2, <3>4, <3>5, <3>6 DEF SavedInv, SavedStaysSaved, TypeOK
  <2>5. ASSUME NEW t \in Fds, Delete(t) PROVE SavedInv'
    <3>1. /\ UNCHANGED <<req, var, sent>>
          /\ \E p \in {"117", "118"} : dpc' = [dpc EXCEPT ![t] = p]
      BY <2>5 DEF Delete, Goto
    <3>2. CASE UNCHANGED <<table, deleted>>
      BY <2>0, <3>1, <3>2, SavedSame, RowsFollowTheTable DEF TypeOK
    <3>3. CASE table' = Without(req[t].id) /\ deleted' = deleted \cup {req[t].id}
      <4>1. Saved' = {r \in Saved : r.uniq_id # req[t].id}
        BY <3>3, DeleteRemovesRows
      <4>2. \A i, x : Row(i, x).uniq_id = i  BY DEF Row
      <4> QED  BY <2>0, <3>1, <3>3, <4>1, <4>2 DEF SavedInv, SavedStaysSaved, TypeOK
    <3> QED  BY <2>5, <3>2, <3>3 DEF Delete
  <2>6. ASSUME NEW t \in Fds, ReplyDeleted(t) PROVE SavedInv'
    <3>1. PICK h \in {"117", "118"} : Answer(t, h, req[t].id, NoText)
      BY <2>6 DEF ReplyDeleted, At
    <3>2. Sent("115")' = Sent("115")  BY <3>1, OtherAnswersStay
    <3>3. UNCHANGED <<table, req, deleted>>
          /\ dpc' = [dpc EXCEPT ![t] = "recv"] /\ var' = [var EXCEPT ![t] = NoVar]
      BY <2>6, <3>1 DEF ReplyDeleted, Answer, Goto, database, history
    <3> QED  BY <3>2, <3>3, SavedSame, RowsFollowTheTable DEF TypeOK
  <2>7. CASE Quiet
    BY <2>7, SavedSame, RowsFollowTheTable DEF Quiet, Saving
  <2> QED  BY QuietSteps, <2>1, <2>2, <2>3, <2>4, <2>5, <2>6, <2>7
<1> QED  BY <1>1, <1>2, TypeInvariant, PTL DEF Spec

(***************************************************************************)
(* While inserts succeed, what a client was told is saved (the 115 of the  *)
(* handler of 008) is in the table until somebody deletes it, through any  *)
(* number of crashes and restarts, and also if two documents get one id.   *)
(***************************************************************************)
THEOREM ConfirmedIsSaved == "insert" \notin Failing => (Spec => []SavedStaysSaved)
<1> SUFFICES ASSUME "insert" \notin Failing PROVE Spec => []SavedStaysSaved
  OBVIOUS
<1>1. SavedInv => SavedStaysSaved  BY DEF SavedInv
<1> QED  BY <1>1, SavedInvariant, PTL

-----------------------------------------------------------------------------
(* An id belongs to the thread that generated it until its client is told. *)
Pending == {"insert", "115"}

IdInv ==
  /\ \A i \in TypedIds : i = WrongId \/ i \in given
  /\ \A d \in Saved : d.uniq_id \in given
  /\ \A t \in Fds : dpc[t] = "insert" => \A d \in Saved : d.uniq_id # var[t].id
  /\ \A t \in Fds : dpc[t] \in Pending =>
       /\ var[t].id \notin TypedIds
       /\ \A u \in Fds \ {t} : dpc[u] \in Pending => var[t].id # var[u].id

(* Only an id that somebody was told is deleted, and then no row has it. *)
DeletedInv ==
  /\ \A t \in Fds : dpc[t] \in Deleting => req[t].id \in TypedIds
  /\ deleted \subseteq TypedIds
  /\ \A i \in deleted : Found(i) = {}
  /\ \A m \in Sent("117") : m.id \in deleted
  /\ \A t \in Fds : dpc[t] = "117" => req[t].id \in deleted

LEMMA TypedIdsSame ==
  ASSUME Sent("115")' = Sent("115") PROVE TypedIds' = TypedIds
BY DEF TypedIds

LEMMA MoreTypedIds ==
  ASSUME TypeOK, NEW t \in Fds, ReplySaved(t)
  PROVE  TypedIds' = TypedIds \cup {var[t].id}
<1> DEFINE m == Message("115", var[t].id, req[t].content)
<1>1. Answer(t, "115", var[t].id, req[t].content)  BY DEF ReplySaved
<1>2. Sent("115")' = Sent("115") \cup {m}  BY <1>1, AnswersAreSent
<1>3. m.id = var[t].id  BY DEF Message
<1> HIDE DEF m
<1> QED  BY <1>2, <1>3 DEF TypedIds

(* Rows only go, and the ids of the threads that have one stay theirs. *)
LEMMA IdSame ==
  ASSUME IdInv, TypedIds' = TypedIds, given \subseteq given',
         Saved' \subseteq Saved,
         \A u \in Fds : dpc'[u] \in Pending => dpc'[u] = dpc[u] /\ var'[u].id = var[u].id
  PROVE  IdInv'
BY DEF IdInv, Pending

LEMMA IdInvariant ==
  ASSUME IdsUnique
  PROVE  Spec => []IdInv
<1> USE DEF Pending
<1>1. Init => IdInv
  BY DEF Init, IdInv, TypedIds, Sent, ToSet, Saved
<1>2. TypeOK /\ ShapeInv /\ IdInv /\ [Next]_vars => IdInv'
  <2> SUFFICES ASSUME TypeOK, ShapeInv, IdInv, [Next]_vars PROVE IdInv'
    OBVIOUS
  <2>0. ASSUME sent' = sent PROVE TypedIds' = TypedIds
    BY <2>0 DEF Sent, TypedIds
  <2>1. ASSUME NEW t \in Fds, Receive(t) PROVE IdInv'
    <3>1. /\ UNCHANGED <<table, var, sent, given>>
          /\ \E p \in {"008", "delete", "reset"} : dpc' = [dpc EXCEPT ![t] = p]
      BY <2>1 DEF Receive, Goto, database
    <3> QED  BY <2>0, <3>1, IdSame, RowsFollowTheTable DEF TypeOK
  <2>2. ASSUME NEW t \in Fds, GenerateId(t) PROVE IdInv'
    <3>1. PICK i \in Ids : /\ i \notin given
                           /\ var' = [var EXCEPT ![t].id = i]
                           /\ given' = given \cup {i}
      BY <2>2, IdsUnique DEF GenerateId
    <3>2. UNCHANGED <<table, sent>> /\ dpc' = [dpc EXCEPT ![t] = "insert"]
          /\ dpc[t] = "008"
      BY <2>2 DEF GenerateId, Goto, At, database
    <3>3. TypedIds' = TypedIds  BY <2>0, <3>2
    <3>4. i \notin TypedIds  BY <3>1, DocumentsAssumption DEF IdInv
    <3>5. \A d \in Saved : d.uniq_id # i  BY <3>1 DEF IdInv
    <3>6. Saved' = Saved  BY <3>2, RowsFollowTheTable
    <3>7. var'[t].id = i /\ \A u \in Fds \ {t} : var'[u] = var[u]
      BY <3>1 DEF TypeOK
    <3>8. \A u \in Fds \ {t} : dpc[u] \in Pending => var[u].id # i
      BY <3>1 DEF ShapeInv
    <3>9. dpc'[t] = "insert" /\ \A u \in Fds \ {t} : dpc'[u] = dpc[u]
      BY <3>2 DEF TypeOK
    <3>10. \A u \in Fds : dpc'[u] = "insert" => \A d \in Saved' : d.uniq_id # var'[u].id
      BY <3>5, <3>6, <3>7, <3>9 DEF IdInv
    <3>11. \A d \in Saved' : d.uniq_id \in given'
      BY <3>1, <3>6 DEF IdInv
    <3>12. \A j \in TypedIds' : j = WrongId \/ j \in given'
      BY <3>1, <3>3 DEF IdInv
    <3>13. \A u \in Fds : dpc'[u] \in Pending =>
             /\ var'[u].id \notin TypedIds'
             /\ \A v \in Fds \ {u} : dpc'[v] \in Pending => var'[u].id # var'[v].id
      BY <3>3, <3>4, <3>7, <3>8, <3>9 DEF IdInv
    <3> QED  BY <3>10, <3>11, <3>12, <3>13 DEF IdInv
  <2>3. ASSUME NEW t \in Fds, Insert(t) PROVE IdInv'
    <3>1. UNCHANGED <<var, sent, given>> /\ dpc' = [dpc EXCEPT ![t] = "115"]
          /\ dpc[t] = "insert"
      BY <2>3 DEF Insert, Goto, At, history
    <3>2. TypedIds' = TypedIds  BY <2>0, <3>1
    <3>3. Saved' \subseteq Saved \cup {Row(var[t].id, req[t].content)}
      BY <2>3, InsertAddsOneRow, RowsFollowTheTable
    <3>4. Row(var[t].id, req[t].content).uniq_id = var[t].id  BY DEF Row
    <3>6. \A d \in Saved' : d.uniq_id \in given'
      BY <3>1, <3>3, <3>4 DEF IdInv, ShapeInv
    <3>7. \A u \in Fds : dpc'[u] = "insert" => \A d \in Saved' : d.uniq_id # var'[u].id
      <4> SUFFICES ASSUME NEW u \in Fds, dpc'[u] = "insert", NEW d \in Saved'
                   PROVE  d.uniq_id # var[u].id
        BY <3>1
      <4>1. u # t /\ dpc[u] = "insert"  BY <3>1 DEF TypeOK
      <4> QED  BY <3>1, <3>3, <3>4, <4>1 DEF IdInv
    <3>5. \A u \in Fds : dpc'[u] \in Pending => dpc[u] \in Pending
      BY <3>1 DEF TypeOK
    <3> QED  BY <3>1, <3>2, <3>5, <3>6, <3>7 DEF IdInv
  <2>4. ASSUME NEW t \in Fds, ReplySaved(t) PROVE IdInv'
    <3>1. UNCHANGED <<table, given>> /\ dpc' = [dpc EXCEPT ![t] = "recv"]
          /\ var' = [var EXCEPT ![t] = NoVar] /\ dpc[t] = "115"
      BY <2>4 DEF ReplySaved, Answer, Goto, At, database, history
    <3>2. TypedIds' = TypedIds \cup {var[t].id}  BY <2>4, MoreTypedIds
    <3>3. \A u \in Fds : dpc'[u] \in Pending =>
            u # t /\ dpc'[u] = dpc[u] /\ var'[u] = var[u]
      BY <3>1 DEF TypeOK
    <3>4. \A i \in TypedIds' : i = WrongId \/ i \in given'
      BY <3>1, <3>2 DEF IdInv, ShapeInv
    <3>5. Saved' = Saved  BY <3>1, RowsFollowTheTable
    <3> QED  BY <3>1, <3>2, <3>3, <3>4, <3>5 DEF IdInv
  <2>5. ASSUME NEW t \in Fds, Delete(t) PROVE IdInv'
    <3>1. UNCHANGED <<var, sent, given>>
          /\ \E p \in {"117", "118"} : dpc' = [dpc EXCEPT ![t] = p]
          /\ (table' = Without(req[t].id) \/ table' = table)
      BY <2>5 DEF Delete, Goto
    <3>2. Saved' \subseteq Saved
      BY <3>1, DeleteRemovesRows, RowsFollowTheTable
    <3> QED  BY <2>0, <3>1, <3>2, IdSame DEF TypeOK
  <2>6. ASSUME NEW t \in Fds, ReplyDeleted(t) PROVE IdInv'
    <3>1. PICK h \in {"117", "118"} : Answer(t, h, req[t].id, NoText)
      BY <2>6 DEF ReplyDeleted, At
    <3>2. TypedIds' = TypedIds  BY <3>1, OtherAnswersStay, TypedIdsSame
    <3>3. UNCHANGED <<table, given>>
          /\ dpc' = [dpc EXCEPT ![t] = "recv"] /\ var' = [var EXCEPT ![t] = NoVar]
      BY <2>6, <3>1 DEF ReplyDeleted, Answer, Goto, database, history
    <3> QED  BY <3>2, <3>3, IdSame, RowsFollowTheTable DEF TypeOK
  <2>7. CASE Quiet
    BY <2>7, IdSame, TypedIdsSame, RowsFollowTheTable DEF Quiet, Saving
  <2> QED  BY QuietSteps, <2>1, <2>2, <2>3, <2>4, <2>5, <2>6, <2>7
<1> QED  BY <1>1, <1>2, TypeInvariant, PTL DEF Spec

-----------------------------------------------------------------------------
LEMMA DeletedSame ==
  ASSUME DeletedInv, TypedIds \subseteq TypedIds', deleted' = deleted,
         Sent("117")' = Sent("117"),
         \A i \in deleted : Found(i)' = {},
         \A u \in Fds : dpc'[u] \in Deleting =>
           \/ dpc'[u] = "delete" /\ req'[u].id \in TypedIds
           \/ dpc'[u] = dpc[u] /\ req'[u].id = req[u].id
           \/ dpc'[u] = "118" /\ dpc[u] = "delete" /\ req'[u].id = req[u].id
  PROVE  DeletedInv'
<1>1. \A u \in Fds : dpc'[u] \in Deleting => req'[u].id \in TypedIds'
  BY DEF DeletedInv, Deleting
<1>2. \A u \in Fds : dpc'[u] = "117" => req'[u].id \in deleted'
  BY DEF DeletedInv, Deleting
<1> QED  BY <1>1, <1>2 DEF DeletedInv

LEMMA DeletedInvariant ==
  ASSUME IdsUnique
  PROVE  Spec => []DeletedInv
<1>1. Init => DeletedInv
  BY DEF Init, DeletedInv, Deleting, Sent, ToSet
<1>2. TypeOK /\ IdInv /\ DeletedInv /\ [Next]_vars => DeletedInv'
  <2> SUFFICES ASSUME TypeOK, IdInv, DeletedInv, [Next]_vars PROVE DeletedInv'
    OBVIOUS
  <2>0. ASSUME sent' = sent
        PROVE  TypedIds' = TypedIds /\ Sent("117")' = Sent("117")
    BY <2>0 DEF Sent, TypedIds
  <2>00. ASSUME table' = table PROVE \A i \in deleted : Found(i)' = {}
    BY <2>00, RowsFollowTheTable DEF DeletedInv
  <2>1. ASSUME NEW t \in Fds, Receive(t) PROVE DeletedInv'
    <3>1. UNCHANGED <<table, sent, deleted>>  BY <2>1 DEF Receive, database
    <3>2. /\ \A u \in Fds \ {t} : dpc'[u] = dpc[u] /\ req'[u] = req[u]
          /\ \/ dpc'[t] \in {"008", "reset"}
             \/ dpc'[t] = "delete" /\ req'[t].id \in TypedIds
      BY <2>1 DEF Receive, Request, Goto, TypeOK
    <3> QED  BY <2>0, <2>00, <3>1, <3>2, DeletedSame DEF Deleting
  <2>2. ASSUME NEW t \in Fds, GenerateId(t) PROVE DeletedInv'
    <3>1. UNCHANGED <<table, sent, req, deleted>> /\ dpc' = [dpc EXCEPT ![t] = "insert"]
      BY <2>2 DEF GenerateId, Goto, database
    <3> QED  BY <2>0, <2>00, <3>1, DeletedSame DEF TypeOK, Deleting
  <2>3. ASSUME NEW t \in Fds, Insert(t) PROVE DeletedInv'
    <3>1. UNCHANGED <<sent, req, deleted>> /\ dpc' = [dpc EXCEPT ![t] = "115"]
          /\ dpc[t] = "insert"
      BY <2>3 DEF Insert, Goto, At, history
    <3>2. var[t].id \notin deleted
      BY <3>1 DEF IdInv, DeletedInv, Pending
    <3>3. \A i \in deleted : Found(i)' = {}
      BY <2>3, <3>2, InsertAddsOneRow, RowsFollowTheTable DEF DeletedInv
    <3> QED  BY <2>0, <3>1, <3>3, DeletedSame DEF TypeOK, Deleting
  <2>4. ASSUME NEW t \in Fds, ReplySaved(t) PROVE DeletedInv'
    <3>1. UNCHANGED <<table, req, deleted>> /\ dpc' = [dpc EXCEPT ![t] = "recv"]
          /\ Answer(t, "115", var[t].id, req[t].content)
      BY <2>4 DEF ReplySaved, Answer, Goto, database, history
    <3>2. TypedIds \subseteq TypedIds'  BY <2>4, MoreTypedIds
    <3>3. Sent("117")' = Sent("117")  BY <3>1, OtherAnswersStay
    <3> QED  BY <2>00, <3>1, <3>2, <3>3, DeletedSame DEF TypeOK, Deleting
  <2>5. ASSUME NEW t \in Fds, Delete(t) PROVE DeletedInv'
    <3>1. UNCHANGED <<sent, req>> /\ dpc[t] = "delete"
      BY <2>5 DEF Delete, At
    <3>2. CASE UNCHANGED <<table, deleted>> /\ dpc' = [dpc EXCEPT ![t] = "118"]
      BY <2>0, <2>00, <3>1, <3>2, DeletedSame DEF TypeOK, Deleting
    <3>3. CASE /\ table' = Without(req[t].id)
               /\ deleted' = deleted \cup {req[t].id}
               /\ dpc' = [dpc EXCEPT ![t] = "117"]
      <4>1. \A i \in deleted' : Found(i)' = {}
        BY <3>3, DeleteRemovesRows DEF DeletedInv
      <4>2. req[t].id \in TypedIds  BY <3>1 DEF DeletedInv, Deleting
      <4>3. \A u \in Fds : dpc'[u] \in Deleting => req'[u].id \in TypedIds'
        BY <2>0, <3>1, <3>3, <4>2 DEF DeletedInv, Deleting, TypeOK
      <4>4. \A u \in Fds : dpc'[u] = "117" => req'[u].id \in deleted'
        BY <3>1, <3>3 DEF DeletedInv, TypeOK
      <4> QED  BY <2>0, <3>1, <3>3, <4>1, <4>2, <4>3, <4>4 DEF DeletedInv
    <3> QED  BY <2>5, <3>2, <3>3 DEF Delete, Goto
  <2>6. ASSUME NEW t \in Fds, ReplyDeleted(t) PROVE DeletedInv'
    <3>1. UNCHANGED <<table, req, deleted>> /\ dpc' = [dpc EXCEPT ![t] = "recv"]
      BY <2>6 DEF ReplyDeleted, Answer, Goto, database, history
    <3>2. CASE Answer(t, "118", req[t].id, NoText)
      <4>1. TypedIds' = TypedIds /\ Sent("117")' = Sent("117")
        BY <3>2, OtherAnswersStay, TypedIdsSame
      <4> QED  BY <2>00, <3>1, <4>1, DeletedSame DEF TypeOK, Deleting
    <3>3. CASE dpc[t] = "117" /\ Answer(t, "117", req[t].id, NoText)
      <4> DEFINE m == Message("117", req[t].id, NoText)
      <4>1. TypedIds' = TypedIds  BY <3>3, OtherAnswersStay, TypedIdsSame
      <4>2. Sent("117")' = Sent("117") \cup {m}  BY <3>3, AnswersAreSent
      <4>3. m.id \in deleted  BY <3>3 DEF Message, DeletedInv
      <4> HIDE DEF m
      <4>4. \A u \in Fds : dpc'[u] \in Deleting => dpc'[u] = dpc[u]
        BY <3>1 DEF TypeOK, Deleting
      <4>5. \A u \in Fds : dpc'[u] = "117" => dpc[u] = "117"
        BY <4>4 DEF Deleting
      <4> QED  BY <2>00, <3>1, <4>1, <4>2, <4>3, <4>4, <4>5 DEF DeletedInv
    <3> QED  BY <2>6, <3>2, <3>3 DEF ReplyDeleted, At
  <2>7. CASE Quiet
    <3>1. TypedIds' = TypedIds  BY <2>7, TypedIdsSame DEF Quiet
    <3> QED  BY <2>7, <2>00, <3>1, DeletedSame DEF Quiet, Deleting
  <2> QED  BY QuietSteps, <2>1, <2>2, <2>3, <2>4, <2>5, <2>6, <2>7
<1> QED  BY <1>1, <1>2, TypeInvariant, IdInvariant, PTL DEF Spec

(***************************************************************************)
(* When no id is given twice, a deletion that was confirmed (the 117 of    *)
(* the handler of 010) is final: no insert that is still under way brings  *)
(* the document back, and no open finds it, also after a restart.          *)
(***************************************************************************)
THEOREM DeletionIsFinal == IdsUnique => (Spec => []DeletedStaysDeleted)
<1> SUFFICES ASSUME IdsUnique PROVE Spec => []DeletedStaysDeleted
  OBVIOUS
<1>1. DeletedInv => DeletedStaysDeleted  BY DEF DeletedInv, DeletedStaysDeleted
<1> QED  BY <1>1, DeletedInvariant, PTL

-----------------------------------------------------------------------------
(* An open that no other one has met is alone in SQL_Find, so that what it *)
(* reads from querry_result is what its statement put there.               *)
Reading == {"reset", "select", "return"}

OpenInv ==
  \A t \in Fds \ disturbed :
    /\ dpc[t] \in Reading => \A u \in Fds : dpc[u] \in Reading => u = t
    /\ dpc[t] = "select" => querry_result = NoText
    /\ dpc[t] = "return" => querry_result = var[t].selected

LEMMA OpenSame ==
  ASSUME OpenInv, disturbed \subseteq disturbed', querry_result' = querry_result,
         \A u \in Fds : dpc'[u] \in Reading =>
           dpc'[u] = dpc[u] /\ var'[u].selected = var[u].selected
  PROVE  OpenInv'
BY DEF OpenInv, Reading

(* A thread in SQL_Find moves on: only its own open can be undisturbed. *)
LEMMA OpenMoves ==
  ASSUME OpenInv, disturbed' = disturbed,
         NEW t \in Fds, dpc[t] \in Reading,
         \A u \in Fds \ {t} : dpc'[u] = dpc[u],
         t \notin disturbed =>
           /\ dpc'[t] = "select" => querry_result' = NoText
           /\ dpc'[t] = "return" => querry_result' = var'[t].selected
  PROVE  OpenInv'
BY DEF OpenInv, Reading

LEMMA NoRaceAlone ==
  ASSUME OpenInv, NEW t \in Fds \ disturbed, dpc[t] \in Reading
  PROVE  ~BeingAssigned(t) /\ ~Resetting(t)
BY DEF OpenInv, Reading, BeingAssigned, Resetting

LEMMA OpenInvariant == Spec => []OpenInv
<1>1. Init => OpenInv
  BY DEF Init, OpenInv, Reading
<1>2. TypeOK /\ OpenInv /\ [Next]_vars => OpenInv'
  <2> SUFFICES ASSUME TypeOK, OpenInv, [Next]_vars PROVE OpenInv'
    OBVIOUS
  <2> USE DEF Goto, At, history
  <2>1. ASSUME NEW t \in Fds, Receive(t) PROVE OpenInv'
    <3>1. querry_result' = querry_result /\ var' = var /\ dpc[t] = "recv"
      BY <2>1 DEF Receive
    <3>2. CASE /\ \E p \in {"008", "delete"} : dpc' = [dpc EXCEPT ![t] = p]
               /\ disturbed' = disturbed
      BY <3>1, <3>2, OpenSame DEF TypeOK, Reading
    <3>3. CASE /\ dpc' = [dpc EXCEPT ![t] = "reset"]
               /\ disturbed' = IF Opening = {} THEN disturbed \ {t}
                               ELSE disturbed \cup Opening \cup {t}
      <4>1. Opening = {u \in Fds : dpc[u] \in Reading}  BY DEF Opening, Reading
      <4>2. CASE Opening = {}
        BY <3>1, <3>3, <4>1, <4>2 DEF OpenInv, TypeOK, Reading
      <4>3. CASE Opening # {}
        <5>1. \A u \in Fds \ disturbed' : u # t /\ dpc'[u] = dpc[u] /\ dpc[u] \notin Reading
          BY <3>3, <4>1, <4>3 DEF TypeOK
        <5> QED  BY <5>1 DEF OpenInv, Reading
      <4> QED  BY <4>2, <4>3
    <3> QED  BY <2>1, <3>2, <3>3 DEF Receive
  <2>2. ASSUME NEW t \in Fds,
               UNCHANGED <<disturbed, querry_result>>,
               \E p \in {"insert", "115", "117", "118", "recv"} : dpc' = [dpc EXCEPT ![t] = p],
               \A u \in Fds \ {t} : var'[u] = var[u]
        PROVE  OpenInv'
    BY <2>2, OpenSame DEF TypeOK, Reading
  <2>3. ASSUME NEW t \in Fds,
               \/ GenerateId(t) \/ Insert(t) \/ Delete(t)
               \/ ReplySaved(t) \/ ReplyDeleted(t) \/ ReplyOpened(t)
        PROVE  OpenInv'
    <3>1. UNCHANGED <<disturbed, querry_result>>
      BY <2>3 DEF GenerateId, Insert, Delete, ReplySaved, ReplyDeleted, ReplyOpened
    <3>2. \E p \in {"insert", "115", "117", "118", "recv"} : dpc' = [dpc EXCEPT ![t] = p]
      BY <2>3 DEF GenerateId, Insert, Delete, ReplySaved, ReplyDeleted, ReplyOpened, Answer
    <3>3. \A u \in Fds \ {t} : var'[u] = var[u]
      BY <2>3 DEF GenerateId, Insert, Delete, ReplySaved, ReplyDeleted, ReplyOpened, Answer, TypeOK
    <3> QED  BY <2>2, <3>1, <3>2, <3>3
  <2>4. ASSUME NEW t \in Fds, ResetResult(t), ~Crash PROVE OpenInv'
    <3>1. disturbed' = disturbed /\ dpc[t] = "reset" /\ dpc' = [dpc EXCEPT ![t] = "select"]
      BY <2>4 DEF ResetResult
    <3>2. t \notin disturbed => querry_result' = NoText
      BY <2>4, <3>1, NoRaceAlone DEF ResetResult, Raced, Reading
    <3> QED  BY <3>1, <3>2, OpenMoves DEF TypeOK, Reading
  <2>5. ASSUME NEW t \in Fds, Select(t), ~Crash PROVE OpenInv'
    <3>1. disturbed' = disturbed /\ dpc[t] = "select" /\ dpc' = [dpc EXCEPT ![t] = "return"]
      BY <2>5 DEF Select
    <3>2. t \notin disturbed => querry_result' = var'[t].selected
      <4> SUFFICES ASSUME t \notin disturbed PROVE querry_result' = var'[t].selected
        OBVIOUS
      <4>1. ~Resetting(t) /\ querry_result = NoText
        BY <3>1, NoRaceAlone DEF OpenInv, Reading
      <4>2. \/ querry_result' = NoText /\ var' = [var EXCEPT ![t].selected = NoText]
            \/ \E k \in DOMAIN table :
                 /\ querry_result' = table[k].content
                 /\ var' = [var EXCEPT ![t].selected = table[k].content]
        BY <2>5, <4>1 DEF Select, Raced, Found
      <4> QED  BY <4>2 DEF TypeOK
    <3> QED  BY <3>1, <3>2, OpenMoves DEF TypeOK, Reading
  <2>6. ASSUME NEW t \in Fds, ReturnResult(t), ~Crash PROVE OpenInv'
    <3>1. disturbed' = disturbed /\ dpc[t] = "return" /\ dpc' = [dpc EXCEPT ![t] = "204"]
      BY <2>6 DEF ReturnResult
    <3> QED  BY <3>1, OpenMoves DEF TypeOK, Reading
  <2>7. CASE Crash
    BY <2>7, OpenSame DEF Crash
  <2>8. CASE Restart
    BY <2>8 DEF Restart, OpenInv, Reading
  <2>9. CASE UNCHANGED vars
    BY <2>9, OpenSame DEF vars
  <2> QED  BY Steps, <2>1, <2>3, <2>4, <2>5, <2>6, <2>7, <2>8, <2>9 DEF StepOf
<1> QED  BY <1>1, <1>2, TypeInvariant, PTL DEF Spec

-----------------------------------------------------------------------------
(* The refinement: what the task of a client is before and after a step.   *)

LEMMA StepsAreLocal ==
  ASSUME TypeOK, NEW t \in Fds, StepOf(t)
  PROVE  /\ up /\ up' = up
         /\ \A u \in Fds \ {t} : dpc'[u] = dpc[u] /\ req'[u] = req[u] /\ var'[u] = var[u]
<1> USE DEF Goto, At, Answer
<1>1. up /\ up' = up
  BY DEF StepOf, Receive, GenerateId, Insert, ReplySaved, Delete, ReplyDeleted,
         ResetResult, Select, ReturnResult, ReplyOpened
<1>2. \A u \in Fds \ {t} : dpc'[u] = dpc[u]
  BY DEF StepOf, Receive, GenerateId, Insert, ReplySaved, Delete, ReplyDeleted,
         ResetResult, Select, ReturnResult, ReplyOpened, TypeOK
<1>3. \A u \in Fds \ {t} : req'[u] = req[u]
  BY DEF StepOf, Receive, Request, GenerateId, Insert, ReplySaved, Delete, ReplyDeleted,
         ResetResult, Select, ReturnResult, ReplyOpened, TypeOK
<1>4. \A u \in Fds \ {t} : var'[u] = var[u]
  BY DEF StepOf, Receive, GenerateId, Insert, ReplySaved, Delete, ReplyDeleted,
         ResetResult, Select, ReturnResult, ReplyOpened, TypeOK
<1> QED  BY <1>1, <1>2, <1>3, <1>4

LEMMA TasksAreLocal ==
  ASSUME TypeOK, NEW t \in Fds, StepOf(t)
  PROVE  /\ \A u \in Fds \ {t} : Task(u)' = Task(u)
         /\ \A s, h, i, x : Task(t)' = Store!Task(s, h, i, x) => Store!Becomes(t, s, h, i, x)
         /\ Task(t)' = Task(t) => UNCHANGED [u \in Fds |-> Task(u)]
<1>1. \A u \in Fds \ {t} : Task(u)' = Task(u)
  <2> SUFFICES ASSUME NEW u \in Fds \ {t} PROVE Task(u)' = Task(u)
    OBVIOUS
  <2>1. up' = up /\ dpc'[u] = dpc[u] /\ req'[u] = req[u] /\ var'[u] = var[u]
    BY StepsAreLocal
  <2> QED  BY <2>1 DEF Task
<1>2. ASSUME NEW s, NEW h, NEW i, NEW x, Task(t)' = Store!Task(s, h, i, x)
      PROVE  Store!Becomes(t, s, h, i, x)
  BY <1>1, <1>2 DEF Store!Becomes
<1>3. ASSUME Task(t)' = Task(t) PROVE UNCHANGED [u \in Fds |-> Task(u)]
  BY <1>1, <1>3
<1> QED  BY <1>1, <1>2, <1>3

(* The task of a client, by where its thread is. *)
TaskInv ==
  up => \A t \in Fds :
    /\ dpc[t] = "recv" => Task(t) = Store!NoTask
    /\ dpc[t] \in {"008", "insert"} =>
         Task(t) = Store!Task("asked", "008", WrongId, req[t].content)
    /\ dpc[t] = "115" => Task(t) = Store!Task("done", "115", var[t].id, req[t].content)
    /\ dpc[t] = "delete" => Task(t) = Store!Task("asked", "010", req[t].id, NoText)
    /\ dpc[t] = "117" => Task(t) = Store!Task("done", "117", req[t].id, NoText)
    /\ dpc[t] = "118" => Task(t) = Store!Task("done", "118", req[t].id, NoText)
    /\ dpc[t] \in {"reset", "select"} =>
         Task(t) = Store!Task("asked", "011", req[t].id, NoText)
    /\ dpc[t] = "return" =>
         Task(t) = Store!Task("found", "011", req[t].id, var[t].selected)
    /\ dpc[t] = "204" => Task(t) = Store!Task("done", "204", req[t].id, var[t].result)

LEMMA TaskInvariant == Spec => []TaskInv
<1>1. ShapeInv => TaskInv
  <2> SUFFICES ASSUME ShapeInv, up, NEW t \in Fds
               PROVE  TaskInv!2!(t)
    BY DEF TaskInv
  <2> QED  BY DEF ShapeInv, Saving, Deleting, Finding, Store!Task, Store!NoTask, Task
<1> QED  BY <1>1, TypeInvariant, PTL

-----------------------------------------------------------------------------
(* Every step of a thread is one of the store, or none. *)

LEMMA RequestsAreAsked ==
  ASSUME TypeOK, TaskInv, TaskInv', NEW t \in Fds, Receive(t)
  PROVE  Store!Ask(t)
<1> USE DEF At, Goto
<1>1. up /\ up' /\ dpc[t] = "recv" /\ UNCHANGED <<up, table, sent>>
  BY DEF Receive, database
<1>2. Task(t) = Store!NoTask  BY <1>1 DEF TaskInv
<1>3. Saved' = Saved  BY <1>1, RowsFollowTheTable
<1>4. StepOf(t)  BY DEF StepOf
<1>5. ASSUME NEW x \in Contents, Request(t, "008", WrongId, x), Goto(t, "008")
      PROVE  Store!Becomes(t, "asked", "008", WrongId, x)
  <2>1. dpc'[t] = "008" /\ req'[t].content = x  BY <1>5 DEF Request, TypeOK
  <2> QED  BY <1>1, <1>4, <2>1, TasksAreLocal DEF TaskInv
<1>6. ASSUME NEW i \in TypedIds, Request(t, "010", i, NoText), Goto(t, "delete")
      PROVE  i \in Ids \cup {WrongId} /\ Store!Becomes(t, "asked", "010", i, NoText)
  <2>1. dpc'[t] = "delete" /\ req'[t].id = i  BY <1>6 DEF Request, TypeOK
  <2> QED  BY <1>1, <1>4, <2>1, TasksAreLocal, IdsOfMessages DEF TaskInv
<1>7. ASSUME NEW i \in TypedIds, Request(t, "011", i, NoText), Goto(t, "reset")
      PROVE  i \in Ids \cup {WrongId} /\ Store!Becomes(t, "asked", "011", i, NoText)
  <2>1. dpc'[t] = "reset" /\ req'[t].id = i  BY <1>7 DEF Request, TypeOK
  <2> QED  BY <1>1, <1>4, <2>1, TasksAreLocal, IdsOfMessages DEF TaskInv
<1>8. Store!Opening = Opening
  <2>1. ASSUME NEW u \in Fds
        PROVE  Store!Is(u, "asked", "011") \/ Store!Is(u, "found", "011")
               <=> dpc[u] \in {"reset", "select", "return"}
    <3>1. CASE dpc[u] \in {"reset", "select"}
      BY <1>1, <3>1 DEF TaskInv, Store!Is, Store!Task
    <3>2. CASE dpc[u] = "return"
      BY <1>1, <3>2 DEF TaskInv, Store!Is, Store!Task
    <3>3. CASE dpc[u] \notin {"reset", "select", "return"}
      <4>1. Task(u).state \in {"idle", "done"} \/ Task(u).header \in {"008", "010"}
        <5>1. CASE dpc[u] = "recv"
          BY <1>1, <5>1 DEF TaskInv, Store!NoTask, Store!Task
        <5>2. CASE dpc[u] \in {"008", "insert", "delete"}
          BY <1>1, <5>2 DEF TaskInv, Store!Task
        <5>3. CASE dpc[u] \in {"115", "117", "118", "204"}
          BY <1>1, <5>3 DEF TaskInv, Store!Task
        <5> QED  BY <3>3, <5>1, <5>2, <5>3 DEF TypeOK
      <4> QED  BY <3>3, <4>1 DEF Store!Is
    <3> QED  BY <3>1, <3>2, <3>3
  <2> QED  BY <2>1 DEF Store!Opening, Opening
<1>9. \/ /\ \/ \E x \in Contents : Store!Becomes(t, "asked", "008", WrongId, x)
            \/ \E i \in Ids \cup {WrongId} : Store!Becomes(t, "asked", "010", i, NoText)
         /\ UNCHANGED disturbed
      \/ /\ \E i \in Ids \cup {WrongId} : Store!Becomes(t, "asked", "011", i, NoText)
         /\ disturbed' = IF Opening = {} THEN disturbed \ {t}
                         ELSE disturbed \cup Opening \cup {t}
  <2>1. CASE \E x \in Contents : Request(t, "008", WrongId, x) /\ Goto(t, "008")
             /\ UNCHANGED disturbed
    BY <2>1, <1>5
  <2>2. CASE \E i \in TypedIds : Request(t, "010", i, NoText) /\ Goto(t, "delete")
             /\ UNCHANGED disturbed
    BY <2>2, <1>6
  <2>3. CASE \E i \in TypedIds : Request(t, "011", i, NoText) /\ Goto(t, "reset")
             /\ disturbed' = IF Opening = {} THEN disturbed \ {t}
                             ELSE disturbed \cup Opening \cup {t}
    BY <2>3, <1>7
  <2> QED  BY <2>1, <2>2, <2>3 DEF Receive
<1> QED  BY <1>1, <1>2, <1>3, <1>8, <1>9 DEF Store!Ask

LEMMA AnswersAreGiven ==
  ASSUME TypeOK, TaskInv, TaskInv', NEW t \in Fds, StepOf(t),
         NEW h, NEW i, NEW x, Task(t) = Store!Task("done", h, i, x), Answer(t, h, i, x),
         UNCHANGED <<table, disturbed>>
  PROVE  Store!Answer(t)
<1>1. up /\ up' = up  BY StepsAreLocal
<1>2. dpc'[t] = "recv"  BY DEF Answer, Goto, TypeOK
<1>3. Task(t)' = Store!NoTask  BY <1>1, <1>2 DEF TaskInv
<1>4. [u \in Fds |-> Task(u)]' = [[u \in Fds |-> Task(u)] EXCEPT ![t] = Store!NoTask]
  BY <1>3, TasksAreLocal
<1>5. sent' = [sent EXCEPT ![t] = Append(@, [header |-> h, id |-> i, content |-> x])]
  BY DEF Answer
<1>6. /\ Task(t).state = "done" /\ Task(t).header = h
      /\ Task(t).id = i /\ Task(t).content = x
  BY DEF Store!Task
<1>7. Saved' = Saved  BY RowsFollowTheTable
<1> QED  BY <1>1, <1>4, <1>5, <1>6, <1>7 DEF Store!Answer

LEMMA InsertsSave ==
  ASSUME "insert" \notin Failing, TypeOK, TaskInv, TaskInv', IdInv, NEW t \in Fds, Insert(t)
  PROVE  Store!Save(t)
<1> USE DEF At, Goto
<1> DEFINE i == var[t].id
           x == req[t].content
<1>1. up /\ up' /\ dpc[t] = "insert" /\ dpc'[t] = "115"
      /\ UNCHANGED <<up, disturbed, sent, req, var>>
  BY DEF Insert, history, TypeOK
<1>2. Task(t) = Store!Task("asked", "008", WrongId, x)  BY <1>1 DEF TaskInv
<1>3. Task(t)' = Store!Task("done", "115", i, x)  BY <1>1 DEF TaskInv
<1>4. Store!Becomes(t, "done", "115", i, x)
  <2>1. StepOf(t)  BY DEF StepOf
  <2> HIDE DEF i, x
  <2> QED  BY <1>3, <2>1, TasksAreLocal
<1>5. table' # table
  <2>1. last_id' \in DOMAIN table'  BY DEF Insert
  <2>2. last_id' \notin DOMAIN table  BY DEF Insert, TypeOK
  <2> QED  BY <2>1, <2>2
<1>6. Saved' = Saved \cup {[uniq_id |-> i, content |-> x]}
  BY <1>5, InsertAddsOneRow DEF Row
<1>7. \A d \in Saved : d.uniq_id # i  BY <1>1 DEF IdInv
<1>8. i \notin TypedIds  BY <1>1 DEF IdInv, Pending
<1>9. \A o \in Fds : \A k \in DOMAIN sent[o] : sent[o][k].header = "115" => sent[o][k].id # i
  BY <1>8 DEF TypedIds, Sent, ToSet
<1>10. i \in Ids
  <2>1. WrongId \in TypedIds  BY DEF TypedIds
  <2> QED  BY <1>8, <2>1 DEF TypeOK
<1>11. Store!Is(t, "asked", "008") /\ Task(t).content = x
  BY <1>2 DEF Store!Is, Store!Task
<1> HIDE DEF i, x
<1> QED  BY <1>1, <1>4, <1>6, <1>7, <1>9, <1>10, <1>11 DEF Store!Save

LEMMA DeletesRemove ==
  ASSUME TypeOK, TaskInv, TaskInv', NEW t \in Fds, Delete(t)
  PROVE  Store!Remove(t)
<1> USE DEF At, Goto
<1>1. up /\ up' /\ dpc[t] = "delete" /\ UNCHANGED <<up, disturbed, sent, req, var>>
  BY DEF Delete
<1>2. Task(t) = Store!Task("asked", "010", req[t].id, NoText)  BY <1>1 DEF TaskInv
<1>3. Store!Is(t, "asked", "010") /\ Task(t).id = req[t].id
  BY <1>2 DEF Store!Is, Store!Task
<1>4. StepOf(t)  BY DEF StepOf
<1>5. CASE table' = Without(req[t].id) /\ dpc' = [dpc EXCEPT ![t] = "117"]
  <2>1. Saved' = {d \in Saved : d.uniq_id # req[t].id}  BY <1>5, DeleteRemovesRows
  <2>2. Task(t)' = Store!Task("done", "117", req[t].id, NoText)
    BY <1>1, <1>5 DEF TaskInv, TypeOK
  <2>3. Store!Becomes(t, "done", "117", req[t].id, NoText)
    BY <1>4, <2>2, TasksAreLocal
  <2> QED  BY <1>1, <1>3, <2>1, <2>3 DEF Store!Remove
<1>6. CASE table' = table /\ dpc' = [dpc EXCEPT ![t] = "118"]
  <2>1. Saved' = Saved  BY <1>6, RowsFollowTheTable
  <2>2. Task(t)' = Store!Task("done", "118", req[t].id, NoText)
    BY <1>1, <1>6 DEF TaskInv, TypeOK
  <2>3. Store!Becomes(t, "done", "118", req[t].id, NoText)
    BY <1>4, <2>2, TasksAreLocal
  <2> QED  BY <1>1, <1>3, <2>1, <2>3 DEF Store!Remove
<1> QED  BY <1>5, <1>6 DEF Delete

LEMMA SelectsFind ==
  ASSUME TypeOK, TaskInv, TaskInv', NEW t \in Fds, Select(t), ~Crash
  PROVE  Store!Find(t)
<1> USE DEF At, Goto
<1>1. up /\ up' /\ dpc[t] = "select" /\ dpc'[t] = "return"
      /\ UNCHANGED <<up, disturbed, sent, req, table>>
  BY DEF Select, history, database, TypeOK
<1>2. Task(t) = Store!Task("asked", "011", req[t].id, NoText)  BY <1>1 DEF TaskInv
<1>3. Store!Is(t, "asked", "011") /\ Task(t).id = req[t].id
  BY <1>2 DEF Store!Is, Store!Task
<1>4. StepOf(t)  BY DEF StepOf
<1>5. Saved' = Saved  BY <1>1, RowsFollowTheTable
<1>6. \/ Found(req[t].id) = {} /\ var' = [var EXCEPT ![t].selected = NoText]
      \/ \E k \in Found(req[t].id) : var' = [var EXCEPT ![t].selected = table[k].content]
  BY DEF Select
<1>7. ASSUME NEW x, var' = [var EXCEPT ![t].selected = x]
      PROVE  Store!Becomes(t, "found", "011", req[t].id, x)
  <2>1. var'[t].selected = x  BY <1>7 DEF TypeOK
  <2>2. Task(t)' = Store!Task("found", "011", req[t].id, x)
    BY <1>1, <2>1 DEF TaskInv
  <2> QED  BY <1>4, <2>2, TasksAreLocal
<1> DEFINE found == {d \in Saved : d.uniq_id = req[t].id}
<1>8. found = {table[k] : k \in Found(req[t].id)}  BY DEF Saved, Found
<1>9. \/ found = {} /\ Store!Becomes(t, "found", "011", req[t].id, NoText)
      \/ \E d \in found : Store!Becomes(t, "found", "011", req[t].id, d.content)
  <2> HIDE DEF found
  <2> QED  BY <1>6, <1>7, <1>8
<1> QED  BY <1>1, <1>3, <1>5, <1>9 DEF Store!Find

LEMMA ReturnsHandOver ==
  ASSUME TypeOK, TaskInv, TaskInv', OpenInv, NEW t \in Fds, ReturnResult(t), ~Crash
  PROVE  Store!HandOver(t)
<1> USE DEF At, Goto
<1>1. up /\ up' /\ dpc[t] = "return" /\ dpc'[t] = "204"
      /\ UNCHANGED <<up, disturbed, sent, req, table>>
  BY DEF ReturnResult, history, database, TypeOK
<1>2. Task(t) = Store!Task("found", "011", req[t].id, var[t].selected)
  BY <1>1 DEF TaskInv
<1>3. /\ Store!Is(t, "found", "011")
      /\ Task(t).id = req[t].id /\ Task(t).content = var[t].selected
  BY <1>2 DEF Store!Is, Store!Task
<1>4. StepOf(t)  BY DEF StepOf
<1>5. Saved' = Saved  BY <1>1, RowsFollowTheTable
<1>6. PICK x \in Raced(querry_result, BeingAssigned(t)) :
        var' = [var EXCEPT ![t].result = x]
  BY DEF ReturnResult
<1>7. var'[t].result = x  BY <1>6 DEF TypeOK
<1>8. Task(t)' = Store!Task("done", "204", req[t].id, x)
  BY <1>1, <1>7 DEF TaskInv
<1>9. Store!Becomes(t, "done", "204", req[t].id, x)
  BY <1>4, <1>8, TasksAreLocal
<1>10. x \in IF t \in disturbed THEN Texts ELSE {var[t].selected}
  <2>1. CASE t \in disturbed  BY <1>6, <2>1 DEF Raced, Texts, TypeOK
  <2>2. CASE t \notin disturbed
    <3>1. ~BeingAssigned(t) /\ querry_result = var[t].selected
      BY <1>1, <2>2, NoRaceAlone DEF OpenInv, Reading
    <3> QED  BY <1>6, <2>2, <3>1 DEF Raced
  <2> QED  BY <2>1, <2>2
<1> QED  BY <1>1, <1>3, <1>5, <1>9, <1>10 DEF Store!HandOver

-----------------------------------------------------------------------------
(* A thread that generates an id or empties querry_result does nothing     *)
(* that the store would know of.                                           *)
LEMMA PreparationsStutter ==
  ASSUME TypeOK, TaskInv, TaskInv', NEW t \in Fds, StepOf(t),
         \/ GenerateId(t)
         \/ ResetResult(t) /\ ~Crash
  PROVE  UNCHANGED Store!vars
<1> USE DEF At, Goto
<1>1. up /\ up' = up  BY StepsAreLocal
<1>2. UNCHANGED <<table, disturbed, sent>>
  BY DEF GenerateId, ResetResult, history, database
<1>3. req' = req
      /\ \/ dpc[t] = "008" /\ dpc'[t] = "insert"
         \/ dpc[t] = "reset" /\ dpc'[t] = "select"
  BY DEF GenerateId, ResetResult, TypeOK
<1>4. Task(t)' = Task(t)  BY <1>1, <1>3 DEF TaskInv
<1>5. UNCHANGED [u \in Fds |-> Task(u)]  BY <1>4, TasksAreLocal
<1>6. Saved' = Saved  BY <1>2, RowsFollowTheTable
<1> QED  BY <1>1, <1>2, <1>5, <1>6 DEF Store!vars

(***************************************************************************)
(* The store is implemented: whatever steps of the handlers and of         *)
(* SQL_Find interleave, and wherever the process ends, each request takes  *)
(* effect at one moment and is answered with that effect; only opens that  *)
(* overlap in SQL_Find may answer with something else.  No id is given     *)
(* twice and no insert fails: what happens otherwise is not in the         *)
(* promise, and the code does not notice it.                               *)
(***************************************************************************)
THEOREM DocumentsImplementStore ==
  IdsUnique /\ "insert" \notin Failing => (Spec => StoreSpec)
<1> SUFFICES ASSUME IdsUnique, "insert" \notin Failing PROVE Spec => StoreSpec
  OBVIOUS
<1>1. Init => Store!Init
  <2> SUFFICES ASSUME Init PROVE Store!Init  OBVIOUS
  <2>1. Saved = {}  BY DEF Init, Saved
  <2>2. \A t \in Fds : Task(t) = Store!NoTask
    BY DEF Init, Task, Store!NoTask, Store!Task
  <2> QED  BY <2>1, <2>2 DEF Init, Store!Init
<1>2. /\ TypeOK /\ TaskInv /\ TaskInv' /\ IdInv /\ OpenInv /\ [Next]_vars
      => [Store!Next]_Store!vars
  <2> SUFFICES ASSUME TypeOK, TaskInv, TaskInv', IdInv, OpenInv, [Next]_vars
               PROVE  Store!Next \/ UNCHANGED Store!vars
    OBVIOUS
  <2>1. ASSUME NEW t \in Fds, StepOf(t) PROVE Store!Next \/ UNCHANGED Store!vars
    <3>0. up  BY <2>1, StepsAreLocal
    <3>1. CASE Receive(t)
      BY <3>0, <3>1, RequestsAreAsked DEF Store!Next
    <3>2. CASE GenerateId(t)
      BY <2>1, <3>2, PreparationsStutter
    <3>3. CASE Insert(t)
      BY <3>0, <3>3, InsertsSave DEF Store!Next
    <3>4. CASE ReplySaved(t)
      <4>1. Task(t) = Store!Task("done", "115", var[t].id, req[t].content)
        BY <3>0, <3>4 DEF ReplySaved, At, TaskInv
      <4>2. Store!Answer(t)
        BY <2>1, <3>4, <4>1, AnswersAreGiven DEF ReplySaved, database, history
      <4> QED  BY <3>0, <4>2 DEF Store!Next
    <3>5. CASE Delete(t)
      BY <3>0, <3>5, DeletesRemove DEF Store!Next
    <3>6. CASE ReplyDeleted(t)
      <4>1. PICK h \in {"117", "118"} : dpc[t] = h /\ Answer(t, h, req[t].id, NoText)
        BY <3>6 DEF ReplyDeleted, At
      <4>2. Task(t) = Store!Task("done", h, req[t].id, NoText)
        BY <3>0, <4>1 DEF TaskInv
      <4>3. Store!Answer(t)
        BY <2>1, <3>6, <4>1, <4>2, AnswersAreGiven DEF ReplyDeleted, database, history
      <4> QED  BY <3>0, <4>3 DEF Store!Next
    <3>7. CASE ResetResult(t) /\ ~Crash
      BY <2>1, <3>7, PreparationsStutter
    <3>8. CASE Select(t) /\ ~Crash
      BY <3>0, <3>8, SelectsFind DEF Store!Next
    <3>9. CASE ReturnResult(t) /\ ~Crash
      BY <3>0, <3>9, ReturnsHandOver DEF Store!Next
    <3>10. CASE ReplyOpened(t)
      <4>1. Task(t) = Store!Task("done", "204", req[t].id, var[t].result)
        BY <3>0, <3>10 DEF ReplyOpened, At, TaskInv
      <4>2. Store!Answer(t)
        BY <2>1, <3>10, <4>1, AnswersAreGiven DEF ReplyOpened, database, history
      <4> QED  BY <3>0, <4>2 DEF Store!Next
    <3> QED
      BY <2>1, <3>1, <3>2, <3>3, <3>4, <3>5, <3>6, <3>7, <3>8, <3>9, <3>10 DEF StepOf
  <2>2. CASE up /\ Crash
    <3>1. up' = FALSE /\ UNCHANGED <<table, disturbed, sent>>
      BY <2>2 DEF Crash, database, history
    <3>2. \A t \in Fds : Task(t)' = Store!NoTask
      BY <3>1 DEF Task, Store!NoTask, Store!Task
    <3>3. Saved' = Saved  BY <3>1, RowsFollowTheTable
    <3>4. Store!Halt  BY <3>1, <3>2, <3>3 DEF Store!Halt
    <3> QED  BY <2>2, <3>4 DEF Store!Next
  <2>3. CASE Restart
    <3>1. ~up /\ up' = TRUE /\ UNCHANGED <<table, disturbed, sent>>
          /\ \A t \in Fds : dpc'[t] = "recv"
      BY <2>3 DEF Restart, database, history
    <3>2. \A t \in Fds : Task(t) = Store!NoTask
      BY <3>1 DEF Task, Store!NoTask, Store!Task
    <3>3. \A t \in Fds : Task(t)' = Store!NoTask
      BY <3>1 DEF TaskInv
    <3>4. UNCHANGED [t \in Fds |-> Task(t)]  BY <3>2, <3>3
    <3>5. Saved' = Saved  BY <3>1, RowsFollowTheTable
    <3>6. Store!Restart  BY <3>1, <3>4, <3>5 DEF Store!Restart
    <3> QED  BY <3>6 DEF Store!Next
  <2>4. CASE UNCHANGED vars
    <3>1. UNCHANGED <<up, table, dpc, req, var, sent, disturbed>>
      BY <2>4 DEF vars, database, history
    <3>2. \A t \in Fds : Task(t)' = Task(t)  BY <3>1 DEF Task
    <3>3. Saved' = Saved  BY <3>1, RowsFollowTheTable
    <3> QED  BY <3>1, <3>2, <3>3 DEF Store!vars
  <2> QED  BY Steps, <2>1, <2>2, <2>3, <2>4
<1> QED
  BY <1>1, <1>2, TypeInvariant, TaskInvariant, IdInvariant, OpenInvariant,
     PTL DEF Spec, StoreSpec, Store!Spec
=============================================================================
