----------------------------- MODULE Documents -----------------------------
(***************************************************************************)
(* The saved documents: the requests 008 (save), 010 (delete) and 011      *)
(* (open) of a client thread, the SQL_Handler they share, and the table    *)
(* DOCUMENTS, which outlives the server process.                           *)
(*                                                                         *)
(* SQLite runs one sqlite3_exec of a connection at a time, so a statement  *)
(* and the callbacks for its rows are one step.  What SQL_Find does before *)
(* and after the statement, on the one querry_result of the process, is    *)
(* under no mutex: these are steps of their own.                           *)
(***************************************************************************)
EXTENDS Naturals, Sequences, SequencesExt

CONSTANTS
  Fds,          \* descriptors of the accepted connections
  Ids,          \* what random_string_no_start_digit(6) may return
  WrongId,      \* an id that no document has
  Contents,     \* the texts of the notepads
  NoText,       \* the empty string, which a select without rows leaves
  Torn,         \* what a read of a string that is being assigned may return
  Openers,      \* the clients that open documents
  Failing,      \* the statements that may fail: "insert", "delete", "select"
  MaxRequests,  \* bound: how many requests each client sends
  MaxStarts,    \* bound: how often the server is started
  IdsUnique     \* no two documents are given the same id

ASSUME DocumentsAssumption ==
  /\ Openers \subseteq Fds
  /\ Failing \subseteq {"insert", "delete", "select"}
  /\ {NoText, Torn} \cap Contents = {} /\ NoText # Torn
  /\ WrongId \notin Ids
  /\ MaxRequests \in Nat /\ MaxStarts \in Nat \ {0}
  /\ IdsUnique \in BOOLEAN

VARIABLES
  up,             \* the server process runs
  starts,         \* how often it has been started
  table,          \* the rows of DOCUMENTS, by their ID
  last_id,        \* the greatest ID the table ever had (AUTOINCREMENT)
  querry_result,  \* SQL_Handler::querry_result.result
  dpc,            \* where each thread is
  req,            \* the request each thread is dealing with
  var,            \* result and saved_file_unique_id, the locals of a handler
  sent,           \* the messages sent to each client, in order
  given,          \* history: the ids that were generated
  deleted,        \* history: the ids that a DELETE was executed for
  disturbed       \* history: the clients whose open met another one

history == <<given, deleted, disturbed>>
database == <<table, last_id>>
vars == <<up, starts, database, querry_result, dpc, req, var, sent, history>>

Row(i, x) == [uniq_id |-> i, content |-> x]
Texts == Contents \cup {NoText, Torn}
Idle == [header |-> "none", id |-> WrongId, content |-> NoText, n |-> 0]
NoVar == [result |-> NoText, id |-> WrongId, selected |-> NoText]

Init ==
  /\ up = TRUE /\ starts = 1
  /\ table = [k \in {} |-> Row(WrongId, NoText)] /\ last_id = 0
  /\ querry_result = NoText
  /\ dpc = [t \in Fds |-> "recv"]
  /\ req = [t \in Fds |-> Idle]
  /\ var = [t \in Fds |-> NoVar]
  /\ sent = [t \in Fds |-> <<>>]
  /\ given = {} /\ deleted = {} /\ disturbed = {}

At(t, p) == up /\ dpc[t] = p
Goto(t, p) == dpc' = [dpc EXCEPT ![t] = p]

(* The process ends: all that is left of it is the database. *)
Crash ==
  /\ up' = FALSE
  /\ UNCHANGED <<starts, database, querry_result, dpc, req, var, sent, history>>

(* SendToClient(client_descriptor, ...): the document it is about is not on *)
(* the wire for a 115 or a 117.                                             *)
Answer(t, h, i, x) ==
  /\ sent' = [sent EXCEPT ![t] = Append(@, [header |-> h, id |-> i, content |-> x])]
  /\ Goto(t, "recv")
  /\ var' = [var EXCEPT ![t] = NoVar]

-----------------------------------------------------------------------------
Sent(h) == UNION {{m \in ToSet(sent[t]) : m.header = h} : t \in Fds}

(* What a user types into the windows for an id: one that a client was     *)
(* told, or a mistaken one.                                                *)
TypedIds == {m.id : m \in Sent("115")} \cup {WrongId}

Request(t, h, i, x) ==
  req' = [req EXCEPT ![t] = [header |-> h, id |-> i, content |-> x, n |-> @.n + 1]]

(* The threads between the head of SQL_Find and its return. *)
Opening == {u \in Fds : dpc[u] \in {"reset", "select", "return"}}

(* recv returns a request; substr(3) of the buffer is the text or the id.  *)
Receive(t) ==
  /\ At(t, "recv")
  /\ req[t].n < MaxRequests
  /\ \/ /\ \/ \E x \in Contents : Request(t, "008", WrongId, x) /\ Goto(t, "008")
           \/ \E i \in TypedIds : Request(t, "010", i, NoText) /\ Goto(t, "delete")
        /\ UNCHANGED disturbed
     \/ /\ t \in Openers
        /\ \E i \in TypedIds : Request(t, "011", i, NoText) /\ Goto(t, "reset")
        /\ disturbed' = IF Opening = {} THEN disturbed \ {t}
                        ELSE disturbed \cup Opening \cup {t}
  /\ UNCHANGED <<up, starts, database, querry_result, var, sent, given, deleted>>

-----------------------------------------------------------------------------
(* 008: save_file. *)

(* Mutant: the generated id is not kept. *)
GenerateId_Discards(t) ==
  /\ At(t, "008")
  /\ \E i \in Ids : given' = given \cup {i}
  /\ Goto(t, "insert")
  /\ UNCHANGED <<up, starts, database, querry_result, req, var, sent, deleted, disturbed>>

(* The id is drawn before the insert and never looked up in the table. *)
GenerateId(t) ==
  /\ At(t, "008")
  /\ \E i \in Ids :
       /\ IdsUnique => i \notin given
       /\ var' = [var EXCEPT ![t].id = i]
       /\ given' = given \cup {i}
  /\ Goto(t, "insert")
  /\ UNCHANGED <<up, starts, database, querry_result, req, sent, deleted, disturbed>>

(* SQL_Insert returns true whatever sqlite3_exec returned: a full disk, a  *)
(* locked file, a text with an apostrophe in it.                           *)
Insert(t) ==
  /\ At(t, "insert")
  /\ \/ /\ last_id' = last_id + 1
        /\ table' = [k \in DOMAIN table \cup {last_id'} |->
                      IF k = last_id' THEN Row(var[t].id, req[t].content) ELSE table[k]]
     \/ "insert" \in Failing /\ UNCHANGED database
  /\ Goto(t, "115")
  /\ UNCHANGED <<up, starts, querry_result, req, var, sent, history>>

ReplySaved(t) ==
  /\ At(t, "115")
  /\ Answer(t, "115", var[t].id, req[t].content)
  /\ UNCHANGED <<up, starts, database, querry_result, req, history>>

-----------------------------------------------------------------------------
(* 010: delete_file. *)

(* Mutant: DELETE without its WHERE. *)
Without_All(i) == [k \in {} |-> table[k]]

Without(i) == [k \in {j \in DOMAIN table : table[j].uniq_id # i} |-> table[k]]

(* Mutant: SQL_Delete returns true on an error, as SQL_Insert does. *)
Delete_AlwaysTrue(t) ==
  /\ At(t, "delete")
  /\ \/ table' = Without(req[t].id)
     \/ "delete" \in Failing /\ UNCHANGED table
  /\ UNCHANGED last_id
  /\ deleted' = deleted \cup {req[t].id}
  /\ Goto(t, "117")
  /\ UNCHANGED <<up, starts, querry_result, req, var, sent, given, disturbed>>

(* DELETE succeeds whether or not a row has the id. *)
Delete(t) ==
  /\ At(t, "delete")
  /\ \/ /\ table' = Without(req[t].id)
        /\ deleted' = deleted \cup {req[t].id}
        /\ Goto(t, "117")
     \/ /\ "delete" \in Failing
        /\ Goto(t, "118")
        /\ UNCHANGED <<table, deleted>>
  /\ UNCHANGED <<up, starts, last_id, querry_result, req, var, sent, given, disturbed>>

ReplyDeleted(t) ==
  /\ At(t, "117") \/ At(t, "118")
  /\ Answer(t, dpc[t], req[t].id, NoText)
  /\ UNCHANGED <<up, starts, database, querry_result, req, history>>

-----------------------------------------------------------------------------
(* 011: open, through SQL_Find and SQL_Callback_Handler. *)

Found(i) == {k \in DOMAIN table : table[k].uniq_id = i}

(* Another thread is inside an assignment to querry_result: at the head of *)
(* SQL_Find, or in the callback for a row.                                 *)
Resetting(t) == \E u \in Fds \ {t} : dpc[u] = "reset"
BeingAssigned(t) ==
  \/ Resetting(t)
  \/ \E u \in Fds \ {t} : dpc[u] = "select" /\ Found(req[u].id) # {}

(* What is in a string, or in a copy of it, when x was to be and another   *)
(* assignment came between; the other outcome is the end of the process.   *)
Raced(x, race) == {x} \cup (IF race THEN {Torn} ELSE {})

(* Mutant: querry_result is not emptied before the statement. *)
ResetResult_Keeps(t) ==
  /\ At(t, "reset")
  /\ Goto(t, "select")
  /\ UNCHANGED <<up, starts, database, querry_result, req, var, sent, history>>

ResetResult(t) ==
  /\ At(t, "reset")
  /\ \/ /\ querry_result' \in Raced(NoText, BeingAssigned(t))
        /\ Goto(t, "select")
        /\ UNCHANGED <<up, starts, database, req, var, sent, history>>
     \/ BeingAssigned(t) /\ Crash

(* The callback assigns querry_result once for every row: the last stays.  *)
(* After an error SQL_Find returns nullptr for a std::string, which throws *)
(* where nobody catches.  selected is history: what this query selected.   *)
Select(t) ==
  LET rows == Found(req[t].id)
      Selects(x) == var' = [var EXCEPT ![t].selected = x]
      last == {k \in rows : \A j \in rows : j <= k}
  IN
  /\ At(t, "select")
  /\ \/ /\ \/ rows = {} /\ Selects(NoText) /\ UNCHANGED querry_result
           \/ \E k \in last :
                /\ querry_result' \in Raced(table[k].content, Resetting(t))
                /\ Selects(table[k].content)
        /\ Goto(t, "return")
        /\ UNCHANGED <<up, starts, database, req, sent, history>>
     \/ rows # {} /\ Resetting(t) /\ Crash
     \/ "select" \in Failing /\ Crash

(* return this->querry_result.result *)
ReturnResult(t) ==
  /\ At(t, "return")
  /\ \/ /\ \E x \in Raced(querry_result, BeingAssigned(t)) :
             var' = [var EXCEPT ![t].result = x]
        /\ Goto(t, "204")
        /\ UNCHANGED <<up, starts, database, querry_result, req, sent, history>>
     \/ BeingAssigned(t) /\ Crash

ReplyOpened(t) ==
  /\ At(t, "204")
  /\ Answer(t, "204", req[t].id, var[t].result)
  /\ UNCHANGED <<up, starts, database, querry_result, req, history>>

-----------------------------------------------------------------------------
(* handle_error in any thread, or a signal, ends the process between any   *)
(* two steps.                                                              *)
ServerDies == up /\ starts < MaxStarts /\ Crash

(* The database is opened again; SQL_Create fails on the existing table    *)
(* and says so only on the console.  The clients ended with their          *)
(* connection, new ones take their place.                                  *)
Restart ==
  /\ ~up
  /\ starts < MaxStarts
  /\ up' = TRUE /\ starts' = starts + 1
  /\ querry_result' = NoText
  /\ dpc' = [t \in Fds |-> "recv"]
  /\ req' = [t \in Fds |-> [Idle EXCEPT !.n = req[t].n]]
  /\ var' = [t \in Fds |-> NoVar]
  /\ UNCHANGED <<database, sent, history>>

Next ==
  \/ \E t \in Fds :
       \/ Receive(t) \/ GenerateId(t) \/ Insert(t) \/ ReplySaved(t)
       \/ Delete(t) \/ ReplyDeleted(t)
       \/ ResetResult(t) \/ Select(t) \/ ReturnResult(t) \/ ReplyOpened(t)
  \/ ServerDies \/ Restart

Spec == Init /\ [][Next]_vars

-----------------------------------------------------------------------------
Answers == [header : {"115", "117", "118", "204"}, id : Ids \cup {WrongId},
            content : Texts]

TypeOK ==
  /\ up \in BOOLEAN /\ starts \in 1 .. MaxStarts
  /\ last_id \in Nat /\ DOMAIN table \subseteq 1 .. last_id
  /\ table \in [DOMAIN table -> [uniq_id : Ids, content : Contents]]
  /\ querry_result \in Texts
  /\ dpc \in [Fds -> {"recv", "008", "insert", "115", "delete", "117", "118",
                      "reset", "select", "return", "204"}]
  /\ req \in [Fds -> [header : {"none", "008", "010", "011"},
                      id : Ids \cup {WrongId}, content : Contents \cup {NoText},
                      n : 0 .. MaxRequests]]
  /\ var \in [Fds -> [result : Texts, id : Ids \cup {WrongId},
                      selected : Contents \cup {NoText}]]
  /\ sent \in [Fds -> Seq(Answers)]
  /\ given \subseteq Ids /\ deleted \subseteq Ids \cup {WrongId}
  /\ disturbed \subseteq Openers

(* What is in the database. *)
Saved == {table[k] : k \in DOMAIN table}

(***************************************************************************)
(* A document whose id was sent to its owner is in the database until      *)
(* somebody deletes it, also when the server ends and is started again     *)
(* in between (the handler of 008, SQL_Insert).                            *)
(***************************************************************************)
SavedStaysSaved ==
  \A m \in Sent("115") :
    m.id \in deleted \/ Row(m.id, m.content) \in Saved

(***************************************************************************)
(* Once a deletion has been confirmed no open finds the document again     *)
(* (the handlers of 010 and 011): nothing cached outlives the row.         *)
(***************************************************************************)
DeletedStaysDeleted == \A m \in Sent("117") : Found(m.id) = {}

(***************************************************************************)
(* An open answers with what its own query selected: neither a document    *)
(* asked for before nor half of another one (SQL_Find and the one          *)
(* querry_result of the process).                                          *)
(***************************************************************************)
OpenAnswersItsQuery ==
  \A t \in Fds : dpc[t] = "204" => var[t].result = var[t].selected

(***************************************************************************)
(* A document is addressed by its id alone: no two rows have the same one. *)
(***************************************************************************)
IdsIdentify ==
  \A j, k \in DOMAIN table : table[j].uniq_id = table[k].uniq_id => j = k

=============================================================================
