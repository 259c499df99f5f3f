---------------------------- MODULE DocumentStore ----------------------------
(***************************************************************************)
(* What the saved documents promise, without the statements, the callback  *)
(* and the one querry_result of Documents: a set of documents that         *)
(* outlives the process.  Each request takes effect at one moment between  *)
(* its arrival and its answer, or not at all when the process ends; an     *)
(* answer is sent only after the effect.  An open is certain to answer     *)
(* with the document only when no other open was under way meanwhile.      *)
(***************************************************************************)
EXTENDS Sequences

CONSTANTS Fds, Ids, WrongId, Contents, Texts, NoText

VARIABLES
  up,         \* the process runs
  documents,  \* the saved documents
  task,       \* what each client has asked for, and how far that is
  disturbed,  \* the clients whose open met another one
  answers     \* what each client was answered, in order

vars == <<up, documents, task, disturbed, answers>>

Task(s, h, i, x) == [state |-> s, header |-> h, id |-> i, content |-> x]
NoTask == Task("idle", "none", WrongId, NoText)

Init ==
  /\ up = TRUE
  /\ documents = {}
  /\ task = [c \in Fds |-> NoTask]
  /\ disturbed = {}
  /\ answers = [c \in Fds |-> <<>>]

Is(c, s, h) == task[c].state = s /\ task[c].header = h
Becomes(c, s, h, i, x) == task' = [task EXCEPT ![c] = Task(s, h, i, x)]

Opening == {c \in Fds : Is(c, "asked", "011") \/ Is(c, "found", "011")}

Ask(c) ==
  /\ task[c] = NoTask
  /\ \/ /\ \/ \E x \in Contents : Becomes(c, "asked", "008", WrongId, x)
           \/ \E i \in Ids \cup {WrongId} : Becomes(c, "asked", "010", i, NoText)
        /\ UNCHANGED disturbed
     \/ /\ \E i \in Ids \cup {WrongId} : Becomes(c, "asked", "011", i, NoText)
        /\ disturbed' = IF Opening = {} THEN disturbed \ {c}
                        ELSE disturbed \cup Opening \cup {c}
  /\ UNCHANGED <<up, documents, answers>>

(* A new document has an id that nobody was ever told. *)
Save(c) ==
  /\ Is(c, "asked", "008")
  /\ \E i \in Ids :
       /\ \A d \in documents : d.uniq_id # i
       /\ \A o \in Fds : \A k \in DOMAIN answers[o] :
            answers[o][k].header = "115" => answers[o][k].id # i
       /\ documents' = documents \cup {[uniq_id |-> i, content |-> task[c].content]}
       /\ Becomes(c, "done", "115", i, task[c].content)
  /\ UNCHANGED <<up, disturbed, answers>>

(* A deletion that fails says so and has no effect. *)
Remove(c) ==
  /\ Is(c, "asked", "010")
  /\ \/ /\ documents' = {d \in documents : d.uniq_id # task[c].id}
        /\ Becomes(c, "done", "117", task[c].id, NoText)
     \/ /\ Becomes(c, "done", "118", task[c].id, NoText)
        /\ UNCHANGED documents
  /\ UNCHANGED <<up, disturbed, answers>>

(* The document, or nothing when there is none with that id. *)
Find(c) ==
  LET found == {d \in documents : d.uniq_id = task[c].id} IN
  /\ Is(c, "asked", "011")
  /\ \/ found = {} /\ Becomes(c, "found", "011", task[c].id, NoText)
     \/ \E d \in found : Becomes(c, "found", "011", task[c].id, d.content)
  /\ UNCHANGED <<up, documents, disturbed, answers>>

HandOver(c) ==
  /\ Is(c, "found", "011")
  /\ \E x \in IF c \in disturbed THEN Texts ELSE {task[c].content} :
       Becomes(c, "done", "204", task[c].id, x)
  /\ UNCHANGED <<up, documents, disturbed, answers>>

Answer(c) ==
  /\ task[c].state = "done"
  /\ answers' = [answers EXCEPT ![c] =
       Append(@, [header |-> task[c].header, id |-> task[c].id,
                  content |-> task[c].content])]
  /\ task' = [task EXCEPT ![c] = NoTask]
  /\ UNCHANGED <<up, documents, disturbed>>

(* Requests without an answer are lost, their effects are not. *)
Halt ==
  /\ up' = FALSE
  /\ task' = [c \in Fds |-> NoTask]
  /\ UNCHANGED <<documents, disturbed, answers>>

Restart == ~up /\ up' = TRUE /\ UNCHANGED <<documents, task, disturbed, answers>>

Next ==
  \/ up /\ \/ \E c \in Fds : \/ Ask(c) \/ Save(c) \/ Remove(c) \/ Find(c)
                             \/ HandOver(c) \/ Answer(c)
           \/ Halt
  \/ Restart

Spec == Init /\ [][Next]_vars

=============================================================================
