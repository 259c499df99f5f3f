------------------------ MODULE DocumentsRefinement ------------------------
(***************************************************************************)
(* What the handlers of 008, 010 and 011 do, as what DocumentStore says of *)
(* them: the rows are its documents, and a thread's place in its handler   *)
(* is how far the client's request is.                                     *)
(***************************************************************************)
EXTENDS Documents

(* How far the request of t is. *)
Task(t) ==
  LET At3(s, h, x) == [state |-> s, header |-> h, id |-> req[t].id, content |-> x]
  IN
  CASE ~up \/ dpc[t] = "recv" ->
         [state |-> "idle", header |-> "none", id |-> WrongId, content |-> NoText]
    [] up /\ dpc[t] \in {"008", "insert", "delete", "reset", "select"} ->
         At3("asked", req[t].header, req[t].content)
    [] up /\ dpc[t] = "115" ->
         [At3("done", "115", req[t].content) EXCEPT !.id = var[t].id]
    [] up /\ dpc[t] \in {"117", "118"} -> At3("done", dpc[t], NoText)
    [] up /\ dpc[t] = "return" -> At3("found", "011", var[t].selected)
    [] up /\ dpc[t] = "204" -> At3("done", "204", var[t].result)

Store == INSTANCE DocumentStore WITH
  documents <- Saved,
  task <- [t \in Fds |-> Task(t)],
  answers <- sent

(***************************************************************************)
(* The handlers, the statements and the crashes between them are requests  *)
(* on a set of documents that take effect at one moment: the insert, the   *)
(* delete, the select.  Only opens that overlap may answer with something  *)
(* else.                                                                   *)
(***************************************************************************)
StoreSpec == Store!Spec

=============================================================================
