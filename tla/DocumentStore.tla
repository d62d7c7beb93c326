----------------------------- MODULE DocumentStore -----------------------------
(***************************************************************************)
(* What the document library promises its users: a document is worked on,  *)
(* published whole or not at all, and a confirmed one stays as it is.  A   *)
(* document whose upload was not confirmed may be withdrawn, may lose its  *)
(* vectors, or may be left as it was when its upload stopped.              *)
(***************************************************************************)

CONSTANT Documents

VARIABLES
  docs,        \* "absent", "processing", "processed" or "failed"
  searchable,  \* the documents whose chunks and vectors are all there
  answered     \* "none", "created" or "error"

vars == <<docs, searchable, answered>>

Init ==
  /\ docs = [d \in Documents |-> "absent"]
  /\ searchable = {}
  /\ answered = [d \in Documents |-> "none"]

Open(d) == answered[d] = "none"

Accept(d) ==
  /\ Open(d) /\ docs[d] = "absent"
  /\ docs' = [docs EXCEPT ![d] = "processing"]
  /\ UNCHANGED <<searchable, answered>>

(* The status, the chunks and the vectors appear together. *)
Publish(d) ==
  /\ Open(d) /\ docs[d] = "processing"
  /\ docs' = [docs EXCEPT ![d] = "processed"]
  /\ searchable' = searchable \cup {d}
  /\ UNCHANGED answered

Strip(d) ==
  /\ Open(d) /\ d \in searchable
  /\ searchable' = searchable \ {d}
  /\ UNCHANGED <<docs, answered>>

(* Giving up on a document that is worked on, or withdrawing one that is    *)
(* published and was never confirmed.                                       *)
Fail(d) ==
  /\ Open(d) /\ docs[d] \in {"processing", "processed"}
  /\ docs' = [docs EXCEPT ![d] = "failed"]
  /\ UNCHANGED <<searchable, answered>>

Confirm(d) ==
  /\ Open(d) /\ docs[d] = "processed" /\ d \in searchable
  /\ answered' = [answered EXCEPT ![d] = "created"]
  /\ UNCHANGED <<docs, searchable>>

Refuse(d) ==
  /\ Open(d)
  /\ answered' = [answered EXCEPT ![d] = "error"]
  /\ UNCHANGED <<docs, searchable>>

Next == \E d \in Documents :
  Accept(d) \/ Publish(d) \/ Strip(d) \/ Fail(d) \/ Confirm(d) \/ Refuse(d)

Spec == Init /\ [][Next]_vars

=============================================================================
