------------------------ MODULE UploadPipelineProofs ------------------------
(***************************************************************************)
(* Theorems about UploadPipeline, for any uploads, batches and failures:   *)
(* what a confirmed, a published and a failed upload leave in the four     *)
(* stores, and that the pipeline implements DocumentStore.                 *)
(***************************************************************************)
EXTENDS UploadPipeline, Naturals, TLAPS

-----------------------------------------------------------------------------
(* The inductive invariant: what each place of a request says of the        *)
(* stores, of its thread and of what has gone wrong.                        *)

Untouched(d) == docs[d] = "absent" /\ d \notin chunks /\ logs[d] = {} /\ vectors[d] = {}
Opened(d) == docs[d] = "processing" /\ d \notin chunks /\ logs[d] = {} /\ vectors[d] = {}
Logged(d) == docs[d] = "processing" /\ d \notin chunks /\ logs[d] = FirstLogs
Complete(d) == /\ docs[d] = "processed" /\ d \in chunks /\ vectors[d] = Batches
               /\ logs[d] = FirstLogs \cup LaterLogs

(* What the request has done to the stores by then. *)
Placed(d) ==
  /\ pc[d] \in {"idle", "store", "insert"} => Untouched(d)
  /\ pc[d] \in {"insertRefresh", "firstLogs"} => Opened(d)
  /\ pc[d] \in {"extract", "embed"} => Logged(d) /\ vectors[d] = {}
  /\ pc[d] = "upsert" => Logged(d)
  /\ pc[d] = "publish" => Logged(d) /\ vectors[d] = Batches
  /\ pc[d] = "publishRefresh" => Complete(d)
  /\ pc[d] \in {"cleanup", "mark"} => docs[d] \in {"processing", "processed"}
  /\ docs[d] = "processed" => d \in chunks

(* What it is going to answer. *)
Answers(d) ==
  /\ pc[d] \in {"idle", "store", "insert", "insertRefresh", "firstLogs", "extract", "embed",
                "upsert", "publish", "publishRefresh", "stopped"} => result[d] = "none"
  /\ pc[d] \in {"cleanup", "mark"} => result[d] = "error"
  /\ pc[d] = "answered" => result[d] # "none"
  /\ result[d] = "created" => Complete(d)

(* Where its thread can be; one that outlives the request has nothing       *)
(* published to spoil, unless it deletes what a failed commit left.         *)
Threads(d) ==
  /\ thread[d] = "none" \/ pc[d] \in {"store", "upsert", "cleanup", "stopped"}
       \/ (pc[d] = "unlink" /\ result[d] = "none")
  /\ pc[d] = "store" => thread[d] \in {"write", "ok", "failed"}
  /\ pc[d] = "upsert" => thread[d] \in {"look", "create", "send", "ok", "failed"}
  /\ pc[d] = "cleanup" => thread[d] \in {"delete", "ok", "failed"}
  /\ thread[d] \in {"look", "create", "send"} => docs[d] = "processing" /\ d \notin chunks
  /\ thread[d] \in {"look", "create"} => vectors[d] = {}
  /\ pc[d] = "upsert" /\ thread[d] = "ok" => vectors[d] = Batches
  /\ thread[d] = "delete" => "database" \in faults[d] /\ pc[d] \in {"cleanup", "unlink", "stopped"}
  /\ docs[d] = "processed" /\ "database" \notin faults[d] =>
       thread[d] = "none" /\ vectors[d] = Batches

Stopped(d) == faults[d] \cap {"cancel", "crash"} # {}

(* What is left behind has a cause. *)
Causes(d) ==
  /\ pc[d] = "cleanup" => "database" \in faults[d]
  /\ pc[d] = "stopped" \/ (pc[d] = "unlink" /\ result[d] = "none") => Stopped(d)
  /\ faults[d] \cap {"pinecone", "rollback", "cancel", "crash"} = {} =>
       /\ pc[d] = "upsert" /\ thread[d] = "failed" => vectors[d] = {}
       /\ pc[d] = "cleanup" => thread[d] # "failed"
       /\ pc[d] = "cleanup" /\ thread[d] = "ok" => vectors[d] = {}
       /\ pc[d] = "mark" => vectors[d] = {}
       /\ pc[d] \in {"unlink", "answered"} /\ result[d] = "error" => vectors[d] = {}
  /\ pc[d] \in {"unlink", "answered"} /\ docs[d] = "processing" =>
       Stopped(d) \/ faults[d] \cap {"database", "rollback"} # {}
  /\ pc[d] = "store" /\ thread[d] = "failed" => "disk" \in faults[d]
  /\ pc[d] = "answered" /\ d \in files => "disk" \in faults[d]

DocInv(d) == Placed(d) /\ Answers(d) /\ Threads(d) /\ Causes(d)

IInv == TypeOK /\ \A d \in Documents : DocInv(d)

-----------------------------------------------------------------------------
(* Types *)

(* What goes wrong is an event of the environment. *)
LEMMA FaultType ==
  ASSUME TypeOK, NEW d \in Documents, NEW event, Fault(d, event)
  PROVE  faults' \in [Documents -> SUBSET Events]
BY EnvAssumption DEF Fault, TypeOK

(* The initial state has the types. *)
LEMMA TypeInit == Init => TypeOK
BY DEF Init, TypeOK, Steps, ThreadStates

(* No step leaves the types, whichever part of the upload it belongs to. *)
LEMMA TypeStep == TypeOK /\ [Next]_vars => TypeOK'
<1> SUFFICES ASSUME TypeOK, [Next]_vars PROVE TypeOK'
  OBVIOUS
<1> USE DEF TypeOK, Steps, ThreadStates, Goto, Run, Raise, database, pinecone
<1>1. CASE UNCHANGED vars BY <1>1 DEF vars
<1>2. CASE Crash
  <2>1. faults' \in [Documents -> SUBSET Events] BY <1>2 DEF Crash, Events
  <2> QED BY <1>2, <2>1 DEF Crash
<1>3. ASSUME NEW d \in Documents, Accept(d) \/ Write(d) \/ Stored(d) PROVE TypeOK'
  <2>1. faults' \in [Documents -> SUBSET Events] BY <1>3, FaultType DEF Accept, Write, Stored
  <2> QED BY <1>3, <2>1 DEF Accept, Write, Stored
<1>4. ASSUME NEW d \in Documents, Insert(d) \/ InsertRefresh(d) \/ CommitFirstLogs(d) PROVE TypeOK'
  <2>1. faults' \in [Documents -> SUBSET Events]
    BY <1>4, FaultType DEF Insert, InsertRefresh, CommitFirstLogs
  <2> QED BY <1>4, <2>1 DEF Insert, InsertRow, InsertRefresh, CommitFirstLogs, SaveFirstLogs
<1>5. ASSUME NEW d \in Documents, Extract(d) \/ Embed(d) \/ Upserted(d) PROVE TypeOK'
  <2>1. faults' \in [Documents -> SUBSET Events] BY <1>5, FaultType DEF Extract, Embed, Upserted
  <2> QED BY <1>5, <2>1 DEF Extract, Embed, Upserted
<1>6. ASSUME NEW d \in Documents, PineconeFails(d) PROVE TypeOK'
  <2>1. faults' \in [Documents -> SUBSET Events] BY <1>6, FaultType DEF PineconeFails
  <2>2. vectors' \in [Documents -> SUBSET Batches] BY <1>6 DEF PineconeFails
  <2>3. index' \in BOOLEAN BY <1>6 DEF PineconeFails
  <2> QED BY <1>6, <2>1, <2>2, <2>3 DEF PineconeFails
<1>7. ASSUME NEW d \in Documents, ResolveIndexHost(d) \/ CreateIndex(d) \/ DeleteVectors(d)
      PROVE  TypeOK'
  BY <1>7 DEF ResolveIndexHost, CreateIndex, DeleteVectors
<1>8. ASSUME NEW d \in Documents, NEW b \in Batches, UpsertBatch(d, b) PROVE TypeOK'
  BY <1>8 DEF UpsertBatch
<1>9. ASSUME NEW d \in Documents, Publish(d) \/ PublishRefresh(d) PROVE TypeOK'
  <2>1. faults' \in [Documents -> SUBSET Events] BY <1>9, FaultType DEF Publish, PublishRefresh, DatabaseFails
  <2> QED BY <1>9, <2>1 DEF Publish, PublishRefresh, DatabaseFails, SaveProcessed, CleanUp
<1>10. ASSUME NEW d \in Documents, CleanedUp(d) \/ Mark(d) \/ Unlink(d) PROVE TypeOK'
  <2>1. faults' \in [Documents -> SUBSET Events] BY <1>10, FaultType DEF CleanedUp, Mark, Unlink
  <2> QED BY <1>10, <2>1 DEF CleanedUp, Mark, MarkFailed, Unlink
<1>11. ASSUME NEW d \in Documents, Cancel(d) PROVE TypeOK'
  <2>1. faults' \in [Documents -> SUBSET Events] BY <1>11, FaultType DEF Cancel
  <2>2. UNCHANGED database \/ InsertRow(d) \/ SaveFirstLogs(d) \/ SaveProcessed(d) \/ MarkFailed(d)
    BY <1>11 DEF Cancel
  <2>3. /\ docs' \in [Documents -> {"absent", "processing", "processed", "failed"}]
        /\ chunks' \in SUBSET Documents
        /\ logs' \in [Documents -> SUBSET (FirstLogs \cup LaterLogs \cup {"failed"})]
    BY <2>2 DEF InsertRow, SaveFirstLogs, SaveProcessed, MarkFailed
  <2> QED BY <1>11, <2>1, <2>3 DEF Cancel
<1> QED BY <1>1, <1>2, <1>3, <1>4, <1>5, <1>6, <1>7, <1>8, <1>9, <1>10, <1>11 DEF Next, Continue

-----------------------------------------------------------------------------
(* One upload's step *)

(* Nothing that belongs to upload e changes. *)
Same(e) ==
  /\ docs'[e] = docs[e] /\ logs'[e] = logs[e] /\ (e \in chunks' <=> e \in chunks)
  /\ vectors'[e] = vectors[e] /\ (e \in files' <=> e \in files)
  /\ pc'[e] = pc[e] /\ thread'[e] = thread[e] /\ result'[e] = result[e] /\ faults'[e] = faults[e]

(* A step of one upload, or of its thread, leaves the others alone. *)
LEMMA OthersSame ==
  ASSUME TypeOK, NEW d \in Documents, NEW e \in Documents, e # d,
         Accept(d) \/ Continue(d) \/ Cancel(d)
  PROVE  Same(e)
<1> USE DEF TypeOK, Same, Goto, Run, Raise, Fault, database, pinecone
<1>1. CASE Accept(d) \/ Write(d) \/ Stored(d)
  BY <1>1 DEF Accept, Write, Stored
<1>2. CASE Insert(d) \/ InsertRefresh(d) \/ CommitFirstLogs(d)
  BY <1>2 DEF Insert, InsertRow, InsertRefresh, CommitFirstLogs, SaveFirstLogs
<1>3. CASE Extract(d) \/ Embed(d) \/ Upserted(d)
  BY <1>3 DEF Extract, Embed, Upserted
<1>4. CASE PineconeFails(d) BY <1>4 DEF PineconeFails
<1>5. CASE ResolveIndexHost(d) \/ CreateIndex(d) \/ DeleteVectors(d)
  BY <1>5 DEF ResolveIndexHost, CreateIndex, DeleteVectors
<1>6. ASSUME NEW b \in Batches, UpsertBatch(d, b) PROVE Same(e)
  BY <1>6 DEF UpsertBatch
<1>7. CASE Publish(d) \/ PublishRefresh(d)
  BY <1>7 DEF Publish, PublishRefresh, DatabaseFails, SaveProcessed, CleanUp
<1>8. CASE CleanedUp(d) \/ Mark(d) \/ Unlink(d)
  BY <1>8 DEF CleanedUp, Mark, MarkFailed, Unlink
<1>9. CASE Cancel(d)
  <2>1. UNCHANGED database \/ InsertRow(d) \/ SaveFirstLogs(d) \/ SaveProcessed(d) \/ MarkFailed(d)
    BY <1>9 DEF Cancel
  <2>2. docs'[e] = docs[e] /\ logs'[e] = logs[e] /\ (e \in chunks' <=> e \in chunks)
    BY <2>1 DEF InsertRow, SaveFirstLogs, SaveProcessed, MarkFailed
  <2> QED BY <1>9, <2>2 DEF Cancel
<1> QED BY <1>1, <1>2, <1>3, <1>4, <1>5, <1>6, <1>7, <1>8, <1>9 DEF Continue

(* The invariant of an upload is about nothing but that upload. *)
LEMMA SameKept == ASSUME NEW e, DocInv(e), Same(e) PROVE DocInv(e)'
BY DEF DocInv, Placed, Untouched, Opened, Logged, Complete, Answers, Threads, Causes, Stopped, Same

(* Validation and the temporary file. *)
LEMMA StoreKept ==
  ASSUME TypeOK, NEW d \in Documents, DocInv(d), Accept(d) \/ Write(d) \/ Stored(d)
  PROVE  DocInv(d)'
<1> USE DEF TypeOK, DocInv, Placed, Untouched, Opened, Logged, Complete, Answers, Threads, Causes,
            Stopped, Goto, Run, Raise, Fault, database, pinecone
<1>1. CASE Accept(d) BY <1>1 DEF Accept
<1>2. CASE Write(d) BY <1>2 DEF Write
<1>3. CASE Stored(d) BY <1>3 DEF Stored
<1> QED BY <1>1, <1>2, <1>3

(* The row and its first logs. *)
LEMMA InsertKept ==
  ASSUME TypeOK, NEW d \in Documents, DocInv(d), Insert(d) \/ InsertRefresh(d) \/ CommitFirstLogs(d)
  PROVE  DocInv(d)'
<1> USE DEF TypeOK, DocInv, Placed, Untouched, Opened, Logged, Complete, Answers, Threads, Causes,
            Stopped, Goto, Run, Raise, Fault, database, pinecone
<1>1. CASE Insert(d) BY <1>1 DEF Insert, InsertRow
<1>2. CASE InsertRefresh(d) BY <1>2 DEF InsertRefresh
<1>3. CASE CommitFirstLogs(d)
  <2>1. SaveFirstLogs(d) => logs'[d] = FirstLogs BY <1>3 DEF CommitFirstLogs, SaveFirstLogs
  <2>2. CASE SaveFirstLogs(d) /\ Goto(d, "extract") /\ UNCHANGED <<result, faults>>
    BY <1>3, <2>1, <2>2 DEF CommitFirstLogs, SaveFirstLogs
  <2>3. CASE Fault(d, "database") /\ Raise(d, "unlink")
    BY <1>3, <2>1, <2>3 DEF CommitFirstLogs, SaveFirstLogs
  <2> QED BY <1>3, <2>2, <2>3 DEF CommitFirstLogs
<1> QED BY <1>1, <1>2, <1>3

(* Extraction, embedding, and the return of the upsert. *)
LEMMA ProcessKept ==
  ASSUME TypeOK, NEW d \in Documents, DocInv(d), Extract(d) \/ Embed(d) \/ Upserted(d)
  PROVE  DocInv(d)'
<1> USE DEF TypeOK, DocInv, Placed, Untouched, Opened, Logged, Complete, Answers, Threads, Causes,
            Stopped, Goto, Run, Raise, Fault, database, pinecone
<1>1. CASE Extract(d) BY <1>1 DEF Extract
<1>2. CASE Embed(d) BY <1>2 DEF Embed
<1>3. CASE Upserted(d) BY <1>3 DEF Upserted
<1> QED BY <1>1, <1>2, <1>3

(* The thread that talks to Pinecone. *)
LEMMA PineconeKept ==
  ASSUME TypeOK, NEW d \in Documents, DocInv(d),
         \/ PineconeFails(d) \/ ResolveIndexHost(d) \/ CreateIndex(d) \/ DeleteVectors(d)
         \/ \E b \in Batches : UpsertBatch(d, b)
  PROVE  DocInv(d)'
<1> USE DEF TypeOK, DocInv, Placed, Untouched, Opened, Logged, Complete, Answers, Threads, Causes,
            Stopped, Goto, Run, Raise, Fault, database, pinecone
<1>1. CASE PineconeFails(d) BY <1>1 DEF PineconeFails
<1>2. CASE ResolveIndexHost(d) BY <1>2 DEF ResolveIndexHost
<1>3. CASE CreateIndex(d) BY <1>3 DEF CreateIndex
<1>4. CASE DeleteVectors(d) BY <1>4 DEF DeleteVectors
<1>5. ASSUME NEW b \in Batches, UpsertBatch(d, b) PROVE DocInv(d)'
  BY <1>5 DEF UpsertBatch
<1> QED BY <1>1, <1>2, <1>3, <1>4, <1>5

(* The last transaction. *)
LEMMA PublishKept ==
  ASSUME TypeOK, NEW d \in Documents, DocInv(d), Publish(d) \/ PublishRefresh(d)
  PROVE  DocInv(d)'
<1> USE DEF TypeOK, DocInv, Placed, Untouched, Opened, Logged, Complete, Answers, Threads, Causes,
            Stopped, Goto, Run, Raise, Fault, database, pinecone
<1>1. CASE Publish(d) BY <1>1 DEF Publish, DatabaseFails, SaveProcessed, CleanUp
<1>2. CASE PublishRefresh(d) BY <1>2 DEF PublishRefresh, DatabaseFails, CleanUp
<1> QED BY <1>1, <1>2

(* The handlers and the finally clause. *)
LEMMA HandlersKept ==
  ASSUME TypeOK, NEW d \in Documents, DocInv(d), CleanedUp(d) \/ Mark(d) \/ Unlink(d)
  PROVE  DocInv(d)'
<1> USE DEF TypeOK, DocInv, Placed, Untouched, Opened, Logged, Complete, Answers, Threads, Causes,
            Stopped, Goto, Run, Raise, Fault, database, pinecone
<1>1. CASE CleanedUp(d) BY <1>1 DEF CleanedUp
<1>2. CASE Mark(d) BY <1>2 DEF Mark, MarkFailed
<1>3. CASE Unlink(d) BY <1>3 DEF Unlink
<1> QED BY <1>1, <1>2, <1>3

(* A cancelled request. *)
LEMMA CancelKept ==
  ASSUME TypeOK, NEW d \in Documents, DocInv(d), Cancel(d)
  PROVE  DocInv(d)'
BY DEF TypeOK, DocInv, Placed, Untouched, Opened, Logged, Complete, Answers, Threads, Causes,
       Stopped, Goto, Run, Raise, Fault, database, pinecone, Cancel, InsertRow, SaveFirstLogs,
       SaveProcessed, MarkFailed, Ended

(* A stopped worker. *)
LEMMA CrashKept ==
  ASSUME TypeOK, NEW d \in Documents, DocInv(d), Crash
  PROVE  DocInv(d)'
BY DEF TypeOK, DocInv, Placed, Untouched, Opened, Logged, Complete, Answers, Threads, Causes,
       Stopped, database, pinecone, Crash, Ended

-----------------------------------------------------------------------------
(* The invariant *)

(* It holds at first. *)
LEMMA IInvInit == Init => IInv
<1> SUFFICES ASSUME Init PROVE \A d \in Documents : DocInv(d)
  BY TypeInit DEF IInv
<1> QED BY DEF Init, DocInv, Placed, Untouched, Opened, Logged, Complete, Answers, Threads, Causes,
               Stopped

(* Every step keeps it: for the upload that steps by the lemmas above, for  *)
(* the others because nothing of theirs changes.                            *)
LEMMA IInvStep == IInv /\ [Next]_vars => IInv'
<1> SUFFICES ASSUME IInv, [Next]_vars PROVE \A e \in Documents : DocInv(e)'
  BY TypeStep DEF IInv
<1>1. TypeOK /\ \A e \in Documents : DocInv(e) BY DEF IInv
<1>2. CASE UNCHANGED vars
  <2>1. \A e \in Documents : Same(e) BY <1>2 DEF vars, Same
  <2> QED BY <1>1, <2>1, SameKept
<1>3. CASE Crash BY <1>1, <1>3, CrashKept
<1>4. ASSUME NEW d \in Documents, Accept(d) \/ Continue(d) \/ Cancel(d)
      PROVE  \A e \in Documents : DocInv(e)'
  <2>1. ASSUME NEW e \in Documents, e # d PROVE DocInv(e)'
    BY <1>1, <1>4, <2>1, OthersSame, SameKept
  <2>2. DocInv(d)'
    BY <1>1, <1>4, StoreKept, InsertKept, ProcessKept, PineconeKept, PublishKept, HandlersKept,
       CancelKept DEF Continue
  <2> QED BY <2>1, <2>2
<1> QED BY <1>2, <1>3, <1>4 DEF Next

(* It holds for ever. *)
LEMMA SpecIInv == Spec => []IInv
BY IInvInit, IInvStep, PTL DEF Spec

-----------------------------------------------------------------------------
(* The theorems *)

(* Every variable keeps its shape. *)
THEOREM UploadTypes == Spec => []TypeOK
<1>1. IInv => TypeOK BY DEF IInv
<1> QED BY <1>1, SpecIInv, PTL

(* A 201 answer is true of the row, the chunks, the logs and the index, and *)
(* stays true: no thread of the upload, no handler and no other upload      *)
(* touches what it has confirmed.                                           *)
THEOREM ConfirmedIsComplete == Spec => []ConfirmedComplete
<1>1. IInv => ConfirmedComplete
  BY DEF IInv, DocInv, Answers, Complete, ConfirmedComplete, Confirmed
<1> QED BY <1>1, SpecIInv, PTL

(* What a chat accepts has its chunks and its vectors, unless a database    *)
(* call failed after the publishing commit.                                 *)
THEOREM PublishedIsSearchable == Spec => []ProcessedSearchable
<1>1. IInv => ProcessedSearchable
  BY DEF IInv, DocInv, Placed, Threads, ProcessedSearchable
<1> QED BY <1>1, SpecIInv, PTL

(* A failed upload whose vectors stay has met a failure of Pinecone or of a *)
(* rollback, or was stopped: else the handlers take back what a failed      *)
(* commit leaves.                                                           *)
THEOREM OrphansHaveCause == Spec => []NoOrphanVectors
<1>1. IInv => NoOrphanVectors
  <2> SUFFICES ASSUME IInv, NEW d \in Documents, Ended(d), docs[d] # "processed",
                      faults[d] \cap {"pinecone", "rollback", "cancel", "crash"} = {}
               PROVE  vectors[d] = {}
    BY DEF NoOrphanVectors
  <2>1. TypeOK /\ Answers(d) /\ Causes(d) BY DEF IInv, DocInv
  <2>2. pc[d] = "answered" BY <2>1 DEF Ended, Causes, Stopped
  <2>3. result[d] = "error" BY <2>1, <2>2 DEF TypeOK, Answers, Complete
  <2> QED BY <2>1, <2>2, <2>3 DEF Causes
<1> QED BY <1>1, SpecIInv, PTL

(* A document left in "processing" has met a failing database, or its       *)
(* upload was stopped.                                                      *)
THEOREM StuckHasItsCause == Spec => []StuckHasCause
<1>1. IInv => StuckHasCause
  <2> SUFFICES ASSUME IInv, NEW d \in Documents, Ended(d), docs[d] = "processing"
               PROVE  faults[d] \cap {"database", "rollback", "cancel", "crash"} # {}
    BY DEF StuckHasCause
  <2>1. Causes(d) BY DEF IInv, DocInv
  <2> QED BY <2>1 DEF Causes, Ended, Stopped
<1> QED BY <1>1, SpecIInv, PTL

(* A temporary file outlives its answered upload only if a file operation   *)
(* failed.                                                                  *)
THEOREM FileHasItsCause == Spec => []FileRemovedUnlessDisk
<1>1. IInv => FileRemovedUnlessDisk
  BY DEF IInv, DocInv, Causes, FileRemovedUnlessDisk
<1> QED BY <1>1, SpecIInv, PTL

-----------------------------------------------------------------------------
(* The refinement *)

Searchable == {d \in chunks : vectors[d] = Batches}
Answered == [d \in Documents |-> IF pc[d] = "answered" THEN result[d] ELSE "none"]

(* The pipeline begins as an empty library. *)
LEMMA StoreInit == Init => Store!Init
BY DEF Init, Store!Init

(* Only upload d has changed, and it keeps or changes its place in the      *)
(* library in one of the ways the library knows.                            *)
Unseen(d) ==
  docs'[d] = docs[d] /\ (d \in Searchable' <=> d \in Searchable) /\ Answered'[d] = Answered[d]

Seen(d) ==
  \/ /\ docs[d] = "absent" /\ docs'[d] = "processing"
     /\ (d \in Searchable' <=> d \in Searchable) /\ Answered[d] = "none" /\ Answered'[d] = "none"
  \/ /\ docs[d] = "processing" /\ docs'[d] = "processed"
     /\ d \in Searchable' /\ Answered[d] = "none" /\ Answered'[d] = "none"
  \/ /\ docs'[d] = docs[d] /\ d \in Searchable /\ d \notin Searchable'
     /\ Answered[d] = "none" /\ Answered'[d] = "none"
  \/ /\ docs[d] \in {"processing", "processed"} /\ docs'[d] = "failed"
     /\ (d \in Searchable' <=> d \in Searchable) /\ Answered[d] = "none" /\ Answered'[d] = "none"
  \/ /\ docs'[d] = docs[d] /\ docs[d] = "processed" /\ d \in Searchable /\ d \in Searchable'
     /\ Answered[d] = "none" /\ Answered'[d] = "created"
  \/ /\ docs'[d] = docs[d] /\ (d \in Searchable' <=> d \in Searchable)
     /\ Answered[d] = "none" /\ Answered'[d] = "error"

(* A step that is seen in one document alone is a step of the library. *)
LEMMA StoreStep ==
  ASSUME TypeOK, TypeOK', NEW d \in Documents, \A e \in Documents \ {d} : Same(e),
         Unseen(d) \/ Seen(d)
  PROVE  [Store!Next]_Store!vars
<1>1. /\ docs \in [Documents -> {"absent", "processing", "processed", "failed"}]
      /\ docs' \in [Documents -> {"absent", "processing", "processed", "failed"}]
      /\ Searchable \subseteq Documents /\ Searchable' \subseteq Documents
      /\ Answered \in [Documents -> {"none", "created", "error"}]
      /\ Answered' \in [Documents -> {"none", "created", "error"}]
  BY DEF TypeOK, Searchable, Answered
<1>2. \A e \in Documents \ {d} :
        docs'[e] = docs[e] /\ (e \in Searchable' <=> e \in Searchable) /\ Answered'[e] = Answered[e]
  BY DEF Same, Searchable, Answered
<1>3. CASE Unseen(d)
  <2>1. docs' = docs /\ Searchable' = Searchable /\ Answered' = Answered
    BY <1>1, <1>2, <1>3 DEF Unseen
  <2> QED BY <2>1 DEF Store!vars, Searchable, Answered
<1>4. CASE Seen(d)
  <2>1. docs'[d] = docs[d] => docs' = docs BY <1>1, <1>2
  <2>2. (d \in Searchable' <=> d \in Searchable) => Searchable' = Searchable BY <1>1, <1>2
  <2>3. Answered'[d] = Answered[d] => Answered' = Answered BY <1>1, <1>2
  <2>4. docs' = [docs EXCEPT ![d] = docs'[d]] BY <1>1, <1>2
  <2>5. d \in Searchable' => Searchable' = Searchable \cup {d} BY <1>1, <1>2
  <2>6. d \notin Searchable' => Searchable' = Searchable \ {d} BY <1>1, <1>2
  <2>7. Answered' = [Answered EXCEPT ![d] = Answered'[d]] BY <1>1, <1>2
  <2>8. Store!Accept(d) \/ Store!Publish(d) \/ Store!Strip(d) \/ Store!Fail(d)
          \/ Store!Confirm(d) \/ Store!Refuse(d)
    <3> USE DEF Store!Accept, Store!Publish, Store!Strip, Store!Fail, Store!Confirm, Store!Refuse,
                Store!Open
    <3>1. /\ Searchable = {x \in chunks : vectors[x] = Batches}
          /\ Searchable' = {x \in chunks' : vectors'[x] = Batches}
      BY DEF Searchable
    <3>2. /\ Answered = [x \in Documents |-> IF pc[x] = "answered" THEN result[x] ELSE "none"]
          /\ Answered' = [x \in Documents |-> IF pc'[x] = "answered" THEN result'[x] ELSE "none"]
      BY DEF Answered
    <3> QED BY <1>4, <2>1, <2>2, <2>3, <2>4, <2>5, <2>6, <2>7, <3>1, <3>2 DEF Seen
  <2> QED BY <2>8 DEF Store!Next
<1> QED BY <1>3, <1>4

(* The steps that no user of the library can tell from no step. *)
LEMMA InternalUnseen ==
  ASSUME TypeOK, NEW d \in Documents, DocInv(d),
         \/ Accept(d) \/ Write(d) \/ InsertRefresh(d) \/ CommitFirstLogs(d)
         \/ Extract(d) \/ Embed(d) \/ Upserted(d)
         \/ ResolveIndexHost(d) \/ CreateIndex(d) \/ PublishRefresh(d) \/ CleanedUp(d)
  PROVE  Unseen(d)
<1> USE DEF Unseen, Searchable, Answered, TypeOK, Goto, Run, Raise, database, pinecone
<1>1. CASE Accept(d) \/ Write(d) BY <1>1 DEF Accept, Write
<1>2. CASE InsertRefresh(d) \/ CommitFirstLogs(d)
  BY <1>2 DEF InsertRefresh, CommitFirstLogs, SaveFirstLogs
<1>3. CASE Extract(d) \/ Embed(d) \/ Upserted(d) BY <1>3 DEF Extract, Embed, Upserted
<1>4. CASE ResolveIndexHost(d) \/ CreateIndex(d) BY <1>4 DEF ResolveIndexHost, CreateIndex
<1>5. CASE PublishRefresh(d) \/ CleanedUp(d) BY <1>5 DEF PublishRefresh, DatabaseFails, CleanUp, CleanedUp
<1> QED BY <1>1, <1>2, <1>3, <1>4, <1>5

(* Vectors appear before their chunks do, and are only deleted from an      *)
(* upload that has not been answered.                                       *)
LEMMA VectorsSeen ==
  ASSUME TypeOK, NEW d \in Documents, DocInv(d),
         PineconeFails(d) \/ DeleteVectors(d) \/ \E b \in Batches : UpsertBatch(d, b)
  PROVE  Unseen(d) \/ Seen(d)
<1> USE DEF Unseen, Seen, Searchable, Answered, TypeOK, Run, database
<1>1. /\ UNCHANGED <<docs, chunks, pc, result>>
      /\ thread[d] \in {"look", "create", "send", "delete"}
  BY DEF PineconeFails, DeleteVectors, UpsertBatch
<1>2. CASE vectors'[d] = vectors[d] BY <1>1, <1>2
<1>3. CASE thread[d] = "send"
  <2>1. d \notin chunks BY <1>3 DEF DocInv, Threads
  <2> QED BY <1>1, <2>1
<1>4. CASE thread[d] = "delete" /\ vectors'[d] = {}
  <2>1. Answered[d] = "none" BY <1>4 DEF DocInv, Threads
  <2>2. d \notin Searchable' BY <1>1, <1>4, BatchesAssumption
  <2> QED BY <1>1, <2>1, <2>2
<1>5. thread[d] \in {"look", "create"} => vectors'[d] = vectors[d]
  BY DEF PineconeFails, DeleteVectors, UpsertBatch
<1>6. thread[d] = "delete" => vectors'[d] = vectors[d] \/ vectors'[d] = {}
  BY DEF PineconeFails, DeleteVectors, UpsertBatch
<1> QED BY <1>1, <1>2, <1>3, <1>4, <1>5, <1>6

(* The commits and the answers, and a request that is cancelled in one. *)
LEMMA CommitsSeen ==
  ASSUME TypeOK, NEW d \in Documents, DocInv(d), Insert(d) \/ Publish(d) \/ Mark(d) \/ Cancel(d)
  PROVE  Unseen(d) \/ Seen(d)
<1> USE DEF Unseen, Seen, Searchable, Answered, TypeOK, Goto, Raise, database, pinecone
<1>1. Answered[d] = "none" /\ Answered'[d] = "none" /\ vectors'[d] = vectors[d]
  BY DEF Insert, Publish, Mark, Cancel, DatabaseFails, CleanUp, Ended
<1>2. CASE UNCHANGED database BY <1>1, <1>2
<1>3. CASE SaveFirstLogs(d) BY <1>1, <1>3 DEF SaveFirstLogs
<1>4. CASE InsertRow(d) /\ pc[d] = "insert"
  BY <1>1, <1>4 DEF InsertRow, DocInv, Placed, Untouched
<1>5. CASE SaveProcessed(d) /\ pc[d] = "publish"
  <2>1. docs[d] = "processing" /\ docs'[d] = "processed"
    BY <1>5 DEF SaveProcessed, DocInv, Placed, Logged
  <2>2. d \in Searchable' BY <1>1, <1>5 DEF SaveProcessed, DocInv, Placed
  <2> QED BY <1>1, <2>1, <2>2
<1>6. CASE MarkFailed(d) /\ pc[d] = "mark"
  BY <1>1, <1>6 DEF MarkFailed, DocInv, Placed
<1> QED BY <1>2, <1>3, <1>4, <1>5, <1>6 DEF Insert, Publish, Mark, Cancel

(* The answer, when the temporary file is gone. *)
LEMMA AnswersSeen ==
  ASSUME TypeOK, NEW d \in Documents, DocInv(d), Stored(d) \/ Unlink(d)
  PROVE  Unseen(d) \/ Seen(d)
<1> USE DEF Searchable, Answered, TypeOK, Goto, Raise, database, pinecone
<1>1. docs' = docs /\ chunks' = chunks /\ vectors' = vectors /\ Answered[d] = "none"
  BY DEF Stored, Unlink
<1>2. CASE Stored(d)
  <2>1. Answered'[d] \in {"none", "error"} BY <1>2 DEF Stored
  <2> QED BY <1>1, <2>1 DEF Seen, Unseen
<1>3. CASE Unlink(d)
  <2>1. Answered'[d] = result[d]
    BY <1>3 DEF Unlink
  <2>2. CASE result[d] = "created"
    <3>1. docs[d] = "processed" /\ d \in Searchable
      BY <2>2 DEF DocInv, Answers, Complete
    <3> QED BY <1>1, <2>1, <2>2, <3>1 DEF Seen
  <2>3. CASE result[d] # "created"
    BY <1>1, <2>1, <2>3 DEF Seen, Unseen
  <2> QED BY <2>2, <2>3
<1> QED BY <1>2, <1>3

(* A stopped worker answers nobody and writes nothing. *)
LEMMA CrashUnseen == ASSUME TypeOK, Crash PROVE UNCHANGED Store!vars
<1>1. docs' = docs /\ chunks' = chunks /\ vectors' = vectors BY DEF Crash, database
<1>2. \A d \in Documents :
        (IF pc'[d] = "answered" THEN result'[d] ELSE "none")
          = (IF pc[d] = "answered" THEN result[d] ELSE "none")
  BY DEF Crash, Ended, TypeOK
<1>3. Answered' = Answered BY <1>2 DEF Answered
<1> QED BY <1>1, <1>3 DEF Store!vars, Answered

(* Every step of the pipeline is a step of the library, or unseen. *)
LEMMA StoreNext == IInv /\ IInv' /\ [Next]_vars => [Store!Next]_Store!vars
<1> SUFFICES ASSUME IInv, IInv', [Next]_vars PROVE [Store!Next]_Store!vars
  OBVIOUS
<1>1. TypeOK /\ TypeOK' /\ \A d \in Documents : DocInv(d) BY DEF IInv
<1>2. CASE UNCHANGED vars BY <1>2 DEF vars, Store!vars
<1>3. CASE Crash BY <1>1, <1>3, CrashUnseen
<1>4. ASSUME NEW d \in Documents, Accept(d) \/ Continue(d) \/ Cancel(d)
      PROVE  [Store!Next]_Store!vars
  <2>1. \A e \in Documents \ {d} : Same(e) BY <1>1, <1>4, OthersSame
  <2>2. Unseen(d) \/ Seen(d)
    BY <1>1, <1>4, InternalUnseen, VectorsSeen, CommitsSeen, AnswersSeen DEF Continue
  <2> QED BY <1>1, <2>1, <2>2, StoreStep
<1> QED BY <1>2, <1>3, <1>4 DEF Next

(* Whatever fails in whatever order, the users of the library see a         *)
(* document published whole or not at all, a confirmed one left alone, and  *)
(* nothing withdrawn after it was confirmed.                                *)
THEOREM PipelineImplementsStore == Spec => ImplementsStore
BY StoreInit, StoreNext, SpecIInv, PTL DEF Spec, ImplementsStore, Store!Spec

-----------------------------------------------------------------------------
(* Progress: how many places a request has at most before it, and how many  *)
(* calls its thread.                                                        *)
Ahead(s) ==
  CASE s = "idle" -> 13 [] s = "store" -> 12 [] s = "insert" -> 11
    [] s = "insertRefresh" -> 10 [] s = "firstLogs" -> 9 [] s = "extract" -> 8
    [] s = "embed" -> 7 [] s = "upsert" -> 6 [] s = "publish" -> 5
    [] s = "publishRefresh" -> 4 [] s = "cleanup" -> 3 [] s = "mark" -> 2
    [] s = "unlink" -> 1 [] s \in {"answered", "stopped"} -> 0

Calls(s) ==
  CASE s = "write" -> 6 [] s = "look" -> 5 [] s = "create" -> 4 [] s = "send" -> 3
    [] s = "delete" -> 2 [] s \in {"ok", "failed"} -> 1 [] s = "none" -> 0

(* The request goes on; or its thread does meanwhile; or a batch is sent.   *)
Onward(d) ==
  \/ Ahead(pc[d]') < Ahead(pc[d])
  \/ pc[d]' = pc[d] /\ Calls(thread[d]') < Calls(thread[d])
  \/ /\ pc[d]' = pc[d] /\ thread[d]' = thread[d]
     /\ \E b \in Batches \ vectors[d] : vectors[d]' = vectors[d] \cup {b}

Resting(d) == pc[d]' = pc[d] /\ thread[d]' = thread[d] /\ vectors[d]' = vectors[d]

(* Of the five groups of steps, each brings its own upload onward.          *)
LEMMA RequestOnward ==
  ASSUME TypeOK, NEW d \in Documents,
         \/ Accept(d) \/ Stored(d) \/ Insert(d) \/ InsertRefresh(d) \/ CommitFirstLogs(d)
         \/ Extract(d) \/ Embed(d) \/ Upserted(d) \/ Publish(d) \/ PublishRefresh(d)
         \/ CleanedUp(d) \/ Mark(d) \/ Unlink(d) \/ Cancel(d)
  PROVE  Ahead(pc[d]') < Ahead(pc[d])
<1> USE DEF TypeOK, Goto, Raise, Ahead
<1>1. CASE Accept(d) \/ Stored(d) BY <1>1 DEF Accept, Stored
<1>2. CASE Insert(d) \/ InsertRefresh(d) \/ CommitFirstLogs(d)
  BY <1>2 DEF Insert, InsertRefresh, CommitFirstLogs
<1>3. CASE Extract(d) \/ Embed(d) \/ Upserted(d) BY <1>3 DEF Extract, Embed, Upserted
<1>4. CASE Publish(d) \/ PublishRefresh(d) BY <1>4 DEF Publish, PublishRefresh, DatabaseFails, CleanUp
<1>5. CASE CleanedUp(d) \/ Mark(d) \/ Unlink(d) BY <1>5 DEF CleanedUp, Mark, Unlink
<1>6. CASE Cancel(d) BY <1>6 DEF Cancel, Ended, Steps
<1> QED BY <1>1, <1>2, <1>3, <1>4, <1>5, <1>6

LEMMA ThreadOnward ==
  ASSUME TypeOK, NEW d \in Documents,
         \/ Write(d) \/ PineconeFails(d) \/ ResolveIndexHost(d) \/ CreateIndex(d)
         \/ DeleteVectors(d) \/ \E b \in Batches : UpsertBatch(d, b)
  PROVE  Onward(d)
<1> USE DEF TypeOK, Run, Calls, Onward
<1>1. CASE Write(d) BY <1>1 DEF Write
<1>2. CASE PineconeFails(d) BY <1>2 DEF PineconeFails
<1>3. CASE ResolveIndexHost(d) BY <1>3 DEF ResolveIndexHost
<1>4. CASE CreateIndex(d) BY <1>4 DEF CreateIndex
<1>5. CASE DeleteVectors(d) BY <1>5 DEF DeleteVectors
<1>6. ASSUME NEW b \in Batches, UpsertBatch(d, b) PROVE Onward(d)
  <2>1. vectors[d]' = vectors[d] \cup {b} /\ b \in Batches \ vectors[d] BY <1>6 DEF UpsertBatch
  <2>2. CASE vectors'[d] = Batches BY <1>6, <2>2 DEF UpsertBatch
  <2>3. CASE vectors'[d] # Batches BY <1>6, <2>1, <2>3 DEF UpsertBatch
  <2> QED BY <2>2, <2>3
<1> QED BY <1>1, <1>2, <1>3, <1>4, <1>5, <1>6

LEMMA OwnOnward ==
  ASSUME TypeOK, NEW d \in Documents, Accept(d) \/ Continue(d) \/ Cancel(d)
  PROVE  Onward(d)
<1>1. Ahead(pc[d]') < Ahead(pc[d]) => Onward(d) BY DEF Onward
<1> QED BY <1>1, RequestOnward, ThreadOnward DEF Continue

(* A crash ends the requests under way and all threads. *)
LEMMA CrashOnward ==
  ASSUME TypeOK, Crash, NEW d \in Documents PROVE Onward(d) \/ Resting(d)
<1>1. vectors' = vectors BY DEF Crash, pinecone
<1>2. CASE ~Ended(d) /\ pc[d] # "idle"
  <2>1. pc'[d] = "stopped" BY <1>2 DEF Crash
  <2> QED BY <1>2, <2>1 DEF Onward, Ahead, Ended, TypeOK, Steps
<1>3. CASE ~(~Ended(d) /\ pc[d] # "idle")
  <2>1. pc'[d] = pc[d] /\ thread'[d] = "none" BY <1>3 DEF Crash
  <2>2. thread[d] = "none" \/ Calls("none") < Calls(thread[d]) BY DEF Calls, TypeOK, ThreadStates
  <2> QED BY <1>1, <2>1, <2>2 DEF Onward, Resting
<1> QED BY <1>2, <1>3

(* Every step of an upload brings it onward, and no step of another, not    *)
(* even one that creates the index it waits to create itself, sends it      *)
(* back: thirteen places, six calls at each and the batches are all it has, *)
(* so an upload that is not kept waiting ends, and so does its thread.      *)
THEOREM UploadsAdvance ==
  Spec => [][\A d \in Documents : /\ Continue(d) => Onward(d)
                                  /\ Onward(d) \/ Resting(d)]_vars
<1> DEFINE Step == \A d \in Documents : /\ Continue(d) => Onward(d)
                                        /\ Onward(d) \/ Resting(d)
<1>1. ASSUME TypeOK, [Next]_vars PROVE Step \/ UNCHANGED vars
  <2>1. \A d \in Documents : Continue(d) => Onward(d) BY <1>1, OwnOnward
  <2>2. ASSUME NEW d \in Documents, Accept(d) \/ Continue(d) \/ Cancel(d)
        PROVE  \A e \in Documents : Onward(e) \/ Resting(e)
    <3>1. Onward(d) BY <1>1, <2>2, OwnOnward
    <3>2. ASSUME NEW e \in Documents, e # d PROVE Same(e)
      BY <1>1, <2>2, <3>2, OthersSame
    <3>3. \A e \in Documents \ {d} : Resting(e) BY <3>2 DEF Same, Resting
    <3> QED BY <3>1, <3>3
  <2>3. CASE Crash BY <1>1, <2>1, <2>3, CrashOnward
  <2> QED BY <1>1, <2>1, <2>2, <2>3 DEF Next
<1>2. TypeOK /\ [Next]_vars => [Step]_vars BY <1>1
<1> QED BY <1>2, UploadTypes, PTL DEF Spec

=============================================================================
