---------------------------- MODULE UploadPipeline ----------------------------
(***************************************************************************)
(* The upload of a PDF: DocumentService.upload_document in                 *)
(* src/app/services/document_service.py, with the services it calls.       *)
(*                                                                         *)
(* One request carries a document through four stores - the temporary      *)
(* file, the PostgreSQL tables, the Pinecone index, and the module         *)
(* variable that caches the index host - in three database transactions    *)
(* and several worker threads, and its exception handlers undo by hand     *)
(* what the failed step and the ones before it have left behind.           *)
(***************************************************************************)
EXTENDS FiniteSets

CONSTANTS
  Documents,  \* the uploads, each with the document it creates
  Batches,    \* the upsert requests one document's vectors take
  Env         \* what may go wrong, a subset of Events

(* disk: a file operation fails; provider: extraction, chunking or          *)
(* embedding fails; pinecone: an index operation fails; database: a query   *)
(* or a commit fails, the latter with or without having taken effect;       *)
(* rollback: so does the rollback that follows it; cancel: the server       *)
(* cancels a request; crash: the worker process stops.                      *)
Events == {"disk", "provider", "pinecone", "database", "rollback", "cancel", "crash"}

ASSUME EnvAssumption == Env \subseteq Events
ASSUME BatchesAssumption == Batches # {}

VARIABLES
  docs,     \* status of the row in documents
  chunks,   \* the documents whose chunk rows are committed
  logs,     \* the committed processing logs of each document
  vectors,  \* the batches of each document in the Pinecone index
  files,    \* the documents whose temporary file is on disk
  index,    \* the Pinecone index exists
  host,     \* its host is cached in the worker process
  pc,       \* where each request is
  thread,   \* what the worker thread it started is doing
  result,   \* how the request is going to be answered
  faults    \* what has gone wrong for each document (history)

database == <<docs, chunks, logs>>
pinecone == <<vectors, index, host>>
vars == <<docs, chunks, logs, vectors, files, index, host, pc, thread, result, faults>>

Steps == {"idle", "store", "insert", "insertRefresh", "firstLogs", "extract",
          "embed", "upsert", "publish", "publishRefresh", "cleanup", "mark",
          "unlink", "answered", "stopped"}

ThreadStates == {"none", "write", "look", "create", "send", "delete", "ok", "failed"}

FirstLogs == {"validation", "storage"}
LaterLogs == {"extraction", "chunking", "embedding", "vector_index", "persistence"}

Init ==
  /\ docs = [d \in Documents |-> "absent"]
  /\ chunks = {}
  /\ logs = [d \in Documents |-> {}]
  /\ vectors = [d \in Documents |-> {}]
  /\ files = {}
  /\ index \in BOOLEAN
  /\ host = FALSE
  /\ pc = [d \in Documents |-> "idle"]
  /\ thread = [d \in Documents |-> "none"]
  /\ result = [d \in Documents |-> "none"]
  /\ faults = [d \in Documents |-> {}]

Ended(d) == pc[d] \in {"answered", "stopped"}

Goto(d, step) == pc' = [pc EXCEPT ![d] = step]
Run(d, state) == thread' = [thread EXCEPT ![d] = state]

Fault(d, event) ==
  /\ event \in Env
  /\ faults' = [faults EXCEPT ![d] = @ \cup {event}]

(* The request goes on to the handler of its exception at the given step. *)
Raise(d, step) ==
  /\ Goto(d, step)
  /\ result' = [result EXCEPT ![d] = "error"]

-----------------------------------------------------------------------------
(* store_pdf, run once the upload has been validated.  A write that fails   *)
(* may leave the beginning of the file, and its caller knows no path to it. *)

Accept(d) ==
  /\ pc[d] = "idle"
  /\ Goto(d, "store") /\ Run(d, "write")
  /\ UNCHANGED <<database, pinecone, files, result, faults>>

Write(d) ==
  /\ thread[d] = "write"
  /\ \/ /\ files' = files \cup {d}
        /\ Run(d, "ok")
        /\ UNCHANGED faults
     \/ /\ files' \in {files, files \cup {d}}
        /\ Run(d, "failed")
        /\ Fault(d, "disk")
  /\ UNCHANGED <<database, pinecone, pc, result>>

(* await asyncio.to_thread(...) returns; stored_file is None on failure, so *)
(* that the finally clause deletes nothing.                                 *)
Stored(d) ==
  /\ pc[d] = "store"
  /\ \/ thread[d] = "ok" /\ Goto(d, "insert") /\ UNCHANGED result
     \/ thread[d] = "failed" /\ Raise(d, "answered")
  /\ Run(d, "none")
  /\ UNCHANGED <<database, pinecone, files, faults>>

-----------------------------------------------------------------------------
(* _create_processing_document: a commit, a refresh and a second commit.    *)
(* upload_document learns document_id from its return value only, so an     *)
(* exception anywhere in it leaves the handlers nothing to mark.            *)

InsertRow(d) == docs' = [docs EXCEPT ![d] = "processing"] /\ UNCHANGED <<chunks, logs>>

(* Mutant: an insertion that fails is answered outside the finally clause. *)
InsertUnguarded(d) ==
  /\ pc[d] = "insert"
  /\ \/ InsertRow(d) /\ Goto(d, "insertRefresh") /\ UNCHANGED <<result, faults>>
     \/ /\ InsertRow(d) \/ UNCHANGED database
        /\ Fault(d, "database")
        /\ Raise(d, "answered")
  /\ UNCHANGED <<pinecone, files, thread>>

Insert(d) ==
  /\ pc[d] = "insert"
  /\ \/ InsertRow(d) /\ Goto(d, "insertRefresh") /\ UNCHANGED <<result, faults>>
     \/ /\ InsertRow(d) \/ UNCHANGED database
        /\ Fault(d, "database")
        /\ Raise(d, "unlink")
  /\ UNCHANGED <<pinecone, files, thread>>

InsertRefresh(d) ==
  /\ pc[d] = "insertRefresh"
  /\ \/ Goto(d, "firstLogs") /\ UNCHANGED <<result, faults>>
     \/ Fault(d, "database") /\ Raise(d, "unlink")
  /\ UNCHANGED <<database, pinecone, files, thread>>

SaveFirstLogs(d) ==
  logs' = [logs EXCEPT ![d] = @ \cup FirstLogs] /\ UNCHANGED <<docs, chunks>>

CommitFirstLogs(d) ==
  /\ pc[d] = "firstLogs"
  /\ \/ SaveFirstLogs(d) /\ Goto(d, "extract") /\ UNCHANGED <<result, faults>>
     \/ /\ SaveFirstLogs(d) \/ UNCHANGED database
        /\ Fault(d, "database")
        /\ Raise(d, "unlink")
  /\ UNCHANGED <<pinecone, files, thread>>

-----------------------------------------------------------------------------
(* Extraction, chunking and embedding only compute; their logs wait in the  *)
(* database session for the last commit.  vector_ids_upserted is still      *)
(* empty, so the handlers skip the vectors.                                 *)

(* Mutant: an extraction that fails leaves the document unmarked. *)
ExtractUnmarked(d) ==
  /\ pc[d] = "extract"
  /\ \/ Goto(d, "embed") /\ UNCHANGED <<result, faults>>
     \/ Fault(d, "provider") /\ Raise(d, "unlink")
  /\ UNCHANGED <<database, pinecone, files, thread>>

Extract(d) ==
  /\ pc[d] = "extract"
  /\ \/ Goto(d, "embed") /\ UNCHANGED <<result, faults>>
     \/ Fault(d, "provider") /\ Raise(d, "mark")
  /\ UNCHANGED <<database, pinecone, files, thread>>

(* Mutant: the upsert is started and not awaited. *)
EmbedDetached(d) ==
  /\ pc[d] = "embed"
  /\ Goto(d, "publish") /\ Run(d, "look")
  /\ UNCHANGED <<database, pinecone, files, result, faults>>

Embed(d) ==
  /\ pc[d] = "embed"
  /\ \/ Goto(d, "upsert") /\ Run(d, "look") /\ UNCHANGED <<result, faults>>
     \/ Fault(d, "provider") /\ Raise(d, "mark") /\ UNCHANGED thread
  /\ UNCHANGED <<database, pinecone, files>>

-----------------------------------------------------------------------------
(* PineconeService in its thread.  The index is looked for, created when it *)
(* is missing, and its host remembered for every later call of the process. *)

(* Mutant: a failed index operation is tried again without end. *)
PineconeRetries(d) ==
  /\ thread[d] \in {"look", "create", "send", "delete"}
  /\ thread' = [thread EXCEPT ![d] = IF @ = "delete" THEN "delete" ELSE "look"]
  /\ Fault(d, "pinecone")
  /\ UNCHANGED <<database, pinecone, files, pc, result>>

(* A call that fails may have taken effect. *)
PineconeFails(d) ==
  /\ thread[d] \in {"look", "create", "send", "delete"}
  /\ Run(d, "failed")
  /\ Fault(d, "pinecone")
  /\ \/ UNCHANGED <<vectors, index>>
     \/ thread[d] = "create" /\ index' = TRUE /\ UNCHANGED vectors
     \/ /\ thread[d] = "send"
        /\ \E b \in Batches : vectors' = [vectors EXCEPT ![d] = @ \cup {b}]
        /\ UNCHANGED index
     \/ /\ thread[d] = "delete"
        /\ vectors' = [vectors EXCEPT ![d] = {}]
        /\ UNCHANGED index
  /\ UNCHANGED <<database, host, files, pc, result>>

ResolveIndexHost(d) ==
  /\ thread[d] = "look"
  /\ IF host \/ index THEN host' = TRUE /\ Run(d, "send")
                      ELSE UNCHANGED host /\ Run(d, "create")
  /\ UNCHANGED <<database, vectors, index, files, pc, result, faults>>

(* Of two threads that found no index, one creates it and the other's       *)
(* request is refused.                                                      *)
CreateIndex(d) ==
  /\ thread[d] = "create"
  /\ IF index THEN UNCHANGED <<index, host>> /\ Run(d, "failed")
              ELSE index' = TRUE /\ host' = TRUE /\ Run(d, "send")
  /\ UNCHANGED <<database, vectors, files, pc, result, faults>>

UpsertBatch(d, b) ==
  /\ thread[d] = "send"
  /\ b \notin vectors[d]
  /\ vectors' = [vectors EXCEPT ![d] = @ \cup {b}]
  /\ IF vectors'[d] = Batches THEN Run(d, "ok") ELSE UNCHANGED thread
  /\ UNCHANGED <<database, index, host, files, pc, result, faults>>

(* Mutant: a failed upsert is taken for a complete one. *)
UpsertedAnyhow(d) ==
  /\ pc[d] = "upsert"
  /\ thread[d] \in {"ok", "failed"}
  /\ Goto(d, "publish") /\ Run(d, "none")
  /\ UNCHANGED <<database, pinecone, files, result, faults>>

(* Only a complete upsert sets vector_ids_upserted: after a failed one the  *)
(* batches already sent are not cleaned up.                                 *)
Upserted(d) ==
  /\ pc[d] = "upsert"
  /\ \/ thread[d] = "ok" /\ Goto(d, "publish") /\ UNCHANGED result
     \/ thread[d] = "failed" /\ Raise(d, "mark")
  /\ Run(d, "none")
  /\ UNCHANGED <<database, pinecone, files, faults>>

-----------------------------------------------------------------------------
(* The last transaction: the status, the chunks and all the pending logs.   *)

(* Mutant: the status is published before the chunks. *)
SaveStatusOnly(d) ==
  /\ docs' = [docs EXCEPT ![d] = "processed"]
  /\ logs' = [logs EXCEPT ![d] = @ \cup LaterLogs]
  /\ UNCHANGED chunks

SaveProcessed(d) ==
  /\ docs' = [docs EXCEPT ![d] = "processed"]
  /\ chunks' = chunks \cup {d}
  /\ logs' = [logs EXCEPT ![d] = @ \cup LaterLogs]

(* Mutant: the vectors of a failed commit are not taken back. *)
CleanUpNothing(d) == Raise(d, "mark") /\ UNCHANGED thread

CleanUp(d) == Raise(d, "cleanup") /\ Run(d, "delete")

(* The handler of a failed database call rolls back before anything else:   *)
(* an exception from that leaves it at once.  Elsewhere no transaction is   *)
(* open when a handler begins, and a rollback has nothing to do.            *)
DatabaseFails(d) ==
  \/ Fault(d, "database") /\ CleanUp(d)
  \/ Fault(d, "rollback") /\ Raise(d, "unlink") /\ UNCHANGED thread

Publish(d) ==
  /\ pc[d] = "publish"
  /\ \/ /\ SaveProcessed(d) /\ Goto(d, "publishRefresh")
        /\ UNCHANGED <<thread, result, faults>>
     \/ (SaveProcessed(d) \/ UNCHANGED database) /\ DatabaseFails(d)
  /\ UNCHANGED <<pinecone, files>>

PublishRefresh(d) ==
  /\ pc[d] = "publishRefresh"
  /\ \/ /\ Goto(d, "unlink")
        /\ result' = [result EXCEPT ![d] = "created"]
        /\ UNCHANGED <<thread, faults>>
     \/ DatabaseFails(d)
  /\ UNCHANGED <<database, pinecone, files>>

-----------------------------------------------------------------------------
(* The handlers.  A Pinecone error of the cleanup is logged and swallowed;  *)
(* any other exception leaves the handler before it marks the document.     *)

DeleteVectors(d) ==
  /\ thread[d] = "delete"
  /\ vectors' = [vectors EXCEPT ![d] = {}]
  /\ Run(d, "ok")
  /\ UNCHANGED <<database, index, host, files, pc, result, faults>>

CleanedUp(d) ==
  /\ pc[d] = "cleanup"
  /\ \/ thread[d] \in {"ok", "failed"} /\ Goto(d, "mark")
     \/ thread[d] = "failed" /\ Goto(d, "unlink")
  /\ Run(d, "none")
  /\ UNCHANGED <<database, pinecone, files, result, faults>>

(* Mutant: a status that no reader of the row knows is written. *)
MarkError(d) ==
  /\ docs' = [docs EXCEPT ![d] = "error"]
  /\ logs' = [logs EXCEPT ![d] = @ \cup {"failed"}]
  /\ UNCHANGED chunks

MarkFailed(d) ==
  /\ docs' = [docs EXCEPT ![d] = "failed"]
  /\ logs' = [logs EXCEPT ![d] = @ \cup {"failed"}]
  /\ UNCHANGED chunks

(* _mark_document_failed swallows a database error. *)
Mark(d) ==
  /\ pc[d] = "mark"
  /\ \/ MarkFailed(d) /\ UNCHANGED faults
     \/ (MarkFailed(d) \/ UNCHANGED database) /\ Fault(d, "database")
  /\ Goto(d, "unlink")
  /\ UNCHANGED <<pinecone, files, thread, result>>

(* The finally clause, then the answer; an OSError is swallowed.  A request *)
(* that was cancelled has nobody to answer.                                 *)
Unlink(d) ==
  /\ pc[d] = "unlink"
  /\ \/ files' = files \ {d} /\ UNCHANGED faults
     \/ UNCHANGED files /\ Fault(d, "disk")
  /\ Goto(d, IF result[d] = "none" THEN "stopped" ELSE "answered")
  /\ UNCHANGED <<database, pinecone, thread, result>>

-----------------------------------------------------------------------------
(* CancelledError is no Exception: the handlers are skipped, the finally    *)
(* clause runs when store_pdf had returned, and the thread goes on alone.   *)
(* A commit that is cut off may have taken effect.                          *)
Cancel(d) ==
  /\ ~Ended(d) /\ pc[d] # "idle"
  /\ Goto(d, IF pc[d] \in {"store", "unlink"} THEN "stopped" ELSE "unlink")
  /\ result' = [result EXCEPT ![d] = "none"]
  /\ Fault(d, "cancel")
  /\ \/ UNCHANGED database
     \/ pc[d] = "insert" /\ InsertRow(d)
     \/ pc[d] = "firstLogs" /\ SaveFirstLogs(d)
     \/ pc[d] = "publish" /\ SaveProcessed(d)
     \/ pc[d] = "mark" /\ MarkFailed(d)
  /\ UNCHANGED <<pinecone, files, thread>>

(* The worker process stops, with its requests, threads and module state.   *)
(* Nothing looks for what it left when it starts again.                     *)
Crash ==
  LET hit == {d \in Documents : ~Ended(d) /\ pc[d] # "idle"}
  IN  /\ "crash" \in Env
      /\ hit # {}
      /\ pc' = [d \in Documents |-> IF d \in hit THEN "stopped" ELSE pc[d]]
      /\ result' = [d \in Documents |-> IF d \in hit THEN "none" ELSE result[d]]
      /\ faults' = [d \in Documents |->
                      IF d \in hit THEN faults[d] \cup {"crash"} ELSE faults[d]]
      /\ thread' = [d \in Documents |-> "none"]
      /\ host' = FALSE
      /\ UNCHANGED <<database, vectors, index, files>>

Continue(d) ==
  \/ Write(d) \/ Stored(d)
  \/ Insert(d) \/ InsertRefresh(d) \/ CommitFirstLogs(d)
  \/ Extract(d) \/ Embed(d)
  \/ PineconeFails(d) \/ ResolveIndexHost(d) \/ CreateIndex(d)
  \/ \E b \in Batches : UpsertBatch(d, b)
  \/ Upserted(d) \/ Publish(d) \/ PublishRefresh(d)
  \/ DeleteVectors(d) \/ CleanedUp(d) \/ Mark(d) \/ Unlink(d)

Next ==
  \/ \E d \in Documents : Accept(d) \/ Continue(d) \/ Cancel(d)
  \/ Crash

(* A request and its thread go on; no failure has to happen. *)
Spec == Init /\ [][Next]_vars
FairSpec == Spec /\ \A d \in Documents : WF_vars(Continue(d))

-----------------------------------------------------------------------------
(* Properties *)

(* Every variable keeps its shape. *)
TypeOK ==
  /\ docs \in [Documents -> {"absent", "processing", "processed", "failed"}]
  /\ chunks \in SUBSET Documents
  /\ logs \in [Documents -> SUBSET (FirstLogs \cup LaterLogs \cup {"failed"})]
  /\ vectors \in [Documents -> SUBSET Batches]
  /\ files \in SUBSET Documents
  /\ index \in BOOLEAN /\ host \in BOOLEAN
  /\ pc \in [Documents -> Steps]
  /\ thread \in [Documents -> ThreadStates]
  /\ result \in [Documents -> {"none", "created", "error"}]
  /\ faults \in [Documents -> SUBSET Events]

Confirmed(d) == pc[d] = "answered" /\ result[d] = "created"

(* A 201 answer is true of all the stores, whatever went wrong around it:   *)
(* the row is processed, its chunks, logs and every vector are there.       *)
ConfirmedComplete ==
  \A d \in Documents : Confirmed(d) =>
    /\ docs[d] = "processed" /\ d \in chunks /\ vectors[d] = Batches
    /\ logs[d] = FirstLogs \cup LaterLogs

(* Chat accepts a document as soon as its status is "processed", before and *)
(* without any answer to its upload.  Unless a database call failed after   *)
(* the publishing commit, its chunks and all its vectors are there.         *)
ProcessedSearchable ==
  \A d \in Documents : docs[d] = "processed" /\ "database" \notin faults[d]
    => d \in chunks /\ vectors[d] = Batches

(* A document that does not become "processed" leaves no vectors behind     *)
(* unless Pinecone failed, the request was stopped or a rollback failed:    *)
(* those of a failed database commit are taken back.                        *)
NoOrphanVectors ==
  \A d \in Documents :
    /\ Ended(d) /\ docs[d] # "processed"
    /\ faults[d] \cap {"pinecone", "rollback", "cancel", "crash"} = {}
    => vectors[d] = {}

(* A document stays "processing" after its upload only because a database   *)
(* call failed or the request was stopped.                                  *)
StuckHasCause ==
  \A d \in Documents : Ended(d) /\ docs[d] = "processing"
    => faults[d] \cap {"database", "rollback", "cancel", "crash"} # {}

(* "The temporary PDF file is removed after processing finishes or fails"   *)
(* (upload endpoint): so it is unless a file operation failed, which may    *)
(* leave a partial file that nobody has a path for.                         *)
FileRemovedUnlessDisk ==
  \A d \in Documents : pc[d] = "answered" /\ d \in files => "disk" \in faults[d]

(* Every upload comes to an end, and so does its thread. *)
UploadsEnd ==
  \A d \in Documents : pc[d] = "store" ~> Ended(d) /\ thread[d] \in {"none", "ok", "failed"}

-----------------------------------------------------------------------------
(* The pipeline implements the library its users see. *)

Store == INSTANCE DocumentStore
           WITH searchable <- {d \in chunks : vectors[d] = Batches},
                answered <- [d \in Documents |->
                               IF pc[d] = "answered" THEN result[d] ELSE "none"]

ImplementsStore == Store!Spec

=============================================================================
