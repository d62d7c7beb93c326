------------------------------- MODULE ChatTurn -------------------------------
(***************************************************************************)
(* The turns of one chat session: ChatService in                           *)
(* src/app/services/chat_service.py, with the retrieval and the model      *)
(* call.  A turn commits its question, retrieves, generates, and commits   *)
(* its answer with its sources and its usage; it runs as one request that  *)
(* is answered at the end ("answer") or as a generator that feeds a        *)
(* response already under way ("stream").  Several turns of a session may  *)
(* run at once, and the document under them may still be changing: its     *)
(* life is that of DocumentStore, which the upload pipeline implements.    *)
(***************************************************************************)
EXTENDS Naturals, FiniteSets

CONSTANTS
  Turns,           \* requests that add a message to the session
  Chunks,          \* chunk ids the vector index may return
  DocumentChunks,  \* those of the session's document
  Document,        \* the session's document
  MaxHistory,      \* CHAT_MAX_HISTORY_MESSAGES, which the settings want positive
  Env              \* what may go wrong, a subset of Events

(* database: a query or a commit fails, the latter with or without having   *)
(* taken effect; provider: the embedding, the vector index or the model     *)
(* fails; cancel: the client leaves or the server stops the request.        *)
Events == {"database", "provider", "cancel"}

ASSUME EnvAssumption == Env \subseteq Events
ASSUME ChunksAssumption == DocumentChunks \subseteq Chunks
ASSUME HistoryAssumption == MaxHistory \in Nat \ {0}

VARIABLES
  docs, searchable, answered,  \* the document (DocumentStore)
  opened,     \* the row of the chat session is committed
  messages,   \* the committed messages
  sources,    \* sources[t]: the committed message_sources of t's answer
  usage,      \* the turns whose usage log is committed
  pc,         \* where each turn is
  mode,       \* "answer" or "stream"
  seen,       \* session.messages as the turn has loaded it
  retrieved,  \* the chunks it has retrieved
  prompt,     \* the messages of the history in its prompt
  shown,      \* the messages of the session its response carries
  http,       \* what its client has got
  faults      \* what has gone wrong for each turn (history)

document == <<docs, searchable, answered>>
conversation == <<opened, messages, sources, usage>>
locals == <<seen, retrieved, prompt, shown>>
vars == <<docs, searchable, answered, opened, messages, sources, usage, pc, mode,
          seen, retrieved, prompt, shown, http, faults>>

Library == INSTANCE DocumentStore WITH Documents <- {Document}

Steps == {"idle", "load", "check", "ask", "askRefresh", "retrieve", "generate",
          "save", "saveRefresh", "reload", "ended"}

Message == [turn : Turns, role : {"user", "assistant"}]

Question(t) == [turn |-> t, role |-> "user"]
Reply(t) == [turn |-> t, role |-> "assistant"]

Init ==
  /\ Library!Init
  /\ opened = FALSE
  /\ messages = {}
  /\ sources = [t \in Turns |-> {}]
  /\ usage = {}
  /\ pc = [t \in Turns |-> "idle"]
  /\ mode = [t \in Turns |-> "answer"]
  /\ seen = [t \in Turns |-> {}]
  /\ retrieved = [t \in Turns |-> {}]
  /\ prompt = [t \in Turns |-> {}]
  /\ shown = [t \in Turns |-> {}]
  /\ http = [t \in Turns |-> "none"]
  /\ faults = [t \in Turns |-> {}]

Goto(t, step) == pc' = [pc EXCEPT ![t] = step] /\ UNCHANGED <<http, faults>>

End(t, outcome) ==
  /\ pc' = [pc EXCEPT ![t] = "ended"]
  /\ http' = [http EXCEPT ![t] = outcome]

Fault(t, event) ==
  /\ event \in Env
  /\ faults' = [faults EXCEPT ![t] = @ \cup {event}]

(* Mutant: an exception gets past the route. *)
RaiseUnhandled(t) == End(t, "unhandled")

(* An exception that leaves the service.  The route turns it into an error  *)
(* status; out of a generator it cuts off a response whose status, 200, has *)
(* been sent.                                                               *)
Raise(t) == End(t, IF mode[t] = "stream" THEN "broken" ELSE "error")

(* Mutant: a stream reports a failed commit like a failed generation. *)
DatabaseErrorEvent(t) ==
  Fault(t, "database") /\ End(t, IF mode[t] = "stream" THEN "errorEvent" ELSE "error")

(* A failed query or commit.  The handlers roll back and then log           *)
(* session.id, which the rollback has expired: reading it raises, so that   *)
(* not even a streaming turn gets to its error event.                       *)
DatabaseFails(t) == Fault(t, "database") /\ Raise(t)

-----------------------------------------------------------------------------
(* create_session: any document of the user will do, whatever its status. *)
OpenChat ==
  /\ ~opened
  /\ docs[Document] # "absent"
  /\ opened' = TRUE
  /\ UNCHANGED <<document, messages, sources, usage, pc, mode, locals, http, faults>>

(* The two endpoints.  A StreamingResponse sends its status before it asks  *)
(* the generator for anything.                                              *)
Start(t) ==
  /\ pc[t] = "idle"
  /\ pc' = [pc EXCEPT ![t] = "load"]
  /\ \E m \in {"answer", "stream"} :
       /\ mode' = [mode EXCEPT ![t] = m]
       /\ http' = [http EXCEPT ![t] = IF m = "stream" THEN "started" ELSE "open"]
  /\ UNCHANGED <<document, conversation, locals, faults>>

(* The session, with the messages committed so far. *)
LoadSession(t) ==
  /\ pc[t] = "load"
  /\ \/ /\ opened
        /\ seen' = [seen EXCEPT ![t] = messages]
        /\ Goto(t, "check")
     \/ ~opened /\ Raise(t) /\ UNCHANGED <<seen, faults>>
     \/ DatabaseFails(t) /\ UNCHANGED seen
  /\ UNCHANGED <<document, conversation, mode, retrieved, prompt, shown>>

(* Mutant: the status of the document is not looked at. *)
EnsureDocumentExists(t) ==
  /\ pc[t] = "check"
  /\ \/ docs[Document] # "absent" /\ Goto(t, "ask")
     \/ DatabaseFails(t)
  /\ UNCHANGED <<document, conversation, mode, locals>>

EnsureDocumentReady(t) ==
  /\ pc[t] = "check"
  /\ \/ docs[Document] = "processed" /\ Goto(t, "ask")
     \/ docs[Document] # "processed" /\ Raise(t) /\ UNCHANGED faults
     \/ DatabaseFails(t)
  /\ UNCHANGED <<document, conversation, mode, locals>>

-----------------------------------------------------------------------------
(* _create_user_message *)

SaveQuestion(t) ==
  messages' = messages \cup {Question(t)} /\ UNCHANGED <<opened, sources, usage>>

Ask(t) ==
  /\ pc[t] = "ask"
  /\ \/ SaveQuestion(t) /\ Goto(t, "askRefresh")
     \/ (SaveQuestion(t) \/ UNCHANGED conversation) /\ DatabaseFails(t)
  /\ UNCHANGED <<document, mode, locals>>

AskRefresh(t) ==
  /\ pc[t] = "askRefresh"
  /\ Goto(t, "retrieve") \/ DatabaseFails(t)
  /\ UNCHANGED <<document, conversation, mode, locals>>

(* The last MaxHistory messages of a history, in the order of their times:  *)
(* an answer is later than its question; of different turns any may be.     *)
Latest(history) ==
  {kept \in SUBSET history :
     /\ IF Cardinality(history) <= MaxHistory THEN kept = history
                                              ELSE Cardinality(kept) = MaxHistory
     /\ \A s \in Turns : Question(s) \in kept /\ Reply(s) \in history => Reply(s) \in kept}

(* Mutant: the history is read after the question has been stored. *)
RetrieveWithHistory(t) ==
  /\ pc[t] = "retrieve"
  /\ \E matches \in SUBSET Chunks :
       retrieved' = [retrieved EXCEPT ![t] = matches \cap DocumentChunks]
  /\ \E kept \in Latest(messages) : prompt' = [prompt EXCEPT ![t] = kept]
  /\ Goto(t, "generate")
  /\ UNCHANGED <<document, conversation, mode, seen, shown>>

(* _retrieve_context: nothing is assumed of what the index returns, the     *)
(* query for the chunk rows is restricted to the document again.  It comes  *)
(* before the generator's try: its failures cut off a stream, too.  Then    *)
(* _build_prompt takes the history that was loaded.                         *)
Retrieve(t) ==
  /\ pc[t] = "retrieve"
  /\ \/ /\ \E matches \in SUBSET Chunks :
             retrieved' = [retrieved EXCEPT ![t] = matches \cap DocumentChunks]
        /\ \E kept \in Latest(seen[t]) : prompt' = [prompt EXCEPT ![t] = kept]
        /\ Goto(t, "generate")
     \/ Fault(t, "provider") /\ Raise(t) /\ UNCHANGED <<retrieved, prompt>>
     \/ DatabaseFails(t) /\ UNCHANGED <<retrieved, prompt>>
  /\ UNCHANGED <<document, conversation, mode, seen, shown>>

(* Mutant: a failed generation is tried again without end. *)
GenerateRetrying(t) ==
  /\ pc[t] = "generate"
  /\ \/ Goto(t, "save")
     \/ Fault(t, "provider") /\ pc' = [pc EXCEPT ![t] = "retrieve"] /\ UNCHANGED http
  /\ UNCHANGED <<document, conversation, mode, locals>>

(* A stream announces the sources and passes the text on.  Its own failures *)
(* become an error event.                                                   *)
Generate(t) ==
  /\ pc[t] = "generate"
  /\ \/ Goto(t, "save")
     \/ Fault(t, "provider") /\ End(t, IF mode[t] = "stream" THEN "errorEvent" ELSE "error")
  /\ UNCHANGED <<document, conversation, mode, locals>>

-----------------------------------------------------------------------------
(* _create_assistant_message: one commit for the answer, its sources and    *)
(* its usage.                                                               *)

(* Mutant: the usage is left to a later transaction. *)
SaveReplyOnly(t) ==
  /\ messages' = messages \cup {Reply(t)}
  /\ sources' = [sources EXCEPT ![t] = retrieved[t]]
  /\ UNCHANGED <<opened, usage>>

SaveReply(t) ==
  /\ messages' = messages \cup {Reply(t)}
  /\ sources' = [sources EXCEPT ![t] = retrieved[t]]
  /\ usage' = usage \cup {t}
  /\ UNCHANGED opened

(* Mutant: the answer is flushed and not committed. *)
SaveUncommitted(t) ==
  /\ pc[t] = "save"
  /\ Goto(t, "saveRefresh")
  /\ UNCHANGED <<document, conversation, mode, locals>>

Save(t) ==
  /\ pc[t] = "save"
  /\ \/ SaveReply(t) /\ Goto(t, "saveRefresh")
     \/ (SaveReply(t) \/ UNCHANGED conversation) /\ DatabaseFails(t)
  /\ UNCHANGED <<document, mode, locals>>

SaveRefresh(t) ==
  /\ pc[t] = "saveRefresh"
  /\ \/ mode[t] = "stream" /\ End(t, "complete") /\ UNCHANGED faults
     \/ mode[t] = "answer" /\ Goto(t, "reload")
     \/ DatabaseFails(t)
  /\ UNCHANGED <<document, conversation, mode, locals>>

(* The session is selected again for the response, but the database session *)
(* still holds the object loaded first: its collection of messages is not   *)
(* loaded twice.                                                            *)
Reload(t) ==
  /\ pc[t] = "reload"
  /\ \/ /\ shown' = [shown EXCEPT ![t] = seen[t]]
        /\ End(t, "created")
        /\ UNCHANGED faults
     \/ DatabaseFails(t) /\ UNCHANGED shown
  /\ UNCHANGED <<document, conversation, mode, seen, retrieved, prompt>>

(* A commit that is cut off may have taken effect. *)
Cancel(t) ==
  /\ pc[t] \notin {"idle", "ended"}
  /\ Fault(t, "cancel")
  /\ End(t, "gone")
  /\ \/ UNCHANGED conversation
     \/ pc[t] = "ask" /\ SaveQuestion(t)
     \/ pc[t] = "save" /\ SaveReply(t)
  /\ UNCHANGED <<document, mode, locals>>

Continue(t) ==
  \/ LoadSession(t) \/ EnsureDocumentReady(t)
  \/ Ask(t) \/ AskRefresh(t) \/ Retrieve(t) \/ Generate(t)
  \/ Save(t) \/ SaveRefresh(t) \/ Reload(t)

DocumentStep ==
  /\ Library!Next
  /\ UNCHANGED <<conversation, pc, mode, locals, http, faults>>

Next ==
  \/ OpenChat
  \/ \E t \in Turns : Start(t) \/ Continue(t) \/ Cancel(t)
  \/ DocumentStep

(* A request goes on; the calls to the providers have time limits.  Nobody  *)
(* has to ask, and the upload need not end.                                 *)
Spec == Init /\ [][Next]_vars
FairSpec == Spec /\ \A t \in Turns : WF_vars(Continue(t))

-----------------------------------------------------------------------------
(* Properties *)

(* Every variable keeps its shape. *)
TypeOK ==
  /\ docs \in [{Document} -> {"absent", "processing", "processed", "failed"}]
  /\ searchable \in SUBSET {Document}
  /\ answered \in [{Document} -> {"none", "created", "error"}]
  /\ opened \in BOOLEAN
  /\ messages \in SUBSET Message
  /\ sources \in [Turns -> SUBSET Chunks]
  /\ usage \in SUBSET Turns
  /\ pc \in [Turns -> Steps]
  /\ mode \in [Turns -> {"answer", "stream"}]
  /\ seen \in [Turns -> SUBSET Message]
  /\ retrieved \in [Turns -> SUBSET Chunks]
  /\ prompt \in [Turns -> SUBSET Message]
  /\ shown \in [Turns -> SUBSET Message]
  /\ http \in [Turns -> {"none", "open", "started", "created", "complete", "error",
                         "errorEvent", "broken", "gone"}]
  /\ faults \in [Turns -> SUBSET Events]

Replied(t) == Reply(t) \in messages

(* An answer is stored with its question, all the chunks its prompt was     *)
(* given and its usage, or nothing of it is.                                *)
AnswerAtomic ==
  \A t \in Turns :
    /\ Replied(t) <=> t \in usage
    /\ Replied(t) => Question(t) \in messages
    /\ sources[t] = IF Replied(t) THEN retrieved[t] ELSE {}

(* A turn whose answer was delivered whole is in the conversation.          *)
DeliveredIsStored ==
  \A t \in Turns : http[t] \in {"created", "complete"}
    => Question(t) \in messages /\ Replied(t)

(* What a client was told of a failure is true of the conversation: it has  *)
(* no answer unless the database failed, after an error event it never has, *)
(* so that asking again cannot produce a second answer to a stored first    *)
(* one; and a turn that was refused, not failed, left no question, even if  *)
(* all that a stream's client sees is a response that breaks off.           *)
FailureIsUnsaved ==
  \A t \in Turns :
    /\ Replied(t) /\ http[t] \in {"error", "broken"} => "database" \in faults[t]
    /\ Replied(t) => http[t] # "errorEvent"
    /\ http[t] \in {"error", "broken"} /\ faults[t] = {} => Question(t) \notin messages

(* However turns overlap, a prompt never repeats its own question, holds    *)
(* only messages that are stored, and has an answer without the question it *)
(* belongs to only if the question was loaded with it and the limit on the  *)
(* history cut it off; and its chunks come from the document, whatever the  *)
(* vector index returns.                                                    *)
PromptSound ==
  \A t \in Turns :
    /\ prompt[t] \subseteq messages \ {Question(t)}
    /\ \A s \in Turns : Reply(s) \in prompt[t] =>
         \/ Question(s) \in prompt[t]
         \/ Question(s) \in seen[t] /\ Cardinality(prompt[t]) = MaxHistory
    /\ retrieved[t] \subseteq DocumentChunks

(* A question is stored only for a document that had been published when it *)
(* was asked, though a chat may be opened before that: afterwards the       *)
(* document is published still or has been withdrawn, which leaves it       *)
(* failed, and is never absent or being processed.                          *)
AskedOfPublished ==
  \A t \in Turns : Question(t) \in messages => docs[Document] \in {"processed", "failed"}

(* Every turn comes to an end. *)
TurnsEnd == \A t \in Turns : pc[t] = "load" ~> pc[t] = "ended"

(* "The updated session together with the persisted user and assistant      *)
(* messages" (the answer endpoint returns).                                 *)
SessionShowsTurn ==
  \A t \in Turns : http[t] = "created" => {Question(t), Reply(t)} \subseteq shown[t]

=============================================================================
