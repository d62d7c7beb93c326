----------------------------- MODULE ChatTurnProofs -----------------------------
(***************************************************************************)
(* Theorems about ChatTurn, for any turns, chunks and failures: what is    *)
(* stored of a turn, what its client was told, and what its prompt was     *)
(* made from, however turns overlap and the document under them changes.   *)
(***************************************************************************)
EXTENDS ChatTurn, TLAPS

-----------------------------------------------------------------------------
(* The inductive invariant: what each place of a turn says of what is       *)
(* stored, of what has gone wrong and of what its client was told.          *)

Asked(t) == Question(t) \in messages
Published == docs[Document] \in {"processed", "failed"}

(* The conversation.  A turn that has not got past "ask" has left nothing   *)
(* in it, and what Save adds to it comes in one piece.                      *)
Stored(t) ==
  /\ pc[t] \in {"idle", "load", "check", "ask"} => ~Asked(t)
  /\ pc[t] \in {"askRefresh", "retrieve", "generate", "save", "saveRefresh", "reload"} => Asked(t)
  /\ pc[t] \in {"askRefresh", "retrieve", "generate", "save"} => ~Replied(t)
  /\ pc[t] \in {"saveRefresh", "reload"} => Replied(t)
  /\ Replied(t) => Asked(t)
  /\ Replied(t) <=> t \in usage
  /\ Replied(t) => sources[t] = retrieved[t]
  /\ ~Replied(t) => sources[t] = {}
  /\ pc[t] = "ask" \/ Asked(t) => Published

(* The client.  Nothing has failed for a turn that goes on. *)
Told(t) ==
  /\ pc[t] # "ended" => http[t] \in {"none", "open", "started"} /\ faults[t] = {}
  /\ http[t] \in {"created", "complete"} => Asked(t) /\ Replied(t)
  /\ Replied(t) /\ http[t] \in {"error", "broken"} => "database" \in faults[t]
  /\ Replied(t) => http[t] # "errorEvent"
  /\ http[t] \in {"error", "broken"} /\ faults[t] = {} => ~Asked(t)

(* The prompt.  What is loaded is loaded before the question is stored, and *)
(* what the prompt is given is cut from that.                               *)
Loaded(t) ==
  /\ Question(t) \notin seen[t]
  /\ \A s \in Turns : Reply(s) \in seen[t] => Question(s) \in seen[t]
  /\ pc[t] \in {"idle", "load"} => prompt[t] = {}
  /\ prompt[t] \subseteq seen[t]
  /\ prompt[t] = {} \/ prompt[t] = seen[t] \/ Cardinality(prompt[t]) = MaxHistory
  /\ retrieved[t] \subseteq DocumentChunks

TurnInv(t) == Stored(t) /\ Told(t) /\ Loaded(t)

IInv == TypeOK /\ \A t \in Turns : TurnInv(t)

-----------------------------------------------------------------------------
(* Types *)

(* Two messages are the same only if their turns and their roles are. *)
LEMMA Distinct ==
  ASSUME NEW t \in Turns, NEW u \in Turns
  PROVE  /\ Question(t) # Reply(u)
         /\ Question(t) = Question(u) => t = u
         /\ Reply(t) = Reply(u) => t = u
         /\ Question(t) \in Message /\ Reply(t) \in Message
<1>1. Question(t).role = "user" /\ Reply(u).role = "assistant" BY DEF Question, Reply
<1>2. Question(t) # Reply(u)
  <2>1. "user" # "assistant" OBVIOUS
  <2> QED BY <1>1, <2>1
<1>3. /\ Question(t).turn = t /\ Question(u).turn = u
      /\ Reply(t).turn = t /\ Reply(u).turn = u
  BY DEF Question, Reply
<1>4. Question(t) \in Message /\ Reply(t) \in Message BY DEF Question, Reply, Message
<1>5. (Question(t) = Question(u) => t = u) /\ (Reply(t) = Reply(u) => t = u)
  BY ONLY <1>3
<1> QED BY ONLY <1>2, <1>4, <1>5

(* What goes wrong is an event of the environment. *)
LEMMA FaultType ==
  ASSUME TypeOK, NEW t \in Turns, NEW event, Fault(t, event)
  PROVE  faults' \in [Turns -> SUBSET Events]
BY EnvAssumption DEF Fault, TypeOK

(* The initial state has the types. *)
LEMMA TypeInit == Init => TypeOK
<1> SUFFICES ASSUME Init PROVE TypeOK
  OBVIOUS
<1>1. /\ docs \in [{Document} -> {"absent", "processing", "processed", "failed"}]
      /\ searchable \in SUBSET {Document}
      /\ answered \in [{Document} -> {"none", "created", "error"}]
  BY DEF Init, Library!Init
<1>2. /\ pc \in [Turns -> Steps] /\ mode \in [Turns -> {"answer", "stream"}]
      /\ http \in [Turns -> {"none", "open", "started", "created", "complete", "error",
                             "errorEvent", "broken", "gone"}]
  BY DEF Init, Steps
<1> QED BY <1>1, <1>2 DEF Init, TypeOK

(* What a step may do to where a turn is, to its answer and to its faults. *)
Moves(t) ==
  /\ pc' \in [Turns -> Steps] /\ faults' \in [Turns -> SUBSET Events]
  /\ http' \in [Turns -> {"none", "open", "started", "created", "complete", "error",
                          "errorEvent", "broken", "gone"}]

(* However a turn goes on or ends, these three keep their types. *)
LEMMA MoveTypes ==
  ASSUME TypeOK, NEW t \in Turns
  PROVE  /\ \A step \in Steps : Goto(t, step) => Moves(t)
         /\ Raise(t) /\ UNCHANGED faults => Moves(t)
         /\ \A event \in Events : Fault(t, event) /\ Raise(t) => Moves(t)
         /\ DatabaseFails(t) => Moves(t)
         /\ \A o \in {"created", "complete", "errorEvent", "error", "gone"} :
              End(t, o) /\ (UNCHANGED faults \/ \E event \in Events : Fault(t, event)) => Moves(t)
<1> USE DEF TypeOK, Moves, Steps
<1>1. \A step \in Steps : Goto(t, step) => Moves(t) BY DEF Goto
<1>2. \A o \in {"created", "complete", "errorEvent", "error", "gone", "broken"} :
        End(t, o) /\ UNCHANGED faults => Moves(t)
  BY DEF End
<1>3. \A o \in {"created", "complete", "errorEvent", "error", "gone", "broken"} :
        \A event \in Events : End(t, o) /\ Fault(t, event) => Moves(t)
  BY FaultType DEF End
<1>4. Raise(t) => \E o \in {"error", "broken"} : End(t, o) BY DEF Raise
<1>5. DatabaseFails(t) => Fault(t, "database") /\ Raise(t) BY DEF DatabaseFails
<1>6. "database" \in Events BY DEF Events
<1> QED BY <1>1, <1>2, <1>3, <1>4, <1>5, <1>6

(* What a turn does to the conversation, kept or not. *)
Writes(t) == UNCHANGED conversation \/ SaveQuestion(t) \/ SaveReply(t)

(* The conversation keeps its types. *)
LEMMA WriteTypes ==
  ASSUME TypeOK, NEW t \in Turns, Writes(t)
  PROVE  /\ opened' \in BOOLEAN /\ messages' \in SUBSET Message
         /\ sources' \in [Turns -> SUBSET Chunks] /\ usage' \in SUBSET Turns
BY Distinct DEF TypeOK, Writes, SaveQuestion, SaveReply, conversation

(* Every step of a turn moves it and writes at most its own messages. *)
LEMMA TurnMoves ==
  ASSUME TypeOK, NEW t \in Turns, Continue(t) \/ Cancel(t)
  PROVE  Moves(t) /\ Writes(t) /\ UNCHANGED <<document, mode>>
<1> USE MoveTypes DEF Steps, Events, Writes
<1>1. CASE LoadSession(t) BY <1>1 DEF LoadSession
<1>2. CASE EnsureDocumentReady(t) BY <1>2 DEF EnsureDocumentReady
<1>3. CASE Ask(t) BY <1>3 DEF Ask
<1>4. CASE AskRefresh(t) BY <1>4 DEF AskRefresh
<1>5. CASE Retrieve(t) BY <1>5 DEF Retrieve
<1>6. CASE Generate(t) BY <1>6 DEF Generate
<1>7. CASE Save(t) BY <1>7 DEF Save
<1>8. CASE SaveRefresh(t) BY <1>8 DEF SaveRefresh
<1>9. CASE Reload(t) BY <1>9 DEF Reload
<1>10. CASE Cancel(t) BY <1>10 DEF Cancel
<1> QED BY <1>1, <1>2, <1>3, <1>4, <1>5, <1>6, <1>7, <1>8, <1>9, <1>10 DEF Continue

(* What it loads, retrieves and shows has the types of what it comes from. *)
LEMMA LocalTypes ==
  ASSUME TypeOK, NEW t \in Turns, Continue(t) \/ Cancel(t)
  PROVE  /\ seen' \in [Turns -> SUBSET Message] /\ shown' \in [Turns -> SUBSET Message]
         /\ retrieved' \in [Turns -> SUBSET Chunks] /\ prompt' \in [Turns -> SUBSET Message]
<1> USE DEF TypeOK, locals
<1>1. CASE LoadSession(t) BY <1>1 DEF LoadSession
<1>2. CASE Retrieve(t)
  <2>1. retrieved' = retrieved
          \/ \E m \in SUBSET Chunks : retrieved' = [retrieved EXCEPT ![t] = m \cap DocumentChunks]
    BY <1>2 DEF Retrieve
  <2>2. prompt' = prompt \/ \E kept \in SUBSET seen[t] : prompt' = [prompt EXCEPT ![t] = kept]
    <3>1. prompt' = prompt \/ \E kept \in Latest(seen[t]) : prompt' = [prompt EXCEPT ![t] = kept]
      BY <1>2 DEF Retrieve
    <3> QED BY <3>1 DEF Latest
  <2> QED BY <1>2, <2>1, <2>2 DEF Retrieve
<1>3. CASE Reload(t) BY <1>3 DEF Reload
<1>4. CASE EnsureDocumentReady(t) \/ Ask(t) \/ AskRefresh(t) \/ Generate(t) \/ Save(t)
            \/ SaveRefresh(t) \/ Cancel(t)
  BY <1>4 DEF EnsureDocumentReady, Ask, AskRefresh, Generate, Save, SaveRefresh, Cancel
<1> QED BY <1>1, <1>2, <1>3, <1>4 DEF Continue

(* The document keeps its types, and once published is never less. *)
LEMMA DocumentTypes ==
  ASSUME TypeOK, DocumentStep
  PROVE  /\ docs' \in [{Document} -> {"absent", "processing", "processed", "failed"}]
         /\ searchable' \in SUBSET {Document}
         /\ answered' \in [{Document} -> {"none", "created", "error"}]
         /\ Published => Published'
BY DEF TypeOK, DocumentStep, Published, Library!Next, Library!Accept, Library!Publish,
       Library!Strip, Library!Fail, Library!Confirm, Library!Refuse

(* No step leaves the types. *)
LEMMA TypeStep == TypeOK /\ [Next]_vars => TypeOK'
<1> SUFFICES ASSUME TypeOK, [Next]_vars PROVE TypeOK'
  OBVIOUS
<1>1. CASE UNCHANGED vars BY <1>1 DEF vars, TypeOK
<1>2. CASE OpenChat BY <1>2 DEF OpenChat, TypeOK, document, locals
<1>3. CASE DocumentStep
  BY <1>3, DocumentTypes DEF DocumentStep, TypeOK, conversation, locals
<1>4. ASSUME NEW t \in Turns, Start(t) PROVE TypeOK'
  <2>1. pc' \in [Turns -> Steps] BY <1>4 DEF Start, TypeOK, Steps
  <2>2. \E m \in {"answer", "stream"} :
          /\ mode' = [mode EXCEPT ![t] = m]
          /\ http' = [http EXCEPT ![t] = IF m = "stream" THEN "started" ELSE "open"]
    BY <1>4 DEF Start
  <2>3. /\ mode' \in [Turns -> {"answer", "stream"}]
        /\ http' \in [Turns -> {"none", "open", "started", "created", "complete", "error",
                                "errorEvent", "broken", "gone"}]
    BY <2>2 DEF TypeOK
  <2> QED BY <1>4, <2>1, <2>3 DEF Start, TypeOK, document, conversation, locals
<1>5. ASSUME NEW t \in Turns, Continue(t) \/ Cancel(t) PROVE TypeOK'
  BY <1>5, TurnMoves, WriteTypes, LocalTypes DEF Moves, TypeOK, document
<1> QED BY <1>1, <1>2, <1>3, <1>4, <1>5 DEF Next

-----------------------------------------------------------------------------
(* One turn's step *)

(* Nothing that belongs to turn u changes, nor is the document unpublished. *)
Same(u) ==
  /\ pc'[u] = pc[u] /\ http'[u] = http[u] /\ faults'[u] = faults[u]
  /\ seen'[u] = seen[u] /\ retrieved'[u] = retrieved[u] /\ prompt'[u] = prompt[u]
  /\ sources'[u] = sources[u]
  /\ Asked(u)' <=> Asked(u)
  /\ Replied(u)' <=> Replied(u)
  /\ u \in usage' <=> u \in usage
  /\ Published => Published'

(* The invariant of a turn is about nothing else. *)
LEMMA SameKept == ASSUME NEW u, TurnInv(u), Same(u) PROVE TurnInv(u)'
BY DEF TurnInv, Stored, Told, Loaded, Same

(* Two writes of one turn are not those of another. *)
LEMMA OthersWritten ==
  ASSUME TypeOK, NEW t \in Turns, NEW u \in Turns, u # t, Writes(t)
  PROVE  /\ Asked(u)' <=> Asked(u)
         /\ Replied(u)' <=> Replied(u)
         /\ u \in usage' <=> u \in usage
         /\ sources'[u] = sources[u]
BY Distinct DEF Writes, SaveQuestion, SaveReply, conversation, Asked, Replied, TypeOK

(* Where the others are, and what they were told, is not for t to change. *)
LEMMA OthersUnmoved ==
  ASSUME TypeOK, NEW t \in Turns, NEW u \in Turns, u # t, Continue(t) \/ Cancel(t)
  PROVE  /\ pc'[u] = pc[u] /\ http'[u] = http[u] /\ faults'[u] = faults[u]
         /\ seen'[u] = seen[u] /\ retrieved'[u] = retrieved[u] /\ prompt'[u] = prompt[u]
<1> USE DEF TypeOK, Goto, End, Raise, DatabaseFails, Fault, locals
<1>1. CASE LoadSession(t) \/ EnsureDocumentReady(t)
  BY <1>1 DEF LoadSession, EnsureDocumentReady
<1>2. CASE Ask(t) \/ AskRefresh(t) BY <1>2 DEF Ask, AskRefresh
<1>3. CASE Retrieve(t) BY <1>3 DEF Retrieve
<1>4. CASE Generate(t) BY <1>4 DEF Generate
<1>5. CASE Save(t) BY <1>5 DEF Save
<1>6. CASE SaveRefresh(t) \/ Reload(t) BY <1>6 DEF SaveRefresh, Reload
<1>7. CASE Cancel(t) BY <1>7 DEF Cancel
<1> QED BY <1>1, <1>2, <1>3, <1>4, <1>5, <1>6, <1>7 DEF Continue

(* A turn's step leaves the other turns alone. *)
LEMMA OthersSame ==
  ASSUME TypeOK, NEW t \in Turns, NEW u \in Turns, u # t, Continue(t) \/ Cancel(t)
  PROVE  Same(u)
BY OthersWritten, OthersUnmoved, TurnMoves DEF Same, Published, document

(* What a turn's own writes do to what is stored of it. *)
LEMMA OwnWritten ==
  ASSUME TypeOK, NEW t \in Turns
  PROVE  /\ UNCHANGED conversation =>
              /\ (Asked(t)' <=> Asked(t)) /\ (Replied(t)' <=> Replied(t))
              /\ (t \in usage' <=> t \in usage) /\ sources'[t] = sources[t]
         /\ SaveQuestion(t) =>
              /\ Asked(t)' /\ (Replied(t)' <=> Replied(t))
              /\ (t \in usage' <=> t \in usage) /\ sources'[t] = sources[t]
         /\ SaveReply(t) =>
              /\ (Asked(t)' <=> Asked(t)) /\ Replied(t)'
              /\ t \in usage' /\ sources'[t] = retrieved[t]
<1>1. UNCHANGED conversation =>
        /\ (Asked(t)' <=> Asked(t)) /\ (Replied(t)' <=> Replied(t))
        /\ (t \in usage' <=> t \in usage) /\ sources'[t] = sources[t]
  BY DEF conversation, Asked, Replied
<1>2. SaveQuestion(t) =>
        /\ Asked(t)' /\ (Replied(t)' <=> Replied(t))
        /\ (t \in usage' <=> t \in usage) /\ sources'[t] = sources[t]
  BY Distinct DEF SaveQuestion, Asked, Replied
<1>3. SaveReply(t) =>
        /\ (Asked(t)' <=> Asked(t)) /\ Replied(t)'
        /\ t \in usage' /\ sources'[t] = retrieved[t]
  BY Distinct DEF SaveReply, Asked, Replied, TypeOK
<1> QED BY <1>1, <1>2, <1>3

(* What an end does: nothing had failed before, so what is told of a        *)
(* failure is told of this one.                                             *)
LEMMA Ends ==
  ASSUME TypeOK, NEW t \in Turns
  PROVE  /\ \A step : Goto(t, step) =>
              pc'[t] = step /\ http'[t] = http[t] /\ faults'[t] = faults[t]
         /\ \A o : End(t, o) => pc'[t] = "ended" /\ http'[t] = o
         /\ Raise(t) => pc'[t] = "ended" /\ http'[t] \in {"error", "broken"}
         /\ \A event : Fault(t, event) => event \in faults'[t]
         /\ DatabaseFails(t) => /\ pc'[t] = "ended" /\ http'[t] \in {"error", "broken"}
                                /\ "database" \in faults'[t]
<1> USE DEF TypeOK
<1>1. \A step : Goto(t, step) =>
        pc'[t] = step /\ http'[t] = http[t] /\ faults'[t] = faults[t]
  BY DEF Goto
<1>2. \A o : End(t, o) => pc'[t] = "ended" /\ http'[t] = o BY DEF End
<1>3. Raise(t) => pc'[t] = "ended" /\ http'[t] \in {"error", "broken"} BY DEF Raise, End
<1>4. \A event : Fault(t, event) => event \in faults'[t] BY DEF Fault
<1> QED BY <1>1, <1>2, <1>3, <1>4 DEF DatabaseFails

(* A turn that fails or is stopped: what it has by then is what it leaves.  *)
LEMMA EndKept ==
  ASSUME TypeOK, NEW t \in Turns, TurnInv(t),
         pc'[t] = "ended", http'[t] \in {"error", "broken", "errorEvent", "gone"},
         http'[t] \in {"error", "broken"} => "database" \in faults'[t]
           \/ ("provider" \in faults'[t] /\ ~Replied(t)') \/ (~Asked(t)' /\ ~Replied(t)'),
         http'[t] = "errorEvent" => ~Replied(t)',
         seen'[t] = seen[t], retrieved'[t] = retrieved[t], prompt'[t] = prompt[t], Published => Published',
         UNCHANGED conversation \/ (pc[t] = "ask" /\ SaveQuestion(t))
           \/ (pc[t] = "save" /\ SaveReply(t))
  PROVE  TurnInv(t)'
<1>1. Stored(t)'
  BY OwnWritten DEF TurnInv, Stored
<1>2. Told(t)'
  BY DEF Told
<1>3. Loaded(t)' BY DEF TurnInv, Loaded
<1> QED BY <1>1, <1>2, <1>3 DEF TurnInv

(* Loading the session, when the turn's own question is not yet stored and  *)
(* every stored answer has its question.                                    *)
LEMMA LoadKept ==
  ASSUME IInv, NEW t \in Turns, LoadSession(t)
  PROVE  TurnInv(t)'
<1> USE Ends DEF IInv
<1>1. /\ pc[t] = "load" /\ UNCHANGED conversation /\ retrieved' = retrieved /\ prompt' = prompt
      /\ Published => Published'
  BY DEF LoadSession, Published, document
<1>2. ~Asked(t) /\ ~Replied(t) /\ ~Asked(t)' /\ ~Replied(t)'
  BY <1>1, OwnWritten DEF TurnInv, Stored
<1>3. CASE opened /\ seen' = [seen EXCEPT ![t] = messages] /\ Goto(t, "check")
  <2>1. seen'[t] = messages BY <1>3 DEF TypeOK
  <2>2. Loaded(t)'
    BY <1>1, <1>2, <1>3, <2>1 DEF TurnInv, Loaded, Stored, Asked, Replied
  <2>3. Stored(t)' BY <1>1, <1>2, <1>3, OwnWritten DEF TurnInv, Stored
  <2>4. Told(t)' BY <1>1, <1>2, <1>3 DEF TurnInv, Told
  <2> QED BY <2>2, <2>3, <2>4 DEF TurnInv
<1>4. CASE (Raise(t) \/ DatabaseFails(t)) /\ UNCHANGED seen
  <2>1. pc'[t] = "ended" /\ http'[t] \in {"error", "broken"} BY <1>4
  <2> QED BY <1>1, <1>2, <1>4, <2>1, EndKept
<1> QED BY <1>3, <1>4 DEF LoadSession

(* The status of the document, looked at before the question is stored. *)
LEMMA EnsureKept ==
  ASSUME IInv, NEW t \in Turns, EnsureDocumentReady(t)
  PROVE  TurnInv(t)'
<1> USE Ends DEF IInv
<1>1. /\ pc[t] = "check" /\ UNCHANGED conversation /\ UNCHANGED locals
      /\ docs' = docs /\ (Published => Published')
  BY DEF EnsureDocumentReady, Published, document
<1>2. ~Asked(t) /\ ~Replied(t) /\ ~Asked(t)' /\ ~Replied(t)'
  BY <1>1, OwnWritten DEF TurnInv, Stored
<1>3. CASE docs[Document] = "processed" /\ Goto(t, "ask")
  <2>1. Published' BY <1>1, <1>3 DEF Published
  <2>2. Stored(t)' BY <1>1, <1>2, <1>3, <2>1, OwnWritten DEF TurnInv, Stored, locals
  <2>3. Told(t)' /\ Loaded(t)' BY <1>1, <1>2, <1>3 DEF TurnInv, Told, Loaded, locals
  <2> QED BY <2>2, <2>3 DEF TurnInv
<1>4. CASE Raise(t) \/ DatabaseFails(t)
  <2>1. pc'[t] = "ended" /\ http'[t] \in {"error", "broken"} BY <1>4
  <2> QED BY <1>1, <1>2, <2>1, EndKept DEF locals
<1> QED BY <1>3, <1>4 DEF EnsureDocumentReady

(* The question. *)
LEMMA AskKept ==
  ASSUME IInv, NEW t \in Turns, Ask(t) \/ AskRefresh(t)
  PROVE  TurnInv(t)'
<1> USE Ends DEF IInv
<1>1. UNCHANGED locals /\ (Published => Published')
  BY DEF Ask, AskRefresh, Published, document
<1>2. CASE Ask(t) /\ SaveQuestion(t) /\ Goto(t, "askRefresh")
  <2>1. pc[t] = "ask" BY <1>2 DEF Ask
  <2>2. Stored(t)' BY <1>1, <1>2, <2>1, OwnWritten DEF TurnInv, Stored, locals
  <2>3. Told(t)' /\ Loaded(t)' BY <1>1, <1>2, <2>1 DEF TurnInv, Told, Loaded, locals
  <2> QED BY <2>2, <2>3 DEF TurnInv
<1>3. CASE Ask(t) /\ (SaveQuestion(t) \/ UNCHANGED conversation) /\ DatabaseFails(t)
  <2>1. pc[t] = "ask" BY <1>3 DEF Ask
  <2> QED BY <1>1, <1>3, <2>1, EndKept DEF locals
<1>4. CASE AskRefresh(t) /\ Goto(t, "retrieve")
  <2>1. pc[t] = "askRefresh" /\ UNCHANGED conversation BY <1>4 DEF AskRefresh
  <2>2. Stored(t)' BY <1>1, <1>4, <2>1, OwnWritten DEF TurnInv, Stored, locals
  <2>3. Told(t)' /\ Loaded(t)'
    BY <1>1, <1>4, <2>1, OwnWritten DEF TurnInv, Told, Loaded, locals
  <2> QED BY <2>2, <2>3 DEF TurnInv
<1>5. CASE AskRefresh(t) /\ DatabaseFails(t)
  <2>1. UNCHANGED conversation BY <1>5 DEF AskRefresh
  <2> QED BY <1>1, <1>5, <2>1, EndKept DEF locals
<1> QED BY <1>2, <1>3, <1>4, <1>5 DEF Ask, AskRefresh

(* Retrieval: whatever the index returns, the rows are the document's. *)
LEMMA RetrieveKept ==
  ASSUME IInv, NEW t \in Turns, Retrieve(t)
  PROVE  TurnInv(t)'
<1> USE Ends DEF IInv
<1>1. /\ pc[t] = "retrieve" /\ UNCHANGED conversation /\ seen' = seen
      /\ Published => Published'
  BY DEF Retrieve, Published, document
<1>2. Asked(t) /\ ~Replied(t) /\ Asked(t)' /\ ~Replied(t)'
  BY <1>1, OwnWritten DEF TurnInv, Stored
<1>3. ASSUME NEW matches \in SUBSET Chunks, NEW kept \in Latest(seen[t]), Goto(t, "generate"),
             retrieved' = [retrieved EXCEPT ![t] = matches \cap DocumentChunks],
             prompt' = [prompt EXCEPT ![t] = kept]
      PROVE  TurnInv(t)'
  <2>1. retrieved'[t] \subseteq DocumentChunks BY <1>3 DEF TypeOK
  <2>2. prompt'[t] = kept BY <1>3 DEF TypeOK
  <2>3. kept \subseteq seen[t] /\ (kept = seen[t] \/ Cardinality(kept) = MaxHistory)
    BY DEF Latest
  <2>4. pc'[t] = "generate" BY <1>3
  <2>5. Stored(t)' BY <1>1, <1>2, <1>3, OwnWritten DEF TurnInv, Stored
  <2>6. Told(t)' BY <1>1, <1>2, <1>3 DEF TurnInv, Told
  <2>7. Loaded(t)' BY <1>1, <2>1, <2>2, <2>3, <2>4 DEF TurnInv, Loaded
  <2> QED BY <2>5, <2>6, <2>7 DEF TurnInv
<1>4. CASE Fault(t, "provider") /\ Raise(t) /\ UNCHANGED <<retrieved, prompt>>
  BY <1>1, <1>2, <1>4, EndKept
<1>5. CASE DatabaseFails(t) /\ UNCHANGED <<retrieved, prompt>> BY <1>1, <1>5, EndKept
<1> QED BY <1>3, <1>4, <1>5 DEF Retrieve

(* Generation. *)
LEMMA GenerateKept ==
  ASSUME IInv, NEW t \in Turns, Generate(t)
  PROVE  TurnInv(t)'
<1> USE Ends DEF IInv
<1>1. /\ pc[t] = "generate" /\ UNCHANGED conversation /\ UNCHANGED locals
      /\ Published => Published'
  BY DEF Generate, Published, document
<1>2. Asked(t) /\ ~Replied(t) /\ Asked(t)' /\ ~Replied(t)'
  BY <1>1, OwnWritten DEF TurnInv, Stored
<1>3. CASE Goto(t, "save")
  <2>1. Stored(t)' BY <1>1, <1>2, <1>3, OwnWritten DEF TurnInv, Stored, locals
  <2>2. Told(t)' /\ Loaded(t)' BY <1>1, <1>2, <1>3 DEF TurnInv, Told, Loaded, locals
  <2> QED BY <2>1, <2>2 DEF TurnInv
<1>4. CASE Fault(t, "provider") /\ End(t, IF mode[t] = "stream" THEN "errorEvent" ELSE "error")
  <2>1. http'[t] \in {"error", "errorEvent"} /\ pc'[t] = "ended" /\ "provider" \in faults'[t]
    BY <1>4
  <2> QED BY <1>1, <1>2, <2>1, EndKept DEF locals
<1> QED BY <1>3, <1>4 DEF Generate

(* The answer: stored before anything tells the client that it is whole. *)
LEMMA SaveKept ==
  ASSUME IInv, NEW t \in Turns, Save(t) \/ SaveRefresh(t) \/ Reload(t)
  PROVE  TurnInv(t)'
<1> USE Ends DEF IInv
<1>1. /\ seen' = seen /\ retrieved' = retrieved /\ prompt' = prompt
      /\ Published => Published'
  BY DEF Save, SaveRefresh, Reload, Published, document, locals
<1>2. CASE Save(t) /\ SaveReply(t) /\ Goto(t, "saveRefresh")
  <2>1. pc[t] = "save" BY <1>2 DEF Save
  <2>2. Stored(t)' BY <1>1, <1>2, <2>1, OwnWritten DEF TurnInv, Stored
  <2>3. Told(t)' /\ Loaded(t)' BY <1>1, <1>2, <2>1 DEF TurnInv, Told, Loaded
  <2> QED BY <2>2, <2>3 DEF TurnInv
<1>3. CASE Save(t) /\ (SaveReply(t) \/ UNCHANGED conversation) /\ DatabaseFails(t)
  <2>1. pc[t] = "save" BY <1>3 DEF Save
  <2> QED BY <1>1, <1>3, <2>1, EndKept
<1>4. CASE SaveRefresh(t) /\ Goto(t, "reload")
  <2>1. pc[t] = "saveRefresh" /\ UNCHANGED conversation BY <1>4 DEF SaveRefresh
  <2>2. Stored(t)' BY <1>1, <1>4, <2>1, OwnWritten DEF TurnInv, Stored
  <2>3. Told(t)' /\ Loaded(t)' BY <1>1, <1>4, <2>1, OwnWritten DEF TurnInv, Told, Loaded
  <2> QED BY <2>2, <2>3 DEF TurnInv
<1>5. CASE (SaveRefresh(t) /\ End(t, "complete")) \/ (Reload(t) /\ End(t, "created"))
  <2>1. pc[t] \in {"saveRefresh", "reload"} /\ UNCHANGED conversation
    BY <1>5 DEF SaveRefresh, Reload
  <2>2. pc'[t] = "ended" /\ http'[t] \in {"complete", "created"} BY <1>5
  <2>3. Asked(t)' /\ Replied(t)' BY <2>1, OwnWritten DEF TurnInv, Stored
  <2>4. Stored(t)' BY <1>1, <2>1, <2>2, OwnWritten DEF TurnInv, Stored
  <2>5. Told(t)' /\ Loaded(t)' BY <1>1, <2>2, <2>3 DEF TurnInv, Told, Loaded
  <2> QED BY <2>4, <2>5 DEF TurnInv
<1>6. CASE (SaveRefresh(t) \/ Reload(t)) /\ DatabaseFails(t)
  <2>1. UNCHANGED conversation BY <1>6 DEF SaveRefresh, Reload
  <2> QED BY <1>1, <1>6, <2>1, EndKept
<1> QED BY <1>2, <1>3, <1>4, <1>5, <1>6 DEF Save, SaveRefresh, Reload

(* A cancelled turn. *)
LEMMA CancelKept ==
  ASSUME IInv, NEW t \in Turns, Cancel(t)
  PROVE  TurnInv(t)'
<1>1. pc'[t] = "ended" /\ http'[t] = "gone" BY Ends DEF IInv, Cancel
<1>2. Published => Published' BY DEF Cancel, Published, document
<1>3. UNCHANGED locals BY DEF Cancel
<1> QED BY <1>1, <1>2, <1>3, EndKept DEF Cancel, IInv, locals

(* The two endpoints. *)
LEMMA StartKept ==
  ASSUME IInv, NEW t \in Turns, NEW u \in Turns, Start(t)
  PROVE  TurnInv(u)'
<1> USE DEF IInv
<1>1. UNCHANGED conversation /\ UNCHANGED locals /\ docs' = docs /\ faults' = faults
  BY DEF Start, document
<1>2. CASE u # t
  BY <1>1, <1>2, OwnWritten, SameKept DEF Start, Same, TypeOK, locals, Published
<1>3. CASE u = t
  <2>1. pc[t] = "idle" /\ pc'[t] = "load" /\ http'[t] \in {"started", "open"}
    BY DEF Start, TypeOK
  <2>2. Stored(t)' BY <1>1, <2>1, OwnWritten DEF TurnInv, Stored, locals, Published
  <2>3. Told(t)' /\ Loaded(t)' BY <1>1, <2>1, OwnWritten DEF TurnInv, Told, Loaded, Stored, locals
  <2> QED BY <1>3, <2>2, <2>3 DEF TurnInv
<1> QED BY <1>2, <1>3

-----------------------------------------------------------------------------
(* The invariant *)

(* It holds at first. *)
LEMMA IInvInit == Init => IInv
<1> SUFFICES ASSUME Init PROVE IInv
  OBVIOUS
<1>1. TypeOK BY TypeInit
<1>2. ASSUME NEW t \in Turns PROVE TurnInv(t)
  <2>1. /\ pc[t] = "idle" /\ http[t] = "none" /\ faults[t] = {} /\ messages = {} /\ usage = {}
        /\ sources[t] = {} /\ seen[t] = {} /\ retrieved[t] = {} /\ prompt[t] = {}
    BY DEF Init
  <2> QED BY <2>1 DEF TurnInv, Stored, Told, Loaded, Asked, Replied
<1> QED BY <1>1, <1>2 DEF IInv

(* Every step keeps it: for the turn that steps by the lemmas above, for    *)
(* the others because nothing of theirs changes.                            *)
LEMMA IInvStep == IInv /\ [Next]_vars => IInv'
<1> SUFFICES ASSUME IInv, [Next]_vars PROVE IInv'
  OBVIOUS
<1>1. TypeOK' BY TypeStep DEF IInv
<1>2. ASSUME NEW t \in Turns, Continue(t) \/ Cancel(t), NEW u \in Turns PROVE TurnInv(u)'
  <2>1. CASE u = t
    BY <1>2, <2>1, LoadKept, EnsureKept, AskKept, RetrieveKept, GenerateKept, SaveKept, CancelKept
       DEF Continue
  <2>2. CASE u # t BY <1>2, <2>2, OthersSame, SameKept DEF IInv
  <2> QED BY <2>1, <2>2
<1>3. ASSUME UNCHANGED <<conversation, pc, locals, http, faults>>, Published => Published',
             NEW u \in Turns
      PROVE  TurnInv(u)'
  <2>1. Same(u) BY <1>3, OwnWritten DEF Same, locals, IInv
  <2> QED BY <2>1, SameKept DEF IInv
<1>4. CASE DocumentStep
  BY <1>1, <1>3, <1>4, DocumentTypes DEF DocumentStep, IInv
<1>5. CASE OpenChat
  <2>1. ASSUME NEW u \in Turns PROVE Same(u)
    BY <1>5 DEF OpenChat, Same, locals, Asked, Replied, Published, document
  <2> QED BY <1>1, <2>1, SameKept DEF IInv
<1>6. CASE UNCHANGED vars
  BY <1>1, <1>3, <1>6 DEF vars, conversation, locals, IInv, Published
<1> QED BY <1>1, <1>2, <1>4, <1>5, <1>6, StartKept DEF Next, IInv

(* It holds for ever. *)
LEMMA SpecIInv == Spec => []IInv
BY IInvInit, IInvStep, PTL DEF Spec

-----------------------------------------------------------------------------
(* The theorems *)

(* Every variable keeps its shape. *)
THEOREM TurnTypes == Spec => []TypeOK
<1>1. IInv => TypeOK BY DEF IInv
<1> QED BY <1>1, SpecIInv, PTL

(* _create_assistant_message stores an answer whole, after its question, or *)
(* not at all, whatever fails and whoever stops.                            *)
THEOREM AnswersAreAtomic == Spec => []AnswerAtomic
<1>1. IInv => AnswerAtomic BY DEF IInv, TurnInv, Stored, AnswerAtomic, Asked
<1> QED BY <1>1, SpecIInv, PTL

(* A client that got a whole answer, in one piece or as a stream, will find *)
(* it in the conversation.                                                  *)
THEOREM DeliveredAreStored == Spec => []DeliveredIsStored
<1>1. IInv => DeliveredIsStored BY DEF IInv, TurnInv, Told, DeliveredIsStored, Asked
<1> QED BY <1>1, SpecIInv, PTL

(* A client that was told of a failure has no answer stored unless the      *)
(* database failed, and no question unless something did.                   *)
THEOREM FailuresAreUnsaved == Spec => []FailureIsUnsaved
<1>1. IInv => FailureIsUnsaved BY DEF IInv, TurnInv, Told, FailureIsUnsaved, Asked
<1> QED BY <1>1, SpecIInv, PTL

(* Messages are only ever added, so what a turn has loaded stays stored. *)
SeenStored == \A t \in Turns : seen[t] \subseteq messages

LEMMA SeenStoredStep == TypeOK /\ SeenStored /\ [Next]_vars => SeenStored'
<1> SUFFICES ASSUME TypeOK, SeenStored, [Next]_vars PROVE SeenStored'
  OBVIOUS
<1>1. ASSUME messages \subseteq messages', seen' = seen PROVE SeenStored'
  BY <1>1 DEF SeenStored
<1>2. ASSUME NEW t \in Turns, Continue(t) \/ Cancel(t) PROVE SeenStored'
  <2>1. messages \subseteq messages'
    BY <1>2, TurnMoves DEF Writes, SaveQuestion, SaveReply, conversation
  <2>2. seen' = seen \/ (seen' = [seen EXCEPT ![t] = messages])
    BY <1>2 DEF Continue, LoadSession, EnsureDocumentReady, Ask, AskRefresh, Retrieve, Generate,
                Save, SaveRefresh, Reload, Cancel, locals
  <2> QED BY <1>1, <2>1, <2>2 DEF SeenStored, TypeOK
<1>3. CASE OpenChat \/ DocumentStep \/ UNCHANGED vars
  BY <1>1, <1>3 DEF OpenChat, DocumentStep, vars, conversation, locals
<1>4. ASSUME NEW t \in Turns, Start(t) PROVE SeenStored'
  BY <1>1, <1>4 DEF Start, conversation, locals
<1> QED BY <1>2, <1>3, <1>4 DEF Next

(* However turns of a session overlap, a prompt does not repeat its own     *)
(* question, holds only stored messages, and has an answer without its      *)
(* question only where the limit on the history cut the question off; its   *)
(* chunks are the document's.                                               *)
THEOREM PromptsAreSound == Spec => []PromptSound
<1>1. Init => SeenStored BY DEF Init, SeenStored
<1>2. IInv => TypeOK BY DEF IInv
<1>3. IInv /\ SeenStored => PromptSound
  <2> SUFFICES ASSUME IInv, SeenStored, NEW t \in Turns
               PROVE  /\ prompt[t] \subseteq messages \ {Question(t)}
                      /\ \A s \in Turns : Reply(s) \in prompt[t] =>
                           \/ Question(s) \in prompt[t]
                           \/ Question(s) \in seen[t] /\ Cardinality(prompt[t]) = MaxHistory
                      /\ retrieved[t] \subseteq DocumentChunks
    BY DEF PromptSound
  <2>1. Loaded(t) /\ seen[t] \subseteq messages BY DEF IInv, TurnInv, SeenStored
  <2> QED BY <2>1 DEF Loaded
<1> QED BY <1>1, <1>2, <1>3, SeenStoredStep, SpecIInv, PTL DEF Spec

(* Nobody asks of a document that was never published: the check of its     *)
(* status comes before the question, and a document only moves on.          *)
THEOREM AskedOnlyOfPublished == Spec => []AskedOfPublished
<1>1. IInv => AskedOfPublished
  BY DEF IInv, TurnInv, Stored, AskedOfPublished, Asked, Published
<1> QED BY <1>1, SpecIInv, PTL

-----------------------------------------------------------------------------
(* Progress: how many places a turn has at most before it. *)
Ahead(s) ==
  CASE s = "idle" -> 10 [] s = "load" -> 9 [] s = "check" -> 8 [] s = "ask" -> 7
    [] s = "askRefresh" -> 6 [] s = "retrieve" -> 5 [] s = "generate" -> 4
    [] s = "save" -> 3 [] s = "saveRefresh" -> 2 [] s = "reload" -> 1 [] s = "ended" -> 0

Moved(t) == pc[t]' # pc[t] /\ Ahead(pc[t]') < Ahead(pc[t])

LEMMA Bounded == \A s \in Steps : Ahead(s) \in 0..10
BY DEF Steps, Ahead

(* A step leaves t where it is or brings it nearer to its end.              *)
LEMMA TurnAdvances ==
  ASSUME TypeOK, NEW t \in Turns, Start(t) \/ Continue(t) \/ Cancel(t)
  PROVE  Moved(t) /\ \A u \in Turns \ {t} : pc[u]' = pc[u]
<1>1. pc \in [Turns -> Steps] BY DEF TypeOK
<1>2. ASSUME NEW from \in Steps, NEW to \in Steps, pc[t] = from,
             pc' = [pc EXCEPT ![t] = to], Ahead(to) < Ahead(from)
      PROVE  Moved(t) /\ \A u \in Turns \ {t} : pc[u]' = pc[u]
  <2>1. pc[t]' = to /\ \A u \in Turns \ {t} : pc[u]' = pc[u] BY <1>1, <1>2
  <2>2. to # from BY <1>2, Bounded
  <2> QED BY <1>2, <2>1, <2>2 DEF Moved
<1>3. ASSUME NEW from \in Steps, NEW to \in Steps, pc[t] = from, Goto(t, to),
             Ahead(to) < Ahead(from)
      PROVE  Moved(t) /\ \A u \in Turns \ {t} : pc[u]' = pc[u]
  BY <1>2, <1>3 DEF Goto
<1>4. ASSUME pc[t] \notin {"ended", "idle"}, NEW outcome, End(t, outcome)
      PROVE  Moved(t) /\ \A u \in Turns \ {t} : pc[u]' = pc[u]
  <2>1. Ahead("ended") < Ahead(pc[t]) BY <1>1, <1>4 DEF Ahead, Steps
  <2>2. "ended" \in Steps BY DEF Steps
  <2> QED BY <1>1, <1>2, <1>4, <2>1, <2>2 DEF End
<1>5. ASSUME pc[t] \notin {"ended", "idle"}, Raise(t) \/ DatabaseFails(t)
      PROVE  Moved(t) /\ \A u \in Turns \ {t} : pc[u]' = pc[u]
  BY <1>4, <1>5 DEF Raise, DatabaseFails
<1>6. CASE Start(t) BY <1>2, <1>6 DEF Start, Ahead, Steps
<1>7. CASE LoadSession(t) BY <1>3, <1>5, <1>7 DEF LoadSession, Ahead, Steps
<1>8. CASE EnsureDocumentReady(t)
  BY <1>3, <1>5, <1>8 DEF EnsureDocumentReady, Ahead, Steps
<1>9. CASE Ask(t) BY <1>3, <1>5, <1>9 DEF Ask, Ahead, Steps
<1>10. CASE AskRefresh(t) BY <1>3, <1>5, <1>10 DEF AskRefresh, Ahead, Steps
<1>11. CASE Retrieve(t) BY <1>3, <1>5, <1>11 DEF Retrieve, Ahead, Steps
<1>12. CASE Generate(t) BY <1>3, <1>4, <1>12 DEF Generate, Ahead, Steps
<1>13. CASE Save(t) BY <1>3, <1>5, <1>13 DEF Save, Ahead, Steps
<1>14. CASE SaveRefresh(t) BY <1>3, <1>4, <1>5, <1>14 DEF SaveRefresh, Ahead, Steps
<1>15. CASE Reload(t) BY <1>4, <1>5, <1>15 DEF Reload, Ahead, Steps
<1>16. CASE Cancel(t) BY <1>4, <1>16 DEF Cancel
<1> QED BY <1>6, <1>7, <1>8, <1>9, <1>10, <1>11, <1>12, <1>13, <1>14, <1>15, <1>16
        DEF Continue

(* No turn goes back to a place it has passed, and every step of its own    *)
(* brings it nearer to its end: it has at most ten, however the turns and   *)
(* the failures interleave, so a turn that is not kept waiting ends.        *)
THEOREM TurnsAdvance ==
  Spec => [][\A t \in Turns : /\ Continue(t) => Ahead(pc[t]') < Ahead(pc[t])
                              /\ pc[t]' = pc[t] \/ Ahead(pc[t]') < Ahead(pc[t])]_vars
<1> DEFINE Step == \A t \in Turns : /\ Continue(t) => Ahead(pc[t]') < Ahead(pc[t])
                                    /\ pc[t]' = pc[t] \/ Ahead(pc[t]') < Ahead(pc[t])
<1>1. ASSUME TypeOK, [Next]_vars PROVE Step \/ UNCHANGED vars
  <2>1. ASSUME NEW t \in Turns, Start(t) \/ Continue(t) \/ Cancel(t) PROVE Step
    <3>1. \A u \in Turns : Continue(u) => Moved(u) BY <1>1, TurnAdvances
    <3>2. Moved(t) /\ \A u \in Turns \ {t} : pc[u]' = pc[u] BY <1>1, <2>1, TurnAdvances
    <3> QED BY <3>1, <3>2 DEF Moved
  <2>2. ASSUME UNCHANGED pc PROVE Step
    <3>1. \A u \in Turns : Continue(u) => Moved(u) BY <1>1, TurnAdvances
    <3> QED BY <2>2, <3>1 DEF Moved
  <2>3. OpenChat \/ DocumentStep => UNCHANGED pc BY DEF OpenChat, DocumentStep
  <2> QED BY <1>1, <2>1, <2>2, <2>3 DEF Next
<1>2. TypeOK /\ [Next]_vars => [Step]_vars BY <1>1
<1> QED BY <1>2, TurnTypes, PTL DEF Spec

=============================================================================
