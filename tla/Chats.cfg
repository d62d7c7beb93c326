CONSTANTS
  Turns = {t1, t2}
  Chunks = {c1, c2}
  DocumentChunks = {c1}
  Document = d1
  MaxHistory = 1
  Env = {"database", "provider", "cancel"}
SPECIFICATION FairSpec
CHECK_DEADLOCK FALSE
INVARIANTS TypeOK AnswerAtomic DeliveredIsStored FailureIsUnsaved PromptSound AskedOfPublished
PROPERTY TurnsEnd
