CONSTANTS
  Turns = {t1}
  Chunks = {c1}
  DocumentChunks = {c1}
  Document = d1
  MaxHistory = 10
  Env = {}
SPECIFICATION FairSpec
CHECK_DEADLOCK FALSE
INVARIANT SessionShowsTurn
