CONSTANTS
  Documents = {d1, d2}
  Batches = {b1, b2}
  Env = {"disk", "provider", "pinecone", "database", "rollback", "cancel", "crash"}
SPECIFICATION FairSpec
CHECK_DEADLOCK FALSE
INVARIANTS TypeOK ConfirmedComplete ProcessedSearchable NoOrphanVectors StuckHasCause FileRemovedUnlessDisk
PROPERTIES UploadsEnd ImplementsStore
