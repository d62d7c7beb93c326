CONSTANTS
  Emails = {e1, e2, e3}
  Unfit = {e3}
  Googles = {g1, g2}
  Requests = {1, 2, 3}
  PoolSize = 2
  Env = {"database", "pool", "deactivate"}
  None = None
SPECIFICATION FairSpec
CHECK_DEADLOCK FALSE
INVARIANTS TypeOK SoleGoogle AnswersTrue InactiveRefused
PROPERTIES AccountsKept RequestsAnswered
