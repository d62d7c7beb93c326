CONSTANTS
  Users = {u1}
  Sessions = {s1, s2}
  Pairs = {k1, k2, k3}
  Procs = {p1}
  Ops = {"login", "call", "list", "logout", "refresh", "startup"}
  Env = {"expire", "evict", "database"}
  NoToken = NoToken
SPECIFICATION FairSpec
CHECK_DEADLOCK FALSE
INVARIANT LogoutSticks
PROPERTIES ImplementsStore RequestsFinish
