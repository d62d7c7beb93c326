CONSTANTS
  Users = {u1}
  Sessions = {s1, s2}
  Pairs = {k1, k2}
  Procs = {p1, p2}
  Ops = {"login", "call", "logout"}
  Env = {}
  NoToken = NoToken
SYMMETRY Symmetry
SPECIFICATION Spec
CHECK_DEADLOCK FALSE
INVARIANT LogoutSticks
