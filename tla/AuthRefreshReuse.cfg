CONSTANTS
  Users = {u1}
  Sessions = {s1}
  Pairs = {k1, k2, k3}
  Procs = {p1, p2}
  Ops = {"login", "refresh"}
  Env = {}
  NoToken = NoToken
SYMMETRY Symmetry
SPECIFICATION Spec
CHECK_DEADLOCK FALSE
INVARIANT NoDoubleRotation
