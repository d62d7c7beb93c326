CONSTANTS
  Users = {u1, u2}
  Sessions = {s1, s2, s3}
  Offset = 2
SPECIFICATION Spec
INVARIANT MigrateUpReachesHead
