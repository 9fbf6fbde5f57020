CONSTANTS
  Sessions = {s1}
  Posts = {p1}
  Reload = Reload
  None = None
  Capacity = 1
  MaxSessions = 1
  Environment = {"expire", "late-cancel"}
SPECIFICATION Spec
INVARIANTS
  OpenUnderLease
