CONSTANTS
  Sessions = {s1}
  Posts = {p1, p2, p3}
  Reload = Reload
  None = None
  Capacity = 1
  MaxSessions = 1
  Environment = {"expire", "retire", "cancel", "cancel-again"}
SYMMETRY Symmetric
SPECIFICATION Spec
INVARIANTS
  OpenUnderLease
  LeasesHaveOwners
  RetiredIsQuiet
  SessionsEndOnce
