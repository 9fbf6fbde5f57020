CONSTANTS
  Sessions = {s1}
  Posts = {p1, p2}
  Reload = Reload
  None = None
  Capacity = 1
  MaxSessions = 1
  Environment = {"expire", "retire", "cancel", "late-cancel", "cancel-abort"}
SPECIFICATION FairSpec
PROPERTIES
  PostsAreAnswered
  RetirementCompletes
  FailureIsTold
  ClosedIsReleased
