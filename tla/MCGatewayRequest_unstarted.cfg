CONSTANTS
  Requests = {r1}
  Environment = {"unstarted"}
SPECIFICATION Spec
INVARIANTS
  UnstartedReleases
