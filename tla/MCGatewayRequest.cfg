CONSTANTS
  Requests = {r1, r2, r3}
  Environment = {"retire", "cancel", "unstarted"}
SYMMETRY Symmetric
SPECIFICATION Spec
INVARIANTS
  LeasesHaveOwners
  UpstreamUnderLease
  RetiredIsQuiet
  FailuresCountedOnce
