CONSTANTS
  a = a
  b = b
  c = c
  u = u
  Paths = {1, 2}
  Cores = {a, b, c, u}
  Port <- MCPort
  Contents <- MCContents
  Initial <- MCInitial
  Requests = {r1}
  None = None
  Missing = Missing
  MaxWrites = 2
  Environment = {"write", "close-fails", "shutdown", "legacy", "idle"}
SPECIFICATION FairSpec
INVARIANTS
  PortsAreExclusive
  OneSnapshot
  RetiredIsGone
  DrainingEnds
  NothingSurvivesShutdown
PROPERTIES
  ChangesAreApplied
