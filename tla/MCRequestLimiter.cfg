CONSTANTS
  Requests = {r1, r2, r3}
  Endpoint = Endpoint
  Tool = Tool
  Tools <- ToolSet
  None = None
  Configs <- ConfigSet
  Window = 2
  Horizon = 2
SYMMETRY Symmetric
SPECIFICATION Spec
INVARIANTS
  SlotsAreAccountedFor
  LoadFitsLimits
  EveryWindowFits
PROPERTIES
  RejectionsAreDue
