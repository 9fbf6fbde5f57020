CONSTANTS
  Requests = {r1, r2}
  Supervisors = {s1}
  Procs = {p1, p2}
  Checker = Checker
  Reload = Reload
  Main = Main
  None = None
  Budgets = {0}
  Environment = {"shutdown"}
SYMMETRY Symmetric
SPECIFICATION Spec
PROPERTIES
  UnexpectedExitFails
