CONSTANTS
  Requests = {r1}
  Supervisors = {s1}
  Procs = {p1}
  Checker = Checker
  Reload = Reload
  Main = Main
  None = None
  Budgets = {0}
  Environment = {"retire", "shutdown"}
SPECIFICATION OpenStreamSpec
PROPERTIES
  RetirementCompletes
