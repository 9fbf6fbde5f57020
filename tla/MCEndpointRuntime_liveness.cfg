CONSTANTS
  Requests = {r1, r2}
  Supervisors = {s1}
  Procs = {p1}
  Checker = Checker
  Reload = Reload
  Main = Main
  None = None
  Budgets = {1}
  Environment = {"idle", "retire", "shutdown"}
SPECIFICATION FairSpec
PROPERTIES
  RequestsAreAnswered
  RetirementCompletes
  FailureIsRetried
  ShutdownCompletes
