CONSTANTS
  Requests = {r1, r2}
  Supervisors = {s1, s2}
  Procs = {p1, p2}
  Checker = Checker
  Reload = Reload
  Main = Main
  None = None
  Budgets = {0, 2}
  Environment = {"idle", "stall", "cancel", "cancel-teardown", "signal-error", "shutdown"}
SYMMETRY Symmetric
SPECIFICATION Spec
INVARIANTS
  NoKillUnderLease
PROPERTIES
  BudgetIsKept
