CONSTANTS
  Requests = {r1, r2}
  Supervisors = {s1, s2}
  Procs = {p1, p2}
  Checker = Checker
  Reload = Reload
  Main = Main
  None = None
  Budgets = {0, 1, 2}
  Environment = {"idle", "reconfigure", "retire", "shutdown", "cancel"}
SYMMETRY Symmetric
SPECIFICATION Spec
INVARIANTS
  NoOrphan
  OneSupervisor
  FailureIsSupervised
  DeathIsNoticed
  NothingSurvivesShutdown
PROPERTIES
  ImplementsLifecycle
