SPECIFICATION Spec
CONSTANTS
  j1 = j1  j2 = j2  j3 = j3  t1 = t1  NoJob = NoJob
  Jobs = {j1, j2, j3}
  Tokens = {t1}
  TokenOf <- SharedToken
  JobLimit = 1
  QueueCapacity = 2
  Events = {"cancel", "signal", "shutdown", "publish", "workspace"}
SYMMETRY JobSymmetry
CHECK_DEADLOCK FALSE
INVARIANTS
  WorkersBounded ShutdownIsQuiescent LogMatchesOutcome
PROPERTIES
  ImplementsBuildService
