SPECIFICATION FairSpec
CONSTANTS
  j1 = j1  j2 = j2  j3 = j3  t1 = t1  NoJob = NoJob
  Jobs = {j1, j2}
  Tokens = {t1}
  TokenOf <- SharedToken
  JobLimit = 1
  QueueCapacity = 1
  Events = {"dropHandle", "dropExecutor", "shutdown", "abandon", "spawn", "scratch", "build", "panic"}
CHECK_DEADLOCK FALSE
INVARIANTS
  JobsAccounted
PROPERTIES
  EverythingEnds
