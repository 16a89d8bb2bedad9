SPECIFICATION Spec
CONSTANTS
  NumSteps = 2
  MaxKills = 1
  MaxStrays = 1
  PlainObject = TRUE
  Calls = {1, 2}
  BigInputs = {1}
  MaxEvents = 1
  MaxDeaths = 1
  Paths <- PathsDef
  Rootfs <- RootfsDef
  MaxChanges = 3
CHECK_DEADLOCK FALSE
INVARIANTS
  OutcomeJustified
  RuntimeCallsExact
  LayerCarriesBuild
PROPERTIES
  IsolationEnds
