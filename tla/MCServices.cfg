SPECIFICATION ServicesSpec
CONSTANTS
  Threads = {"t1", "t2"}
  NameOf <- NameDef
  Emitted <- EmittedDef
  MaxEvents <- MaxEventsDef
  MaxRaw <- MaxRawDef
  MaxFaults = 1
  Builders = {"b1"}
  Sources = {"s1"}
  Contents = {"k1"}
  Rows = {5, 6, 7}
  Policies <- PoliciesDef
  Jobs = 2
  MaxRetries = 1
  MaxResizes = 1
  u1 = u1
  u2 = u2
  c1 = c1
  c2 = c2
  c3 = c3
  Callers = {c1, c2, c3}
  Urls = {u1, u2}
  Answers <- AnyAnswer
  MaxGates = 3
CHECK_DEADLOCK FALSE
INVARIANTS
  FailureRemembered
  RecordsTrue
  DisplayHonest
