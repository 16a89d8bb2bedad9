SPECIFICATION ScenesSpec
CONSTANTS
  a1 = a1  a2 = a2  p1 = p1  p2 = p2
  k1 = k1  o1 = o1  o2 = o2  o3 = o3  f1 = f1  h1 = h1  h2 = h2  h3 = h3
  MapKeys = {k1}
  NoDeadline = NoDeadline
  Admins = {a1}
  Inventories <- Rebuilt
  Actions = {"append"}
  Retention = 1
  SharedCache = TRUE
  StatusRuns = FALSE
  MaxMasters = 3
  MaxTime = 1
SYMMETRY Symmetry
CHECK_DEADLOCK FALSE
INVARIANTS
  ReadersServed HistoryLinear StatusComplete ReadsHarmless
