SPECIFICATION StoresSpec
CONSTANTS
  w1 = w1  w2 = w2  v1 = v1  v2 = v2  file = file  tree = tree  part = part  dir = dir  f1 = f1  f2 = f2  f3 = f3
  k1 = k1  k2 = k2  sf = sf  st = st  sp = sp  sd = sd  r1 = r1  r2 = r2  n1 = n1  n2 = n2  None = None
  Writers = {w1, w2}
  Hashes = {file, tree, part, dir}
  FsFiles = {f1, f2, f3}
  FilesOf <- TreeFiles
  ReadOnly = {dir}
  Repository = {tree, file}
  BuildKeys = {k1, k2, sf, st, sp, sd}
  ReuseKeys = {r1, r2}
  RefNames = {n1, n2}
  SourceKey <- SourceKeys
  Script <- CrashScript
  MaxGenerations = 2
  MaxCrashes = 1
  IoErrors = TRUE
  Workers = {v1, v2}
  FileHashes = {f1}
  Trees <- SmallTrees
  Names = {n1}
  NoName = None
  MaxTreeGenerations = 1
  MaxCalls = 4
SYMMETRY AlikeWorkers
CHECK_DEADLOCK FALSE
INVARIANTS
  StoreConsistent SuccessMeansDone TreesShared
PROPERTIES
  NothingLost ImplementsContentStore
