SPECIFICATION Spec
CONSTANTS
  c1 = c1  c2 = c2  tree = tree  lib = lib  f1 = f1  f2 = f2  f3 = f3  k1 = k1  k2 = k2  r1 = r1  None = None
  Calls = {c1, c2}
  Request <- Requests
  Objects = {tree, lib}
  FilesOf <- Manifests
  Mappers <- MapperNames
  Answer <- Mappings
  Sources <- SourceNames
  Mode <- Modes
  Has <- Contents
  BatchSize = 2
  FaultPoints <- Points
  MaxFaults = 2
  StoredObjects = {}
  StoredFiles = {}
  OtherObjects = {tree}
CHECK_DEADLOCK FALSE
INVARIANTS
  AcquiredWhole ChoiceJustified
PROPERTIES
  CallsReturn
