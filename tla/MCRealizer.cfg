SPECIFICATION FairScenes
CONSTANTS
  src = src  dep = dep  app = app  tool = tool
  hs = hs  hd = hd  hd2 = hd2  ha = ha  ha2 = ha2  ht = ht
  None = None  Failed = Failed  Cancelled = Cancelled
  Keys = {src, dep, app, tool}
  Sources = {src}
  Goals = {app, tool}
  Inputs <- Fork
  Hashes = {hs, hd, hd2, ha, ha2, ht}
  Declared <- SourceHash
  Outputs <- BuildOutputs
  Origins = {src}
  Failing = {dep}
  Hanging = {src}
  BadContent = {hd}
  SecondaryBuilds <- SharedBuilds
  SecondaryReuses <- SharedReuses
  SecondaryContent = {hd, ha}
  StoredBuilds <- NoBuilds
  StoredContent = {}
  Signals = TRUE
CHECK_DEADLOCK FALSE
INVARIANTS
  HitsUsed ReturnsQuiescent
PROPERTIES
  WorkDoneOnce RunEnds
