SPECIFICATION FairSpec
CONSTANTS
  http = http  repo = repo  repo2 = repo2  image = image  path = path
  a1 = a1  a2 = a2  a3 = a3  b1 = b1  ha = ha  hb = hb
  Tasks = {http, repo, repo2, image, path}
  Batches <- TheBatches
  Hosts = {ha, hb}
  HostOf <- TheHosts
  Origin <- TheOrigins
  Answers <- AnyAnswer
  Urls <- TheUrls
  PerHost <- TheLimits
  MaxConnections = 2
  MaxLocalJobs = 1
  Attempts = 3
  UnlinkFails = {repo}
  Signals = TRUE
  Hanging = {a1, a2}
CHECK_DEADLOCK FALSE
INVARIANTS
  MirrorsExhausted PermitsConserved
PROPERTIES
  CancellationClean AcquisitionEnds
