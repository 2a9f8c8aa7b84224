SPECIFICATION FairSpec
CONSTANTS
  s1 = s1
  v1 = v1
  v2 = v2
  absent = absent
  j1 = j1
  j2 = j2
  nojob = nojob
  main = main
  h1 = h1
  h2 = h2
  nobody = nobody
  Absent = absent
  NoJob = nojob
  Main = main
  Nobody = nobody
  Sources <- OneSource
  Versions <- TwoVersions
  Jobs <- TwoJobs
  Handlers <- OneHandler
  Workers = 1
CHECK_DEADLOCK FALSE
INVARIANTS CollectionsFitThePool OnlySupersededOverlaps
PROPERTIES RemovedSourceFallsSilent StopCompletes PollingGoesOn
