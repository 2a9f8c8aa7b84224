SPECIFICATION Spec
CONSTANTS
  s1 = s1
  v1 = v1
  v2 = v2
  absent = absent
  j1 = j1
  j2 = j2
  h1 = h1
  h2 = h2
  nojob = nojob
  main = main
  nobody = nobody
  Absent = absent
  NoJob = nojob
  Main = main
  Nobody = nobody
  Sources <- OneSource
  Versions <- TwoVersions
  Jobs <- TwoJobs
  Handlers <- TwoHandlers
  Workers = 1
SYMMETRY Alike
CHECK_DEADLOCK FALSE
INVARIANTS NoLoopIsLost RegistryConverged
