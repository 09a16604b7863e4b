\* One cluster, every request, and two failures of any kind.
SPECIFICATION FairSpec
CONSTANTS
  Clusters = {c1}
  Objs = {o1, o2}
  Specs = {s1}
  None = None
  Torn = Torn
  Dirs = {d1, d2, d3}
  NoDir = NoDir
  SubDirIsRoot = FALSE
  Probe = TRUE
  FaultKinds = {"clone", "mkdir", "pull", "build", "git"}
  FaultyClusters = {c1}
  MaxFaults = 2
  MaxCommits = 2
INVARIANTS TypeOK ReadyIsConsistent HistoryIsReadable 
PROPERTIES CatchesUp 
