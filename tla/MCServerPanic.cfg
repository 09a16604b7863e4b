\* Two clusters; the repository of c1 is out of reach for a while.
SPECIFICATION Spec
CONSTANTS
  Clusters = {c1, c2}
  Objs = {o1}
  Specs = {s1}
  None = None
  Torn = Torn
  Dirs = {d1, d2, d3, d4}
  NoDir = NoDir
  SubDirIsRoot = FALSE
  Probe = TRUE
  FaultKinds = {"clone", "pull"}
  FaultyClusters = {c1, c2}
  MaxFaults = 2
  MaxCommits = 2
INVARIANT NoPanic
