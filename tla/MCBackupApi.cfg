\* Everything may fail, the API server included.  o1 is excluded by its name,
\* o2 is skipped by its excludeIf program.
SPECIFICATION FairSpec
CONSTANTS
  Objs = {o1, o2, o3}
  Foreign = {f}
  Gvrs <- MCGvrs
  GvrOf <- MCGvrOf
  ExcludedGvrs = {}
  ExcludedObjs = {o1}
  CelRuled = {o2, o3}
  CelVerdict <- MCCelVerdict
  Specs = {s1}
  Noises = {n1}
  None = None
  Runs = {r1}
  Dirs = {d1, d2}
  NoDir = NoDir
  SubDirIsRoot = FALSE
  FaultKinds = {"discovery", "list", "pull", "clone", "push", "lostAck", "write", "clean", "status", "term", "crash"}
  MaxFaults = 2
  MaxEdits = 1
  MaxOther = 1
  MaxHistory = 20
 
PROPERTIES SharedHistory Converges
