\* One run at a time; the API server answers, everything else may fail once.
SPECIFICATION Spec
CONSTANTS
  Objs = {o1, o3}
  Foreign = {f}
  Gvrs <- MCGvrs
  GvrOf <- MCGvrOf
  ExcludedGvrs = {}
  ExcludedObjs = {}
  CelRuled = {o3}
  CelVerdict <- MCCelVerdict
  Specs = {s1}
  Noises = {n1, n2}
  None = None
  Runs = {r1}
  Dirs = {d1, d2}
  NoDir = NoDir
  SubDirIsRoot = FALSE
  FaultKinds = {"pull", "clone", "push", "lostAck", "write", "clean", "status", "term", "crash"}
  MaxFaults = 2
  MaxEdits = 2
  MaxOther = 1
  MaxHistory = 20
INVARIANTS TypeOK CloneInv
PROPERTIES InformationBase PublishesSnapshot SuccessMeansPublished DeletionsAreReal
