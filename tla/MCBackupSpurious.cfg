\* A list that fails once removes existing objects from the backup.
SPECIFICATION Spec
CONSTANTS
  Objs = {o1, o3}
  Foreign = {f}
  Gvrs <- MCGvrs
  GvrOf <- MCGvrOf
  ExcludedGvrs = {}
  ExcludedObjs = {}
  CelRuled = {o3}
  CelVerdict <- MCCelVerdict
  Specs = {s1}
  Noises = {n1}
  None = None
  Runs = {r1}
  Dirs = {d1, d2}
  NoDir = NoDir
  SubDirIsRoot = FALSE
  FaultKinds = {"list"}
  MaxFaults = 1
  MaxEdits = 0
  MaxOther = 0
  MaxHistory = 20
PROPERTIES DeletionsAreReal
