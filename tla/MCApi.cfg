\* Every two requests of the list, one after the other, while one of two
\* clusters is pulled and indexed.
SPECIFICATION Spec
CONSTANTS
  Bad = Bad
  NoTime = NoTime
  NoCel = NoCel
  ClusterNames <- MCClusterNames
  WalkOrder <- MCWalkOrder
  Meta <- MCMeta
  Fold <- MCFold
  Rank <- MCRank
  Docs <- MCDocs
  None = None
  IndexedFields = {"app"}
  InitialLog <- MCInitialLog
  Trees <- MCTrees
  Requests <- MCRequests
  OIDC = TRUE
  MaxInt = 63
  MaxCommits = 3
INVARIANTS RestAndMcpAgree PagesFollow OffersAreFound CelAnswersAreTrue
           
CHECK_DEADLOCK FALSE
