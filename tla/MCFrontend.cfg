\* Two steps from view to view, four within one, pages of two rows, one failed
\* request.
SPECIFICATION Spec
CONSTANTS
  Rows <- MCRows
  Found <- MCFound
  HistoryOf <- MCHistoryOf
  Query = "cel"
  Default <- MCDefault
  Other <- MCOther
  Limit = 2
  None = None
  MaxBrowse = 2
  MaxInspect = 4
  MaxInFlight = 1
  MaxFailures = 1
INVARIANTS
  ListFollowsFilter
  SettledPageIsTrue
  
  SelectionComesBack
  LoadingMeansWaiting
CHECK_DEADLOCK FALSE
