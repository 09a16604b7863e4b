\* Author dates that repeat and go back; a retention that cuts the history.
SPECIFICATION Spec
CONSTANTS
  Files <- MCFiles
  IdOf <- MCTwoIds
  KindOf <- MCKindOf
  Order <- MCOrder
  Blobs = {b1, b2}
  Doc <- MCDoc
  Fields <- MCFields
  Deep = {}
  None = None
  NoKind = NoKind
  AnyId = AnyId
  Skew = 1
  PerSecond = 2
  Retention = 1
  MaxTime = 2
  MaxCommits = 3
INVARIANTS TypeOK FindBeforeIsLatest HistoryExplainsSnapshots PagesTileNewestFirst
           
PROPERTY PastIsFixed
