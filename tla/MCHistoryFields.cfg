\* Fewer changes asked for than there are.
SPECIFICATION Spec
CONSTANTS
  Files <- MCFiles
  IdOf <- MCTwoIds
  KindOf <- MCKindOf
  Order <- MCOrder
  Blobs = {b1, b2}
  Doc <- MCDoc
  Fields <- MCFields
  Deep = {}
  None = None
  NoKind = NoKind
  AnyId = AnyId
  Skew = 0
  PerSecond = 1
  Retention = 2
  MaxTime = 3
  MaxCommits = 3
INVARIANT FieldsAreRecent
