SPECIFICATION FairSpec
CONSTANTS
  f = f
  bad = bad
  Valid = {f}
  Invalid = {bad}
  Empty = Empty
  None = None
  ListSize = 2
  MaxErrors = 3
  MaxLogs = 3
  MaxMoves = 2
INVARIANTS
  TypeOK
  OneConnection
  ListHolds
  NoDeadEnd
PROPERTIES
  LoadingEnds
CHECK_DEADLOCK FALSE
