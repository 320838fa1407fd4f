SPECIFICATION Spec
CONSTANTS
  MaxQueries = 2
  MaxFormulas = 1
  MaxHistory = 3
  MaxEdits = 2
  MaxMoves = 4
INVARIANTS
  TypeOK
  NamesUnique
  SupersetAgrees
  StagedIsUrl
  BackGoesBack
PROPERTY
  EffectsSettle
CHECK_DEADLOCK FALSE
