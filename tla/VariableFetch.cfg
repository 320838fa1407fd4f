SPECIFICATION FairSpec
CONSTANTS
  q1 = q1
  q2 = q2
  q3 = q3
  d1 = d1
  o1 = o1
  Query = {q1, q2, q3}
  Dynamic = {d1}
  Other = {o1}
  Graphs <- ThreeGraphs
  Edits <- OrderEdits
  MaxMoves = 1
INVARIANTS
  NoLostWakeup
  IdleIsFresh
PROPERTIES
  AllSettle
CHECK_DEADLOCK FALSE
