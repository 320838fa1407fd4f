SPECIFICATION FairSpec
CONSTANTS
  tab = tab
  otherTab = otherTab
  r1 = r1
  r2 = r2
  Clients = {tab}
  Requests = {r1, r2}
  ClientOf <- OneTab
  Gone = Gone
  Budget <- SomeFaults
INVARIANTS
  TypeOK
  NeverTwoBehind
PROPERTIES
  RefusedIsResolved
CHECK_DEADLOCK FALSE
