SPECIFICATION Spec
CONSTANTS
  tab = tab
  otherTab = otherTab
  r1 = r1
  r2 = r2
  Clients = {tab, otherTab}
  Requests = {r1, r2}
  ClientOf <- TwoTabs
  Gone = Gone
  Budget <- NoFaults
INVARIANTS
  SessionSurvives
CHECK_DEADLOCK FALSE
