SPECIFICATION FairSpec
CONSTANTS
  Threads = {t1, t2, t3}
  NoThread = none
  EventIds = {e1, e2}
  MaxCalls = 4
  MaxFailures = 1
PROPERTIES
  ImplementsCatalogue
  CallsReturn
CHECK_DEADLOCK FALSE
