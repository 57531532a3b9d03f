SPECIFICATION FairSpec
CONSTANTS
  Workers = {w1, w2, w3}
  Clients = {c1, c2, c3, c4}
  NoClient = NoClient
  NoWorker = NoWorker
  Spurious = TRUE
INVARIANTS
  OneStrandedAtMost
PROPERTIES
  ImplementsSessions
  EveryRequestServed
CHECK_DEADLOCK FALSE
