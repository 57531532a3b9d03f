SPECIFICATION Spec
CONSTANTS
  Workers = {w1, w2}
  Clients = {c1, c2}
  NoClient = NoClient
  NoWorker = NoWorker
  Spurious = FALSE
INVARIANTS
  NeverTakesFromEmpty
CHECK_DEADLOCK FALSE
