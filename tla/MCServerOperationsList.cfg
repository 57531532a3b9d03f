SPECIFICATION Spec
CONSTANTS
  Workers = {w1, w2}
  Main = Main
  NoThread = NoThread
  EventIds = {1, 2, 3}
  TwoSeats = 1
  Requests <- ListRequests
  MaxFailures = 0
  SignalAt = {0, 1, 2, 3}
INVARIANTS
  IdsUnique
  ListFits
  DumpCoversAll
  SignalsAnswered
