SPECIFICATION FairSpec
CONSTANTS
  Workers = {w1, w2}
  Main = Main
  NoThread = NoThread
  EventIds = {1}
  TwoSeats = 1
  Requests <- SeatRequests
  MaxFailures = 1
  SignalAt = {1}
INVARIANTS
  TypeOK
  ReservationsDense
PROPERTIES
  ImplementsService
  CallsReturn
CHECK_DEADLOCK FALSE
