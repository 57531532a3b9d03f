SPECIFICATION FairSpec
CONSTANTS
  Threads = {t1, t2}
  NoThread = NoThread
  Coords <- MCCoords
  Seats <- MCSeats
  Requests <- MCRequests
  MaxCalls = 2
INVARIANTS
  TypeOK
  LocksMatch
  LockOrder
  ShowSeesNoHalves
  DumpsComparable
PROPERTIES
  BookedForever
  ImplementsBooking
  CallsReturn
