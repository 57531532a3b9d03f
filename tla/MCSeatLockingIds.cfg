SPECIFICATION Spec
CONSTANTS
  Threads = {t1, t2}
  NoThread = NoThread
  Coords <- MCCoords
  Seats <- MCSeats
  Requests <- MCPair
  MaxCalls = 1
INVARIANTS
  IdsIdentify
