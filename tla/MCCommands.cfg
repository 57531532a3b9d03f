SPECIFICATION Spec
CONSTANTS
  Files <- MCFiles
  MaxReservation = 3
  UintMax = 9
  Stale = {2, 11}
INVARIANTS
  WholeLines
  NumbersAsWritten
  NoLineLost
CHECK_DEADLOCK FALSE
