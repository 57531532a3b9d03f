SPECIFICATION FairSpec
CONSTANTS
  N = 3
  Files <- MCFiles
INVARIANTS
  TypeOK
  BarrierSeparates
  NothingLeftOut
  RoundUnanimous
PROPERTIES
  StandstillDuringWait
  Terminates
CHECK_DEADLOCK FALSE
