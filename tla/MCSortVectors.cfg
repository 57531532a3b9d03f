SPECIFICATION Spec
CONSTANTS
  Coordinate = {1, 2}
  Inputs <- MCInputs
INVARIANTS
  TypeOK
  Rearranged
  SortedWhenDone
  DuplicateWhenRefused
PROPERTIES
  Terminates
CHECK_DEADLOCK FALSE
