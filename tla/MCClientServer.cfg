SPECIFICATION FairSpec
CONSTANTS
  c1 = c1
  c2 = c2
  c3 = c3
  Clients = {c1, c2, c3}
  Garbled = {noName}
  NoClient = NoClient
  Workers = {w1}
  MaxCalls <- CallsInFiles
  Ops = {"create", "show", "list"}
  Capacity = 4
  Sizes = {0, 1, 2, 3}
INVARIANTS
  TypeOK
  RegistrationsWhole
  CallsMatch
PROPERTIES
  SessionsEnd
  StrandedHeard
CHECK_DEADLOCK FALSE
