SPECIFICATION Spec
CONSTANTS
  c1 = c1
  c2 = c2
  c3 = c3
  Clients = {c1}
  Garbled = {noName}
  NoClient = NoClient
  Workers = {w1}
  MaxCalls <- NoCalls
  Ops = {}
  Capacity = 4
  Sizes = {}
INVARIANTS
  ServerStaysUp
CHECK_DEADLOCK FALSE
