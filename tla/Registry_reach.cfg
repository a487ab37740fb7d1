SPECIFICATION FairSpec
CONSTANTS
  a1 = a1
  c1 = c1
  f1 = f1
  f2 = f2
  x = x
  y = y
  Actors = {a1}
  Recipients = {c1}
  Labels = {x, y}
  Forwarders = {f1, f2}
  MaxMessages = 2
  Capacity = 1
INVARIANTS
  Reachable
PROPERTIES
  DeliveredInOrder
  ClosedIsForgotten
  NoTaskLeak
CHECK_DEADLOCK FALSE
