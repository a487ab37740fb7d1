SPECIFICATION Spec
CONSTANTS
  r1 = r1
  r2 = r2
  r3 = r3
  r4 = r4
  Requests = {r1, r2, r3, r4}
  Kind <- KindOrder
  Origin <- OriginOrder
  Faults <- FaultsOrder
  TagSpace = 2
  MailCap = 1
  InboxCap = 1
  WireCap = 1
INVARIANTS
  PendingTracked
  ResponseMatches
  DoSendInOrder
SYMMETRY SymmetryOrder
CHECK_DEADLOCK FALSE
