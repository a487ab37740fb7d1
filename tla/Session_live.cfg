SPECIFICATION FairSpec
CONSTANTS
  r1 = r1
  r2 = r2
  r3 = r3
  r4 = r4
  Requests = {r1, r2, r3, r4}
  Kind <- KindLive
  Origin <- OriginLive
  Faults <- FaultsLive
  TagSpace = 1
  MailCap = 1
  InboxCap = 1
  WireCap = 1
CONSTRAINT inBounds
INVARIANTS
  EndReleases
PROPERTIES
  SettledOnce
  KeepsContract
  RequestsSettle
CHECK_DEADLOCK FALSE
