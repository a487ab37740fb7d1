SPECIFICATION FairSpec
CONSTANTS
  r1 = r1
  r2 = r2
  r3 = r3
  r4 = r4
  Requests = {r1, r3, r4}
  Kind <- KindLive
  Sends = {r1}
  Terminator = {r3}
  Reserving = {r1}
  Capacity = 1
  SupCapacity = 2
  Drainable = FALSE
  UserCalls = {}
INVARIANTS
  EndEventsLast
PROPERTIES
  EveryRequestSettles
  TerminateActorReturns
CHECK_DEADLOCK FALSE
