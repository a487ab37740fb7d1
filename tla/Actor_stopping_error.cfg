SPECIFICATION Spec
CONSTANTS
  r1 = r1
  r2 = r2
  r3 = r3
  r4 = r4
  Requests = {r1}
  Kind <- KindSingle
  Sends = {}
  Terminator = {}
  Reserving = {}
  Capacity = 1
  SupCapacity = 1
  Drainable = FALSE
  UserCalls = {"handle"}
INVARIANTS
  StoppingErrorKept
CHECK_DEADLOCK FALSE
