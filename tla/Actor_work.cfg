SPECIFICATION Spec
CONSTANTS
  r1 = r1
  r2 = r2
  r3 = r3
  r4 = r4
  Requests = {r1, r2, r3}
  Kind <- KindWork
  Sends = {r1}
  Terminator = {r3}
  Reserving = {r1}
  Capacity = 2
  SupCapacity = 1
  Drainable = TRUE
  UserCalls = {"pre_start", "post_start", "handle", "stopping"}
INVARIANTS
  RequestsAccounted
  NoOrphanedRequest
  TerminateIsFinal
  HandlerErrorReported
PROPERTIES
  DrainSparesArrivals
  HooksSeeTheirState
  KeepsContract
CHECK_DEADLOCK FALSE
