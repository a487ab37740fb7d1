\* A node with its listeners, sessions and observers.
SPECIFICATION FairSpec

CONSTANTS
  s1 = s1
  s2 = s2
  p = p
  q = q
  l1 = l1
  l2 = l2
  o1 = o1
  o2 = o2
  Sessions = {s1, s2}
  Labels = {p, q}
  Listeners = {l1}
  Observers = {o1}
  Capacity = 1
  ObsCapacity = 1
  MaxCommands = 3

INVARIANTS AcceptorsMatchListeners ObserversAgree NoOrphanSession
PROPERTIES SessionForgotten NodeStops

CHECK_DEADLOCK FALSE
