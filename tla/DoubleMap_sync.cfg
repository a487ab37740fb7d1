SPECIFICATION Spec
CONSTANTS
  Key1 = {a1, a2, a3}
  Key2 = {b1, b2, b3}
  Value = {v1, v2}
  None = None
INVARIANTS
  MapsInSync
PROPERTIES
  ImplementsTwoKeyMap
