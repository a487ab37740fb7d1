\* A vector in an Option, in a buffer that was just allocated.
SPECIFICATION Spec

CONSTANTS
  Cases <- VecCases
  Addresses = {0}
  RemoteIds = {42}
  PlainIds = {7}

INVARIANT RoundTrip

CHECK_DEADLOCK FALSE
