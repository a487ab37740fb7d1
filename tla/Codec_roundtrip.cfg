\* Every type, with both codecs and at every address.
SPECIFICATION Spec

CONSTANTS
  Cases <- AllCases
  Addresses = {0, 1, 2, 3, 4, 5, 6, 7}
  RemoteIds = {42}
  PlainIds = {7}

INVARIANTS LengthExact NeverAnotherValue NamesRegistered

CHECK_DEADLOCK FALSE
