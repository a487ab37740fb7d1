CONSTANTS
  c1 = c1
  c2 = c2
  c3 = c3
  Callers = {c1, c2, c3}
  Capacity = 1
  Plans <- PlansMC
SPECIFICATION FairSpec
INVARIANTS SlotsAccounted HandedBack ReplyOwned
PROPERTIES CallReturns DecodeTaskEnds
CHECK_DEADLOCK FALSE
